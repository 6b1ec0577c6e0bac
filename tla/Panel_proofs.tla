----------------------------- MODULE Panel_proofs -----------------------------
(***************************************************************************)
(* Lemmas about reports, steps and the panel, for the proofs about the     *)
(* programs that write to one.                                             *)
(***************************************************************************)
EXTENDS GoOps, Panel, SequenceTheorems, TLAPS

-----------------------------------------------------------------------------
(* Steps and reports.                                                      *)

\* The fields a step of each kind has.
LEMMA StepFields ==
  ASSUME NEW s \in Step
  PROVE  /\ s.do = "write"  => s.report \in Command
         /\ s.do = "insert" => s.key \in Key /\ s.img \in Image
         /\ s.do = "drain"  => s.keep \in BOOLEAN
BY DEF Step

\* What both ways of taking a report use.
LEMMA ReportFields ==
  ASSUME NEW r \in Report
  PROVE  /\ r.arg \in 0..255
         /\ r.img \in Image \cup {NoImage}
         /\ r.op \in {"BAT", "DATA"} => r.img \in Image
BY DEF Report, Command

\* Painting a key of a frame gives a frame.
LEMMA PaintType ==
  ASSUME NEW f \in [Key -> Face], NEW b \in 0..255, NEW c \in Face
  PROVE  Paint(f, b, c) \in [Key -> Face]
BY DEF Paint

\* What can be seen on a key.
LEMMA Faces == Image \subseteq Face /\ Blank \in Face /\ Garbled \in Face /\ Factory \in Face
BY DEF Face

\* A report taken as image data leaves the panel well formed.
LEMMA AbsorbType ==
  ASSUME NEW p \in PanelState, NEW r \in Report, p.left > 0
  PROVE  Absorb(p, r) \in PanelState
<1> DEFINE ok   == p.clean /\ r.op = "DATA" /\ r.img = p.img
           sw   == p.swallowed \/ r.op # "DATA"
           next == IF p.left = 1 THEN Paint(p.next, p.at, IF ok THEN p.img ELSE Garbled)
                                 ELSE p.next
<1>1. p.left - 1 \in Nat
  BY DEF PanelState
<1>2. ok \in BOOLEAN /\ sw \in BOOLEAN
  OBVIOUS
<1>3. next \in [Key -> Face]
  BY ReportFields, PaintType, Faces DEF PanelState
<1>4. Absorb(p, r) = [p EXCEPT !.left = p.left - 1, !.clean = ok, !.swallowed = sw, !.next = next]
  BY DEF Absorb
<1> HIDE DEF ok, sw, next
<1> QED
  BY ZenonT(60), <1>1, <1>2, <1>3, <1>4 DEF PanelState

\* A report taken as a command leaves the panel well formed.
LEMMA ObeyType ==
  ASSUME NEW p \in PanelState, NEW r \in Report
  PROVE  Obey(p, r) \in PanelState
<1>1. CASE r.op = "BAT"
  <2> DEFINE next == IF Chunks[r.img] = 0 THEN Paint(p.next, r.arg, r.img) ELSE p.next
  <2>1. Chunks[r.img] \in Nat
    BY ReportFields, <1>1, StepsAssumption
  <2>2. next \in [Key -> Face]
    BY ZenonT(60), ReportFields, PaintType, Faces, <1>1 DEF PanelState
  <2>3. Obey(p, r) = [p EXCEPT !.left = Chunks[r.img], !.at = r.arg, !.img = r.img,
                               !.clean = TRUE, !.next = next]
    BY <1>1 DEF Obey, Open
  <2> HIDE DEF next
  <2> QED
    BY ZenonT(60), ReportFields, <2>1, <2>2, <2>3 DEF PanelState
<1>2. CASE r.op = "CLE"
  <2> DEFINE wiped(frame) == IF r.arg = 255 THEN [k \in Key |-> Blank]
                                            ELSE Paint(frame, r.arg, Blank)
  <2>1. wiped(p.next) \in [Key -> Face] /\ wiped(p.shown) \in [Key -> Face]
    BY ZenonT(60), ReportFields, PaintType, Faces DEF PanelState
  <2>2. Obey(p, r) = [p EXCEPT !.next = wiped(p.next),
                               !.shown = IF ProtocolVersion >= 2 THEN p.shown
                                                                 ELSE wiped(p.shown)]
    BY <1>2 DEF Obey, Wipe
  <2> HIDE DEF wiped
  <2> QED
    BY ZenonT(60), <2>1, <2>2 DEF PanelState
<1>3. CASE r.op = "STP"
  BY <1>3 DEF Obey, PanelState
<1>4. CASE r.op = "DIS"
  BY <1>4 DEF Obey, PanelState
<1>5. CASE r.op = "LIG"
  <2> DEFINE ready == p.greetings > 0
  <2>1. Obey(p, r) = [p EXCEPT !.level = r.arg, !.ready = ready]
    BY <1>5 DEF Obey
  <2>2. ready \in BOOLEAN /\ r.arg \in 0..255
    BY ReportFields
  <2> HIDE DEF ready
  <2> QED
    BY <2>1, <2>2 DEF PanelState
<1>6. CASE r.op \notin {"BAT", "CLE", "STP", "DIS", "LIG"}
  BY <1>6 DEF Obey
<1> QED
  BY <1>1, <1>2, <1>3, <1>4, <1>5, <1>6

\* The panel's state stays well formed whatever report it is sent.
LEMMA DeliverType ==
  ASSUME NEW p \in PanelState, NEW r \in Report
  PROVE  Deliver(p, r) \in PanelState
<1>1. CASE p.left > 0
  BY <1>1, AbsorbType DEF Deliver
<1>2. CASE ~(p.left > 0)
  <2> DEFINE early == Obey(p, r).early \/ (~p.ready /\ ~Expected(p, r))
  <2>1. Deliver(p, r) = [Obey(p, r) EXCEPT !.early = early]
    BY <1>2 DEF Deliver
  <2>2. early \in BOOLEAN
    OBVIOUS
  <2> HIDE DEF early
  <2> QED
    BY ObeyType, <2>1, <2>2 DEF PanelState
<1> QED
  BY <1>1, <1>2

\* Commands are reports.
LEMMA CommandReports ==
  ASSUME NEW op \in Opcode \ {"BAT", "DATA"}, NEW arg \in 0..255
  PROVE  Cmd(op, arg) \in Report
BY DEF Cmd, Report, Command

-----------------------------------------------------------------------------
(* What each report does to a panel that is not in the middle of an image. *)

\* A command: only CLE and STP touch what is on display, only DIS is counted.
LEMMA DeliverCommand ==
  ASSUME NEW p \in PanelState, p.left = 0, NEW r \in Command, NEW q, q = Deliver(p, r)
  PROVE  /\ q.left = 0 /\ q.swallowed = p.swallowed
         /\ r.op = "DIS" => q.greetings = p.greetings + 1
         /\ r.op # "DIS" => q.greetings = p.greetings
         /\ r.op = "LIG" => (q.ready <=> p.greetings > 0)
         /\ r.op # "LIG" => q.ready = p.ready
         /\ q.early => p.early \/ (~p.ready /\ ~Expected(p, r))
         /\ r.op = "STP" => q.shown = p.next
         /\ r.op \notin {"CLE", "STP"} => q.shown = p.shown
         /\ r.op # "CLE" => q.next = p.next
         /\ r.op = "CLE" =>
              \A k \in Key :
                /\ r.arg \in {k + 1, 255} => q.next[k] = Blank
                /\ r.arg \notin {k + 1, 255} => q.next[k] = p.next[k]
                /\ r.arg \in {k + 1, 255} /\ ProtocolVersion < 2 => q.shown[k] = Blank
                /\ r.arg \notin {k + 1, 255} \/ ProtocolVersion >= 2 => q.shown[k] = p.shown[k]
<1> DEFINE early == p.early \/ (~p.ready /\ ~Expected(p, r))
           o == Obey(p, r)
<1>1. r.op \in Opcode \ {"BAT", "DATA"}
  BY DEF Command
<1>2. /\ o \in PanelState
      /\ o.left = 0 /\ o.swallowed = p.swallowed /\ o.early = p.early
      /\ o.greetings = IF r.op = "DIS" THEN p.greetings + 1 ELSE p.greetings
      /\ o.ready = IF r.op = "LIG" THEN p.greetings > 0 ELSE p.ready
      /\ o.next = IF r.op = "CLE" THEN [k \in Key |-> IF r.arg \in {k + 1, 255} THEN Blank ELSE p.next[k]]
                                  ELSE p.next
      /\ o.shown = IF r.op = "STP" THEN p.next
                   ELSE IF r.op = "CLE" /\ ~(ProtocolVersion >= 2)
                   THEN [k \in Key |-> IF r.arg \in {k + 1, 255} THEN Blank ELSE p.shown[k]]
                   ELSE p.shown
  <2>0. o \in PanelState
    BY ObeyType DEF Report
  <2>1. CASE r.op = "CLE"
    <3> DEFINE wiped(frame) == IF r.arg = 255 THEN [k \in Key |-> Blank]
                                              ELSE Paint(frame, r.arg, Blank)
    <3>1. o = [p EXCEPT !.next = wiped(p.next),
                        !.shown = IF ProtocolVersion >= 2 THEN p.shown ELSE wiped(p.shown)]
      BY <2>1 DEF Obey, Wipe
    <3>2. ASSUME NEW frame \in [Key -> Face]
          PROVE  wiped(frame) = [k \in Key |-> IF r.arg \in {k + 1, 255} THEN Blank ELSE frame[k]]
      BY DEF Paint
    <3> HIDE DEF wiped, o
    <3>3. wiped(p.next) = [k \in Key |-> IF r.arg \in {k + 1, 255} THEN Blank ELSE p.next[k]]
      BY <3>2 DEF PanelState
    <3>4. wiped(p.shown) = [k \in Key |-> IF r.arg \in {k + 1, 255} THEN Blank ELSE p.shown[k]]
      BY <3>2 DEF PanelState
    <3>5. /\ o.left = 0 /\ o.swallowed = p.swallowed /\ o.early = p.early
          /\ o.greetings = p.greetings /\ o.ready = p.ready
          /\ o.next = wiped(p.next)
          /\ o.shown = IF ProtocolVersion >= 2 THEN p.shown ELSE wiped(p.shown)
      BY <3>1 DEF PanelState
    <3> QED
      BY <2>0, <2>1, <3>3, <3>4, <3>5
  <2>2. CASE r.op = "STP"
    BY <2>0, <2>2 DEF Obey, PanelState
  <2>3. CASE r.op = "DIS"
    BY <2>0, <2>3 DEF Obey, PanelState
  <2>4. CASE r.op = "LIG"
    <3> DEFINE ready == p.greetings > 0
    <3>1. o = [p EXCEPT !.level = r.arg, !.ready = ready]
      BY <2>4 DEF Obey
    <3> HIDE DEF ready, o
    <3>2. /\ o.left = 0 /\ o.swallowed = p.swallowed /\ o.early = p.early
          /\ o.greetings = p.greetings /\ o.ready = ready
          /\ o.next = p.next /\ o.shown = p.shown
      BY <3>1 DEF PanelState
    <3> QED
      BY <2>0, <2>4, <3>2 DEF ready
  <2>5. CASE r.op \notin {"CLE", "STP", "DIS", "LIG"}
    <3>1. o = p
      BY <1>1, <2>5 DEF Obey
    <3> QED
      BY <2>0, <2>5, <3>1
  <2> QED
    BY <2>1, <2>2, <2>3, <2>4, <2>5
<1>3. q = [o EXCEPT !.early = early]
  BY <1>2 DEF Deliver
<1> HIDE DEF o, early
<1>4. /\ q.left = o.left /\ q.swallowed = o.swallowed /\ q.greetings = o.greetings
      /\ q.ready = o.ready /\ q.next = o.next /\ q.shown = o.shown /\ q.early = early
  BY <1>2, <1>3 DEF PanelState
<1>5. ProtocolVersion < 2 <=> ~(ProtocolVersion >= 2)
  BY StepsAssumption
<1>6. ASSUME r.op = "CLE", NEW k \in Key
      PROVE  /\ r.arg \in {k + 1, 255} => q.next[k] = Blank
             /\ r.arg \notin {k + 1, 255} => q.next[k] = p.next[k]
             /\ r.arg \in {k + 1, 255} /\ ProtocolVersion < 2 => q.shown[k] = Blank
             /\ r.arg \notin {k + 1, 255} \/ ProtocolVersion >= 2 => q.shown[k] = p.shown[k]
  <2>1. q.next[k] = IF r.arg \in {k + 1, 255} THEN Blank ELSE p.next[k]
    BY <1>2, <1>4, <1>6
  <2>2. q.shown[k] = IF ~(ProtocolVersion >= 2) /\ r.arg \in {k + 1, 255} THEN Blank ELSE p.shown[k]
    BY <1>2, <1>4, <1>6
  <2> QED
    BY <1>5, <2>1, <2>2
<1>7. r.op = "LIG" => (q.ready <=> p.greetings > 0)
  BY <1>2, <1>4
<1>8. q.early => p.early \/ (~p.ready /\ ~Expected(p, r))
  BY <1>4 DEF early
<1>9. /\ q.left = 0 /\ q.swallowed = p.swallowed
      /\ r.op = "DIS" => q.greetings = p.greetings + 1
      /\ r.op # "DIS" => q.greetings = p.greetings
      /\ r.op # "LIG" => q.ready = p.ready
      /\ r.op = "STP" => q.shown = p.next
      /\ r.op \notin {"CLE", "STP"} => q.shown = p.shown
      /\ r.op # "CLE" => q.next = p.next
  BY <1>2, <1>4
<1> QED
  BY <1>6, <1>7, <1>8, <1>9

\* The header of an image: that many reports are data from now on.
LEMMA DeliverBat ==
  ASSUME NEW p \in PanelState, p.left = 0, NEW k \in Key, NEW i \in Image,
         NEW q, q = Deliver(p, Bat(k, i))
  PROVE  /\ q.left = Chunks[i] /\ q.at = k + 1 /\ q.img = i /\ q.clean
         /\ q.swallowed = p.swallowed /\ q.greetings = p.greetings /\ q.ready = p.ready
         /\ q.early => p.early \/ ~p.ready
         /\ q.next = IF Chunks[i] = 0 THEN Paint(p.next, k + 1, i) ELSE p.next
         /\ q.shown = p.shown
<1> DEFINE early == p.early \/ ~p.ready
           next  == IF Chunks[i] = 0 THEN Paint(p.next, k + 1, i) ELSE p.next
           r == Bat(k, i)
<1>1. r.op = "BAT" /\ r.arg = k + 1 /\ r.img = i /\ r \in Report
  <2>1. k \in 0..253 /\ (k + 1) % 256 = k + 1
    BY StepsAssumption
  <2> QED
    BY <2>1 DEF Bat, Report
<1> HIDE DEF r
<1>2. Obey(p, r) = [p EXCEPT !.left = Chunks[i], !.at = k + 1, !.img = i, !.clean = TRUE, !.next = next]
  BY <1>1 DEF Obey, Open
<1>3. Deliver(p, r) = [Obey(p, r) EXCEPT !.early = Obey(p, r).early \/ (~p.ready /\ ~Expected(p, r))]
  BY DEF Deliver
<1> HIDE DEF next
<1>4. Obey(p, r).early = p.early
  BY <1>2 DEF PanelState
<1>5. Deliver(p, r) = [Obey(p, r) EXCEPT !.early = early]
  BY <1>1, <1>3, <1>4 DEF Expected
<1> HIDE DEF early
<1>6. q = [p EXCEPT !.left = Chunks[i], !.at = k + 1, !.img = i, !.clean = TRUE, !.next = next,
                    !.early = early]
  BY <1>2, <1>5 DEF r, PanelState
<1>7. /\ q.left = Chunks[i] /\ q.at = k + 1 /\ q.img = i /\ q.clean = TRUE
      /\ q.swallowed = p.swallowed /\ q.greetings = p.greetings /\ q.ready = p.ready
      /\ q.early = early /\ q.next = next /\ q.shown = p.shown
  BY <1>6 DEF PanelState
<1> QED
  BY <1>7 DEF early, next

\* A chunk of the image that was announced: the last one shows in the next frame.
LEMMA DeliverData ==
  ASSUME NEW p \in PanelState, p.left > 0, p.clean, p.img \in Image, NEW q, q = Deliver(p, Data(p.img))
  PROVE  /\ q.left = p.left - 1 /\ q.at = p.at /\ q.img = p.img /\ q.clean
         /\ q.swallowed = p.swallowed /\ q.greetings = p.greetings /\ q.ready = p.ready
         /\ q.early = p.early
         /\ q.next = IF p.left = 1 THEN Paint(p.next, p.at, p.img) ELSE p.next
         /\ q.shown = p.shown
<1> DEFINE next == IF p.left = 1 THEN Paint(p.next, p.at, p.img) ELSE p.next
<1>1. Data(p.img).op = "DATA" /\ Data(p.img).img = p.img
  BY DEF Data
<1>2. p.clean = TRUE /\ p.swallowed \in BOOLEAN
  BY DEF PanelState
<1>3. Deliver(p, Data(p.img)) = [p EXCEPT !.left = p.left - 1, !.clean = TRUE, !.swallowed = p.swallowed, !.next = next]
  BY <1>1, <1>2 DEF Deliver, Absorb
<1> HIDE DEF next
<1>4. /\ q.left = p.left - 1 /\ q.at = p.at /\ q.img = p.img /\ q.clean
      /\ q.swallowed = p.swallowed /\ q.greetings = p.greetings /\ q.ready = p.ready
      /\ q.early = p.early /\ q.next = next /\ q.shown = p.shown
  BY <1>3 DEF PanelState
<1> QED
  BY <1>4 DEF next

\* Only the handshake counts as one, and not when it is taken for image data.
LEMMA DeliverGreetings ==
  ASSUME NEW p \in PanelState, NEW r \in Report
  PROVE  \/ Deliver(p, r).greetings = p.greetings
         \/ r.op = "DIS" /\ Deliver(p, r).greetings = p.greetings + 1
<1>1. CASE p.left > 0
  <2> DEFINE ok   == p.clean /\ r.op = "DATA" /\ r.img = p.img
             sw   == p.swallowed \/ r.op # "DATA"
             next == IF p.left = 1 THEN Paint(p.next, p.at, IF ok THEN p.img ELSE Garbled)
                                   ELSE p.next
  <2>1. Deliver(p, r) = [p EXCEPT !.left = p.left - 1, !.clean = ok, !.swallowed = sw, !.next = next]
    BY <1>1 DEF Deliver, Absorb
  <2> HIDE DEF ok, sw, next
  <2> QED
    BY <2>1 DEF PanelState
<1>2. CASE ~(p.left > 0) /\ r \in Command
  <2>1. p.left = 0
    BY <1>2 DEF PanelState
  <2> QED
    BY <1>2, <2>1, DeliverCommand
<1>3. CASE ~(p.left > 0) /\ r \notin Command
  <2> DEFINE next  == IF Chunks[r.img] = 0 THEN Paint(p.next, r.arg, r.img) ELSE p.next
             early == Obey(p, r).early \/ (~p.ready /\ ~Expected(p, r))
  <2>1. r.op \in {"BAT", "DATA"}
    BY <1>3 DEF Report
  <2>2. Obey(p, r).greetings = p.greetings /\ Obey(p, r) \in PanelState
    <3>1. CASE r.op = "BAT"
      <4>1. Obey(p, r) = [p EXCEPT !.left = Chunks[r.img], !.at = r.arg, !.img = r.img,
                                   !.clean = TRUE, !.next = next]
        BY <3>1 DEF Obey, Open
      <4> HIDE DEF next
      <4> QED
        BY ZenonT(60), <4>1, ObeyType DEF PanelState
    <3>2. CASE r.op = "DATA"
      BY <3>2 DEF Obey
    <3> QED
      BY <2>1, <3>1, <3>2
  <2>3. Deliver(p, r) = [Obey(p, r) EXCEPT !.early = early]
    BY <1>3 DEF Deliver
  <2> HIDE DEF early
  <2> QED
    BY <2>2, <2>3 DEF PanelState
<1> QED
  BY <1>1, <1>2, <1>3

-----------------------------------------------------------------------------
(* Calls, as sequences of steps.                                           *)

\* The steps of calls and what they are.
LEMMA StepKinds ==
  /\ INITIALIZE \in Step /\ INITIALIZE.do = "initialize"
  /\ EMPTY \in Step /\ EMPTY.do = "empty"
  /\ Remove(AllKeys) \in Step /\ Remove(AllKeys).do = "remove"
  /\ \A r \in Command : Write(r) \in Step /\ Write(r).do = "write" /\ Write(r).report = r
BY DEF INITIALIZE, EMPTY, Remove, Write, Step, AllKeys

\* The reports of the handle that are commands.
LEMMA Reports ==
  /\ \A a \in 0..255 : Cmd("LIG", a) \in Command
  /\ Cmd("DIS", 0) \in Command /\ Cmd("CLEDC", 0) \in Command /\ Cmd("HAN", 0) \in Command
  /\ STP \in Command /\ STP.op = "STP"
  /\ Cle(AllKeys) \in Command /\ Cle(AllKeys).op = "CLE" /\ Cle(AllKeys).arg = 255
BY DEF Cmd, STP, Cle, Command, Opcode, AllKeys

\* A sequence is its first step, and the rest.
LEMMA FirstStep ==
  ASSUME NEW u \in Seq(Step), u # <<>>
  PROVE  <<Head(u)>> \o Tail(u) = u
<1>1. <<Head(u)>> \in Seq(Step) /\ Tail(u) \in Seq(Step)
  OBVIOUS
<1>2. Len(<<Head(u)>>) = 1 /\ Len(Tail(u)) = Len(u) - 1 /\ Len(u) \in Nat
  OBVIOUS
<1>3. /\ <<Head(u)>> \o Tail(u) \in Seq(Step)
      /\ Len(<<Head(u)>> \o Tail(u)) = 1 + Len(Tail(u))
      /\ \A i \in 1..1 + Len(Tail(u)) : (<<Head(u)>> \o Tail(u))[i] =
            IF i <= 1 THEN <<Head(u)>>[i] ELSE Tail(u)[i - 1]
  BY <1>1, <1>2, ConcatProperties
<1>4. ASSUME NEW i \in 1..Len(u) PROVE (<<Head(u)>> \o Tail(u))[i] = u[i]
  <2>1. CASE i = 1
    BY <1>2, <1>3, <2>1
  <2>2. CASE i # 1
    <3>1. i - 1 \in 1..Len(Tail(u)) /\ Tail(u)[i - 1] = u[i]
      BY <1>2, <2>2
    <3> QED
      BY <1>2, <1>3, <2>2, <3>1
  <2> QED
    BY <2>1, <2>2
<1> QED
  BY <1>2, <1>3, <1>4, SeqEqual

\* A step behind a sequence.
LEMMA LastStep ==
  ASSUME NEW s \in Seq(Step), NEW d \in Step, NEW u \in Seq(Step), Len(u) = Len(s) + 1,
         \A i \in 1..Len(s) : u[i] = s[i], u[Len(u)] = d
  PROVE  s \o <<d>> = u
<1>1. <<d>> \in Seq(Step) /\ Len(<<d>>) = 1 /\ <<d>>[1] = d
  OBVIOUS
<1>2. /\ s \o <<d>> \in Seq(Step) /\ Len(s \o <<d>>) = Len(s) + 1
      /\ \A i \in 1..Len(s) + 1 : (s \o <<d>>)[i] = IF i <= Len(s) THEN s[i] ELSE <<d>>[i - Len(s)]
  BY <1>1, ConcatProperties
<1>3. ASSUME NEW i \in 1..Len(u) PROVE (s \o <<d>>)[i] = u[i]
  <2>1. CASE i <= Len(s)
    BY <1>2, <2>1
  <2>2. CASE ~(i <= Len(s))
    <3>1. i = Len(s) + 1 /\ i - Len(s) = 1
      BY <2>2
    <3> QED
      BY <1>1, <1>2, <2>2, <3>1
  <2> QED
    BY <2>1, <2>2
<1> QED
  BY <1>2, <1>3, SeqEqual

\* The sequences that calls are put together from.
LEMMA OneAndOne ==
  ASSUME NEW i \in Step, NEW a \in Step
  PROVE  <<i>> \o <<a>> = <<i, a>>
<1> DEFINE u == <<i, a>>
<1>1. u \in Seq(Step) /\ u # <<>> /\ Head(u) = i /\ Tail(u) = <<a>>
  OBVIOUS
<1> HIDE DEF u
<1>2. u = <<i, a>>
  BY DEF u
<1> QED
  BY <1>1, <1>2, FirstStep

\* Short sequences of steps, put together.
LEMMA OneAndTwo ==
  ASSUME NEW i \in Step, NEW a \in Step, NEW b \in Step
  PROVE  <<i>> \o <<a, b>> = <<i, a, b>>
<1> DEFINE u == <<i, a, b>>
<1>1. u \in Seq(Step) /\ u # <<>> /\ Head(u) = i /\ Tail(u) = <<a, b>>
  OBVIOUS
<1> HIDE DEF u
<1>2. u = <<i, a, b>>
  BY DEF u
<1> QED
  BY <1>1, <1>2, FirstStep

\* The same, the other way round.
LEMMA TwoAndOne ==
  ASSUME NEW a \in Step, NEW b \in Step, NEW c \in Step
  PROVE  <<a, b>> \o <<c>> = <<a, b, c>>
<1> DEFINE s == <<a, b>>
           u == <<a, b, c>>
<1>1. s \in Seq(Step) /\ u \in Seq(Step) /\ Len(u) = Len(s) + 1 /\ u[Len(u)] = c
  OBVIOUS
<1>2. \A n \in 1..Len(s) : u[n] = s[n]
  OBVIOUS
<1> HIDE DEF s, u
<1>3. s \o <<c>> = u
  BY <1>1, <1>2, LastStep
<1> QED
  BY <1>3 DEF s, u

\* A call and its last step.
LEMMA FourAndOne ==
  ASSUME NEW i \in Step, NEW j \in Step, NEW a \in Step, NEW b \in Step, NEW c \in Step
  PROVE  <<i, j, a, b>> \o <<c>> = <<i, j, a, b, c>>
<1> DEFINE s == <<i, j, a, b>>
           u == <<i, j, a, b, c>>
<1>1. s \in Seq(Step) /\ u \in Seq(Step) /\ Len(u) = Len(s) + 1 /\ u[Len(u)] = c
  OBVIOUS
<1>2. \A n \in 1..Len(s) : u[n] = s[n]
  OBVIOUS
<1> HIDE DEF s, u
<1>3. s \o <<c>> = u
  BY <1>1, <1>2, LastStep
<1> QED
  BY <1>3 DEF s, u

\* A longer call and its last step.
LEMMA FiveAndOne ==
  ASSUME NEW i \in Step, NEW j \in Step, NEW a \in Step, NEW b \in Step, NEW c \in Step, NEW d \in Step
  PROVE  <<i, j, a, b, c>> \o <<d>> = <<i, j, a, b, c, d>>
<1> DEFINE s == <<i, j, a, b, c>>
           u == <<i, j, a, b, c, d>>
<1>1. s \in Seq(Step) /\ u \in Seq(Step) /\ Len(u) = Len(s) + 1 /\ u[Len(u)] = d
  OBVIOUS
<1>2. \A n \in 1..Len(s) : u[n] = s[n]
  OBVIOUS
<1> HIDE DEF s, u
<1>3. s \o <<d>> = u
  BY <1>1, <1>2, LastStep
<1> QED
  BY <1>3 DEF s, u

\* Clearing all keys, step by step.
LEMMA ClearingSteps ==
  ClearAllButtonImages =
    IF ProtocolVersion >= 2
    THEN <<INITIALIZE, INITIALIZE, Write(Cle(AllKeys)), Remove(AllKeys), Write(STP), EMPTY>>
    ELSE <<INITIALIZE, INITIALIZE, Write(Cle(AllKeys)), Remove(AllKeys), EMPTY>>
<1>1. /\ INITIALIZE \in Step /\ EMPTY \in Step /\ Remove(AllKeys) \in Step
      /\ Write(STP) \in Step /\ Write(Cle(AllKeys)) \in Step
  BY StepKinds, Reports
<1> DEFINE i == INITIALIZE  w == Write(Cle(AllKeys))  r == Remove(AllKeys)  p == Write(STP)
           e == EMPTY
<1>2. ClearAllButtonImages =
        (<<i>> \o (<<i>> \o <<w, r>>)) \o (IF ProtocolVersion >= 2 THEN <<p>> ELSE <<>>) \o <<e>>
  BY DEF ClearAllButtonImages, ClearButtonImage, Initialize
<1>3. i \in Step /\ w \in Step /\ r \in Step /\ p \in Step /\ e \in Step
  BY <1>1
<1> HIDE DEF i, w, r, p, e
<1>4. <<i>> \o <<w, r>> = <<i, w, r>>
  BY <1>3, OneAndTwo
<1>5. <<i>> \o <<i, w, r>> = <<i, i, w, r>>
  <2> DEFINE u == <<i, i, w, r>>
  <2>1. u \in Seq(Step) /\ u # <<>> /\ Head(u) = i /\ Tail(u) = <<i, w, r>>
    BY <1>3
  <2> HIDE DEF u
  <2>2. <<i>> \o Tail(u) = u
    BY <2>1, FirstStep
  <2> QED
    BY <2>1, <2>2 DEF u
<1>6. ClearAllButtonImages =
        <<i, i, w, r>> \o (IF ProtocolVersion >= 2 THEN <<p>> ELSE <<>>) \o <<e>>
  BY <1>2, <1>4, <1>5
<1>7. ClearAllButtonImages =
         IF ProtocolVersion >= 2 THEN <<i, i, w, r, p, e>> ELSE <<i, i, w, r, e>>
  <2>1. CASE ProtocolVersion >= 2
    <3>1. <<i, i, w, r>> \o <<p>> = <<i, i, w, r, p>>
      BY <1>3, FourAndOne
    <3>2. <<i, i, w, r, p>> \o <<e>> = <<i, i, w, r, p, e>>
      BY <1>3, FiveAndOne
    <3> QED
      BY <1>6, <2>1, <3>1, <3>2
  <2>2. CASE ~(ProtocolVersion >= 2)
    <3>1. <<i, i, w, r>> \o <<>> = <<i, i, w, r>>
      <4>1. <<i, i, w, r>> \in Seq(Step)
        BY <1>3
      <4> QED
        BY <4>1, ConcatEmptySeq
    <3>2. <<i, i, w, r>> \o <<e>> = <<i, i, w, r, e>>
      BY <1>3, FourAndOne
    <3> QED
      BY <1>6, <2>2, <3>1, <3>2
  <2> QED
    BY <2>1, <2>2
<1> QED
  BY <1>7 DEF i, w, r, p, e
=============================================================================
