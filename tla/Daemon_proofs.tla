----------------------------- MODULE Daemon_proofs -----------------------------
(***************************************************************************)
(* Theorems about Daemon, for every set of buttons, capacity of the        *)
(* channel, protocol version, number of reports and of faults.             *)
(***************************************************************************)
EXTENDS Daemon, Panel_proofs, FiniteSetTheorems

-----------------------------------------------------------------------------
(* The invariant.                                                          *)

\* Only main's calls of the handle have steps.
CallRuns == todo # <<>> => stage \in DOMAIN Call

\* The reader keeps the last report's button, and has nothing to forward while
\* it reads or sleeps.  It is not there before main runs its loop.
ReaderShape ==
  /\ states = {k \in Key : k = reported}
  /\ reader # "forwarding" => batch = {}
  /\ stage \in DOMAIN Open3 \cup {"lighting", "clearing"} => reader = "none"

\* What is left of a call, from its beginning to its end.
LightingRest ==
  { <<INITIALIZE, Write(Cmd("LIG", 50))>>,
    <<Write(Cmd("DIS", 0)), Write(Cmd("LIG", 0)), Write(Cmd("LIG", 50))>>,
    <<Write(Cmd("LIG", 0)), Write(Cmd("LIG", 50))>>,
    <<Write(Cmd("LIG", 50))>>,
    <<>> }

\* The end of ClearAllButtonImages, from the step behind its CLE on.
Cleared ==
  IF ProtocolVersion >= 2
  THEN {<<Remove(AllKeys), Write(STP), EMPTY>>, <<Write(STP), EMPTY>>}
  ELSE {<<Remove(AllKeys), EMPTY>>}

Committed == {<<EMPTY>>, <<>>}

\* Up to its CLE: it shakes hands twice if need be.
Clearing ==
  LET W == Write(Cle(AllKeys))  R == Remove(AllKeys)  S == Write(STP)
  IN  IF ProtocolVersion >= 2
      THEN { <<INITIALIZE, INITIALIZE, W, R, S, EMPTY>>, <<INITIALIZE, W, R, S, EMPTY>>,
             <<W, R, S, EMPTY>> }
      ELSE { <<INITIALIZE, INITIALIZE, W, R, EMPTY>>, <<INITIALIZE, W, R, EMPTY>>,
             <<W, R, EMPTY>> }

ClearingRest == Clearing \cup Cleared \cup Committed

StoppingRest ==
  { <<INITIALIZE, Write(Cmd("CLEDC", 0)), Write(Cmd("HAN", 0))>>,
    <<Write(Cmd("CLEDC", 0)), Write(Cmd("HAN", 0))>>,
    <<Write(Cmd("HAN", 0))>>,
    <<>> }

BlankFrame(frame) == \A k \in Key : frame[k] = Blank

\* Where main is in its calls, and what the panel has taken of them.  No image
\* is ever sent, so no command can be mistaken for image data; and only the
\* first call shakes hands, so the brightness 0 of that comes before the 50.
CallShape ==
  /\ panel.left = 0
  /\ stage \in DOMAIN Open3 => ~initialized /\ failedIn = {}
  /\ stage = "lighting" =>
       /\ todo \in LightingRest
       /\ todo = SetBrightness(50) <=> ~initialized
       /\ "clearing" \notin failedIn
  /\ stage \in {"clearing", "running", "stopping"} => initialized
  /\ stage = "clearing" =>
       /\ todo \in ClearingRest
       /\ "clearing" \notin failedIn =>
            /\ todo \in Cleared => BlankFrame(panel.next)
            /\ todo \in Cleared /\ ProtocolVersion < 2 => BlankFrame(panel.shown)
            /\ todo \in Committed => BlankFrame(panel.shown)
  /\ stage = "stopping" => todo \in StoppingRest

\* The panel has been lit once lighting is over, unless that failed.
Lit ==
  (stage = "lighting" /\ todo = <<>>) \/ stage \in {"clearing", "running"} =>
    "lighting" \in failedIn \/ panel.level = 50

\* The panel has been sent to sleep once stopping is over, unless that failed.
Asleep ==
  (\/ stage = "stopping" /\ todo = <<>>
   \/ stage \in {"closing", "exiting"}
   \/ stage = "over" /\ reader # "none") =>
    "stopping" \in failedIn \/ last = Cmd("HAN", 0)

BlankScreen == stage = "running" => "clearing" \in failedIn \/ BlankFrame(panel.shown)

TInv == TypeOK /\ CallRuns

Calls == CallShape /\ Lit /\ Asleep /\ BlankScreen
Inv == TInv /\ ReaderShape /\ Calls

-----------------------------------------------------------------------------
(* The calls of main, step by step.                                        *)

\* What follows each stage of the main goroutine.
LEMMA Stages ==
  /\ DOMAIN Call = {"lighting", "clearing", "stopping"}
  /\ DOMAIN After = {"lighting", "clearing", "stopping"}
  /\ DOMAIN Open3 = {"init", "open", "connect"}
  /\ Open3["init"] = "open" /\ Open3["open"] = "connect" /\ Open3["connect"] = "lighting"
  /\ After["lighting"] = "clearing" /\ After["clearing"] = "running"
  /\ After["stopping"] = "closing"
BY DEF Call, After, Open3

\* The three calls of main, as the steps the Go handle makes of them.
LEMMA Scripts ==
  /\ Call["lighting"] = <<INITIALIZE, Write(Cmd("LIG", 50))>>
  /\ Call["lighting"] = SetBrightness(50)
  /\ Call["clearing"] =
       IF ProtocolVersion >= 2
       THEN <<INITIALIZE, INITIALIZE, Write(Cle(AllKeys)), Remove(AllKeys), Write(STP), EMPTY>>
       ELSE <<INITIALIZE, INITIALIZE, Write(Cle(AllKeys)), Remove(AllKeys), EMPTY>>
  /\ Call["stopping"] = <<INITIALIZE, Write(Cmd("CLEDC", 0)), Write(Cmd("HAN", 0))>>
<1>1. /\ INITIALIZE \in Step /\ EMPTY \in Step /\ Remove(AllKeys) \in Step
      /\ Write(STP) \in Step /\ Write(Cle(AllKeys)) \in Step /\ Write(Cmd("LIG", 50)) \in Step
      /\ Write(Cmd("CLEDC", 0)) \in Step /\ Write(Cmd("HAN", 0)) \in Step
  BY StepKinds, Reports
<1>2. Call["lighting"] = SetBrightness(50) /\ Call["clearing"] = ClearAllButtonImages
      /\ Call["stopping"] = Shutdown
  BY DEF Call
<1>3. SetBrightness(50) = <<INITIALIZE, Write(Cmd("LIG", 50))>>
  <2>1. SetBrightness(50) = <<INITIALIZE>> \o <<Write(Cmd("LIG", 50))>>
    BY DEF SetBrightness, Initialize, Clamp100
  <2> QED
    BY <1>1, <2>1, OneAndOne
<1>4. Shutdown = <<INITIALIZE, Write(Cmd("CLEDC", 0)), Write(Cmd("HAN", 0))>>
  <2>1. Shutdown = <<INITIALIZE>> \o <<Write(Cmd("CLEDC", 0)), Write(Cmd("HAN", 0))>>
    BY DEF Shutdown, Initialize
  <2> QED
    BY <1>1, <2>1, OneAndTwo
<1> QED
  BY <1>2, <1>3, <1>4, ClearingSteps

\* What main asks the handle for are steps of the handle.
LEMMA CallsAreSteps == \A s \in DOMAIN Call : Call[s] \in Seq(Step)
<1>1. ASSUME NEW a \in Step, NEW b \in Step, NEW c \in Step, NEW d \in Step, NEW e \in Step,
             NEW f \in Step
      PROVE  /\ <<a, b>> \in Seq(Step) /\ <<a, b, c>> \in Seq(Step)
             /\ <<a, b, c, d, e>> \in Seq(Step) /\ <<a, b, c, d, e, f>> \in Seq(Step)
  OBVIOUS
<1>2. /\ INITIALIZE \in Step /\ EMPTY \in Step /\ Remove(AllKeys) \in Step
      /\ Write(STP) \in Step /\ Write(Cle(AllKeys)) \in Step /\ Write(Cmd("LIG", 50)) \in Step
      /\ Write(Cmd("CLEDC", 0)) \in Step /\ Write(Cmd("HAN", 0)) \in Step
  BY StepKinds, Reports
<1>3. Call["lighting"] \in Seq(Step) /\ Call["stopping"] \in Seq(Step)
  BY <1>1, <1>2, Scripts
<1>4. Call["clearing"] \in Seq(Step)
  BY <1>1, <1>2, Scripts
<1> QED
  BY <1>3, <1>4, Stages

\* So is the handshake.
LEMMA HandshakeSteps == <<Write(Cmd("DIS", 0)), Write(Cmd("LIG", 0))>> \in Seq(Step)
BY StepKinds, Reports

-----------------------------------------------------------------------------
(* Types.                                                                  *)

\* Types: the beginning.
LEMMA InitTInv == Init => TInv
<1> SUFFICES ASSUME Init PROVE TInv
  OBVIOUS
<1> USE DEF Init
<1>1. PanelInit \in PanelState
  BY Faces DEF PanelInit, PanelState
<1>2. STP \in Report
  BY Reports DEF Report
<1>3. todo \in Seq(Step) /\ events \in Seq(ButtonEvent) /\ Len(events) <= Capacity
  BY DaemonAssumption
<1>4. flying \in [Key -> Nat] /\ pressed \in [Key -> Nat] /\ posted \in [Key -> Nat]
  OBVIOUS
<1>5. reports \in 0..MaxReports /\ faults \in 0..MaxFaults
  BY DaemonAssumption
<1> QED
  BY <1>1, <1>2, <1>3, <1>4, <1>5 DEF TInv, TypeOK, CallRuns

\* Entering a stage sets out its call.
LEMMA EnterType ==
  ASSUME NEW s, Enter(s)
  PROVE  /\ todo' \in Seq(Step)
         /\ todo' # <<>> => stage' \in DOMAIN Call
BY CallsAreSteps DEF Enter

\* Types: one step per action.
LEMMA TInvStep == TInv /\ [Next]_vars => TInv'
<1> SUFFICES ASSUME TInv, [Next]_vars PROVE TInv'
  OBVIOUS
<1> USE DEF TInv, TypeOK, CallRuns
<1>1. CASE OpenDevice
  <2>1. \/ stage \in DOMAIN Open3 /\ Enter(Open3[stage])
        \/ Enter("over")
    BY <1>1 DEF OpenDevice
  <2>2. todo' \in Seq(Step) /\ (todo' # <<>> => stage' \in DOMAIN Call)
    BY <2>1, EnterType
  <2>3. stage' \in {"open", "connect", "lighting", "over"}
    BY <2>1, Stages DEF Enter
  <2>4. faults' \in 0..MaxFaults
    BY <1>1, DaemonAssumption DEF OpenDevice, Fault
  <2> QED
    BY <1>1, <2>2, <2>3, <2>4, Stages DEF OpenDevice, Ended, loop, hooks, outside
<1>2. CASE Greet
  <2>1. Tail(todo) \in Seq(Step) /\ stage' = stage /\ todo # <<>>
    BY <1>2 DEF Greet
  <2>2. todo' \in Seq(Step)
    BY <1>2, <2>1, HandshakeSteps DEF Greet
  <2> QED
    BY <1>2, <2>1, <2>2 DEF Greet, loop, hooks, outside
<1>3. CASE WriteReport
  <2>1. Tail(todo) \in Seq(Step) /\ stage' = stage /\ todo # <<>> /\ Head(todo) \in Step
    BY <1>3 DEF WriteReport
  <2>2. Head(todo).report \in Report
    BY <1>3, <2>1, StepFields DEF WriteReport, Report
  <2>3. panel' \in PanelState
    BY <1>3, <2>2, DeliverType DEF WriteReport
  <2> QED
    BY <1>3, <2>1, <2>2, <2>3 DEF WriteReport, loop, hooks, outside
<1>4. CASE FailWrite
  <2>1. todo' = <<>> /\ UNCHANGED <<stage, initialized, panel, last, signal, events>>
    BY <1>4 DEF FailWrite
  <2>2. faults' \in 0..MaxFaults
    BY <1>4, DaemonAssumption DEF FailWrite, Fault
  <2>3. stage \in DOMAIN Call
    BY <1>4 DEF FailWrite
  <2>4. failedIn' = failedIn \cup {stage} /\ UNCHANGED <<loop, hooks, outside>>
    BY <1>4 DEF FailWrite
  <2> QED
    BY <2>1, <2>2, <2>3, <2>4 DEF loop, hooks, outside
<1>5. CASE TouchCache
  <2>1. Tail(todo) \in Seq(Step) /\ stage' = stage /\ todo # <<>>
    BY <1>5 DEF TouchCache
  <2> QED
    BY <1>5, <2>1 DEF TouchCache, loop, hooks, outside
<1>6. CASE CallReturns
  <2>1. Enter(After[stage]) /\ stage \in DOMAIN Call
    BY <1>6 DEF CallReturns
  <2>2. todo' \in Seq(Step) /\ (todo' # <<>> => stage' \in DOMAIN Call)
    BY <2>1, EnterType
  <2>3. stage' \in {"clearing", "running", "closing"}
    BY <2>1, Stages DEF Enter
  <2> QED
    BY <1>6, <2>2, <2>3, Stages DEF CallReturns, hooks, outside
<1>7. CASE HandleEvent
  <2>1. Head(events) \in ButtonEvent /\ Tail(events) \in Seq(ButtonEvent)
        /\ Len(Tail(events)) <= Capacity
    BY <1>7, DaemonAssumption DEF HandleEvent
  <2>2. Head(events).button \in Key /\ Head(events).down \in BOOLEAN
    BY <2>1 DEF ButtonEvent
  <2>3. handled' \in [Key -> BOOLEAN] /\ flying' \in [Key -> Nat] /\ posted' \in [Key -> Nat]
    <3> DEFINE k == Head(events).button  down == Head(events).down
    <3>1. /\ handled' = [handled EXCEPT ![k] = down]
          /\ flying' = [flying EXCEPT ![k] = IF down THEN @ + 1 ELSE @]
          /\ posted' = [posted EXCEPT ![k] = IF down THEN @ + 1 ELSE @]
      BY <1>7 DEF HandleEvent
    <3>2. /\ handled \in [Key -> BOOLEAN] /\ flying \in [Key -> Nat] /\ posted \in [Key -> Nat]
          /\ k \in Key /\ down \in BOOLEAN
      BY <2>2
    <3> HIDE DEF k, down
    <3>3. handled' \in [Key -> BOOLEAN]
      BY <3>1, <3>2
    <3>4. flying' \in [Key -> Nat]
      BY <3>1, <3>2
    <3>5. posted' \in [Key -> Nat]
      BY <3>1, <3>2
    <3> QED
      BY <3>3, <3>4, <3>5
  <2> QED
    BY <1>7, <2>1, <2>3 DEF HandleEvent, main, loop, outside
<1>8. CASE TakeSignal
  <2>1. todo' \in Seq(Step) /\ stage' = "stopping"
    BY <1>8, EnterType DEF TakeSignal, Enter
  <2> QED
    BY <1>8, <2>1, Stages DEF TakeSignal, loop, hooks, outside
<1>9. CASE Deferred
  <2>1. stage' \in {"exiting", "over"} /\ todo' = <<>>
    BY <1>9, Stages DEF Deferred, Enter
  <2> QED
    BY <1>9, <2>1 DEF Deferred, Ended, loop, hooks, outside
<1>10. CASE Signal
  <2>1. \/ stage' = stage /\ todo' = todo
        \/ stage' = "killed" /\ todo' = <<>>
    BY <1>10, Stages DEF Signal, Enter
  <2>2. signal' \in BOOLEAN
    BY <1>10 DEF Signal
  <2>3. /\ stage' \in {"init", "open", "connect", "running", "closing", "exiting"} \cup DOMAIN Call \cup Ended
        /\ todo' \in Seq(Step)
        /\ todo' # <<>> => stage' \in DOMAIN Call
    <3>1. CASE stage' = stage /\ todo' = todo
      BY <3>1
    <3>2. CASE stage' = "killed" /\ todo' = <<>>
      BY <3>2 DEF Ended
    <3> QED
      BY <2>1, <3>1, <3>2
  <2> QED
    BY <1>10, <2>2, <2>3 DEF Signal, loop, hooks, outside
<1>11. CASE Read
  <2>1. PICK key \in Key \cup {NoKey}, down \in BOOLEAN : ReadReport(key, down)
    BY <1>11 DEF Read
  <2>2. states' \in SUBSET Key /\ batch' \in SUBSET Key
    BY <2>1 DEF ReadReport, Snapshot, Difference
  <2>3. reports' \in 0..MaxReports /\ reported' \in Key \cup {NoKey}
    BY <2>1, DaemonAssumption DEF ReadReport
  <2>4. pressed' \in [Key -> Nat]
    BY <2>1 DEF ReadReport
  <2>5. reader' \in {"reading", "forwarding"}
    BY <2>1 DEF ReadReport
  <2> QED
    BY <2>1, <2>2, <2>3, <2>4, <2>5 DEF ReadReport, main, hooks
<1>12. CASE Forward
  <2>1. PICK k \in batch : /\ events' = Append(events, [button |-> k, down |-> k \in states])
                           /\ batch' = batch \ {k}
    BY <1>12 DEF Forward
  <2>2. [button |-> k, down |-> k \in states] \in ButtonEvent
    BY DEF ButtonEvent
  <2>3. events' \in Seq(ButtonEvent) /\ Len(events') <= Capacity
    BY <1>12, <2>1, <2>2, DaemonAssumption DEF Forward
  <2>4. reader' \in {"reading", "forwarding"}
    BY <1>12 DEF Forward
  <2> QED
    BY <1>12, <2>1, <2>3, <2>4 DEF Forward, main, hooks, outside
<1>13. CASE FailRead
  BY <1>13, DaemonAssumption DEF FailRead, Fault, main, hooks, outside
<1>14. CASE Wake
  BY <1>14 DEF Wake, main, hooks, outside
<1>15. ASSUME NEW k \in Key, EndPost(k) PROVE TInv'
  <2>1. flying' \in [Key -> Nat]
    BY <1>15 DEF EndPost
  <2> QED
    BY <1>15, <2>1 DEF EndPost, main, loop, outside
<1>16. CASE UNCHANGED vars
  BY <1>16 DEF vars, main, loop, hooks, outside
<1> QED
  BY <1>1, <1>2, <1>3, <1>4, <1>5, <1>6, <1>7, <1>8, <1>9, <1>10, <1>11, <1>12, <1>13, <1>14,
     <1>15, <1>16 DEF Next, Main, CallStep

\* Every variable keeps its type, and the channel its capacity.
THEOREM TypeCorrect == Spec => []TypeOK
<1>1. TInv => TypeOK
  BY DEF TInv
<1> QED
  BY <1>1, InitTInv, TInvStep, PTL DEF Spec

-----------------------------------------------------------------------------
(* From the reader to main.                                                *)

\* Nothing but the reader, and the call that starts it, moves the reader.
LEMMA InitReader == Init => ReaderShape
BY DaemonAssumption, Stages DEF Init, ReaderShape

\* The reader goroutine only ever holds what processInput makes: a snapshot
\* of the buttons, with at most one of them down.
LEMMA ReaderStep == TInv /\ ReaderShape /\ [Next]_vars => ReaderShape'
<1> SUFFICES ASSUME TInv, ReaderShape, [Next]_vars PROVE ReaderShape'
  OBVIOUS
<1> USE DEF ReaderShape
<1> DEFINE before == DOMAIN Open3 \cup {"lighting", "clearing"}
<1>1. ASSUME UNCHANGED <<loop, reported>>, stage' \in before => stage \in before
      PROVE  ReaderShape'
  BY <1>1 DEF loop
<1>2. ASSUME OpenDevice \/ Deferred PROVE ReaderShape'
  <2>1. stage' \in before => stage \in before
    BY <1>2, Stages DEF OpenDevice, Deferred, Enter
  <2> QED
    BY <1>1, <1>2, <2>1 DEF OpenDevice, Deferred, outside
<1>3. ASSUME Greet \/ WriteReport \/ FailWrite \/ TouchCache \/ HandleEvent PROVE ReaderShape'
  BY <1>1, <1>3 DEF Greet, WriteReport, FailWrite, TouchCache, HandleEvent, outside, main
<1>4. CASE CallReturns
  <2>1. \/ stage = "lighting" /\ stage' = "clearing"
        \/ stage = "clearing" /\ stage' = "running"
        \/ stage = "stopping" /\ stage' = "closing"
    BY <1>4, Stages DEF CallReturns, Enter
  <2>2. /\ states' = states /\ batch' = batch /\ reported' = reported
        /\ reader' = IF stage' = "running" THEN "reading" ELSE reader
    BY <1>4 DEF CallReturns, outside
  <2> QED
    BY <2>1, <2>2, Stages
<1>5. ASSUME TakeSignal \/ Signal PROVE ReaderShape'
  <2>1. stage' \in before => stage \in before
    BY <1>5, Stages DEF TakeSignal, Signal, Enter
  <2> QED
    BY <1>1, <1>5, <2>1 DEF TakeSignal, Signal, outside
<1>6. CASE Read
  <2>1. PICK key \in Key \cup {NoKey}, down \in BOOLEAN : ReadReport(key, down)
    BY <1>6 DEF Read
  <2>2. states' = {k \in Key : k = reported'}
    BY <2>1, DaemonAssumption DEF ReadReport, Snapshot
  <2> QED
    BY <2>1, <2>2 DEF ReadReport, main
<1>7. CASE Forward
  BY <1>7 DEF Forward, outside, main
<1>8. ASSUME FailRead \/ Wake PROVE ReaderShape'
  BY <1>8 DEF FailRead, Wake, outside, main
<1>9. ASSUME NEW k \in Key, EndPost(k) PROVE ReaderShape'
  BY <1>1, <1>9 DEF EndPost, outside, main
<1>10. CASE UNCHANGED vars
  BY <1>1, <1>10 DEF vars, outside, main
<1> QED
  BY <1>2, <1>3, <1>4, <1>5, <1>6, <1>7, <1>8, <1>9, <1>10 DEF Next, Main, CallStep

\* What is said of a button, moment by moment.
LEMMA SaidIs ==
  ASSUME TInv, NEW k \in Key
  PROVE  /\ Said(k, 0) = handled[k]
         /\ \A n \in 1..Len(events) : Said(k, n) = events[n].down
         /\ Said(k, Len(events) + 1) = (k \notin Difference(states, batch))
<1>1. DOMAIN events = 1..Len(events) /\ Len(events) \in Nat
  BY DEF TInv, TypeOK
<1>2. Said(k, 0) = handled[k]
  <2>1. 0 \notin DOMAIN events /\ 0 # Len(events) + 1
    BY <1>1
  <2> QED
    BY <2>1, Zenon DEF Said
<1>3. ASSUME NEW n \in 1..Len(events) PROVE Said(k, n) = events[n].down
  <2>1. n # 0 /\ n \in DOMAIN events /\ n # Len(events) + 1
    BY <1>1
  <2> QED
    BY <2>1, Zenon DEF Said
<1>4. Len(events) + 1 # 0 /\ Len(events) + 1 \notin DOMAIN events
  BY <1>1
<1>5. Said(k, Len(events) + 1) = (k \notin Difference(states, batch))
  BY <1>4, Zenon DEF Said
<1> QED
  BY <1>2, <1>3, <1>5

\* The same after a step.
LEMMA SaidIsNext ==
  ASSUME TInv', NEW k \in Key
  PROVE  /\ Said(k, 0)' = handled'[k]
         /\ \A n \in 1..Len(events') : (Said(k, n)' = events'[n].down)
         /\ \A n : n = Len(events') + 1 => (Said(k, n)' = (k \notin Difference(states', batch')))
<1>1. DOMAIN events' = 1..Len(events') /\ Len(events') \in Nat
  BY DEF TInv, TypeOK
<1>2. Said(k, 0)' = handled'[k]
  <2>1. 0 \notin DOMAIN events' /\ 0 # Len(events') + 1
    BY <1>1
  <2> QED
    BY <2>1, Zenon DEF Said
<1>3. ASSUME NEW n \in 1..Len(events') PROVE Said(k, n)' = events'[n].down
  <2>1. n # 0 /\ n \in DOMAIN events' /\ n # Len(events') + 1
    BY <1>1
  <2> QED
    BY <2>1, Zenon DEF Said
<1>4. ASSUME NEW n, n = Len(events') + 1 PROVE Said(k, n)' = (k \notin Difference(states', batch'))
  <2>1. n # 0 /\ n \notin DOMAIN events'
    BY <1>1, <1>4
  <2> QED
    BY <1>4, <2>1, Zenon DEF Said
<1> QED
  BY <1>2, <1>3, <1>4

\* As long as what is said of a button stays, so does its alternation.
LEMMA SameWords ==
  ASSUME TInv, TInv', NoDoubleTrigger, events' = events, handled' = handled,
         \A k \in Key : (k \in Difference(states', batch')) <=> (k \in Difference(states, batch))
  PROVE  NoDoubleTrigger'
<1> SUFFICES ASSUME NEW k \in Key PROVE
       /\ Moments(k)' = Moments(k)
       /\ \A n \in Moments(k) : Said(k, n)' = Said(k, n)
  BY DEF NoDoubleTrigger
<1>1. Moments(k)' = Moments(k)
  BY DEF Moments
<1>2. ASSUME NEW n \in Moments(k) PROVE Said(k, n)' = Said(k, n)
  <2>1. n = 0 \/ n \in 1..Len(events) \/ n = Len(events) + 1
    <3>1. DOMAIN events = 1..Len(events)
      BY DEF TInv, TypeOK
    <3> QED
      BY <3>1 DEF Moments
  <2>2. CASE n = 0
    BY <2>2, SaidIs, SaidIsNext
  <2>3. CASE n \in 1..Len(events)
    <3>1. Said(k, n) = events[n].down
      BY <2>3, SaidIs
    <3>2. Said(k, n)' = events'[n].down
      BY <2>3, SaidIsNext, Zenon
    <3> QED
      BY <3>1, <3>2
  <2>4. CASE n = Len(events) + 1
    <3>1. Said(k, n) = (k \notin Difference(states, batch))
      BY <2>4, SaidIs
    <3>2. Said(k, n)' = (k \notin Difference(states', batch'))
      BY <2>4, SaidIsNext, Zenon
    <3> QED
      BY <3>1, <3>2, Zenon
  <2> QED
    BY <2>1, <2>2, <2>3, <2>4
<1> QED
  BY <1>1, <1>2

\* Taking the first event moves every later moment one forward.
LEMMA TakeFirst ==
  ASSUME TInv, TInv', NoDoubleTrigger, HandleEvent
  PROVE  NoDoubleTrigger'
<1>1. /\ events \in Seq(ButtonEvent) /\ events # <<>> /\ events' = Tail(events)
      /\ Len(events) \in Nat \ {0} /\ Len(events') = Len(events) - 1
      /\ \A n \in 1..Len(events') : n + 1 \in 1..Len(events) /\ events'[n] = events[n + 1]
      /\ DOMAIN events = 1..Len(events) /\ DOMAIN events' = 1..Len(events')
  <2>1. events \in Seq(ButtonEvent) /\ events # <<>> /\ events' = Tail(events)
    BY DEF TInv, TypeOK, HandleEvent
  <2>2. Len(events) \in Nat \ {0} /\ DOMAIN events = 1..Len(events)
    BY <2>1
  <2>3. events' \in Seq(ButtonEvent) /\ Len(events') = Len(events) - 1
    BY <2>1
  <2>4. \A n \in 1..Len(events') : n + 1 \in 1..Len(events) /\ events'[n] = events[n + 1]
    BY <2>1
  <2>5. DOMAIN events' = 1..Len(events')
    BY <2>3
  <2> QED
    BY <2>1, <2>2, <2>3, <2>4, <2>5
<1>2. /\ handled' = [handled EXCEPT ![events[1].button] = events[1].down]
      /\ states' = states /\ batch' = batch /\ handled \in [Key -> BOOLEAN]
      /\ events[1].button \in Key
  <2>1. events[1] \in ButtonEvent /\ Head(events) = events[1]
    BY <1>1
  <2> QED
    BY <2>1 DEF HandleEvent, loop, TInv, TypeOK, ButtonEvent
<1> SUFFICES ASSUME NEW k \in Key, NEW m \in Moments(k)', NEW n \in Moments(k)', m < n,
                    \A l \in Moments(k)' : l <= m \/ n <= l
             PROVE  Said(k, m)' # Said(k, n)'
  BY DEF NoDoubleTrigger
<1>3. \A j : j \in Moments(k)' <=> j = 0 \/ j = Len(events) \/
                                  (j \in 1..(Len(events) - 1) /\ events[j + 1].button = k)
  <2>1. Moments(k)' = {0, Len(events') + 1} \cup {n_1 \in 1..Len(events') : events'[n_1].button = k}
    BY <1>1 DEF Moments
  <2>2. Len(events') + 1 = Len(events)
    BY <1>1
  <2>3. \A j \in 1..Len(events') : events'[j] = events[j + 1]
    BY <1>1
  <2> QED
    BY <2>1, <2>2, <2>3, <1>1
<1>4. \A j : j \in Moments(k) <=> j = 0 \/ j = Len(events) + 1 \/
                                 (j \in 1..Len(events) /\ events[j].button = k)
  BY <1>1 DEF Moments
\* Later moments say the same.
<1>5. ASSUME NEW j \in Moments(k)', j # 0
      PROVE  j + 1 \in Moments(k) /\ (Said(k, j)' = Said(k, j + 1))
  <2>1. j \in 1..Len(events) /\ j + 1 \in Moments(k)
    BY <1>1, <1>3, <1>4, <1>5
  <2>2. CASE j = Len(events)
    <3>1. Said(k, j)' = (k \notin Difference(states', batch'))
      BY <1>1, <2>2, SaidIs, SaidIsNext
    <3>2. Said(k, j + 1) = (k \notin Difference(states, batch))
      BY <2>2, SaidIs, SaidIsNext
    <3> QED
      BY <1>2, <2>1, <3>1, <3>2
  <2>3. CASE j # Len(events)
    <3>1. j \in 1..Len(events') /\ j + 1 \in 1..Len(events)
      <4>1. Len(events) \in Nat /\ Len(events') = Len(events) - 1 /\ j \in 1..Len(events)
        BY <1>1, <2>1
      <4> QED
        BY <2>3, <4>1
    <3>2. Said(k, j)' = events'[j].down /\ Said(k, j + 1) = events[j + 1].down
      BY <3>1, SaidIs, SaidIsNext
    <3> QED
      BY <1>1, <2>1, <3>1, <3>2
  <2> QED
    BY <2>2, <2>3
<1>6. n \in Nat /\ m \in Nat /\ n # 0
  BY <1>1, <1>3
<1>7. n + 1 \in Moments(k) /\ (Said(k, n)' = Said(k, n + 1))
  BY <1>5, <1>6
<1>8. ASSUME NEW l \in Moments(k), l > m + 1 PROVE n + 1 <= l
  <2>1. l \in Nat /\ l - 1 \in Moments(k)'
    <3>1. l = Len(events) + 1 \/ (l \in 1..Len(events) /\ events[l].button = k)
      BY <1>4, <1>6, <1>8
    <3>2. CASE l = Len(events) + 1
      <4>1. l - 1 = Len(events) /\ l \in Nat
        BY <1>1, <3>2
      <4> QED
        BY <1>3, <4>1
    <3>3. CASE l \in 1..Len(events) /\ events[l].button = k
      <4>1. l \in Nat /\ l - 1 \in 1..(Len(events) - 1) /\ (l - 1) + 1 = l
        BY <1>1, <1>6, <1>8, <3>3
      <4> QED
        BY <1>3, <3>3, <4>1
    <3> QED
      BY <3>1, <3>2, <3>3
  <2> QED
    BY <1>6, <1>8, <2>1
<1>9. CASE m # 0
  <2>1. m + 1 \in Moments(k) /\ (Said(k, m)' = Said(k, m + 1))
    BY <1>5, <1>9
  <2>2. \A l \in Moments(k) : l <= m + 1 \/ n + 1 <= l
    BY <1>1, <1>4, <1>6, <1>8
  <2> QED
    BY <1>6, <1>7, <2>1, <2>2 DEF NoDoubleTrigger
<1>10. CASE m = 0 /\ events[1].button = k
  <2>1. 1 \in Moments(k)
    BY <1>1, <1>4, <1>10
  <2>2. \A l \in Moments(k) : l <= 1 \/ n + 1 <= l
    BY <1>1, <1>4, <1>8, <1>10
  <2>3. Said(k, 0)' = events[1].down /\ Said(k, 1) = events[1].down
    BY <1>1, <1>2, <1>10, SaidIs, SaidIsNext
  <2> QED
    BY <1>6, <1>7, <1>10, <2>1, <2>2, <2>3 DEF NoDoubleTrigger
<1>11. CASE m = 0 /\ events[1].button # k
  <2>1. 0 \in Moments(k)
    BY <1>4
  <2>2. 1 \notin Moments(k)
    BY <1>1, <1>4, <1>11
  <2>3. \A l \in Moments(k) : l <= 0 \/ n + 1 <= l
    BY <1>1, <1>4, <1>8, <1>11, <2>2
  <2>4. Said(k, 0)' = handled[k] /\ Said(k, 0) = handled[k]
    BY <1>2, <1>11, SaidIs, SaidIsNext
  <2> QED
    BY <1>6, <1>7, <1>11, <2>1, <2>3, <2>4 DEF NoDoubleTrigger
<1> QED
  BY <1>9, <1>10, <1>11

\* The event that the reader sends is the one that was to come, and the one
\* to come behind it is its opposite.
LEMMA SendNext ==
  ASSUME TInv, TInv', NoDoubleTrigger, Forward
  PROVE  NoDoubleTrigger'
<1>1. PICK b \in batch : /\ events' = Append(events, [button |-> b, down |-> b \in states])
                         /\ batch' = batch \ {b}
  BY DEF Forward
<1>2. handled' = handled /\ states' = states /\ b \in Key
  BY DEF Forward, hooks, TInv, TypeOK
<1>0. PICK len \in Nat : len = Len(events)
  BY DEF TInv, TypeOK
<1>3. /\ len \in Nat /\ Len(events') = len + 1
      /\ \A n \in 1..len : events'[n] = events[n]
      /\ events'[len + 1] = [button |-> b, down |-> b \in states]
      /\ DOMAIN events = 1..len /\ DOMAIN events' = 1..(len + 1)
  <2>1. events \in Seq(ButtonEvent)
    BY DEF TInv, TypeOK
  <2>2. len \in Nat /\ DOMAIN events = 1..len
    BY <1>0, <2>1
  <2>3. /\ Len(events') = len + 1 /\ DOMAIN events' = 1..(len + 1)
        /\ events'[len + 1] = [button |-> b, down |-> b \in states]
    BY <1>0, <1>1, <2>1
  <2>4. \A n \in 1..len : events'[n] = events[n]
    BY <1>0, <1>1, <2>1
  <2> QED
    BY <2>2, <2>3, <2>4
<1> SUFFICES ASSUME NEW k \in Key, NEW m \in Moments(k)', NEW n \in Moments(k)', m < n,
                    \A l \in Moments(k)' : l <= m \/ n <= l
             PROVE  Said(k, m)' # Said(k, n)'
  BY DEF NoDoubleTrigger
<1>5. \A j : j \in Moments(k) <=> j = 0 \/ j = len + 1 \/
                                 (j \in 1..len /\ events[j].button = k)
  BY <1>0, <1>3 DEF Moments
<1>6. \A j : j \in Moments(k)' <=> j = 0 \/ j = len + 2 \/ (j = len + 1 /\ k = b) \/
                                  (j \in 1..len /\ events[j].button = k)
  BY <1>3 DEF Moments
<1>7. \A j \in 0..len : (Said(k, j)' = Said(k, j))
  <2> SUFFICES ASSUME NEW j \in 0..len PROVE Said(k, j)' = Said(k, j)
    OBVIOUS
  <2>1. CASE j = 0
    BY <1>2, <2>1, SaidIs, SaidIsNext
  <2>2. CASE j # 0
    <3>1. j \in 1..Len(events) /\ j \in 1..Len(events')
      BY <1>0, <1>3, <2>2
    <3>2. Said(k, j)' = events'[j].down /\ Said(k, j) = events[j].down
      BY <3>1, SaidIs, SaidIsNext
    <3> QED
      BY <1>3, <3>1, <3>2
  <2> QED
    BY <2>1, <2>2
<1>8. Said(k, len + 2)' = (k \notin Difference(states', batch'))
  <2>1. Len(events') + 1 = len + 2
    BY <1>3
  <2> QED
    BY <2>1, SaidIsNext
<1>9. Said(k, len + 1) = (k \notin Difference(states, batch))
  BY <1>0, SaidIs
<1>10. CASE k = b
  <2>1. Said(k, len + 1)' = (b \in states)
    <3>1. len + 1 \in 1..Len(events')
      BY <1>3
    <3>2. Said(k, len + 1)' = events'[len + 1].down
      BY <3>1, SaidIs, SaidIsNext
    <3> QED
      BY <1>3, <3>2
  <2>2. Said(k, len + 1) = (b \in states)
    BY <1>9, <1>10 DEF Difference
  <2>3. Said(k, len + 2)' = (b \notin states)
    BY <1>1, <1>2, <1>8, <1>10 DEF Difference
  <2>4. CASE n = len + 2
    <3>1. m = len + 1
      BY <1>3, <1>6, <1>10, <2>4
    <3> QED
      BY <2>1, <2>3, <2>4, <3>1
  <2>5. CASE n # len + 2
    <3>1. m \in Moments(k) /\ n \in Moments(k) /\ m \in 0..len /\ n \in 1..(len + 1)
      BY <1>3, <1>5, <1>6, <2>5
    <3>2. \A l \in Moments(k) : l <= m \/ n <= l
      BY <1>3, <1>5, <1>6, <1>10
    <3>3. Said(k, m) # Said(k, n)
      BY <3>1, <3>2 DEF NoDoubleTrigger
    <3>4. Said(k, m)' = Said(k, m)
      BY <1>7, <3>1
    <3>5. Said(k, n)' = Said(k, n)
      <4>1. n \in 0..len \/ n = len + 1
        BY <1>3, <3>1
      <4> QED
        BY <1>7, <2>1, <2>2, <4>1
    <3> QED
      BY <3>3, <3>4, <3>5
  <2> QED
    BY <2>4, <2>5
<1>11. CASE k # b
  <2>1. Said(k, len + 2)' = Said(k, len + 1)
    <3>1. (k \in Difference(states', batch')) <=> (k \in Difference(states, batch))
      BY <1>1, <1>2, <1>11 DEF Difference
    <3> QED
      BY <1>8, <1>9, <3>1
  <2>2. m \in Moments(k) /\ m \in 0..len
    BY <1>3, <1>5, <1>6, <1>11
  <2>3. CASE n = len + 2
    <3>1. len + 1 \in Moments(k) /\ m < len + 1
      BY <1>3, <1>5, <2>2
    <3>2. \A l \in Moments(k) : l <= m \/ len + 1 <= l
      BY <1>3, <1>5, <1>6, <1>11, <2>3
    <3>3. Said(k, m) # Said(k, len + 1)
      BY <2>2, <3>1, <3>2 DEF NoDoubleTrigger
    <3> QED
      BY <1>7, <2>1, <2>2, <2>3, <3>3
  <2>4. CASE n # len + 2
    <3>1. n \in Moments(k) /\ n \in 0..len
      BY <1>3, <1>5, <1>6, <1>11, <2>4
    <3>2. \A l \in Moments(k) : l <= m \/ n <= l
      BY <1>3, <1>5, <1>6, <1>11, <3>1
    <3>3. Said(k, m) # Said(k, n)
      BY <2>2, <3>1, <3>2 DEF NoDoubleTrigger
    <3> QED
      BY <1>7, <2>2, <3>1, <3>3
  <2> QED
    BY <2>3, <2>4
<1> QED
  BY <1>10, <1>11

\* Nothing has been triggered yet.
LEMMA InitAlternates == Init => NoDoubleTrigger
<1> SUFFICES ASSUME Init, NEW k \in Key, NEW m \in Moments(k), NEW n \in Moments(k), m < n
             PROVE  Said(k, m) # Said(k, n)
  BY DEF NoDoubleTrigger
<1>1. TInv
  BY InitTInv
<1>2. events = <<>> /\ Len(events) = 0
  BY DEF Init
<1>3. m = 0 /\ n = 1
  BY <1>2 DEF Moments
<1>4. Said(k, 0) = handled[k]
  BY <1>1, SaidIs
<1>5. Said(k, 1) = (k \notin Difference(states, batch))
  BY <1>1, <1>2, SaidIs
<1>6. handled[k] = FALSE /\ k \notin Difference(states, batch)
  BY DEF Init, Difference
<1> QED
  BY <1>3, <1>4, <1>5, <1>6

\* A button is triggered again only after it was told up, and the reader
\* tells up only what it told down.
LEMMA AlternatesStep == TInv /\ ReaderShape /\ NoDoubleTrigger /\ [Next]_vars => NoDoubleTrigger'
<1> SUFFICES ASSUME TInv, ReaderShape, NoDoubleTrigger, [Next]_vars PROVE NoDoubleTrigger'
  OBVIOUS
<1>1. TInv'
  BY TInvStep
<1>2. CASE HandleEvent
  BY <1>1, <1>2, TakeFirst
<1>3. CASE Forward
  BY <1>1, <1>3, SendNext
\* A read that finds a difference has nothing left over from the last one.
<1>4. CASE Read
  <2>1. PICK key \in Key \cup {NoKey}, down \in BOOLEAN : ReadReport(key, down)
    BY <1>4 DEF Read
  <2>2. batch = {} /\ batch' = Difference(states, states')
    BY <2>1 DEF ReadReport, ReaderShape
  <2>3. \A k \in Key : (k \in Difference(states', batch')) <=> (k \in Difference(states, batch))
    BY <2>2 DEF Difference
  <2>4. events' = events /\ handled' = handled
    BY <2>1 DEF ReadReport, hooks
  <2> QED
    BY <1>1, <2>3, <2>4, SameWords
<1>5. ASSUME UNCHANGED <<events, handled, states, batch>> PROVE NoDoubleTrigger'
  BY <1>1, <1>5, SameWords DEF Difference
<1>6. CASE Main \/ Signal \/ FailRead \/ Wake \/ (\E k \in Key : EndPost(k)) \/ UNCHANGED vars
  <2>1. HandleEvent \/ UNCHANGED <<events, handled, states, batch>>
    BY <1>6 DEF Main, CallStep, OpenDevice, Greet, WriteReport, FailWrite, TouchCache, CallReturns,
       TakeSignal, Deferred, Signal, FailRead, Wake, EndPost, vars, loop, hooks
  <2> QED
    BY <1>2, <1>5, <2>1
<1> QED
  BY <1>3, <1>4, <1>6 DEF Next

\* Of what main handles, what waits in the channel and what the reader has still to
\* send, no two in a row say the same of a button: however slow main is, however
\* often the channel is full or a read fails (main.go:140-147, :159).
THEOREM EventsAlternate == Spec => []NoDoubleTrigger
BY InitTInv, InitReader, InitAlternates, TInvStep, ReaderStep, AlternatesStep, PTL DEF Spec

-----------------------------------------------------------------------------
(* Every press, once.                                                      *)

\* Only so many presses can wait in a channel of ten, and be counted.
LEMMA FewWaiting ==
  ASSUME TInv, NEW k
  PROVE  IsFiniteSet(PressesWaiting(k)) /\ Cardinality(PressesWaiting(k)) \in Nat
<1>1. DOMAIN events = 1..Len(events) /\ Len(events) \in Nat
  BY DEF TInv, TypeOK
<1>2. IsFiniteSet(DOMAIN events)
  BY <1>1, FS_Interval
<1>3. PressesWaiting(k) \subseteq DOMAIN events
  BY DEF PressesWaiting
<1> QED
  BY <1>2, <1>3, FS_Subset, FS_CardinalityType

\* Positions all moved by one are as many as before.
LEMMA ShiftedPositions ==
  ASSUME NEW S \in SUBSET Nat, IsFiniteSet(S)
  PROVE  Cardinality({n - 1 : n \in S}) = Cardinality(S)
<1> DEFINE T == {n - 1 : n \in S}
           f == [n \in S |-> n - 1]
<1>1. f \in Bijection(S, T)
  <2>1. f \in Surjection(S, T)
    BY DEF Surjection
  <2>2. f \in Injection(S, T)
    BY DEF Injection, IsInjective
  <2> QED
    BY <2>1, <2>2 DEF Bijection
<1>2. IsFiniteSet(T) /\ Cardinality(S) = Cardinality(T)
  BY <1>1, FS_Bijection DEF ExistsBijection
<1> QED
  BY <1>2

\* An event that is taken and posted moves from one side of the count to the
\* other.
LEMMA CountHandled ==
  ASSUME TInv, EveryPressCounts, HandleEvent
  PROVE  EveryPressCounts'
<1>1. /\ Len(events) \in Nat \ {0} /\ DOMAIN events = 1..Len(events)
      /\ DOMAIN events' = 1..(Len(events) - 1)
      /\ \A n \in 1..(Len(events) - 1) : events'[n] = events[n + 1]
      /\ Head(events) = events[1]
      /\ events[1].button \in Key /\ events[1].down \in BOOLEAN
  <2>1. events \in Seq(ButtonEvent) /\ events # <<>> /\ events' = Tail(events)
    BY DEF TInv, TypeOK, HandleEvent
  <2>2. Len(events) \in Nat \ {0} /\ DOMAIN events = 1..Len(events) /\ Head(events) = events[1]
    BY <2>1
  <2>3. Len(events') = Len(events) - 1 /\ DOMAIN events' = 1..(Len(events) - 1)
    BY <2>1
  <2>4. \A n \in 1..(Len(events) - 1) : events'[n] = events[n + 1]
    BY <2>1
  <2>5. events[1] \in ButtonEvent
    BY <2>1, <2>2
  <2> QED
    BY <2>2, <2>3, <2>4, <2>5 DEF ButtonEvent
<1>2. /\ posted' = [posted EXCEPT ![events[1].button] = IF events[1].down THEN @ + 1 ELSE @]
      /\ posted \in [Key -> Nat] /\ pressed \in [Key -> Nat]
      /\ pressed' = pressed /\ batch' = batch /\ states' = states
  BY <1>1 DEF HandleEvent, loop, outside, TInv, TypeOK
<1> SUFFICES ASSUME NEW k \in Key
             PROVE  pressed[k] = posted'[k] + Cardinality(PressesWaiting(k)')
                                            + (IF k \in batch \cap states THEN 1 ELSE 0)
  BY <1>2 DEF EveryPressCounts
<1> DEFINE old == PressesWaiting(k)
           rest == old \ {1}
<1>3. IsFiniteSet(old) /\ Cardinality(old) \in Nat
  BY FewWaiting
<1>4. PressesWaiting(k)' = {n - 1 : n \in rest}
  <2>1. ASSUME NEW j, j \in PressesWaiting(k)' PROVE j \in {n - 1 : n \in rest}
    <3>1. j \in 1..(Len(events) - 1) /\ events'[j].button = k /\ events'[j].down
      BY <1>1, <2>1 DEF PressesWaiting
    <3>2. j + 1 \in 1..Len(events) /\ events'[j] = events[j + 1] /\ j + 1 # 1 /\ (j + 1) - 1 = j
      BY <1>1, <3>1
    <3>3. j + 1 \in rest
      BY <1>1, <3>1, <3>2 DEF PressesWaiting
    <3> QED
      BY <3>2, <3>3
  <2>2. ASSUME NEW n \in rest PROVE n - 1 \in PressesWaiting(k)'
    <3>1. n \in 1..Len(events) /\ n # 1 /\ events[n].button = k /\ events[n].down
      BY <1>1 DEF PressesWaiting
    <3>2. n - 1 \in 1..(Len(events) - 1) /\ (n - 1) + 1 = n
      BY <1>1, <3>1
    <3>3. events'[n - 1] = events[n]
      BY <1>1, <3>2
    <3> QED
      BY <1>1, <3>1, <3>2, <3>3 DEF PressesWaiting
  <2> QED
    BY <2>1, <2>2
<1>5. Cardinality(PressesWaiting(k)') = Cardinality(rest)
  <2>1. IsFiniteSet(rest) /\ rest \in SUBSET Nat
    BY <1>1, <1>3, FS_Subset DEF PressesWaiting
  <2> HIDE DEF rest
  <2> QED
    BY <1>4, <2>1, ShiftedPositions
<1>6. CASE events[1].button = k /\ events[1].down
  <2>1. 1 \in old
    BY <1>1, <1>6 DEF PressesWaiting
  <2>2. Cardinality(rest) = Cardinality(old) - 1
    BY <1>3, <2>1, FS_RemoveElement
  <2>3. posted'[k] = posted[k] + 1
    BY <1>2, <1>6
  <2> QED
    BY <1>2, <1>3, <1>5, <2>2, <2>3 DEF EveryPressCounts
<1>7. CASE ~(events[1].button = k /\ events[1].down)
  <2>1. rest = old
    BY <1>7 DEF PressesWaiting
  <2>2. posted'[k] = posted[k]
    BY <1>1, <1>2, <1>7
  <2> QED
    BY <1>5, <2>1, <2>2 DEF EveryPressCounts
<1> QED
  BY <1>6, <1>7

\* And so does one that is put on the channel.
LEMMA CountSent ==
  ASSUME TInv, EveryPressCounts, Forward
  PROVE  EveryPressCounts'
<1>1. PICK b \in batch : /\ events' = Append(events, [button |-> b, down |-> b \in states])
                         /\ batch' = batch \ {b}
  BY DEF Forward
<1>2. /\ posted' = posted /\ pressed' = pressed /\ states' = states
      /\ posted \in [Key -> Nat] /\ pressed \in [Key -> Nat]
  BY DEF Forward, hooks, outside, TInv, TypeOK
<1>3. PICK len \in Nat : len = Len(events)
  BY DEF TInv, TypeOK
<1>4. /\ DOMAIN events = 1..len /\ DOMAIN events' = 1..(len + 1)
      /\ events'[len + 1].button = b /\ (events'[len + 1].down <=> b \in states)
      /\ \A n \in 1..len : events'[n] = events[n]
  <2> DEFINE e == [button |-> b, down |-> b \in states]
  <2>1. events \in Seq(ButtonEvent)
    BY DEF TInv, TypeOK
  <2>2. e.button = b /\ (e.down <=> b \in states)
    OBVIOUS
  <2>3. events' = Append(events, e)
    BY <1>1
  <2> HIDE DEF e
  <2>4. /\ DOMAIN events = 1..len /\ DOMAIN events' = 1..(len + 1)
        /\ events'[len + 1] = e
        /\ \A n \in 1..len : events'[n] = events[n]
    BY <1>3, <2>1, <2>3
  <2> QED
    BY <2>2, <2>4
<1> SUFFICES ASSUME NEW k \in Key
             PROVE  pressed[k] = posted[k] + Cardinality(PressesWaiting(k)')
                                           + (IF k \in batch' \cap states THEN 1 ELSE 0)
  BY <1>2 DEF EveryPressCounts
<1>5. IsFiniteSet(PressesWaiting(k)) /\ Cardinality(PressesWaiting(k)) \in Nat
  BY FewWaiting
<1>6. pressed[k] = posted[k] + Cardinality(PressesWaiting(k))
                             + (IF k \in batch \cap states THEN 1 ELSE 0)
  BY DEF EveryPressCounts
<1>7. CASE k = b /\ b \in states
  <2>1. PressesWaiting(k)' = PressesWaiting(k) \cup {len + 1}
    <3>1. ASSUME NEW j \in PressesWaiting(k)' PROVE j \in PressesWaiting(k) \cup {len + 1}
      BY <1>4 DEF PressesWaiting
    <3>2. ASSUME NEW j \in PressesWaiting(k) PROVE j \in PressesWaiting(k)'
      BY <1>4 DEF PressesWaiting
    <3>3. len + 1 \in PressesWaiting(k)'
      BY <1>4, <1>7 DEF PressesWaiting
    <3> QED
      BY <3>1, <3>2, <3>3
  <2>2. len + 1 \notin PressesWaiting(k)
    BY <1>4 DEF PressesWaiting
  <2>3. Cardinality(PressesWaiting(k)') = Cardinality(PressesWaiting(k)) + 1
    BY <1>5, <2>1, <2>2, FS_AddElement
  <2>4. k \in batch \cap states /\ k \notin batch' \cap states
    BY <1>1, <1>7
  <2> QED
    BY <1>2, <1>5, <1>6, <2>3, <2>4
<1>8. CASE ~(k = b /\ b \in states)
  <2>1. PressesWaiting(k)' = PressesWaiting(k)
    <3>1. ASSUME NEW j \in PressesWaiting(k)' PROVE j \in PressesWaiting(k)
      BY <1>4, <1>8 DEF PressesWaiting
    <3>2. ASSUME NEW j \in PressesWaiting(k) PROVE j \in PressesWaiting(k)'
      BY <1>4 DEF PressesWaiting
    <3> QED
      BY <3>1, <3>2
  <2>2. (k \in batch' \cap states) <=> (k \in batch \cap states)
    BY <1>1, <1>8
  <2> QED
    BY <1>6, <2>1, <2>2
<1> QED
  BY <1>7, <1>8

\* No step loses count of a press.
LEMMA CountStep == TInv /\ ReaderShape /\ EveryPressCounts /\ [Next]_vars => EveryPressCounts'
<1> SUFFICES ASSUME TInv, ReaderShape, EveryPressCounts, [Next]_vars PROVE EveryPressCounts'
  OBVIOUS
<1>1. CASE HandleEvent
  BY <1>1, CountHandled
<1>2. CASE Forward
  BY <1>2, CountSent
\* A report adds a press exactly when the press goes into the batch.
<1>3. CASE Read
  <2>1. PICK key \in Key \cup {NoKey}, down \in BOOLEAN : ReadReport(key, down)
    BY <1>3 DEF Read
  <2>2. /\ batch = {} /\ states = {k \in Key : k = reported}
        /\ states' = {k \in Key : k = key /\ down}
        /\ batch' = (states \ states') \cup (states' \ states)
        /\ pressed' = [k \in Key |-> IF down /\ k = key /\ k # reported THEN pressed[k] + 1
                                                                        ELSE pressed[k]]
    BY <2>1 DEF ReadReport, ReaderShape, Snapshot, Difference
  <2>3. posted' = posted /\ events' = events
    BY <2>1 DEF ReadReport, hooks
  <2> SUFFICES ASSUME NEW k \in Key
               PROVE  pressed'[k] = posted[k] + Cardinality(PressesWaiting(k))
                                              + (IF k \in batch' \cap states' THEN 1 ELSE 0)
    BY <2>3 DEF EveryPressCounts, PressesWaiting
  <2>4. /\ pressed[k] = posted[k] + Cardinality(PressesWaiting(k)) + 0
        /\ posted[k] \in Nat /\ pressed[k] \in Nat /\ Cardinality(PressesWaiting(k)) \in Nat
    BY <2>2, FewWaiting DEF EveryPressCounts, TInv, TypeOK
  <2>5. (k \in batch' \cap states') <=> (down /\ k = key /\ k # reported)
    BY <2>2
  <2> QED
    BY <2>2, <2>4, <2>5
<1>4. ASSUME UNCHANGED <<pressed, posted, events, states, batch>> PROVE EveryPressCounts'
  BY <1>4 DEF EveryPressCounts, PressesWaiting
<1>5. CASE Main \/ Signal \/ FailRead \/ Wake \/ (\E k \in Key : EndPost(k)) \/ UNCHANGED vars
  <2>1. HandleEvent \/ UNCHANGED <<pressed, posted, events, states, batch>>
    BY <1>5 DEF Main, CallStep, OpenDevice, Greet, WriteReport, FailWrite, TouchCache, CallReturns,
       TakeSignal, Deferred, Signal, FailRead, Wake, EndPost, vars, loop, hooks, outside
  <2> QED
    BY <1>1, <1>4, <2>1
<1> QED
  BY <1>2, <1>3, <1>5 DEF Next

\* Every press that a report told is posted once, waits in the channel, or is the
\* one the reader waits to send: none is lost, and none is made up, whatever
\* the capacity of the channel (main.go:93, :140-147, :156-177).
THEOREM NoPressIsLost == Spec => []EveryPressCounts
<1>1. Init => EveryPressCounts
  <2> SUFFICES ASSUME Init, NEW k \in Key PROVE
         pressed[k] = posted[k] + Cardinality(PressesWaiting(k))
                                + (IF k \in batch \cap states THEN 1 ELSE 0)
    BY DEF EveryPressCounts
  <2>1. PressesWaiting(k) = {} /\ pressed[k] = 0 /\ posted[k] = 0 /\ batch = {}
    BY DEF Init, PressesWaiting
  <2>2. Cardinality(PressesWaiting(k)) = 0
    BY <2>1, FS_EmptySet
  <2> QED
    BY <2>1, <2>2
<1> QED
  BY <1>1, InitTInv, InitReader, TInvStep, ReaderStep, CountStep, PTL DEF Spec

-----------------------------------------------------------------------------
(* What main has told the panel.                                           *)

MainOps == {"DIS", "LIG", "CLEDC", "HAN"}

\* Between images, the panel takes each of main's commands for what it is.
LEMMA TakesMain ==
  ASSUME NEW p \in PanelState, p.left = 0
  PROVE  /\ Deliver(p, Cmd("DIS", 0)).left = 0
         /\ Deliver(p, Cmd("LIG", 0)).left = 0
         /\ Deliver(p, Cmd("LIG", 50)).left = 0 /\ Deliver(p, Cmd("LIG", 50)).level = 50
         /\ Deliver(p, Cmd("CLEDC", 0)).left = 0
         /\ Deliver(p, Cmd("HAN", 0)).left = 0
<1>1. 0 \in 0..255 /\ 50 \in 0..255
  OBVIOUS
<1>2. "DIS" \in MainOps /\ "LIG" \in MainOps /\ "CLEDC" \in MainOps /\ "HAN" \in MainOps
  BY DEF MainOps
<1>3. ASSUME NEW op \in MainOps, NEW a \in 0..255
      PROVE  /\ Deliver(p, Cmd(op, a)).left = 0
             /\ op = "LIG" => Deliver(p, Cmd(op, a)).level = a
  <2> DEFINE r == Cmd(op, a)
  <2>1. r.op = op /\ r.arg = a
    BY DEF Cmd
  <2> HIDE DEF r
  <2>2. CASE op = "DIS"
    <3>1. Obey(p, r) = [p EXCEPT !.greetings = @ + 1]
      BY <2>1, <2>2 DEF Obey
    <3> QED
      BY <2>2, <3>1 DEF Deliver, PanelState, r
  <2>3. CASE op = "LIG"
    <3> DEFINE ready == p.greetings > 0
    <3>1. Obey(p, r) = [p EXCEPT !.level = r.arg, !.ready = ready]
      BY <2>1, <2>3 DEF Obey
    <3> HIDE DEF ready
    <3>2. /\ Deliver(p, r).left = 0 /\ Deliver(p, r).level = r.arg
          /\ Deliver(p, r).next = p.next /\ Deliver(p, r).shown = p.shown
      BY <3>1 DEF Deliver, PanelState
    <3> QED
      BY <2>1, <2>3, <3>2 DEF r
  <2>4. CASE op \in {"CLEDC", "HAN"}
    <3>1. Obey(p, r) = p
      BY <2>1, <2>4 DEF Obey
    <3> QED
      BY <2>4, <3>1 DEF Deliver, PanelState, r
  <2> QED
    BY <2>2, <2>3, <2>4 DEF MainOps
<1>4. Deliver(p, Cmd("LIG", 50)).left = 0
  BY <1>1, <1>2, <1>3
<1>5. Deliver(p, Cmd("LIG", 50)).level = 50
  BY <1>1, <1>2, <1>3
<1>6. Deliver(p, Cmd("DIS", 0)).left = 0
  BY <1>1, <1>2, <1>3
<1>7. Deliver(p, Cmd("LIG", 0)).left = 0
  BY <1>1, <1>2, <1>3
<1>8. Deliver(p, Cmd("CLEDC", 0)).left = 0
  BY <1>1, <1>2, <1>3
<1>9. Deliver(p, Cmd("HAN", 0)).left = 0
  BY <1>1, <1>2, <1>3
<1> QED
  BY <1>4, <1>5, <1>6, <1>7, <1>8, <1>9

\* Cleared of all keys, the panel has a blank frame to show next, and the old
\* firmware shows it at once.
LEMMA TakesClear ==
  ASSUME NEW p \in PanelState, p.left = 0
  PROVE  /\ Deliver(p, Cle(AllKeys)).left = 0
         /\ Deliver(p, Cle(AllKeys)).level = p.level
         /\ BlankFrame(Deliver(p, Cle(AllKeys)).next)
         /\ ProtocolVersion < 2 => BlankFrame(Deliver(p, Cle(AllKeys)).shown)
<1> DEFINE r == Cle(AllKeys)
           blank == [k \in Key |-> Blank]
           shown == IF ProtocolVersion >= 2 THEN p.shown ELSE blank
<1>1. r.op = "CLE" /\ r.arg = 255
  BY Reports
<1> HIDE DEF r
<1>2. Obey(p, r) = [p EXCEPT !.next = blank, !.shown = shown]
  BY <1>1 DEF Obey, Wipe
<1>3. BlankFrame(blank)
  BY DEF BlankFrame
<1>4. ProtocolVersion < 2 => shown = blank
  BY StepsAssumption
<1> HIDE DEF blank, shown
<1>5. /\ Deliver(p, r).left = 0 /\ Deliver(p, r).level = p.level
      /\ Deliver(p, r).next = blank /\ Deliver(p, r).shown = shown
  BY <1>2 DEF Deliver, PanelState
<1> QED
  BY <1>3, <1>4, <1>5 DEF r

\* STP shows the frame that is next.
LEMMA TakesShow ==
  ASSUME NEW p \in PanelState, p.left = 0
  PROVE  /\ Deliver(p, STP).left = 0
         /\ Deliver(p, STP).level = p.level
         /\ Deliver(p, STP).shown = p.next
<1> DEFINE r == STP
<1>1. r.op = "STP"
  BY Reports
<1> HIDE DEF r
<1>2. Obey(p, r) = [p EXCEPT !.shown = p.next]
  BY <1>1 DEF Obey
<1>3. /\ Deliver(p, r).left = 0 /\ Deliver(p, r).level = p.level
      /\ Deliver(p, r).shown = p.next
  BY <1>2 DEF Deliver, PanelState
<1> QED
  BY <1>3 DEF r

\* The steps that main's calls are made of.
LEMMA MainSteps ==
  /\ INITIALIZE.do = "initialize" /\ EMPTY.do = "empty" /\ Remove(AllKeys).do = "remove"
  /\ \A r \in {Cmd("DIS", 0), Cmd("LIG", 0), Cmd("LIG", 50), Cmd("CLEDC", 0), Cmd("HAN", 0), STP,
               Cle(AllKeys)} :
       Write(r) \in Step /\ Write(r).do = "write" /\ Write(r).report = r
<1>1. Cmd("LIG", 0) \in Command /\ Cmd("LIG", 50) \in Command
  <2>1. 0 \in 0..255 /\ 50 \in 0..255
    OBVIOUS
  <2> QED
    BY <2>1, Reports
<1> QED
  BY <1>1, StepKinds, Reports

\* What comes next in each call.
LEMMA LightingTails ==
  ASSUME NEW s \in LightingRest, s # <<>>
  PROVE  \/ s = SetBrightness(50) /\ Head(s) = INITIALIZE /\ Tail(s) = <<Write(Cmd("LIG", 50))>>
         \/ /\ s # SetBrightness(50) /\ Tail(s) \in LightingRest
            /\ Tail(s) # SetBrightness(50)
            /\ \/ Head(s) = Write(Cmd("DIS", 0)) /\ Tail(s) # <<>>
               \/ Head(s) = Write(Cmd("LIG", 0)) /\ Tail(s) # <<>>
               \/ Head(s) = Write(Cmd("LIG", 50))
<1> DEFINE i == INITIALIZE  d == Write(Cmd("DIS", 0))  z == Write(Cmd("LIG", 0))
           l == Write(Cmd("LIG", 50))
<1>1. i.do = "initialize" /\ d.do = "write" /\ z.do = "write" /\ l.do = "write"
  BY StepKinds, Reports
<1>2. LightingRest = {<<i, l>>, <<d, z, l>>, <<z, l>>, <<l>>, <<>>}
  BY DEF LightingRest
<1>3. SetBrightness(50) = <<i, l>>
  BY Scripts
<1> HIDE DEF i, d, z, l
<1>4. CASE s = <<i, l>>
  BY <1>3, <1>4 DEF i, l
<1>5. CASE s = <<d, z, l>>
  <2>1. s # <<i, l>> /\ Head(s) = d /\ Tail(s) = <<z, l>> /\ <<z, l>> # <<>> /\ <<z, l>> # <<i, l>>
    BY <1>1, <1>5
  <2> QED
    BY <1>2, <1>3, <2>1 DEF d
<1>6. CASE s = <<z, l>>
  <2>1. s # <<i, l>> /\ Head(s) = z /\ Tail(s) = <<l>> /\ <<l>> # <<>> /\ <<l>> # <<i, l>>
    BY <1>1, <1>6
  <2> QED
    BY <1>2, <1>3, <2>1 DEF z
<1>7. CASE s = <<l>>
  <2>1. s # <<i, l>> /\ Head(s) = l /\ Tail(s) = <<>> /\ <<>> # <<i, l>>
    BY <1>1, <1>7
  <2> QED
    BY <1>2, <1>3, <2>1 DEF l
<1> QED
  BY <1>2, <1>4, <1>5, <1>6, <1>7

\* How far the clearing call has come, by what is left of it.
LEMMA ClearingTails ==
  ASSUME NEW s \in ClearingRest
  PROVE  /\ s = <<>> => s \in Committed
         /\ s # <<>> =>
            \/ /\ s \in Clearing /\ Head(s) = INITIALIZE /\ Tail(s) \in Clearing
            \/ /\ s \in Clearing /\ Head(s) = Write(Cle(AllKeys)) /\ Tail(s) \in Cleared
            \/ /\ s \in Cleared /\ Head(s) = Remove(AllKeys)
               /\ \/ ProtocolVersion >= 2 /\ Tail(s) \in Cleared
                  \/ ProtocolVersion < 2 /\ Tail(s) \in Committed
            \/ /\ s \in Cleared /\ Head(s) = Write(STP) /\ Tail(s) \in Committed
            \/ /\ s \in Committed /\ Head(s) = EMPTY /\ Tail(s) \in Committed
         /\ s \in Clearing => s \notin Cleared \cup Committed
         /\ s \in Cleared => s \notin Committed
<1> DEFINE i == INITIALIZE  w == Write(Cle(AllKeys))  r == Remove(AllKeys)  p == Write(STP)
           e == EMPTY
<1>1. /\ i.do = "initialize" /\ w.do = "write" /\ r.do = "remove" /\ p.do = "write"
      /\ e.do = "empty" /\ w # p
  <2>1. Cle(AllKeys) \in Command /\ STP \in Command /\ Cle(AllKeys) # STP
    BY Reports
  <2>2. w.do = "write" /\ p.do = "write" /\ w.report = Cle(AllKeys) /\ p.report = STP
    BY <2>1, StepKinds
  <2> QED
    BY <2>1, <2>2, StepKinds
<1>2. Clearing = IF ProtocolVersion >= 2
                 THEN {<<i, i, w, r, p, e>>, <<i, w, r, p, e>>, <<w, r, p, e>>}
                 ELSE {<<i, i, w, r, e>>, <<i, w, r, e>>, <<w, r, e>>}
  BY DEF Clearing
<1>3. Cleared = IF ProtocolVersion >= 2 THEN {<<r, p, e>>, <<p, e>>} ELSE {<<r, e>>}
  BY DEF Cleared
<1>4. Committed = {<<e>>, <<>>}
  BY DEF Committed
<1>5. s \in Clearing \cup Cleared \cup Committed
  BY DEF ClearingRest
<1>6. ProtocolVersion >= 2 \/ ProtocolVersion < 2
  BY StepsAssumption
<1>7. i = INITIALIZE /\ w = Write(Cle(AllKeys)) /\ r = Remove(AllKeys) /\ p = Write(STP) /\ e = EMPTY
  OBVIOUS
<1> HIDE DEF i, w, r, p, e
<1>8. \A t \in Clearing : t # <<>> /\ Head(t) \in {i, w}
  BY <1>2
<1>9. \A t \in Cleared : t # <<>> /\ Head(t) \in {r, p}
  BY <1>3
<1>10. \A t \in Committed : t # <<>> => Head(t) = e
  <2>1. <<e>> # <<>> /\ Head(<<e>>) = e
    OBVIOUS
  <2> QED
    BY <1>4, <2>1
<1>11. /\ s \in Clearing => s \notin Cleared \cup Committed
       /\ s \in Cleared => s \notin Committed
  BY <1>1, <1>8, <1>9, <1>10
<1>12. CASE s \in Clearing
  <2>1. \/ Head(s) = i /\ Tail(s) \in Clearing
        \/ Head(s) = w /\ Tail(s) \in Cleared
    <3>1. CASE ProtocolVersion >= 2
      <4>1. CASE s = <<i, i, w, r, p, e>>
        BY <1>2, <3>1, <4>1
      <4>2. CASE s = <<i, w, r, p, e>>
        BY <1>2, <3>1, <4>2
      <4>3. CASE s = <<w, r, p, e>>
        BY <1>3, <3>1, <4>3
      <4> QED
        BY <1>2, <1>12, <3>1, <4>1, <4>2, <4>3
    <3>2. CASE ~(ProtocolVersion >= 2)
      <4>1. CASE s = <<i, i, w, r, e>>
        BY <1>2, <3>2, <4>1
      <4>2. CASE s = <<i, w, r, e>>
        BY <1>2, <3>2, <4>2
      <4>3. CASE s = <<w, r, e>>
        BY <1>3, <3>2, <4>3
      <4> QED
        BY <1>2, <1>12, <3>2, <4>1, <4>2, <4>3
    <3> QED
      BY <3>1, <3>2
  <2> QED
    BY <1>7, <1>8, <1>11, <1>12, <2>1
<1>13. CASE s \in Cleared
  <2>1. \/ Head(s) = r /\ ProtocolVersion >= 2 /\ Tail(s) \in Cleared
        \/ Head(s) = r /\ ProtocolVersion < 2 /\ Tail(s) \in Committed
        \/ Head(s) = p /\ Tail(s) \in Committed
    <3>1. CASE ProtocolVersion >= 2
      <4>1. CASE s = <<r, p, e>>
        BY <1>3, <3>1, <4>1
      <4>2. CASE s = <<p, e>>
        BY <1>4, <4>2
      <4> QED
        BY <1>3, <1>13, <3>1, <4>1, <4>2
    <3>2. CASE ~(ProtocolVersion >= 2)
      <4>1. s = <<r, e>>
        BY <1>3, <1>13, <3>2
      <4> QED
        BY <1>4, <1>6, <3>2, <4>1
    <3> QED
      BY <3>1, <3>2
  <2> QED
    BY <1>7, <1>9, <1>11, <1>13, <2>1
<1>14. CASE s \in Committed
  <2>1. s # <<>> => Head(s) = e /\ Tail(s) \in Committed
    <3>1. Head(<<e>>) = e /\ Tail(<<e>>) = <<>>
      OBVIOUS
    <3> QED
      BY <1>4, <1>14, <3>1
  <2> QED
    BY <1>7, <1>11, <1>14, <2>1
<1> QED
  BY <1>5, <1>12, <1>13, <1>14

\* The same for shutdown, whose last report is HAN.
LEMMA StoppingTails ==
  ASSUME NEW s \in StoppingRest, s # <<>>
  PROVE  /\ Tail(s) \in StoppingRest
         /\ \/ Head(s) = INITIALIZE /\ Tail(s) # <<>>
            \/ Head(s) = Write(Cmd("CLEDC", 0)) /\ Tail(s) # <<>>
            \/ Head(s) = Write(Cmd("HAN", 0))
<1> DEFINE i == INITIALIZE  c == Write(Cmd("CLEDC", 0))  h == Write(Cmd("HAN", 0))
<1>1. StoppingRest = {<<i, c, h>>, <<c, h>>, <<h>>, <<>>}
  BY DEF StoppingRest
<1>2. i = INITIALIZE /\ c = Write(Cmd("CLEDC", 0)) /\ h = Write(Cmd("HAN", 0))
  OBVIOUS
<1> HIDE DEF i, c, h
<1>3. CASE s = <<i, c, h>>
  BY <1>1, <1>2, <1>3
<1>4. CASE s = <<c, h>>
  BY <1>1, <1>2, <1>4
<1>5. CASE s = <<h>>
  BY <1>1, <1>2, <1>5
<1> QED
  BY <1>1, <1>3, <1>4, <1>5

\* Steps that leave main, the handle and the panel alone.
LEMMA Elsewhere ==
  ASSUME Calls, UNCHANGED <<stage, todo, initialized, panel, last, failedIn>>,
         reader' # "none" => reader # "none"
  PROVE  Calls'
BY DEF Calls, CallShape, Lit, Asleep, BlankScreen

\* The first call shakes hands and lights the screen.
LEMMA LightingStep ==
  ASSUME TInv, ReaderShape, Calls, stage = "lighting", CallStep
  PROVE  Calls'
<1> USE DEF Calls, CallShape, Lit, Asleep, BlankScreen
<1>1. /\ todo \in LightingRest /\ panel.left = 0 /\ "clearing" \notin failedIn
      /\ todo = SetBrightness(50) <=> ~initialized
      /\ panel \in PanelState /\ stage \notin DOMAIN Open3
  BY Stages DEF TInv, TypeOK
<1>2. SetBrightness(50) = <<INITIALIZE, Write(Cmd("LIG", 50))>>
  BY Scripts
<1>3. CASE Greet
  <2>1. todo = SetBrightness(50) /\ Tail(todo) = <<Write(Cmd("LIG", 50))>>
    <3>1. todo # <<>> /\ Head(todo).do = "initialize"
      BY <1>3, StepKinds DEF Greet
    <3> QED
      BY <1>1, <3>1, LightingTails, MainSteps
  <2>2. todo' = <<Write(Cmd("DIS", 0)), Write(Cmd("LIG", 0))>> \o <<Write(Cmd("LIG", 50))>>
    BY <1>1, <1>3, <2>1 DEF Greet
  <2>3. todo' = <<Write(Cmd("DIS", 0)), Write(Cmd("LIG", 0)), Write(Cmd("LIG", 50))>>
    BY <2>2, TwoAndOne, MainSteps
  <2>4. todo' \in LightingRest /\ todo' # <<>>
    BY <2>3 DEF LightingRest
  <2>5. todo' # SetBrightness(50)
    BY <1>2, <2>3, MainSteps
  <2>6. initialized' = TRUE /\ UNCHANGED <<stage, panel, last, failedIn, reader>>
    BY <1>3 DEF Greet, loop
  <2> QED
    BY <1>1, <2>4, <2>5, <2>6
<1>4. CASE WriteReport
  <2>1. /\ todo # <<>> /\ Head(todo).do = "write" /\ todo' = Tail(todo)
        /\ panel' = Deliver(panel, Head(todo).report)
        /\ UNCHANGED <<stage, initialized, failedIn, reader>>
    BY <1>4 DEF WriteReport, loop
  <2>2. /\ todo # SetBrightness(50) /\ todo' \in LightingRest /\ todo' # SetBrightness(50)
        /\ \/ Head(todo).report = Cmd("DIS", 0) /\ todo' # <<>>
           \/ Head(todo).report = Cmd("LIG", 0) /\ todo' # <<>>
           \/ Head(todo).report = Cmd("LIG", 50)
    BY <1>1, <2>1, LightingTails, MainSteps
  <2>3. panel'.left = 0 /\ (todo' = <<>> => panel'.level = 50)
    <3>1. CASE Head(todo).report = Cmd("DIS", 0) /\ todo' # <<>>
      BY <1>1, <2>1, <3>1, TakesMain
    <3>2. CASE Head(todo).report = Cmd("LIG", 0) /\ todo' # <<>>
      BY <1>1, <2>1, <3>2, TakesMain
    <3>3. CASE Head(todo).report = Cmd("LIG", 50)
      <4>1. /\ Deliver(panel, Cmd("LIG", 50)).left = 0
            /\ Deliver(panel, Cmd("LIG", 50)).level = 50
        BY <1>1, TakesMain
      <4> QED
        BY <2>1, <3>3, <4>1
    <3> QED
      BY <2>2, <3>1, <3>2, <3>3
  <2> QED
    BY <1>1, <2>1, <2>2, <2>3
<1>5. CASE FailWrite
  <2>1. /\ todo # <<>> /\ Head(todo).do = "write" /\ todo' = <<>>
        /\ failedIn' = failedIn \cup {"lighting"}
        /\ UNCHANGED <<stage, initialized, panel, last, reader>>
    BY <1>5 DEF FailWrite, loop
  <2>2. todo # SetBrightness(50)
    BY <1>2, <2>1, StepKinds
  <2>3. todo' \in LightingRest /\ todo' # SetBrightness(50)
    BY <1>2, <2>1 DEF LightingRest
  <2> QED
    BY <1>1, <2>1, <2>2, <2>3
<1>6. CASE TouchCache
  <2>1. todo # <<>> /\ Head(todo).do \in {"remove", "empty"}
    BY <1>6 DEF TouchCache
  <2> QED
    BY <1>1, <2>1, LightingTails, MainSteps
<1>7. CASE CallReturns
  <2>1. /\ todo = <<>> /\ stage' = "clearing" /\ todo' = Call["clearing"]
        /\ UNCHANGED <<initialized, panel, failedIn>>
    BY <1>7, Stages DEF CallReturns, Enter
  <2>2. initialized
    BY <1>1, <1>2, <2>1
  <2>3. todo' \in Clearing
    BY <2>1, Scripts DEF Clearing
  <2>4. todo' \in ClearingRest
    BY <2>3 DEF ClearingRest
  <2>5. todo' \notin Cleared \cup Committed
    BY <2>3, <2>4, ClearingTails
  <2> QED
    BY <1>1, <2>1, <2>2, <2>4, <2>5, Stages
<1> QED
  BY <1>3, <1>4, <1>5, <1>6, <1>7 DEF CallStep

\* The second call clears the screen.
LEMMA ClearingStep ==
  ASSUME TInv, ReaderShape, Calls, stage = "clearing", CallStep
  PROVE  Calls'
<1> USE DEF Calls, CallShape, Lit, Asleep, BlankScreen
<1>1. /\ todo \in ClearingRest /\ panel.left = 0 /\ initialized
      /\ panel \in PanelState /\ stage \notin DOMAIN Open3
      /\ "lighting" \in failedIn \/ panel.level = 50
  BY Stages DEF TInv, TypeOK
<1>2. ASSUME todo # <<>> PROVE Tail(todo) \in ClearingRest
  BY <1>1, <1>2, ClearingTails DEF ClearingRest
<1>3. CASE Greet
  <2>1. todo # <<>> /\ Head(todo).do = "initialize"
    BY <1>3, StepKinds DEF Greet
  <2>2. Tail(todo) \in Clearing
    BY <1>1, <2>1, ClearingTails, StepKinds, Reports
  <2>3. todo' = Tail(todo)
    <3>1. Tail(todo) \in Seq(Step)
      BY <2>1 DEF TInv, TypeOK
    <3>2. todo' = <<>> \o Tail(todo)
      BY <1>1, <1>3 DEF Greet
    <3> QED
      BY <3>1, <3>2, ConcatEmptySeq
  <2>4. todo' \in ClearingRest /\ todo' \notin Cleared \cup Committed
    BY <1>2, <2>1, <2>2, <2>3, ClearingTails
  <2>5. initialized' = TRUE /\ UNCHANGED <<stage, panel, last, failedIn, reader>>
    BY <1>3 DEF Greet, loop
  <2> QED
    BY <1>1, <2>4, <2>5
<1>4. CASE WriteReport
  <2>1. /\ todo # <<>> /\ Head(todo).do = "write" /\ todo' = Tail(todo)
        /\ panel' = Deliver(panel, Head(todo).report)
        /\ UNCHANGED <<stage, initialized, failedIn, reader>>
    BY <1>4 DEF WriteReport, loop
  <2>2. \/ Head(todo) = Write(Cle(AllKeys)) /\ Tail(todo) \in Cleared
        \/ todo \in Cleared /\ Head(todo) = Write(STP) /\ Tail(todo) \in Committed
    BY <1>1, <2>1, ClearingTails, StepKinds
  <2>3. CASE Head(todo) = Write(Cle(AllKeys)) /\ Tail(todo) \in Cleared
    <3>1. Head(todo).report = Cle(AllKeys)
      BY <2>3, StepKinds, Reports
    <3>2. /\ panel'.left = 0 /\ panel'.level = panel.level /\ BlankFrame(panel'.next)
          /\ ProtocolVersion < 2 => BlankFrame(panel'.shown)
      BY <1>1, <2>1, <3>1, TakesClear
    <3>3. todo' \in ClearingRest /\ todo' \in Cleared /\ todo' \notin Committed
      BY <1>2, <2>1, <2>3, ClearingTails
    <3> QED
      BY <1>1, <2>1, <3>2, <3>3
  <2>4. CASE todo \in Cleared /\ Head(todo) = Write(STP) /\ Tail(todo) \in Committed
    <3>1. Head(todo).report = STP
      BY <2>4, StepKinds, Reports
    <3>2. panel'.left = 0 /\ panel'.level = panel.level /\ panel'.shown = panel.next
      BY <1>1, <2>1, <3>1, TakesShow
    <3>3. "clearing" \notin failedIn => BlankFrame(panel.next)
      BY <2>4
    <3>4. todo' \in ClearingRest /\ todo' \in Committed /\ todo' \notin Cleared
      BY <1>2, <2>1, <2>4, ClearingTails
    <3>5. "clearing" \notin failedIn => BlankFrame(panel'.shown)
      BY <3>2, <3>3 DEF BlankFrame
    <3> QED
      BY <1>1, <2>1, <3>2, <3>4, <3>5
  <2> QED
    BY <2>2, <2>3, <2>4
<1>5. CASE FailWrite
  <2>1. /\ todo' = <<>> /\ failedIn' = failedIn \cup {"clearing"}
        /\ UNCHANGED <<stage, initialized, panel, last, reader>>
    BY <1>5 DEF FailWrite, loop
  <2>2. todo' \in ClearingRest
    BY <2>1 DEF ClearingRest, Committed
  <2> QED
    BY <1>1, <2>1, <2>2
<1>6. CASE TouchCache
  <2>1. /\ todo # <<>> /\ Head(todo).do \in {"remove", "empty"} /\ todo' = Tail(todo)
        /\ UNCHANGED <<stage, initialized, panel, last, failedIn, reader>>
    BY <1>6 DEF TouchCache, loop
  <2>2. \/ todo \in Cleared /\ ProtocolVersion >= 2 /\ Tail(todo) \in Cleared
        \/ todo \in Cleared /\ ProtocolVersion < 2 /\ Tail(todo) \in Committed
        \/ todo \in Committed /\ Tail(todo) \in Committed
    <3>1. Head(todo) \notin {INITIALIZE, Write(Cle(AllKeys)), Write(STP)}
      <4>1. Head(todo).do \notin {"initialize", "write"}
        BY <2>1
      <4>2. /\ INITIALIZE.do = "initialize"
            /\ Write(Cle(AllKeys)).do = "write" /\ Write(STP).do = "write"
        BY StepKinds, Reports
      <4> QED
        BY <4>1, <4>2
    <3>2. todo \in ClearingRest /\ todo # <<>>
      BY <1>1, <2>1
    <3>3. \/ /\ todo \in Cleared /\ Head(todo) = Remove(AllKeys)
             /\ \/ ProtocolVersion >= 2 /\ Tail(todo) \in Cleared
                \/ ProtocolVersion < 2 /\ Tail(todo) \in Committed
          \/ todo \in Committed /\ Tail(todo) \in Committed
      BY <3>1, <3>2, ClearingTails, Zenon
    <3> QED
      BY <3>3, Zenon
  <2>3. todo' \in ClearingRest /\ (todo' \in Cleared => todo' \notin Committed)
    BY <1>2, <2>1, ClearingTails
  <2>4. ~(ProtocolVersion >= 2 /\ ProtocolVersion < 2)
    BY StepsAssumption
  <2>5. "clearing" \notin failedIn =>
          /\ todo' \in Cleared => BlankFrame(panel.next)
          /\ todo' \in Cleared /\ ProtocolVersion < 2 => BlankFrame(panel.shown)
          /\ todo' \in Committed => BlankFrame(panel.shown)
    BY <2>1, <2>2, <2>3, <2>4
  <2> QED
    BY <1>1, <2>1, <2>3, <2>5
<1>7. CASE CallReturns
  <2>1. /\ todo = <<>> /\ stage' = "running"
        /\ UNCHANGED <<initialized, panel, failedIn>>
    BY <1>7, Stages DEF CallReturns, Enter
  <2>2. todo \in Committed
    BY <1>1, <2>1, ClearingTails
  <2> QED
    BY <1>1, <2>1, <2>2, Stages
<1> QED
  BY <1>3, <1>4, <1>5, <1>6, <1>7 DEF CallStep

\* The last call sends the panel to sleep.
LEMMA StoppingStep ==
  ASSUME TInv, ReaderShape, Calls, stage = "stopping", CallStep
  PROVE  Calls'
<1> USE DEF Calls, CallShape, Lit, Asleep, BlankScreen
<1>1. /\ todo \in StoppingRest /\ panel.left = 0 /\ initialized
      /\ panel \in PanelState /\ stage \notin DOMAIN Open3
  BY Stages DEF TInv, TypeOK
<1>2. CASE Greet
  <2>1. todo # <<>> /\ Head(todo).do = "initialize"
    BY <1>2, StepKinds DEF Greet
  <2>2. Tail(todo) \in StoppingRest /\ Tail(todo) # <<>>
    BY <1>1, <2>1, StoppingTails, MainSteps
  <2>3. todo' = Tail(todo)
    <3>1. Tail(todo) \in Seq(Step)
      BY <2>1 DEF TInv, TypeOK
    <3>2. todo' = <<>> \o Tail(todo)
      BY <1>1, <1>2 DEF Greet
    <3> QED
      BY <3>1, <3>2, ConcatEmptySeq
  <2>4. initialized' = TRUE /\ UNCHANGED <<stage, panel, last, failedIn, reader>>
    BY <1>2 DEF Greet, loop
  <2> QED
    BY <1>1, <2>2, <2>3, <2>4
<1>3. CASE WriteReport
  <2>1. /\ todo # <<>> /\ Head(todo).do = "write" /\ todo' = Tail(todo)
        /\ panel' = Deliver(panel, Head(todo).report) /\ last' = Head(todo).report
        /\ UNCHANGED <<stage, initialized, failedIn, reader>>
    BY <1>3 DEF WriteReport, loop
  <2>2. /\ todo' \in StoppingRest
        /\ \/ Head(todo).report = Cmd("CLEDC", 0) /\ todo' # <<>>
           \/ Head(todo).report = Cmd("HAN", 0)
    BY <1>1, <2>1, StoppingTails, MainSteps
  <2>3. panel'.left = 0
    <3>1. /\ Deliver(panel, Cmd("CLEDC", 0)).left = 0
          /\ Deliver(panel, Cmd("HAN", 0)).left = 0
      BY <1>1, TakesMain
    <3> QED
      BY <2>1, <2>2, <3>1
  <2> QED
    BY <1>1, <2>1, <2>2, <2>3
<1>4. CASE FailWrite
  <2>1. /\ todo' = <<>> /\ failedIn' = failedIn \cup {"stopping"}
        /\ UNCHANGED <<stage, initialized, panel, last, reader>>
    BY <1>4 DEF FailWrite, loop
  <2>2. todo' \in StoppingRest
    BY <2>1 DEF StoppingRest
  <2> QED
    BY <1>1, <2>1, <2>2
<1>5. CASE TouchCache
  <2>1. todo # <<>> /\ Head(todo).do \in {"remove", "empty"}
    BY <1>5 DEF TouchCache
  <2> QED
    BY <1>1, <2>1, StoppingTails, MainSteps
<1>6. CASE CallReturns
  <2>1. /\ todo = <<>> /\ stage' = "closing"
        /\ UNCHANGED <<initialized, panel, last, failedIn>>
    BY <1>6, Stages DEF CallReturns, Enter
  <2> QED
    BY <1>1, <2>1, Stages
<1> QED
  BY <1>2, <1>3, <1>4, <1>5, <1>6 DEF CallStep

\* No call is under way in the beginning.
LEMMA InitCalls == Init => Calls
BY Stages DEF Init, PanelInit, Calls, CallShape, Lit, Asleep, BlankScreen

\* Each report of a call brings the panel nearer to what the call is for, and
\* nobody else writes.
LEMMA CallsStep == Inv /\ [Next]_vars => Calls'
<1> SUFFICES ASSUME TInv, ReaderShape, Calls, [Next]_vars PROVE Calls'
  BY DEF Inv
<1> USE DEF Calls, CallShape, Lit, Asleep, BlankScreen
<1>1. CASE OpenDevice
  <2>1. /\ stage \in DOMAIN Open3 /\ UNCHANGED <<initialized, panel, last, failedIn, reader>>
        /\ \/ Enter(Open3[stage])
           \/ Enter("over")
    BY <1>1 DEF OpenDevice, loop
  <2>2. ~initialized /\ failedIn = {} /\ panel.left = 0 /\ reader = "none"
    BY <2>1 DEF ReaderShape
  <2>3. \/ stage' \in {"open", "connect"}
        \/ stage' = "lighting" /\ todo' = SetBrightness(50)
        \/ stage' = "over"
    BY <2>1, Stages, Scripts DEF Enter
  <2>4. SetBrightness(50) \in LightingRest /\ SetBrightness(50) # <<>>
    <3>1. SetBrightness(50) = <<INITIALIZE, Write(Cmd("LIG", 50))>>
      BY Scripts
    <3> QED
      BY <3>1 DEF LightingRest
  <2> QED
    BY <2>1, <2>2, <2>3, <2>4, Stages
<1>2. CASE CallStep
  <2>1. stage \in DOMAIN Call
    BY <1>2, StepKinds DEF CallStep, Greet, WriteReport, FailWrite, TouchCache, CallReturns,
       TInv, CallRuns
  <2> QED
    BY <1>2, <2>1, Stages, LightingStep, ClearingStep, StoppingStep
<1>3. CASE TakeSignal
  <2>1. /\ stage = "running" /\ stage' = "stopping" /\ todo' = Call["stopping"]
        /\ UNCHANGED <<initialized, panel, last, failedIn, reader>>
    BY <1>3, Stages DEF TakeSignal, Enter, loop
  <2>2. todo' \in StoppingRest /\ todo' # <<>>
    BY <2>1, Scripts DEF StoppingRest
  <2> QED
    BY <2>1, <2>2, Stages
<1>4. CASE Deferred
  <2>1. /\ stage \in {"closing", "exiting"} /\ stage' \in {"exiting", "over"}
        /\ UNCHANGED <<initialized, panel, last, failedIn, reader>>
    BY <1>4 DEF Deferred, Enter, loop
  <2> QED
    BY <2>1, Stages
<1>5. CASE Signal
  <2>1. /\ \/ UNCHANGED <<stage, todo>>
           \/ stage' = "killed"
        /\ UNCHANGED <<initialized, panel, last, failedIn, reader>>
    BY <1>5 DEF Signal, Enter, loop
  <2>2. CASE UNCHANGED <<stage, todo>>
    BY <2>1, <2>2, Elsewhere
  <2>3. CASE stage' = "killed"
    BY <2>1, <2>3, Stages
  <2> QED
    BY <2>1, <2>2, <2>3
<1>6. CASE HandleEvent \/ Read \/ Forward \/ FailRead \/ Wake \/ (\E k \in Key : EndPost(k))
           \/ UNCHANGED vars
  <2>1. UNCHANGED <<stage, todo, initialized, panel, last, failedIn>>
    BY <1>6 DEF HandleEvent, Read, ReadReport, Forward, FailRead, Wake, EndPost, vars, main
  <2>2. reader' # "none" => reader # "none"
    BY <1>6 DEF HandleEvent, Read, ReadReport, Forward, FailRead, Wake, EndPost, vars, loop
  <2> QED
    BY <2>1, <2>2, Elsewhere
<1> QED
  BY <1>1, <1>2, <1>3, <1>4, <1>5, <1>6 DEF Next, Main

\* Whatever the buttons, the timing of the posts and the signals: the types
\* of main, reader, channel and posts, and the script that main is in the
\* middle of (goport/cmd/ampligame-daemon/main.go:60-213).
THEOREM Invariance == Spec => []Inv
<1>1. Init => Inv
  BY InitTInv, InitReader, InitCalls DEF Inv
<1>2. Inv /\ [Next]_vars => Inv'
  BY TInvStep, ReaderStep, CallsStep DEF Inv
<1> QED
  BY <1>1, <1>2, PTL DEF Spec

\* When main comes to handle events, the brightness is 50 and every key is blank on
\* display, unless a write of the call in charge failed: for every protocol
\* version (main.go:85-91).
THEOREM ScreenStartsClean == Spec => []StartsClean
<1>1. Inv => StartsClean
  BY DEF Inv, Calls, Lit, BlankScreen, BlankFrame, StartsClean
<1> QED
  BY <1>1, Invariance, PTL

\* A daemon that a signal ended has told the panel to power down, and nothing
\* after that, unless a write of Shutdown failed (main.go:101-112).
THEOREM ScreenEndsDark == Spec => []EndsDark
<1>1. Inv => EndsDark
  BY DEF Inv, Calls, Asleep, EndsDark
<1> QED
  BY <1>1, Invariance, PTL
=============================================================================
