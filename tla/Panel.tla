-------------------------------- MODULE Panel --------------------------------
(***************************************************************************)
(* The controller at the other end of the cable, as far as the code shows  *)
(* it.  There is no acknowledgement on the write path: all the panel ever  *)
(* sees is the order of the reports.                                       *)
(*                                                                         *)
(*  - A BAT header announces a key and a length; the reports that follow   *)
(*    carry only image bytes, no header of their own, so the panel takes   *)
(*    the announced number of reports as data whatever they are.           *)
(*  - A finished image, or a CLE, changes the next frame; STP shows it.    *)
(*    Below protocol version 2 a CLE needs no STP.                         *)
(*  - DIS, then LIG, is the handshake; MOD may come before it.             *)
(***************************************************************************)
EXTENDS DeviceSteps, FiniteSets

CONSTANTS
  Blank,      \* a key that shows nothing
  Garbled,    \* a key whose image was mixed with other reports
  Factory     \* whatever a key showed before the handle was opened

ASSUME PanelAssumption ==
  /\ Blank \notin Image
  /\ Garbled \notin Image \cup {Blank}
  /\ Factory \notin Image \cup {Blank, Garbled}

Face == Image \cup {Blank, Garbled, Factory}

PanelState ==
  [ left      : Nat,                     \* data reports still expected
    at        : 0..255,                  \* key byte of the open transfer
    img       : Image \cup {NoImage},    \* image of the open transfer
    clean     : BOOLEAN,                 \* only its own data so far
    next      : [Key -> Face],           \* the frame being prepared
    shown     : [Key -> Face],           \* the frame on display
    level     : 0..255,                  \* brightness, 0 when dark
    swallowed : BOOLEAN,                 \* a command was taken as image data
    greetings : Nat,                     \* DIS reports received
    ready     : BOOLEAN,                 \* DIS and LIG received
    early     : BOOLEAN ]                \* something preceded the handshake

PanelInit ==
  [ left |-> 0, at |-> 0, img |-> NoImage, clean |-> TRUE,
    next |-> [k \in Key |-> Factory], shown |-> [k \in Key |-> Factory],
    level |-> 100, swallowed |-> FALSE, greetings |-> 0, ready |-> FALSE,
    early |-> FALSE ]

\* The frame once key byte b has been given face f.
Paint(frame, b, f) == [k \in Key |-> IF k + 1 = b THEN f ELSE frame[k]]

\* Inside a transfer every report counts as data.
Absorb(p, r) ==
  LET ok   == p.clean /\ r.op = "DATA" /\ r.img = p.img
      last == p.left = 1
  IN  [p EXCEPT !.left      = @ - 1,
                !.clean     = ok,
                !.swallowed = @ \/ r.op # "DATA",
                !.next      = IF last
                              THEN Paint(@, p.at, IF ok THEN p.img ELSE Garbled)
                              ELSE @]

Open(p, r) ==
  [p EXCEPT !.left = Chunks[r.img], !.at = r.arg, !.img = r.img, !.clean = TRUE,
            !.next = IF Chunks[r.img] = 0 THEN Paint(@, r.arg, r.img) ELSE @]

Wipe(p, r) ==
  LET wiped(frame) == IF r.arg = 255 THEN [k \in Key |-> Blank]
                                     ELSE Paint(frame, r.arg, Blank)
  IN  [p EXCEPT !.next  = wiped(@),
                !.shown = IF ProtocolVersion >= 2 THEN @ ELSE wiped(@)]

\* What a report outside a transfer does; data outside one is ignored.
Obey(p, r) ==
  CASE r.op = "BAT" -> Open(p, r)
    [] r.op = "CLE" -> Wipe(p, r)
    [] r.op = "STP" -> [p EXCEPT !.shown = p.next]
    [] r.op = "DIS" -> [p EXCEPT !.greetings = @ + 1]
    [] r.op = "LIG" -> [p EXCEPT !.level = r.arg, !.ready = p.greetings > 0]
    [] OTHER        -> p

\* What may come while the panel is not ready: DIS, the LIG that answers it,
\* and MOD.
Expected(p, r) == r.op \in {"DIS", "MOD"} \/ (r.op = "LIG" /\ p.greetings > 0)

Deliver(p, r) ==
  IF p.left > 0
  THEN Absorb(p, r)
  ELSE [Obey(p, r) EXCEPT
          !.early = @ \/ (~p.ready /\ ~Expected(p, r))]
=============================================================================
