-------------------------------- MODULE HotPlug --------------------------------
(***************************************************************************)
(* What a hot-plug watcher promises, and neither says more nor less: a     *)
(* listener starts out with the wanted interfaces that are there at that   *)
(* moment, of which it is told nothing, and everything it is told is news: *)
(* "connected" of an interface it does not count as there, "disconnected"  *)
(* of one it does.  How late the news is, is left open.                    *)
(***************************************************************************)
VARIABLES
  wanted,       \* the interfaces that match the queries
  present,      \* the interfaces that are attached
  listening,    \* somebody follows the events
  view          \* the interfaces the listener counts as there

hotplug == <<wanted, present, listening, view>>

Init ==
  /\ listening = FALSE
  /\ view = {}

Attach == UNCHANGED <<wanted, listening, view>>

Start ==
  /\ ~listening /\ listening'
  /\ view' = present \cap wanted
  /\ UNCHANGED <<wanted, present>>

TellConnected(i) ==
  /\ listening
  /\ i \notin view
  /\ view' = view \cup {i}
  /\ UNCHANGED <<wanted, present, listening>>

TellDisconnected(i) ==
  /\ listening
  /\ i \in view
  /\ view' = view \ {i}
  /\ UNCHANGED <<wanted, present, listening>>

Stop ==
  /\ listening /\ ~listening'
  /\ UNCHANGED <<wanted, present, view>>

Next ==
  \/ Attach \/ Start \/ Stop
  \/ \E i \in wanted : TellConnected(i) \/ TellDisconnected(i)

Spec == Init /\ [][Next]_hotplug
=============================================================================
