---------------------------------- MODULE Bus ----------------------------------
(***************************************************************************)
(* What is plugged in, and what somebody who watches it has been told.     *)
(* The bus itself is external to the code: a device comes or goes at any   *)
(* moment, with all its interfaces, and the operating system queues an     *)
(* event for whoever has subscribed by then.                               *)
(***************************************************************************)
EXTENDS Integers, Sequences, FiniteSets, Query

CONSTANTS
  Device,       \* what can be plugged in
  Interfaces,   \* the HID interfaces of all devices
  Queries,      \* what the application asks for
  MaxChanges,   \* bound: times a device comes or goes
  MaxFaults     \* bound: enumerations and subscriptions that fail

NoInfo == [device |-> "none"]

ASSUME BusAssumption ==
  /\ \A i \in Interfaces : i.device \in Device
  /\ IsFiniteSet(Interfaces) /\ NoInfo.device \notin Device
  /\ {MaxChanges, MaxFaults} \subseteq Nat

VARIABLES
  bus,          \* the devices that are plugged in
  changes, faults,
  stream,       \* the event stream: "none", "late" (asked for after the
                \* devices were enumerated, and not there yet) or "open"
  queue,        \* its events that nobody has taken
  listening, view,      \* see HotPlug
  \* History, read by no action:
  since,        \* since[i]: where i has been since the listener last heard of it
  missed        \* devices that changed while the stream was late, and of which
                \* no event has been handled since

world    == <<bus, changes, stream, queue, missed>>
listener == <<listening, view, since>>
busVars  == <<world, faults, listener>>

Of(d)    == {i \in Interfaces : i.device = d}
Attached == {i \in Interfaces : i.device \in bus}
Place(i) == IF i \in Attached THEN "there" ELSE "away"
Event    == [device : Device, up : BOOLEAN]

BusTypeOK ==
  /\ bus \subseteq Device /\ missed \subseteq Device
  /\ changes \in 0..MaxChanges /\ faults \in 0..MaxFaults
  /\ stream \in {"none", "late", "open"}
  /\ queue \in Seq(Event)
  /\ listening \in BOOLEAN
  /\ view \subseteq Interfaces
  /\ since \in [Interfaces -> SUBSET {"there", "away"}]

BusInit ==
  /\ bus \in SUBSET Device
  /\ changes = 0 /\ faults = 0
  /\ stream = "none" /\ queue = <<>>
  /\ listening = FALSE /\ view = {}
  /\ since = [i \in Interfaces |-> {}]
  /\ missed = {}

PlugOrUnplug(d) ==
  /\ changes < MaxChanges
  /\ changes' = changes + 1
  /\ bus' = IF d \in bus THEN bus \ {d} ELSE bus \cup {d}
  /\ queue' = IF stream = "open" THEN Append(queue, [device |-> d, up |-> d \notin bus]) ELSE queue
  /\ missed' = IF stream = "late" THEN missed \cup {d} ELSE missed
  /\ since' = [i \in Interfaces |-> since[i] \cup (IF i \in Of(d) THEN {Place(i)'} ELSE {})]
  /\ UNCHANGED <<faults, stream, listening, view>>

\* A call of the backend fails.
Fault ==
  /\ faults < MaxFaults
  /\ faults' = faults + 1

\* The listener starts out with the interfaces in found, which are those the
\* watcher itself begins with: what changes between an application's own
\* list_devices and the watcher's enumeration is not modelled.
StartWith(found) ==
  /\ listening' = TRUE
  /\ view' = found
  /\ since' = [i \in Interfaces |-> {Place(i)}]

\* It hears of one.
Tell(i, up) ==
  /\ view' = IF up THEN view \cup {i} ELSE view \ {i}
  /\ since' = [since EXCEPT ![i] = {Place(i)}]
  /\ UNCHANGED listening
=============================================================================
