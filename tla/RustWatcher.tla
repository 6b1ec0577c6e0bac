------------------------------ MODULE RustWatcher ------------------------------
(***************************************************************************)
(* DeviceWatcher (src/device.rs): enumerate once, then follow the events   *)
(* of the operating system.  An event carries a device id; `id_map' and    *)
(* `connected' remember which interfaces the ids stood for.                *)
(***************************************************************************)
EXTENDS Bus

VARIABLES
  initialized, id_map, connected,    \* the fields of DeviceWatcher
  stage,        \* how far watch, and then the handling of an event, is
  asked         \* the device that query_devices is asked for

rust == <<initialized, id_map, connected, stage, asked>>

Checked(d) == {i \in Of(d) : check_device(i, Queries)}

RustTypeOK ==
  /\ initialized \in BOOLEAN
  /\ id_map \in [Device -> Interfaces \cup {NoInfo}]
  /\ connected \subseteq Interfaces
  /\ stage \in {"idle", "called", "seeded", "watching", "querying", "refused", "panicked"}
  /\ asked \in Device \cup {NoInfo}

RustInit ==
  /\ initialized = FALSE
  /\ id_map = [d \in Device |-> NoInfo]
  /\ connected = {}
  /\ stage = "idle"
  /\ asked = NoInfo

\* Faulty variant of Watch: the flag is set and never looked at.
WatchAnyTime ==
  /\ stage = "idle"
  /\ initialized' = TRUE
  /\ stage' = "called"
  /\ UNCHANGED <<busVars, id_map, connected, asked>>

\* Once per watcher, whatever becomes of it.
Watch ==
  /\ stage = "idle"
  /\ initialized' = TRUE
  /\ stage' = IF initialized THEN "refused" ELSE "called"
  /\ UNCHANGED <<busVars, id_map, connected, asked>>

\* An id has several interfaces, of which the last one inserted stays in id_map.
Seed ==
  /\ stage = "called"
  /\ LET found == {i \in Attached : check_device(i, Queries)} IN
       /\ connected' = connected \cup found
       /\ id_map' \in [Device -> found \cup {NoInfo}]
       /\ \A d \in Device :
            IF Of(d) \cap found = {} THEN id_map'[d] = id_map[d] ELSE id_map'[d] \in Of(d) \cap found
  /\ StartWith(connected')
  /\ stage' = "seeded" /\ stream' = "late"
  /\ UNCHANGED <<initialized, asked, bus, changes, faults, queue, missed>>

Subscribe ==
  /\ stage = "seeded"
  /\ stage' = "watching" /\ stream' = "open"
  /\ UNCHANGED <<initialized, id_map, connected, asked, bus, changes, faults, queue, missed, listener>>

\* watch returns an error, and the flag stays set.
FailWatch ==
  /\ stage \in {"called", "seeded"}
  /\ Fault
  /\ stage' = "idle" /\ stream' = "none"
  /\ listening' = FALSE
  /\ UNCHANGED <<initialized, id_map, connected, asked, bus, changes, queue, missed, view, since>>

\* The application lets go of the stream.
DropStream ==
  /\ stage \in {"watching", "querying"}
  /\ stage' = "idle" /\ asked' = NoInfo
  /\ stream' = "none" /\ queue' = <<>>
  /\ listening' = FALSE
  /\ UNCHANGED <<initialized, id_map, connected, bus, changes, faults, missed, view, since>>

TakeConnected ==
  /\ stage = "watching"
  /\ queue # <<>> /\ Head(queue).up
  /\ asked' = Head(queue).device
  /\ queue' = Tail(queue)
  /\ stage' = "querying"
  /\ UNCHANGED <<initialized, id_map, connected, bus, changes, faults, stream, missed, listener>>

\* The device may be gone by now, and then nothing is found; of several
\* interfaces the last is taken.
AnswerQuery ==
  /\ stage = "querying"
  /\ missed' = missed \ {asked}
  /\ \/ \E i \in Checked(asked) \cap Attached :
          /\ id_map' = [id_map EXCEPT ![asked] = i]
          /\ connected' = connected \cup {i}
          /\ IF i \in connected THEN UNCHANGED listener ELSE Tell(i, TRUE)
     \/ /\ Checked(asked) \cap Attached = {}
        /\ UNCHANGED <<id_map, connected, listener>>
  /\ stage' = "watching" /\ asked' = NoInfo
  /\ UNCHANGED <<initialized, bus, changes, faults, stream, queue>>

\* The backend reports an error, which is unwrapped: it fails, or does not find
\* a device that is gone.
QueryPanics ==
  /\ stage = "querying"
  /\ Fault \/ (asked \notin bus /\ UNCHANGED faults)
  /\ stage' = "panicked" /\ asked' = NoInfo
  /\ stream' = "none" /\ queue' = <<>>
  /\ listening' = FALSE
  /\ UNCHANGED <<initialized, id_map, connected, bus, changes, missed, view, since>>

\* Faulty variant of TakeDisconnected: the id is forgotten, the interface is not.
TakeDisconnectedHalf ==
  /\ stage = "watching"
  /\ queue # <<>> /\ ~Head(queue).up
  /\ LET d == Head(queue).device IN
       /\ id_map' = [id_map EXCEPT ![d] = NoInfo]
       /\ missed' = missed \ {d}
       /\ UNCHANGED <<connected, listener>>
  /\ queue' = Tail(queue)
  /\ UNCHANGED <<initialized, stage, asked, bus, changes, faults, stream>>

TakeDisconnected ==
  /\ stage = "watching"
  /\ queue # <<>> /\ ~Head(queue).up
  /\ LET d == Head(queue).device IN
       /\ id_map' = [id_map EXCEPT ![d] = NoInfo]
       /\ connected' = connected \ {id_map[d]}
       /\ missed' = missed \ {d}
       /\ IF id_map[d] \in connected THEN Tell(id_map[d], FALSE) ELSE UNCHANGED listener
  /\ queue' = Tail(queue)
  /\ UNCHANGED <<initialized, stage, asked, bus, changes, faults, stream>>

HandleEvent == TakeConnected \/ AnswerQuery \/ QueryPanics \/ TakeDisconnected
RustNext == Watch \/ Seed \/ Subscribe \/ FailWatch \/ DropStream \/ HandleEvent
=============================================================================
