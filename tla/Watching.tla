-------------------------------- MODULE Watching --------------------------------
(***************************************************************************)
(* One of the two watchers on a bus where devices come and go.             *)
(***************************************************************************)
EXTENDS RustWatcher, GoWatcher, FiniteSets

VARIABLE code     \* which of the two it is

vars == <<busVars, rust, go, code>>

Wanted == {i \in Interfaces : IF code = "rust" THEN check_device(i, Queries) ELSE MatchesAny(Queries, i)}

\* Types; and `connected', `known' and `view' never hold an interface that no
\* query asked for (src/device.rs:51-64, goport/internal/mirajazz/query.go:34-60).
TypeOK ==
  /\ code \in {"rust", "go"}
  /\ BusTypeOK /\ RustTypeOK /\ GoTypeOK
  /\ view \cup connected \cup known \cup current \subseteq Wanted

Init ==
  /\ code \in {"rust", "go"}
  /\ BusInit /\ RustInit /\ GoInit

Move(d) == PlugOrUnplug(d) /\ UNCHANGED <<rust, go, code>>
InRust(A) == code = "rust" /\ A /\ UNCHANGED <<go, code>>
InGo(A)   == code = "go" /\ A /\ UNCHANGED <<rust, code>>

Next == (\E d \in Device : Move(d)) \/ InRust(RustNext) \/ InGo(GoNext)

Spec == Init /\ [][Next]_vars

\* Both applications follow the events (until ctx is done, in Go), and the
\* backend answers.  A select that finds several channels ready takes any of
\* them, so one that is ready time after time is taken in the end.
Fairness ==
  /\ WF_vars(InRust(Seed \/ Subscribe \/ HandleEvent))
  /\ WF_vars(InGo(Poll \/ Compare))
  /\ WF_vars(InGo(~cancelled /\ Deliver))
  /\ SF_vars(InGo(Close))

FairSpec == Spec /\ Fairness

-----------------------------------------------------------------------------
Hot == INSTANCE HotPlug WITH wanted <- Wanted, present <- Attached

\* A listener starts out with what is attached, and hears news only: whatever
\* devices do meanwhile, never "connected" of an interface it counts as there,
\* never "disconnected" of another (src/device.rs:147-163, goport/internal/
\* mirajazz/hidapi/watcher.go:59-77).
TellsNews == Hot!Spec

\* What the watcher remembers is what it has told, but for the event that is
\* being handed over (src/device.rs:146-157, watcher.go:63-73): an event that was
\* computed and not told, or told and not remembered, would be wrong for good.
KnownIsTold ==
  /\ code = "rust" /\ listening => view = connected
  /\ code = "go" =>
       /\ phase \in {"ticking", "diffing"} => view = known
       /\ phase = "ticking" => known = current
       /\ phase = "sending" =>
            IF offer.up THEN offer.info \notin view /\ known = view \cup {offer.info}
                        ELSE offer.info \in view /\ known = view \ {offer.info}

\* No rumours: when Go tells that an interface has come or gone, it has been
\* there, or away, at some moment since the listener last heard of it, however
\* long the event waited for its receiver (watcher.go:84-92).  Rust promises
\* half of this: "disconnected" may be an event from before the last query.
NoRumours ==
  [][\A i \in Interfaces :
       /\ listening /\ i \in view' \ view => "there" \in since[i]
       /\ listening /\ i \in view \ view' /\ code = "go" => "away" \in since[i]]_vars

Alone(d) == Cardinality(Checked(d)) <= 1

Agree(d) == view \cap Of(d) = Attached \cap Wanted \cap Of(d)

\* Once DeviceWatcher has handled all events, its listener is right about every
\* device: even if it came and went while its event was queued or its query was
\* under way.  Not about one that changed between the enumeration and the start
\* of the events (src/device.rs:113-132), until it changes again; nor about one with
\* several interfaces that match, of which id_map holds one (:146).
Settled ==
  stage = "watching" /\ queue = <<>> =>
    \A d \in Device \ missed : Alone(d) => Agree(d)

\* If devices stop coming and going, the listener is eventually right about them
\* (in Rust, about those that Settled speaks of), for good.
EventuallySeen ==
  <>[](listening => \A d \in Device :
         (code = "rust" => d \notin missed /\ Alone(d)) => Agree(d))

\* Once ctx is done the channel is closed, even if nobody receives the event
\* that is being sent (watcher.go:23, :85-91).
CancelCloses == cancelled /\ listening ~> phase = "closed"
=============================================================================
