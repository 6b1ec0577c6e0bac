------------------------------- MODULE GoWatcher -------------------------------
(***************************************************************************)
(* hidapi.Watch (goport/internal/mirajazz/hidapi/watcher.go): a goroutine  *)
(* that enumerates at every tick, compares with what it knows and hands    *)
(* the differences over, one by one, on an unbuffered channel.             *)
(***************************************************************************)
EXTENDS Bus

VARIABLES
  known,        \* the interfaces of the last enumeration, and its updates
  current,      \* the last enumeration (`seen')
  phase,        \* where the goroutine is
  offer,        \* the event send wants to hand over
  cancelled     \* ctx is done

go == <<known, current, phase, offer, cancelled>>

LifecycleEvent == [info : Interfaces, up : BOOLEAN]
NoOffer        == [info |-> NoInfo, up |-> FALSE]

\* Faulty variant of List: the queries are forgotten.
ListAll == Attached

\* What is attached and matches.
List == {i \in Attached : MatchesAny(Queries, i)}

GoTypeOK ==
  /\ known \subseteq Interfaces /\ current \subseteq Interfaces
  /\ phase \in {"idle", "failed", "ticking", "diffing", "sending", "closed"}
  /\ offer \in LifecycleEvent \cup {NoOffer}
  /\ cancelled \in BOOLEAN

GoInit ==
  /\ known = {} /\ current = {}
  /\ phase = "idle"
  /\ offer = NoOffer
  /\ cancelled = FALSE

\* Watch returns once the known set is seeded, or with the error of List.
SeedKnown ==
  /\ phase = "idle"
  /\ \/ /\ known' = List /\ current' = known'
        /\ StartWith(known')
        /\ phase' = "ticking"
        /\ UNCHANGED faults
     \/ Fault /\ phase' = "failed" /\ UNCHANGED <<known, current, listener>>
  /\ UNCHANGED <<world, offer, cancelled>>

Cancel ==
  /\ ~cancelled /\ cancelled' = TRUE
  /\ UNCHANGED <<busVars, known, current, phase, offer>>

\* Faulty variant of Poll: the empty list that comes with an error is compared.
PollEmpty ==
  /\ phase = "ticking" /\ phase' = "diffing"
  /\ \/ current' = List /\ UNCHANGED faults
     \/ Fault /\ current' = {}
  /\ UNCHANGED <<world, listener, known, offer, cancelled>>

\* Faulty variant of Poll: the goroutine returns when List fails.
PollOnce ==
  /\ phase = "ticking"
  /\ \/ current' = List /\ phase' = "diffing" /\ UNCHANGED faults
     \/ Fault /\ phase' = "failed" /\ UNCHANGED current
  /\ UNCHANGED <<world, listener, known, offer, cancelled>>

\* A tick; when List fails it is skipped.
Poll ==
  /\ phase = "ticking"
  /\ \/ current' = List /\ phase' = "diffing" /\ UNCHANGED faults
     \/ Fault /\ UNCHANGED <<current, phase>>
  /\ UNCHANGED <<world, listener, known, offer, cancelled>>

\* Faulty variant of Discover: what is new is told, and not remembered.
DiscoverForgets(i) ==
  /\ phase = "diffing"
  /\ i \in current \ known
  /\ UNCHANGED known
  /\ offer' = [info |-> i, up |-> TRUE]
  /\ phase' = "sending"
  /\ UNCHANGED <<busVars, current, cancelled>>

\* First what is new, then, in any order, what has gone.
Discover(i) ==
  /\ phase = "diffing"
  /\ i \in current \ known
  /\ known' = known \cup {i}
  /\ offer' = [info |-> i, up |-> TRUE]
  /\ phase' = "sending"
  /\ UNCHANGED <<busVars, current, cancelled>>

Vanish(i) ==
  /\ phase = "diffing"
  /\ current \subseteq known
  /\ i \in known \ current
  /\ known' = known \ {i}
  /\ offer' = [info |-> i, up |-> FALSE]
  /\ phase' = "sending"
  /\ UNCHANGED <<busVars, current, cancelled>>

Compared ==
  /\ phase = "diffing"
  /\ current = known
  /\ phase' = "ticking"
  /\ UNCHANGED <<busVars, known, current, offer, cancelled>>

\* The application receives.
Deliver ==
  /\ phase = "sending"
  /\ Tell(offer.info, offer.up)
  /\ offer' = NoOffer
  /\ phase' = "diffing"
  /\ UNCHANGED <<world, faults, known, current, cancelled>>

\* Faulty variant of Close: send waits for the receiver whatever ctx says.
CloseBetweenTicks ==
  /\ cancelled
  /\ phase = "ticking"
  /\ phase' = "closed" /\ listening' = FALSE
  /\ offer' = NoOffer
  /\ UNCHANGED <<world, faults, view, since, known, current, cancelled>>

\* Both selects notice that ctx is done; events is closed.
Close ==
  /\ cancelled
  /\ phase \in {"ticking", "sending"}
  /\ phase' = "closed" /\ listening' = FALSE
  /\ offer' = NoOffer
  /\ UNCHANGED <<world, faults, view, since, known, current, cancelled>>

Compare == Compared \/ \E i \in Interfaces : Discover(i) \/ Vanish(i)
GoNext  == SeedKnown \/ Cancel \/ Poll \/ Compare \/ Deliver \/ Close
=============================================================================
