---------------------------- MODULE Watching_proofs ----------------------------
(***************************************************************************)
(* Theorems about the two watchers: for any devices, interfaces and        *)
(* queries, a listener is told news and nothing else.                      *)
(***************************************************************************)
EXTENDS Watching, FiniteSetTheorems, TLAPS

\* Somebody listens exactly while DeviceWatcher has a stream, or the goroutine
\* has not ended; a DeviceWatcher that has not enumerated remembers nothing.
Listening ==
  /\ code = "rust" => (listening <=> stage \in {"seeded", "watching", "querying"})
  /\ code = "go" => (listening <=> phase \in {"ticking", "diffing", "sending"})
  /\ initialized \/ stage = "idle"
  /\ stage = "called" \/ ~initialized => connected = {}

IInv == TypeOK /\ Listening /\ KnownIsTold

-----------------------------------------------------------------------------
(* Lemmas.                                                                 *)

\* What the queries select does not change.
LEMMA WantedStays == code' = code => Wanted' = Wanted
BY DEF Wanted

\* Rust follows a device through the interfaces its queries match.
LEMMA RustWants ==
  ASSUME code = "rust"
  PROVE  /\ \A d : Checked(d) \subseteq Wanted /\ Checked(d) \subseteq Interfaces
         /\ {i \in Attached : check_device(i, Queries)} = Attached \cap Wanted
BY DEF Wanted, Checked, Of, Attached

\* Go polls for exactly the interfaces that match.
LEMMA GoWants == code = "go" => List = Attached \cap Wanted
BY DEF Wanted, List, Attached

\* What is told keeps the type of what the listener knows.
LEMMA TellTypes ==
  ASSUME BusTypeOK, NEW i \in Interfaces, NEW up \in BOOLEAN, Tell(i, up)
  PROVE  /\ listening' = listening
         /\ view' = IF up THEN view \cup {i} ELSE view \ {i}
         /\ view' \subseteq Interfaces
         /\ since' \in [Interfaces -> SUBSET {"there", "away"}]
<1>1. listening' = listening /\ view' = IF up THEN view \cup {i} ELSE view \ {i}
  BY DEF Tell
<1>2. view' \subseteq Interfaces
  BY <1>1 DEF BusTypeOK
<1>3. since' \in [Interfaces -> SUBSET {"there", "away"}]
  BY DEF Tell, BusTypeOK, Place
<1> QED
  BY <1>1, <1>2, <1>3

\* What the watcher does not touch keeps its type.
LEMMA SameRust == RustTypeOK /\ UNCHANGED rust => RustTypeOK'
BY DEF rust, RustTypeOK

\* A step of nobody leaves the Go watcher's types alone.
LEMMA SameGo == GoTypeOK /\ UNCHANGED go => GoTypeOK'
BY DEF go, GoTypeOK

\* And those of the bus.
LEMMA SameBus == BusTypeOK /\ UNCHANGED busVars => BusTypeOK'
BY DEF busVars, world, listener, BusTypeOK

\* The beginning.
LEMMA InitIInv == Init => IInv
<1> SUFFICES ASSUME Init PROVE IInv
  OBVIOUS
<1> USE DEF Init, BusInit, RustInit, GoInit
<1>1. BusTypeOK
  <2>1. changes \in 0..MaxChanges /\ faults \in 0..MaxFaults
    BY BusAssumption
  <2>2. since \in [Interfaces -> SUBSET {"there", "away"}] /\ queue \in Seq(Event)
    OBVIOUS
  <2> QED
    BY <2>1, <2>2 DEF BusTypeOK
<1>2. RustTypeOK /\ GoTypeOK
  BY DEF RustTypeOK, GoTypeOK
<1>3. TypeOK
  BY <1>1, <1>2 DEF TypeOK
<1>4. Listening /\ KnownIsTold
  BY DEF Listening, KnownIsTold
<1> QED
  BY <1>3, <1>4 DEF IInv

\* A device comes or goes: the watchers notice nothing yet.
LEMMA MoveStep ==
  ASSUME IInv, NEW d \in Device, Move(d)
  PROVE  IInv'
<1> USE DEF IInv, TypeOK, Move, PlugOrUnplug
<1>1. queue' \in Seq(Event)
  <2>1. queue \in Seq(Event) /\ [device |-> d, up |-> d \notin bus] \in Event
    BY DEF BusTypeOK, Event
  <2> QED
    BY <2>1
<1>2. since' \in [Interfaces -> SUBSET {"there", "away"}]
  BY DEF BusTypeOK, Place
<1>3. changes' \in 0..MaxChanges
  BY BusAssumption DEF BusTypeOK
<1>4. BusTypeOK'
  BY <1>1, <1>2, <1>3 DEF BusTypeOK
<1>5. RustTypeOK' /\ GoTypeOK'
  BY SameRust, SameGo
<1>6. TypeOK'
  BY <1>4, <1>5, WantedStays DEF rust, go
<1>7. Listening' /\ KnownIsTold'
  BY DEF Listening, KnownIsTold, rust, go
<1> QED
  BY <1>6, <1>7

-----------------------------------------------------------------------------
(* DeviceWatcher.                                                          *)

\* A step of DeviceWatcher keeps the invariant if it does so with the part of
\* the state that Go does not have.
LEMMA RustPart ==
  ASSUME IInv, code = "rust", UNCHANGED <<go, code>>,
         BusTypeOK', RustTypeOK', Listening',
         connected' \subseteq Wanted, view' \subseteq Wanted,
         listening' => view' = connected'
  PROVE  IInv'
<1>1. GoTypeOK'
  BY SameGo DEF IInv, TypeOK
<1>2. TypeOK'
  BY <1>1, WantedStays DEF IInv, TypeOK, go
<1>3. KnownIsTold'
  BY DEF KnownIsTold
<1> QED
  BY <1>2, <1>3 DEF IInv

\* Rust: start to watch.
LEMMA WatchStep == IInv /\ InRust(Watch) => IInv'
<1> SUFFICES ASSUME IInv, InRust(Watch) PROVE IInv'
  OBVIOUS
<1>u. /\ BusTypeOK /\ RustTypeOK /\ Listening /\ KnownIsTold
      /\ code = "rust" /\ UNCHANGED <<go, code>>
      /\ view \subseteq Wanted /\ connected \subseteq Wanted
  BY DEF IInv, TypeOK, InRust
<1> USE <1>u DEF InRust, Watch
<1>1. BusTypeOK'
  BY SameBus
<1>2. RustTypeOK'
  BY DEF RustTypeOK
<1>3. UNCHANGED <<connected, view, listening>>
  BY DEF busVars, listener
<1>4. Listening'
  BY <1>3 DEF Listening, go
<1> QED
  BY <1>1, <1>2, <1>3, <1>4, RustPart DEF KnownIsTold

\* Rust: remember what is already there.
LEMMA SeedStep == IInv /\ InRust(Seed) => IInv'
<1> SUFFICES ASSUME IInv, InRust(Seed) PROVE IInv'
  OBVIOUS
<1>u. /\ BusTypeOK /\ RustTypeOK /\ Listening /\ KnownIsTold
      /\ code = "rust" /\ UNCHANGED <<go, code>>
      /\ view \subseteq Wanted /\ connected \subseteq Wanted
  BY DEF IInv, TypeOK, InRust
<1> USE <1>u
<1> DEFINE found == {i \in Attached : check_device(i, Queries)}
<1>1. found \subseteq Wanted /\ found \subseteq Interfaces
  BY RustWants DEF Attached
<1>2. /\ stage = "called" /\ stage' = "seeded" /\ stream' = "late"
      /\ connected' = connected \cup found
      /\ id_map' \in [Device -> found \cup {NoInfo}]
      /\ listening' = TRUE /\ view' = connected'
      /\ since' = [i \in Interfaces |-> {Place(i)}]
      /\ UNCHANGED <<initialized, asked, bus, changes, faults, queue, missed>>
  BY DEF InRust, Seed, StartWith
<1> HIDE DEF found
<1>3. since' \in [Interfaces -> SUBSET {"there", "away"}]
  BY <1>2 DEF Place
<1>4. connected' \subseteq Wanted /\ connected' \subseteq Interfaces
  BY <1>1, <1>2 DEF RustTypeOK
<1>5. BusTypeOK'
  BY <1>2, <1>3, <1>4 DEF BusTypeOK
<1>6. RustTypeOK'
  <2>1. id_map' \in [Device -> Interfaces \cup {NoInfo}]
    BY <1>1, <1>2
  <2> QED
    BY <1>2, <1>4, <2>1 DEF RustTypeOK
<1>7. Listening'
  BY <1>2 DEF Listening, go
<1> QED
  BY <1>2, <1>4, <1>5, <1>6, <1>7, RustPart

\* Rust: subscribe to what comes and goes.
LEMMA SubscribeStep == IInv /\ InRust(Subscribe) => IInv'
<1> SUFFICES ASSUME IInv, InRust(Subscribe) PROVE IInv'
  OBVIOUS
<1>u. /\ BusTypeOK /\ RustTypeOK /\ Listening /\ KnownIsTold
      /\ code = "rust" /\ UNCHANGED <<go, code>>
      /\ view \subseteq Wanted /\ connected \subseteq Wanted
  BY DEF IInv, TypeOK, InRust
<1> USE <1>u DEF InRust, Subscribe
<1>1. UNCHANGED <<connected, view, listening>>
  BY DEF listener
<1>2. BusTypeOK'
  BY DEF BusTypeOK, listener
<1>3. RustTypeOK'
  BY DEF RustTypeOK
<1>4. Listening'
  BY <1>1 DEF Listening, go
<1> QED
  BY <1>1, <1>2, <1>3, <1>4, RustPart DEF KnownIsTold

\* The stream ends: the watch fails, or the application lets go of it, or the
\* query panics.
LEMMA EndStep ==
  ASSUME IInv, InRust(FailWatch \/ DropStream \/ QueryPanics)
  PROVE  IInv'
<1>u. /\ BusTypeOK /\ RustTypeOK /\ Listening /\ KnownIsTold
      /\ code = "rust" /\ UNCHANGED <<go, code>>
      /\ view \subseteq Wanted /\ connected \subseteq Wanted
  BY DEF IInv, TypeOK, InRust
<1> USE <1>u DEF InRust, FailWatch, DropStream, QueryPanics
<1>1. ~listening' /\ UNCHANGED <<connected, view, since, initialized, id_map, bus, changes, missed>>
  OBVIOUS
<1>2. queue' \in Seq(Event)
  <2>1. CASE FailWatch
    BY <2>1 DEF BusTypeOK
  <2>2. CASE DropStream
    BY <2>2
  <2>3. CASE QueryPanics
    BY <2>3
  <2> QED
    BY <2>1, <2>2, <2>3 DEF InRust
<1>3. faults' \in 0..MaxFaults
  BY BusAssumption DEF BusTypeOK, Fault
<1>4. BusTypeOK'
  BY <1>1, <1>2, <1>3 DEF BusTypeOK
<1>5. RustTypeOK'
  BY DEF RustTypeOK
<1>6. Listening'
  BY <1>1 DEF Listening, go
<1> QED
  BY <1>1, <1>4, <1>5, <1>6, RustPart

\* Rust: a device has come.
LEMMA TakeConnectedStep == IInv /\ InRust(TakeConnected) => IInv'
<1> SUFFICES ASSUME IInv, InRust(TakeConnected) PROVE IInv'
  OBVIOUS
<1>u. /\ BusTypeOK /\ RustTypeOK /\ Listening /\ KnownIsTold
      /\ code = "rust" /\ UNCHANGED <<go, code>>
      /\ view \subseteq Wanted /\ connected \subseteq Wanted
  BY DEF IInv, TypeOK, InRust
<1> USE <1>u DEF InRust, TakeConnected
<1>1. UNCHANGED <<connected, view, listening>>
  BY DEF listener
<1>2. asked' \in Device /\ queue' \in Seq(Event)
  <2>1. queue \in Seq(Event) /\ queue # <<>>
    BY DEF BusTypeOK
  <2>2. Head(queue) \in Event /\ Tail(queue) \in Seq(Event)
    BY <2>1
  <2>3. Head(queue).device \in Device
    BY <2>2 DEF Event
  <2> QED
    BY <2>2, <2>3
<1>3. BusTypeOK'
  BY <1>2 DEF BusTypeOK, listener
<1>4. RustTypeOK'
  BY <1>2 DEF RustTypeOK
<1>5. Listening'
  BY <1>1 DEF Listening, go
<1> QED
  BY <1>1, <1>3, <1>4, <1>5, RustPart DEF KnownIsTold

\* Rust: the backend answers about it, or fails.
LEMMA AnswerQueryStep == IInv /\ InRust(AnswerQuery) => IInv'
<1> SUFFICES ASSUME IInv, InRust(AnswerQuery) PROVE IInv'
  OBVIOUS
<1>u. /\ BusTypeOK /\ RustTypeOK /\ Listening /\ KnownIsTold
      /\ code = "rust" /\ UNCHANGED <<go, code>>
      /\ view \subseteq Wanted /\ connected \subseteq Wanted
  BY DEF IInv, TypeOK, InRust
<1> USE <1>u
<1>0. /\ stage = "querying" /\ stage' = "watching" /\ asked' = NoInfo
      /\ missed' = missed \ {asked}
      /\ UNCHANGED <<initialized, bus, changes, faults, stream, queue>>
  BY DEF InRust, AnswerQuery
<1>1. listening /\ view = connected
  BY <1>0 DEF Listening, KnownIsTold
<1>2. /\ listening' = listening /\ view' = connected'
      /\ connected' \subseteq Wanted /\ connected' \subseteq Interfaces
      /\ id_map' \in [Device -> Interfaces \cup {NoInfo}]
      /\ since' \in [Interfaces -> SUBSET {"there", "away"}]
  <2>1. CASE UNCHANGED <<id_map, connected, listener>>
    BY <1>1, <2>1 DEF listener, BusTypeOK, RustTypeOK
  <2>2. ASSUME NEW i \in Checked(asked),
               id_map' = [id_map EXCEPT ![asked] = i],
               connected' = connected \cup {i},
               IF i \in connected THEN UNCHANGED listener ELSE Tell(i, TRUE)
        PROVE  /\ listening' = listening /\ view' = connected'
               /\ connected' \subseteq Wanted /\ connected' \subseteq Interfaces
               /\ id_map' \in [Device -> Interfaces \cup {NoInfo}]
               /\ since' \in [Interfaces -> SUBSET {"there", "away"}]
    <3>1. i \in Wanted /\ i \in Interfaces
      BY RustWants
    <3>2. connected' \subseteq Wanted /\ connected' \subseteq Interfaces
      BY <2>2, <3>1 DEF RustTypeOK
    <3>3. id_map' \in [Device -> Interfaces \cup {NoInfo}]
      BY <2>2, <3>1 DEF RustTypeOK
    <3>4. CASE i \in connected
      BY <1>1, <2>2, <3>2, <3>3, <3>4 DEF listener, BusTypeOK
    <3>5. CASE Tell(i, TRUE)
      BY <1>1, <2>2, <3>1, <3>2, <3>3, <3>5, TellTypes
    <3> QED
      BY <2>2, <3>4, <3>5
  <2> QED
    BY <2>1, <2>2 DEF InRust, AnswerQuery
<1>3. BusTypeOK'
  BY <1>0, <1>1, <1>2 DEF BusTypeOK
<1>4. RustTypeOK'
  BY <1>0, <1>2 DEF RustTypeOK
<1>5. Listening'
  BY <1>0, <1>1, <1>2 DEF Listening, go
<1> QED
  BY <1>2, <1>3, <1>4, <1>5, RustPart

\* Rust: a device has gone.
LEMMA TakeDisconnectedStep == IInv /\ InRust(TakeDisconnected) => IInv'
<1> SUFFICES ASSUME IInv, InRust(TakeDisconnected) PROVE IInv'
  OBVIOUS
<1>u. /\ BusTypeOK /\ RustTypeOK /\ Listening /\ KnownIsTold
      /\ code = "rust" /\ UNCHANGED <<go, code>>
      /\ view \subseteq Wanted /\ connected \subseteq Wanted
  BY DEF IInv, TypeOK, InRust
<1> USE <1>u
<1> DEFINE d == Head(queue).device
<1>0. /\ stage = "watching" /\ queue # <<>>
      /\ id_map' = [id_map EXCEPT ![d] = NoInfo]
      /\ connected' = connected \ {id_map[d]}
      /\ missed' = missed \ {d}
      /\ IF id_map[d] \in connected THEN Tell(id_map[d], FALSE) ELSE UNCHANGED listener
      /\ queue' = Tail(queue)
      /\ UNCHANGED <<initialized, stage, asked, bus, changes, faults, stream>>
  BY DEF InRust, TakeDisconnected
<1> HIDE DEF d
<1>1. listening /\ view = connected
  BY <1>0 DEF Listening, KnownIsTold
<1>2. /\ listening' = listening /\ view' = connected'
      /\ since' \in [Interfaces -> SUBSET {"there", "away"}]
  <2>1. CASE id_map[d] \in connected
    <3>1. id_map[d] \in Interfaces
      BY <2>1 DEF RustTypeOK
    <3> QED
      BY <1>0, <1>1, <2>1, <3>1, TellTypes
  <2>2. CASE id_map[d] \notin connected
    BY <1>0, <1>1, <2>2 DEF listener, BusTypeOK
  <2> QED
    BY <2>1, <2>2
<1>3. queue' \in Seq(Event)
  BY <1>0 DEF BusTypeOK
<1>4. BusTypeOK'
  BY <1>0, <1>1, <1>2, <1>3 DEF BusTypeOK
<1>5. RustTypeOK'
  BY <1>0 DEF RustTypeOK
<1>6. Listening'
  BY <1>0, <1>1, <1>2 DEF Listening, go
<1> QED
  BY <1>0, <1>2, <1>4, <1>5, <1>6, RustPart

\* Any step of the Rust watcher.
LEMMA RustStep == IInv /\ InRust(RustNext) => IInv'
BY WatchStep, SeedStep, SubscribeStep, EndStep, TakeConnectedStep, AnswerQueryStep,
   TakeDisconnectedStep DEF RustNext, HandleEvent, InRust

-----------------------------------------------------------------------------
(* The goroutine.                                                          *)

\* A step of the goroutine keeps the invariant if it does so with the part of
\* the state that DeviceWatcher does not have.
LEMMA GoPart ==
  ASSUME IInv, code = "go", UNCHANGED <<rust, code>>,
         BusTypeOK', GoTypeOK', Listening', KnownIsTold',
         known' \subseteq Wanted, current' \subseteq Wanted, view' \subseteq Wanted
  PROVE  IInv'
<1>1. RustTypeOK'
  BY SameRust DEF IInv, TypeOK
<1>2. TypeOK'
  BY <1>1, WantedStays DEF IInv, TypeOK, rust
<1> QED
  BY <1>2 DEF IInv

\* Go: remember what is already there.
LEMMA SeedKnownStep == IInv /\ InGo(SeedKnown) => IInv'
<1> SUFFICES ASSUME IInv, InGo(SeedKnown) PROVE IInv'
  OBVIOUS
<1>u. /\ BusTypeOK /\ GoTypeOK /\ Listening /\ KnownIsTold
      /\ code = "go" /\ UNCHANGED <<rust, code>>
      /\ view \subseteq Wanted /\ known \subseteq Wanted /\ current \subseteq Wanted
  BY DEF IInv, TypeOK, InGo
<1> USE <1>u
<1>1. CASE /\ known' = List /\ current' = known' /\ phase' = "ticking"
           /\ StartWith(known') /\ UNCHANGED faults
  <2>1. known' \subseteq Wanted /\ known' \subseteq Interfaces
    BY <1>1, GoWants DEF Attached
  <2>2. listening' /\ view' = known'
    BY <1>1 DEF StartWith
  <2>3. since' \in [Interfaces -> SUBSET {"there", "away"}]
    BY <1>1 DEF StartWith, Place
  <2>4. UNCHANGED <<world, offer, cancelled>>
    BY DEF InGo, SeedKnown
  <2>5. BusTypeOK'
    BY <1>1, <2>1, <2>2, <2>3, <2>4 DEF BusTypeOK, world
  <2>6. GoTypeOK'
    BY <1>1, <2>1, <2>4 DEF GoTypeOK
  <2>7. Listening' /\ KnownIsTold'
    BY <1>1, <2>2 DEF Listening, KnownIsTold, rust
  <2> QED
    BY <1>1, <2>1, <2>2, <2>5, <2>6, <2>7, GoPart
<1>2. CASE Fault /\ phase' = "failed" /\ UNCHANGED <<known, current, listener>>
  <2>1. UNCHANGED <<world, offer, cancelled>> /\ phase = "idle"
    BY DEF InGo, SeedKnown
  <2>2. faults' \in 0..MaxFaults
    BY <1>2, BusAssumption DEF BusTypeOK, Fault
  <2>3. BusTypeOK'
    BY <1>2, <2>1, <2>2 DEF BusTypeOK, world, listener
  <2>4. GoTypeOK'
    BY <1>2, <2>1 DEF GoTypeOK
  <2>5. Listening' /\ KnownIsTold'
    BY <1>2, <2>1 DEF Listening, KnownIsTold, rust, listener
  <2> QED
    BY <1>2, <2>3, <2>4, <2>5, GoPart DEF listener
<1> QED
  BY <1>1, <1>2 DEF InGo, SeedKnown

\* Go: list, and compare with what is known.
LEMMA PollStep == IInv /\ InGo(Poll) => IInv'
<1> SUFFICES ASSUME IInv, InGo(Poll) PROVE IInv'
  OBVIOUS
<1>u. /\ BusTypeOK /\ GoTypeOK /\ Listening /\ KnownIsTold
      /\ code = "go" /\ UNCHANGED <<rust, code>>
      /\ view \subseteq Wanted /\ known \subseteq Wanted /\ current \subseteq Wanted
  BY DEF IInv, TypeOK, InGo
<1> USE <1>u
<1>1. CASE current' = List /\ phase' = "diffing" /\ UNCHANGED faults
  <2>1. current' \subseteq Wanted /\ current' \subseteq Interfaces
    BY <1>1, GoWants DEF Attached
  <2>2. phase = "ticking" /\ UNCHANGED <<world, listener, known, offer, cancelled>>
    BY DEF InGo, Poll
  <2>3. BusTypeOK'
    BY <1>1, <2>2, SameBus DEF busVars
  <2>4. GoTypeOK'
    BY <1>1, <2>1, <2>2 DEF GoTypeOK
  <2>5. Listening' /\ KnownIsTold'
    BY <1>1, <2>2 DEF Listening, KnownIsTold, rust, listener
  <2> QED
    BY <2>1, <2>2, <2>3, <2>4, <2>5, GoPart DEF listener
<1>2. CASE Fault /\ UNCHANGED <<current, phase>>
  <2>1. UNCHANGED <<world, listener, known, offer, cancelled>>
    BY DEF InGo, Poll
  <2>2. faults' \in 0..MaxFaults
    BY <1>2, BusAssumption DEF BusTypeOK, Fault
  <2>3. BusTypeOK'
    BY <2>1, <2>2 DEF BusTypeOK, world, listener
  <2>4. GoTypeOK'
    BY <1>2, <2>1, SameGo DEF go
  <2>5. Listening' /\ KnownIsTold'
    BY <1>2, <2>1 DEF Listening, KnownIsTold, rust, listener
  <2> QED
    BY <1>2, <2>1, <2>3, <2>4, <2>5, GoPart DEF listener
<1> QED
  BY <1>1, <1>2 DEF InGo, Poll

\* Everything that happens between two ticks but the handing over.
LEMMA CompareStep == IInv /\ InGo(Compare) => IInv'
<1> SUFFICES ASSUME IInv, InGo(Compare) PROVE IInv'
  OBVIOUS
<1>u. /\ BusTypeOK /\ GoTypeOK /\ Listening /\ KnownIsTold
      /\ code = "go" /\ UNCHANGED <<rust, code>>
      /\ view \subseteq Wanted /\ known \subseteq Wanted /\ current \subseteq Wanted
  BY DEF IInv, TypeOK, InGo
<1> USE <1>u
<1>0. UNCHANGED <<busVars, current, cancelled, listening, view>> /\ phase = "diffing"
  BY DEF InGo, Compare, Compared, Discover, Vanish, busVars, listener
<1>1. BusTypeOK'
  BY <1>0, SameBus
<1>2. CASE Compared
  <2>1. GoTypeOK' /\ Listening' /\ KnownIsTold'
    BY <1>0, <1>2 DEF Compared, GoTypeOK, Listening, KnownIsTold, rust
  <2> QED
    BY <1>0, <1>1, <1>2, <2>1, GoPart DEF Compared
<1>3. ASSUME NEW i \in Interfaces, Discover(i) PROVE IInv'
  <2>1. /\ i \notin view /\ i \in Wanted
        /\ known' = view \cup {i}
        /\ offer' = [info |-> i, up |-> TRUE] /\ phase' = "sending"
    BY <1>0, <1>3 DEF Discover, KnownIsTold
  <2>2. GoTypeOK'
    BY <1>0, <1>3, <2>1 DEF GoTypeOK, LifecycleEvent, Discover
  <2>3. Listening' /\ KnownIsTold'
    BY <1>0, <2>1 DEF Listening, KnownIsTold, rust
  <2> QED
    BY <1>0, <1>1, <2>1, <2>2, <2>3, GoPart
<1>4. ASSUME NEW i \in Interfaces, Vanish(i) PROVE IInv'
  <2>1. /\ i \in view
        /\ known' = view \ {i}
        /\ offer' = [info |-> i, up |-> FALSE] /\ phase' = "sending"
    BY <1>0, <1>4 DEF Vanish, KnownIsTold
  <2>2. GoTypeOK'
    BY <1>0, <1>4, <2>1 DEF GoTypeOK, LifecycleEvent, Vanish
  <2>3. Listening' /\ KnownIsTold'
    BY <1>0, <2>1 DEF Listening, KnownIsTold, rust
  <2> QED
    BY <1>0, <1>1, <2>1, <2>2, <2>3, GoPart
<1> QED
  BY <1>2, <1>3, <1>4 DEF InGo, Compare

\* Go: hand over one difference.
LEMMA DeliverStep == IInv /\ InGo(Deliver) => IInv'
<1> SUFFICES ASSUME IInv, InGo(Deliver) PROVE IInv'
  OBVIOUS
<1>u. /\ BusTypeOK /\ GoTypeOK /\ Listening /\ KnownIsTold
      /\ code = "go" /\ UNCHANGED <<rust, code>>
      /\ view \subseteq Wanted /\ known \subseteq Wanted /\ current \subseteq Wanted
  BY DEF IInv, TypeOK, InGo
<1> USE <1>u
<1>0. /\ phase = "sending" /\ phase' = "diffing" /\ offer' = NoOffer
      /\ Tell(offer.info, offer.up)
      /\ UNCHANGED <<world, faults, known, current, cancelled>>
  BY DEF InGo, Deliver
<1>1. offer.info \in Interfaces /\ offer.up \in BOOLEAN
  <2>1. CASE offer \in LifecycleEvent
    BY <2>1 DEF LifecycleEvent
  <2>2. CASE offer = NoOffer
    BY <1>0, <2>2 DEF NoOffer, KnownIsTold, BusTypeOK
  <2> QED
    BY <2>1, <2>2 DEF GoTypeOK
<1>2. /\ listening' = listening
      /\ view' = IF offer.up THEN view \cup {offer.info} ELSE view \ {offer.info}
      /\ view' \subseteq Interfaces
      /\ since' \in [Interfaces -> SUBSET {"there", "away"}]
  BY <1>0, <1>1, TellTypes
<1>3. view' = known
  BY <1>0, <1>2 DEF KnownIsTold
<1>4. BusTypeOK'
  BY <1>0, <1>2 DEF BusTypeOK, world
<1>5. GoTypeOK'
  BY <1>0 DEF GoTypeOK
<1>6. Listening' /\ KnownIsTold'
  BY <1>0, <1>2, <1>3 DEF Listening, KnownIsTold, rust
<1> QED
  BY <1>0, <1>3, <1>4, <1>5, <1>6, GoPart

\* Go: stop.
LEMMA CancelCloseStep == IInv /\ InGo(Cancel \/ Close) => IInv'
<1> SUFFICES ASSUME IInv, InGo(Cancel \/ Close) PROVE IInv'
  OBVIOUS
<1>u. /\ BusTypeOK /\ GoTypeOK /\ Listening /\ KnownIsTold
      /\ code = "go" /\ UNCHANGED <<rust, code>>
      /\ view \subseteq Wanted /\ known \subseteq Wanted /\ current \subseteq Wanted
  BY DEF IInv, TypeOK, InGo
<1> USE <1>u
<1>1. CASE Cancel
  <2>1. BusTypeOK'
    BY <1>1, SameBus DEF Cancel
  <2>2. GoTypeOK'
    BY <1>1 DEF Cancel, GoTypeOK
  <2>3. UNCHANGED <<listening, view>>
    BY <1>1 DEF Cancel, busVars, listener
  <2>4. Listening' /\ KnownIsTold'
    BY <1>1, <2>3 DEF Cancel, Listening, KnownIsTold, rust
  <2> QED
    BY <1>1, <2>1, <2>2, <2>3, <2>4, GoPart DEF Cancel
<1>2. CASE Close
  <2>1. BusTypeOK'
    <3>1. since' \in [Interfaces -> SUBSET {"there", "away"}]
      BY <1>2 DEF Close, BusTypeOK
    <3> QED
      BY <1>2, <3>1 DEF Close, BusTypeOK, world
  <2>2. GoTypeOK'
    BY <1>2 DEF Close, GoTypeOK
  <2>3. Listening' /\ KnownIsTold'
    BY <1>2 DEF Close, Listening, KnownIsTold, rust
  <2> QED
    BY <1>2, <2>1, <2>2, <2>3, GoPart DEF Close
<1> QED
  BY <1>1, <1>2 DEF InGo

\* Any step of the Go watcher.
LEMMA GoStep == IInv /\ InGo(GoNext) => IInv'
BY SeedKnownStep, PollStep, CompareStep, DeliverStep, CancelCloseStep DEF GoNext, InGo

\* Any step.
LEMMA NextIInv == IInv /\ [Next]_vars => IInv'
<1> SUFFICES ASSUME IInv, [Next]_vars PROVE IInv'
  OBVIOUS
<1>1. CASE UNCHANGED vars
  <2>1. TypeOK'
    BY <1>1, SameBus, SameRust, SameGo, WantedStays DEF vars, IInv, TypeOK, busVars, listener, rust, go
  <2>2. Listening' /\ KnownIsTold'
    BY <1>1 DEF vars, IInv, busVars, listener, rust, go, Listening, KnownIsTold
  <2> QED
    BY <2>1, <2>2 DEF IInv
<1> QED
  BY <1>1, MoveStep, RustStep, GoStep DEF Next

-----------------------------------------------------------------------------
(* Theorems.                                                               *)

\* What the watcher remembers is what it has told, whatever devices come and go.
THEOREM Invariance == Spec => []IInv
BY InitIInv, NextIInv, PTL DEF Spec

\* Neither watcher remembers or tells an interface that no query asked for, for
\* any queries, wildcards included.
THEOREM TypeCorrect == Spec => []TypeOK
<1>1. IInv => TypeOK
  BY DEF IInv
<1> QED
  BY <1>1, Invariance, PTL

\* The event that is handed over, or computed, is always news.
LEMMA HotStep == IInv /\ [Next]_vars => [Hot!Next]_Hot!hotplug
<1> SUFFICES ASSUME IInv, [Next]_vars PROVE [Hot!Next]_Hot!hotplug
  OBVIOUS
<1> USE DEF Hot!Next, Hot!hotplug
<1>1. CASE UNCHANGED vars
  BY <1>1, WantedStays DEF vars, busVars, world, listener, Attached, Hot!Attach
<1>2. CASE \E d \in Device : Move(d)
  BY <1>2, WantedStays DEF Move, PlugOrUnplug, Hot!Attach
<1>3. CASE InRust(RustNext)
  <2> USE DEF InRust
  <2>0. Wanted' = Wanted /\ code = "rust"
    BY <1>3, WantedStays
  <2>1. CASE Watch
    BY <2>0, <2>1 DEF Watch, busVars, listener, Hot!Attach
  <2>2. CASE Seed
    <3>1. ~listening /\ connected = {}
      BY <2>0, <2>2 DEF Seed, IInv, Listening
    <3>2. listening' /\ view' = Attached \cap Wanted /\ UNCHANGED bus
      BY <2>0, <2>2, <3>1, RustWants DEF Seed, StartWith
    <3>3. Attached' = Attached
      BY <3>2 DEF Attached
    <3> QED
      BY <2>0, <3>1, <3>2, <3>3 DEF Hot!Start
  <2>3. CASE Subscribe
    BY <2>0, <2>3 DEF Subscribe, listener, Hot!Attach
  <2>4. CASE FailWatch \/ DropStream \/ QueryPanics
    <3>1. listening' = FALSE /\ UNCHANGED <<view, bus>>
      BY <2>4 DEF FailWatch, DropStream, QueryPanics
    <3>2. Attached' = Attached
      BY <3>1 DEF Attached
    <3>3. CASE listening
      BY <2>0, <3>1, <3>2, <3>3 DEF Hot!Stop
    <3>4. CASE listening = FALSE
      BY <2>0, <3>1, <3>2, <3>4 DEF Hot!Attach
    <3> QED
      BY <3>3, <3>4 DEF IInv, TypeOK, BusTypeOK
  <2>5. CASE TakeConnected
    BY <2>0, <2>5 DEF TakeConnected, listener, Hot!Attach
  <2>6. CASE AnswerQuery
    <3>0. stage = "querying" /\ UNCHANGED bus
      BY <2>6 DEF AnswerQuery
    <3>1. listening /\ view = connected
      BY <2>0, <3>0 DEF IInv, Listening, KnownIsTold
    <3>2. Attached' = Attached
      BY <3>0 DEF Attached
    <3>3. CASE UNCHANGED listener
      BY <2>0, <3>3 DEF listener, Hot!Attach
    <3>4. ASSUME NEW i \in Checked(asked), i \notin connected, Tell(i, TRUE)
          PROVE  Hot!TellConnected(i) /\ i \in Wanted
      BY <2>0, <3>1, <3>2, <3>4, RustWants DEF Tell, Hot!TellConnected
    <3> QED
      BY <2>6, <3>3, <3>4 DEF AnswerQuery
  <2>7. CASE TakeDisconnected
    <3> DEFINE i == id_map[Head(queue).device]
    <3>0. /\ stage = "watching" /\ UNCHANGED bus
          /\ IF i \in connected THEN Tell(i, FALSE) ELSE UNCHANGED listener
      BY <2>7 DEF TakeDisconnected
    <3> HIDE DEF i
    <3>1. listening /\ view = connected
      BY <2>0, <3>0 DEF IInv, Listening, KnownIsTold
    <3>2. Attached' = Attached
      BY <3>0 DEF Attached
    <3>3. CASE UNCHANGED listener
      BY <2>0, <3>3 DEF listener, Hot!Attach
    <3>4. CASE i \in connected /\ Tell(i, FALSE)
      <4>1. i \in Wanted
        BY <3>4 DEF IInv, TypeOK
      <4>2. Hot!TellDisconnected(i)
        BY <2>0, <3>1, <3>2, <3>4 DEF Tell, Hot!TellDisconnected
      <4> QED
        BY <4>1, <4>2
    <3> QED
      BY <3>0, <3>3, <3>4
  <2> QED
    BY <1>3, <2>1, <2>2, <2>3, <2>4, <2>5, <2>6, <2>7 DEF RustNext, HandleEvent
<1>4. CASE InGo(GoNext)
  <2> USE DEF InGo
  <2>0. Wanted' = Wanted /\ code = "go"
    BY <1>4, WantedStays
  <2>1. CASE SeedKnown
    <3>0. phase = "idle" /\ UNCHANGED world
      BY <2>1 DEF SeedKnown
    <3>1. ~listening
      BY <2>0, <3>0 DEF IInv, Listening
    <3>2. Attached' = Attached
      BY <3>0 DEF world, Attached
    <3>3. CASE known' = List /\ StartWith(known')
      BY <2>0, <3>1, <3>2, <3>3, GoWants DEF StartWith, Hot!Start
    <3>4. CASE UNCHANGED listener
      BY <2>0, <3>4 DEF listener, Hot!Attach
    <3> QED
      BY <2>1, <3>3, <3>4 DEF SeedKnown
  <2>2. CASE Poll \/ Compare \/ Cancel
    <3>1. CASE Poll
      BY <2>0, <3>1 DEF Poll, listener, Hot!Attach
    <3>2. CASE Cancel
      BY <2>0, <3>2 DEF Cancel, busVars, listener, Hot!Attach
    <3>3. CASE Compare
      <4>1. UNCHANGED busVars
        BY <3>3 DEF Compare, Compared, Discover, Vanish
      <4> QED
        BY <2>0, <4>1 DEF busVars, listener, Hot!Attach
    <3> QED
      BY <2>2, <3>1, <3>2, <3>3
  <2>3. CASE Deliver
    <3>0. phase = "sending" /\ UNCHANGED world /\ Tell(offer.info, offer.up)
      BY <2>3 DEF Deliver
    <3>1. listening
      BY <2>0, <3>0 DEF IInv, Listening
    <3>2. Attached' = Attached
      BY <3>0 DEF world, Attached
    <3>3. CASE offer.up
      <4>1. offer.info \in Wanted /\ offer.info \notin view
        BY <2>0, <3>0, <3>3 DEF IInv, TypeOK, KnownIsTold
      <4>2. Hot!TellConnected(offer.info)
        BY <2>0, <3>0, <3>1, <3>2, <3>3, <4>1 DEF Tell, Hot!TellConnected
      <4> QED
        BY <4>1, <4>2
    <3>4. CASE ~offer.up
      <4>1. offer.info \in Wanted /\ offer.info \in view
        BY <2>0, <3>0, <3>4 DEF IInv, TypeOK, KnownIsTold
      <4>2. Hot!TellDisconnected(offer.info)
        BY <2>0, <3>0, <3>1, <3>2, <3>4, <4>1 DEF Tell, Hot!TellDisconnected
      <4> QED
        BY <4>1, <4>2
    <3> QED
      BY <3>3, <3>4
  <2>4. CASE Close
    <3>0. /\ phase \in {"ticking", "sending"} /\ ~listening'
          /\ UNCHANGED <<world, view>>
      BY <2>4 DEF Close
    <3>1. listening
      BY <2>0, <3>0 DEF IInv, Listening
    <3>2. Attached' = Attached
      BY <3>0 DEF world, Attached
    <3> QED
      BY <2>0, <3>0, <3>1, <3>2 DEF Hot!Stop
  <2> QED
    BY <1>4, <2>1, <2>2, <2>3, <2>4 DEF GoNext
<1> QED
  BY <1>1, <1>2, <1>3, <1>4 DEF Next

\* Both watchers implement HotPlug: for any devices, interfaces and queries, a
\* listener is never told "connected" of what it counts as there, nor
\* "disconnected" of what it does not.
THEOREM ListenersHearNews == Spec => TellsNews
<1>1. Init => Hot!Init
  BY DEF Init, BusInit, Hot!Init
<1> QED
  BY <1>1, HotStep, Invariance, PTL DEF Spec, TellsNews, Hot!Spec

-----------------------------------------------------------------------------
(* What has been heard is true.                                            *)

\* Where an interface is counts among where it has been.
Noted(i) == Place(i) \in since[i]

\* `since' is up to date, and every difference that the goroutine has found, told
\* or not, was there to be seen at some moment since its listener last heard of
\* that interface.
Heard ==
  /\ code = "go" => stage = "idle"
  /\ code = "rust" => phase = "idle"
  /\ listening => \A i \in Interfaces : Noted(i)
  /\ phase \in {"diffing", "sending"} =>
       \A i \in Interfaces :
         /\ i \in current \ known => "there" \in since[i]
         /\ i \in known \ current => "away" \in since[i]
  /\ phase = "sending" =>
       /\ offer.info \in Interfaces
       /\ offer.up => "there" \in since[offer.info]
       /\ ~offer.up => "away" \in since[offer.info]
       /\ offer.info \in current <=> offer.up

\* Nothing has been heard.
LEMMA InitHeard == Init => Heard
BY DEF Init, BusInit, RustInit, GoInit, Heard

\* A device that comes or goes takes no rumour back.
LEMMA MoveHeard ==
  ASSUME IInv, Heard, NEW d \in Device, Move(d)
  PROVE  Heard'
<1>1. /\ bus' = IF d \in bus THEN bus \ {d} ELSE bus \cup {d}
      /\ since' = [i \in Interfaces |-> since[i] \cup (IF i \in Of(d) THEN {Place(i)'} ELSE {})]
      /\ UNCHANGED <<listening, rust, go, code>>
  BY DEF Move, PlugOrUnplug
<1>2. ASSUME NEW i \in Interfaces PROVE since[i] \subseteq since'[i]
  BY <1>1
<1>3. ASSUME listening, NEW i \in Interfaces PROVE Noted(i)'
  <2>1. CASE i \in Of(d)
    <3>1. since'[i] = since[i] \cup {Place(i)'}
      BY <1>1, <2>1
    <3> QED
      BY <3>1 DEF Noted
  <2>2. CASE i \notin Of(d)
    <3>1. Place(i)' = Place(i)
      BY <1>1, <2>2 DEF Place, Attached, Of
    <3>2. Noted(i)
      BY <1>3 DEF Heard
    <3> QED
      BY <1>2, <3>1, <3>2 DEF Noted
  <2> QED
    BY <2>1, <2>2
<1>4. phase' \in {"diffing", "sending"} =>
        \A i \in Interfaces :
          /\ i \in current' \ known' => "there" \in since'[i]
          /\ i \in known' \ current' => "away" \in since'[i]
  BY <1>1, <1>2 DEF Heard, go
<1>5. phase' = "sending" =>
        /\ offer'.info \in Interfaces
        /\ offer'.up => "there" \in since'[offer'.info]
        /\ ~offer'.up => "away" \in since'[offer'.info]
        /\ offer'.info \in current' <=> offer'.up
  BY <1>1, <1>2 DEF Heard, go
<1>6. (code' = "go" => stage' = "idle") /\ (code' = "rust" => phase' = "idle")
  BY <1>1 DEF Heard, rust, go
<1>7. listening' => \A i \in Interfaces : Noted(i)'
  BY <1>1, <1>3
<1> QED
  BY <1>4, <1>5, <1>6, <1>7, Zenon DEF Heard

\* A listener that starts, or hears of an interface, notes where things are.
LEMMA StartHeard ==
  ASSUME UNCHANGED bus, NEW found, StartWith(found)
  PROVE  \A i \in Interfaces : Noted(i)'
BY DEF StartWith, Noted, Place, Attached

\* What a listener that hears of an interface has heard of it since is where it is.
LEMMA TellHeard ==
  ASSUME IInv, Heard, listening, UNCHANGED bus,
         NEW i \in Interfaces, NEW up \in BOOLEAN, Tell(i, up)
  PROVE  /\ listening'
         /\ \A k \in Interfaces : Noted(k)'
         /\ \A k \in Interfaces : k # i => since'[k] = since[k]
<1>1. since' = [since EXCEPT ![i] = {Place(i)}] /\ listening'
  BY DEF Tell
<1>2. since \in [Interfaces -> SUBSET {"there", "away"}]
  BY DEF IInv, TypeOK, BusTypeOK
<1>3. Attached' = Attached
  BY DEF Attached
<1>4. \A k \in Interfaces : k # i => since'[k] = since[k]
  BY <1>1, <1>2
<1>5. Noted(i)'
  BY <1>1, <1>2, <1>3 DEF Noted, Place
<1>6. ASSUME NEW k \in Interfaces, k # i PROVE Noted(k)'
  BY <1>3, <1>4, <1>6 DEF Heard, Noted, Place
<1> QED
  BY <1>1, <1>4, <1>5, <1>6

\* A step of DeviceWatcher: it starts to listen, hears of an interface, or does
\* not touch what is remembered.
LEMMA RustHeard == IInv /\ Heard /\ InRust(RustNext) => Heard'
<1> SUFFICES ASSUME IInv, Heard, InRust(RustNext) PROVE Heard'
  OBVIOUS
<1>1. code = "rust" /\ code' = "rust" /\ phase = "idle" /\ phase' = "idle"
  BY DEF InRust, Heard, go
<1>2. listening' => \A i \in Interfaces : Noted(i)'
  <2>1. CASE Seed
    BY <2>1, StartHeard DEF Seed
  <2>2. CASE Watch
    BY <2>2 DEF Watch, busVars, world, listener, Attached, Heard, Noted, Place
  <2>3. CASE Subscribe
    BY <2>3 DEF Subscribe, listener, Attached, Heard, Noted, Place
  <2>4. CASE TakeConnected
    BY <2>4 DEF TakeConnected, listener, Attached, Heard, Noted, Place
  <2>5. CASE FailWatch \/ DropStream \/ QueryPanics
    BY <2>5 DEF FailWatch, DropStream, QueryPanics
  <2>6. CASE AnswerQuery
    <3>1. stage = "querying" /\ UNCHANGED bus
      BY <2>6 DEF AnswerQuery
    <3>2. listening
      BY <1>1, <3>1 DEF IInv, Listening
    <3>3. CASE UNCHANGED listener
      BY <3>1, <3>3 DEF listener, Attached, Heard, Noted, Place
    <3>4. ASSUME NEW i \in Checked(asked), Tell(i, TRUE)
          PROVE  \A k \in Interfaces : Noted(k)'
      <4>1. i \in Interfaces
        BY DEF Checked, Of
      <4> QED
        BY <3>1, <3>2, <3>4, <4>1, TellHeard
    <3> QED
      BY <2>6, <3>3, <3>4 DEF AnswerQuery
  <2>7. CASE TakeDisconnected
    <3> DEFINE i == id_map[Head(queue).device]
    <3>1. /\ stage = "watching" /\ UNCHANGED bus
          /\ IF i \in connected THEN Tell(i, FALSE) ELSE UNCHANGED listener
      BY <2>7 DEF TakeDisconnected
    <3> HIDE DEF i
    <3>2. listening
      BY <1>1, <3>1 DEF IInv, Listening
    <3>3. CASE UNCHANGED listener
      BY <3>1, <3>3 DEF listener, Attached, Heard, Noted, Place
    <3>4. CASE i \in connected /\ Tell(i, FALSE)
      <4>1. i \in Interfaces
        BY <3>4 DEF IInv, TypeOK, RustTypeOK
      <4> QED
        BY <3>1, <3>2, <3>4, <4>1, TellHeard
    <3> QED
      BY <3>1, <3>3, <3>4
  <2> QED
    BY <2>1, <2>2, <2>3, <2>4, <2>5, <2>6, <2>7 DEF RustNext, HandleEvent, InRust
<1> QED
  BY <1>1, <1>2 DEF Heard

\* What Go offers is an arrival or a departure.
LEMMA OfferedUp == IInv => offer.up \in BOOLEAN
<1>1. \A o \in LifecycleEvent : o.up \in BOOLEAN
  BY DEF LifecycleEvent
<1>2. NoOffer.up \in BOOLEAN
  BY DEF NoOffer
<1> QED
  BY <1>1, <1>2 DEF IInv, TypeOK, GoTypeOK

\* A step of the goroutine.
LEMMA GoHeard == IInv /\ Heard /\ InGo(GoNext) => Heard'
<1> SUFFICES ASSUME IInv, Heard, InGo(GoNext) PROVE Heard'
  OBVIOUS
<1>1. code = "go" /\ code' = "go" /\ stage = "idle" /\ stage' = "idle"
  BY DEF InGo, Heard, rust
<1>2. CASE SeedKnown
  <2>0. UNCHANGED <<world, offer, cancelled>> /\ ~listening
    BY <1>1, <1>2 DEF SeedKnown, IInv, Listening
  <2>1. CASE known' = List /\ current' = known' /\ StartWith(known') /\ phase' = "ticking"
    <3>1. \A i \in Interfaces : Noted(i)'
      BY <2>0, <2>1, StartHeard DEF world
    <3> QED
      BY <1>1, <2>1, <3>1 DEF Heard
  <2>2. CASE phase' = "failed" /\ UNCHANGED listener
    BY <1>1, <2>0, <2>2 DEF Heard, listener
  <2> QED
    BY <1>2, <2>1, <2>2 DEF SeedKnown
<1>3. CASE Poll
  <2>0. UNCHANGED <<world, listener, known, offer, cancelled>> /\ phase = "ticking"
    BY <1>3 DEF Poll
  <2>1. listening /\ \A i \in Interfaces : Noted(i)'
    BY <1>1, <2>0 DEF Heard, IInv, Listening, world, listener, Attached, Noted, Place
  <2>2. CASE current' = List /\ phase' = "diffing"
    <3>1. ASSUME NEW i \in Interfaces
          PROVE  /\ i \in current' \ known' => "there" \in since'[i]
                 /\ i \in known' \ current' => "away" \in since'[i]
      <4>1. i \in current' => i \in Attached
        BY <2>2 DEF List
      <4>2. i \in known' \ current' => i \notin Attached
        BY <1>1, <2>0, <2>2, GoWants DEF IInv, TypeOK
      <4>3. Noted(i) /\ since' = since
        BY <2>0, <2>1 DEF listener, Heard
      <4> QED
        BY <4>1, <4>2, <4>3 DEF Noted, Place
    <3> QED
      BY <1>1, <2>1, <2>2, <3>1 DEF Heard
  <2>3. CASE UNCHANGED <<current, phase>>
    BY <1>1, <2>0, <2>1, <2>3 DEF Heard
  <2> QED
    BY <1>3, <2>2, <2>3 DEF Poll
<1>4. CASE Compare
  <2>0. UNCHANGED <<busVars, current, cancelled, listening, since>> /\ phase = "diffing"
    BY <1>4 DEF Compare, Compared, Discover, Vanish, busVars, listener
  <2>1. listening' => \A i \in Interfaces : Noted(i)'
    BY <2>0 DEF Heard, busVars, world, Attached, Noted, Place
  <2>2. CASE Compared
    BY <1>1, <2>0, <2>1, <2>2 DEF Heard, Compared
  <2>3. ASSUME NEW i \in Interfaces, Discover(i) PROVE Heard'
    BY <1>1, <2>0, <2>1, <2>3 DEF Heard, Discover
  <2>4. ASSUME NEW i \in Interfaces, Vanish(i) PROVE Heard'
    BY <1>1, <2>0, <2>1, <2>4 DEF Heard, Vanish
  <2> QED
    BY <1>4, <2>2, <2>3, <2>4 DEF Compare
<1>5. CASE Deliver
  <2>0. /\ phase = "sending" /\ phase' = "diffing" /\ Tell(offer.info, offer.up)
        /\ UNCHANGED <<world, known, current>>
    BY <1>5 DEF Deliver
  <2>1. /\ listening /\ offer.info \in Interfaces /\ offer.up \in BOOLEAN /\ UNCHANGED bus
        /\ offer.info \in current <=> offer.up
        /\ offer.info \in known <=> offer.up
    <3>1. /\ offer.info \in Interfaces
          /\ offer.info \in current <=> offer.up
      BY <2>0 DEF Heard
    <3>2. offer.up \in BOOLEAN
      BY OfferedUp
    <3>3. offer.info \in known <=> offer.up
      BY <1>1, <2>0 DEF IInv, KnownIsTold
    <3>4. listening
      BY <1>1, <2>0 DEF IInv, Listening
    <3> QED
      BY <2>0, <3>1, <3>2, <3>3, <3>4 DEF world
  <2>2. /\ \A k \in Interfaces : Noted(k)'
        /\ \A k \in Interfaces : k # offer.info => since'[k] = since[k]
    BY <2>0, <2>1, TellHeard
  <2>3. \A i \in Interfaces :
          /\ i \in current \ known => "there" \in since[i]
          /\ i \in known \ current => "away" \in since[i]
    BY <2>0 DEF Heard
  <2>4. \A i \in Interfaces :
          /\ i \in current' \ known' => "there" \in since'[i]
          /\ i \in known' \ current' => "away" \in since'[i]
    BY <2>0, <2>1, <2>2, <2>3
  <2> QED
    BY <1>1, <2>0, <2>2, <2>4 DEF Heard
<1>6. CASE Close
  BY <1>1, <1>6 DEF Heard, Close
<1>7. CASE Cancel
  BY <1>1, <1>7 DEF Heard, Cancel, busVars, world, listener, Attached, Noted, Place
<1> QED
  BY <1>2, <1>3, <1>4, <1>5, <1>6, <1>7 DEF GoNext, InGo

\* Any step.
LEMMA NextHeard == IInv /\ Heard /\ [Next]_vars => Heard'
<1>1. Heard /\ UNCHANGED vars => Heard'
  <2> SUFFICES ASSUME Heard, UNCHANGED vars PROVE Heard'
    OBVIOUS
  <2>1. /\ UNCHANGED <<bus, listening, since>> /\ UNCHANGED <<stage, code>>
        /\ UNCHANGED <<known, current, phase, offer>>
    BY DEF vars, busVars, world, listener, rust, go
  <2>2. \A i \in Interfaces : Noted(i) => Noted(i)'
    BY <2>1 DEF Noted, Place, Attached
  <2> QED
    BY <2>1, <2>2 DEF Heard
<1> QED
  BY <1>1, MoveHeard, RustHeard, GoHeard DEF Next

\* Nothing is told but what was so since the listener last heard of it.
LEMMA RumourStep ==
  IInv /\ Heard /\ [Next]_vars =>
    \A i \in Interfaces :
      /\ listening /\ i \in view' \ view => "there" \in since[i]
      /\ listening /\ i \in view \ view' /\ code = "go" => "away" \in since[i]
<1> SUFFICES ASSUME IInv, Heard, [Next]_vars, listening, NEW i \in Interfaces
             PROVE  /\ i \in view' \ view => "there" \in since[i]
                    /\ i \in view \ view' /\ code = "go" => "away" \in since[i]
  OBVIOUS
<1>1. CASE UNCHANGED view
  BY <1>1
<1>2. CASE InRust(Seed) \/ InGo(SeedKnown)
  BY <1>2 DEF InRust, InGo, Seed, SeedKnown, IInv, Listening
<1>3. CASE InRust(AnswerQuery)
  <2>1. ASSUME NEW k \in Checked(asked) \cap Attached, Tell(k, TRUE), i \in view' \ view
        PROVE  "there" \in since[i]
    <3>1. i = k /\ i \in Attached
      BY <2>1 DEF Tell
    <3> QED
      BY <3>1 DEF Heard, Noted, Place
  <2>2. ASSUME NEW k \in Checked(asked) \cap Attached, Tell(k, TRUE)
        PROVE  view \ view' = {}
    BY <2>2 DEF Tell
  <2> QED
    BY <1>1, <1>3, <2>1, <2>2 DEF InRust, AnswerQuery, listener
<1>4. CASE InRust(TakeDisconnected)
  BY <1>4 DEF InRust, TakeDisconnected, Tell, listener
<1>5. CASE InGo(Deliver)
  <2>1. phase = "sending" /\ Tell(offer.info, offer.up)
    BY <1>5 DEF InGo, Deliver
  <2>2. /\ offer.up \in BOOLEAN
        /\ offer.up => "there" \in since[offer.info]
        /\ ~offer.up => "away" \in since[offer.info]
    BY <2>1, OfferedUp DEF Heard
  <2>3. view' = IF offer.up THEN view \cup {offer.info} ELSE view \ {offer.info}
    BY <2>1 DEF Tell
  <2> QED
    BY <2>2, <2>3
<1>6. CASE \E d \in Device : Move(d)
  BY <1>1, <1>6 DEF Move, PlugOrUnplug
<1>7. CASE InRust(Watch \/ Subscribe \/ FailWatch \/ DropStream \/ TakeConnected \/ QueryPanics)
  BY <1>1, <1>7 DEF InRust, Watch, Subscribe, FailWatch, DropStream, TakeConnected, QueryPanics,
                    busVars, listener
<1>8. CASE InGo(Cancel \/ Poll \/ Compare \/ Close)
  BY <1>1, <1>8 DEF InGo, Cancel, Poll, Compare, Compared, Discover, Vanish, Close, busVars, listener
<1> QED
  BY <1>1, <1>2, <1>3, <1>4, <1>5, <1>6, <1>7, <1>8
     DEF Next, vars, busVars, listener, InRust, InGo, RustNext, HandleEvent, GoNext

\* No rumours: whatever Go tells of an interface, and "connected" in Rust, was so
\* at some moment since the listener last heard of it, however long the event
\* waited for its receiver and whatever devices did meanwhile.
THEOREM TellsWhatWas == Spec => NoRumours
<1>1. Spec => []Heard
  BY InitHeard, NextHeard, Invariance, PTL DEF Spec
<1> QED
  BY <1>1, RumourStep, Invariance, PTL DEF Spec, NoRumours

-----------------------------------------------------------------------------
(* DeviceWatcher is right once it has caught up.                           *)

\* The last event of a device that is queued says where the device is.
LastIsTrue ==
  \A j \in 1..Len(queue) :
    (\A k \in j + 1 .. Len(queue) : queue[k].device # queue[j].device)
      => (queue[j].up <=> queue[j].device \in bus)

Expected(d) == \E j \in 1..Len(queue) : queue[j].device = d

\* Of a device with one interface that matches, id_map holds what `connected' does;
\* with no event of it to come, the listener is right about it, or the device is
\* there and a query under way will find it.
Followed(d) ==
  /\ connected \cap Of(d) \subseteq {id_map[d]}
  /\ stage = "querying" /\ asked = d /\ ~Expected(d) => d \in bus
  /\ listening /\ d \notin missed /\ ~Expected(d) => Agree(d) \/ (stage = "querying" /\ asked = d)

\* The events are open exactly while the stream is, and asked is for a query only.
Streaming ==
  /\ stream = "open" <=> stage \in {"watching", "querying"}
  /\ stream = "late" <=> stage = "seeded"
  /\ stream # "open" => queue = <<>>
  /\ stage = "querying" => asked \in Device

\* An id never stands for an interface of another device.
OwnInterface == \A d \in Device : id_map[d] \in Checked(d) \cup {NoInfo}

Follows ==
  /\ Streaming /\ LastIsTrue /\ OwnInterface
  /\ code = "rust" => \A d \in Device : Alone(d) => Followed(d)

\* A device with one interface that matches is followed through that one.
LEMMA OneChecked ==
  ASSUME NEW d, Alone(d), NEW i \in Checked(d)
  PROVE  Checked(d) = {i}
<1>1. IsFiniteSet(Checked(d))
  BY BusAssumption, FS_Subset DEF Checked, Of
<1>2. Cardinality(Checked(d)) \in Nat /\ Cardinality(Checked(d)) # 0
  BY <1>1, FS_CardinalityType, FS_EmptySet
<1>3. Cardinality(Checked(d)) = 1
  BY <1>2 DEF Alone
<1> QED
  BY <1>1, <1>3, FS_Singleton

\* What it is to be right about a device.
LEMMA RightAbout ==
  ASSUME code = "rust", NEW d
  PROVE  /\ d \in bus => (Agree(d) <=> view \cap Of(d) = Checked(d))
         /\ d \notin bus => (Agree(d) <=> view \cap Of(d) = {})
BY DEF Agree, Attached, Wanted, Checked, Of

\* An event is taken.
LEMMA Taken ==
  ASSUME LastIsTrue, queue \in Seq(Event), queue # <<>>, queue' = Tail(queue), UNCHANGED bus
  PROVE  /\ LastIsTrue'
         /\ \A d : Expected(d) => Expected(d)' \/ d = Head(queue).device
         /\ \A d : Expected(d)' => Expected(d)
         /\ \A d : d = Head(queue).device /\ ~Expected(d)' => (Head(queue).up <=> d \in bus)
<1>1. /\ Len(queue) \in Nat \ {0} /\ Len(queue') = Len(queue) - 1
      /\ \A j \in 1..Len(queue') : queue'[j] = queue[j + 1]
      /\ Head(queue) = queue[1]
  OBVIOUS
<1>2. ASSUME NEW j \in 1..Len(queue'),
             \A k \in j + 1 .. Len(queue') : queue'[k].device # queue'[j].device
      PROVE  queue'[j].up <=> queue'[j].device \in bus
  <2>1. j + 1 \in 1..Len(queue) /\ queue'[j] = queue[j + 1]
    BY <1>1
  <2>2. ASSUME NEW k \in (j + 1) + 1 .. Len(queue) PROVE queue[k].device # queue[j + 1].device
    <3>1. k - 1 \in j + 1 .. Len(queue') /\ k - 1 \in 1..Len(queue')
      BY <1>1
    <3>2. queue'[k - 1] = queue[(k - 1) + 1] /\ (k - 1) + 1 = k
      BY <1>1, <3>1
    <3> QED
      BY <1>2, <2>1, <3>1, <3>2
  <2> QED
    BY <2>1, <2>2 DEF LastIsTrue
<1>3. LastIsTrue'
  BY <1>2 DEF LastIsTrue
<1>4. ASSUME NEW d, Expected(d), d # Head(queue).device PROVE Expected(d)'
  <2>1. PICK j \in 1..Len(queue) : queue[j].device = d
    BY <1>4 DEF Expected
  <2>2. j - 1 \in 1..Len(queue') /\ (j - 1) + 1 = j
    BY <1>1, <1>4, <2>1
  <2> QED
    BY <1>1, <2>1, <2>2 DEF Expected
<1>5. ASSUME NEW d, Expected(d)' PROVE Expected(d)
  <2>1. PICK j \in 1..Len(queue') : queue'[j].device = d
    BY <1>5 DEF Expected
  <2>2. j + 1 \in 1..Len(queue) /\ queue[j + 1] = queue'[j]
    BY <1>1
  <2> QED
    BY <2>1, <2>2 DEF Expected
<1>6. ASSUME NEW d, d = Head(queue).device, ~Expected(d)' PROVE Head(queue).up <=> d \in bus
  <2>1. ASSUME NEW k \in 1 + 1 .. Len(queue) PROVE queue[k].device # queue[1].device
    <3>1. k - 1 \in 1..Len(queue') /\ (k - 1) + 1 = k
      BY <1>1
    <3>2. queue'[k - 1].device # queue[1].device
      BY <1>1, <1>6, <3>1 DEF Expected
    <3> QED
      BY <1>1, <3>1, <3>2
  <2> QED
    BY <1>1, <1>6, <2>1 DEF LastIsTrue
<1> QED
  BY <1>3, <1>4, <1>5, <1>6

\* An event is queued.
LEMMA Queued ==
  ASSUME LastIsTrue, queue \in Seq(Event), NEW d \in Device,
         queue' = Append(queue, [device |-> d, up |-> d \notin bus]),
         bus' = IF d \in bus THEN bus \ {d} ELSE bus \cup {d}
  PROVE  /\ LastIsTrue'
         /\ Expected(d)'
         /\ \A e : Expected(e) => Expected(e)'
<1> DEFINE new == [device |-> d, up |-> d \notin bus]
<1>1. /\ Len(queue) \in Nat /\ Len(queue') = Len(queue) + 1
      /\ \A j \in 1..Len(queue) : queue'[j] = queue[j]
      /\ queue'[Len(queue')] = new
  OBVIOUS
<1>2. new.device = d /\ (new.up <=> d \in bus')
  OBVIOUS
<1> HIDE DEF new
<1>3. ASSUME NEW j \in 1..Len(queue'),
             \A k \in j + 1 .. Len(queue') : queue'[k].device # queue'[j].device
      PROVE  queue'[j].up <=> queue'[j].device \in bus'
  <2>1. CASE j = Len(queue')
    BY <1>1, <1>2, <2>1
  <2>2. CASE j \in 1..Len(queue)
    <3>1. queue'[j].device # d
      BY <1>1, <1>2, <1>3, <2>2
    <3>2. \A k \in j + 1 .. Len(queue) : queue[k].device # queue[j].device
      BY <1>1, <1>3, <2>2
    <3>3. queue[j].up <=> queue[j].device \in bus
      BY <2>2, <3>2 DEF LastIsTrue
    <3> QED
      BY <1>1, <2>2, <3>1, <3>3
  <2> QED
    BY <1>1, <2>1, <2>2
<1>4. LastIsTrue'
  BY <1>3 DEF LastIsTrue
<1>5. Expected(d)'
  BY <1>1, <1>2 DEF Expected
<1>6. ASSUME NEW e, Expected(e) PROVE Expected(e)'
  <2>1. PICK j \in 1..Len(queue) : queue[j].device = e
    BY <1>6 DEF Expected
  <2> QED
    BY <1>1, <2>1 DEF Expected
<1> QED
  BY <1>4, <1>5, <1>6

\* Nothing is followed yet.
LEMMA InitFollows == Init => Follows
<1> SUFFICES ASSUME Init PROVE Follows
  OBVIOUS
<1>1. Streaming /\ LastIsTrue /\ OwnInterface
  BY DEF Init, BusInit, RustInit, Streaming, LastIsTrue, OwnInterface
<1>2. \A d \in Device : Followed(d)
  BY DEF Init, BusInit, RustInit, Followed
<1> QED
  BY <1>1, <1>2 DEF Follows

\* A device comes or goes: before the events start it is missed, after that an
\* event of it is queued.
LEMMA MoveFollows ==
  ASSUME IInv, Follows, NEW d \in Device, Move(d)
  PROVE  Follows'
<1>1. /\ bus' = IF d \in bus THEN bus \ {d} ELSE bus \cup {d}
      /\ queue' = IF stream = "open" THEN Append(queue, [device |-> d, up |-> d \notin bus]) ELSE queue
      /\ missed' = IF stream = "late" THEN missed \cup {d} ELSE missed
      /\ UNCHANGED <<stream, listening, view, id_map, connected, stage, asked, code>>
  BY DEF Move, PlugOrUnplug, rust
<1>2. queue \in Seq(Event)
  BY DEF IInv, TypeOK, BusTypeOK
<1>3. Streaming /\ LastIsTrue
  BY DEF Follows
<1>4. Streaming'
  BY <1>1, <1>3 DEF Streaming
<1>5. LastIsTrue' /\ (stream = "open" => Expected(d)') /\ \A e : Expected(e) => Expected(e)'
  <2>1. CASE stream = "open"
    BY <1>1, <1>2, <1>3, <2>1, Queued
  <2>2. CASE stream # "open"
    <3>1. queue' = <<>> /\ queue = <<>>
      BY <1>1, <1>3, <2>2 DEF Streaming
    <3> QED
      BY <2>2, <3>1 DEF LastIsTrue, Expected
  <2> QED
    BY <2>1, <2>2
<1>6. ASSUME NEW e \in Device, code = "rust", Followed(e) PROVE Followed(e)'
  <2>1. connected' \cap Of(e) \subseteq {id_map'[e]}
    BY <1>1, <1>6 DEF Followed
  <2>2. CASE e = d
    <3>1. stage = "querying" => stream = "open"
      BY <1>3 DEF Streaming
    <3>2. listening /\ stream # "open" => d \in missed'
      BY <1>1, <1>3, <1>6 DEF Streaming, IInv, Listening
    <3> QED
      BY <1>1, <1>5, <2>1, <2>2, <3>1, <3>2 DEF Followed
  <2>3. CASE e # d
    <3>1. e \in bus' <=> e \in bus
      BY <1>1, <2>3
    <3>2. Agree(e) => Agree(e)'
      BY <1>1, <1>6, <3>1, RightAbout DEF Agree, Attached, Wanted, Of
    <3> QED
      BY <1>1, <1>5, <1>6, <2>1, <3>1, <3>2 DEF Followed
  <2> QED
    BY <2>2, <2>3
<1>7. OwnInterface'
  BY <1>1 DEF Follows, OwnInterface
<1> QED
  BY <1>1, <1>4, <1>5, <1>6, <1>7 DEF Follows

\* The enumeration.
LEMMA SeedFollows == IInv /\ Follows /\ InRust(Seed) => Follows'
<1> SUFFICES ASSUME IInv, Follows, InRust(Seed) PROVE Follows'
  OBVIOUS
<1> DEFINE found == {i \in Attached : check_device(i, Queries)}
<1>1. /\ stage = "called" /\ stage' = "seeded" /\ stream' = "late"
      /\ connected' = connected \cup found
      /\ \A d \in Device :
            IF Of(d) \cap found = {} THEN id_map'[d] = id_map[d] ELSE id_map'[d] \in Of(d) \cap found
      /\ listening' = TRUE /\ view' = connected'
      /\ UNCHANGED <<asked, bus, queue>> /\ code = "rust" /\ code' = "rust"
  BY DEF InRust, Seed, StartWith
<1>2. \A d : found \cap Of(d) = Attached \cap Checked(d)
  BY DEF Checked, Of
<1> HIDE DEF found
<1>3. connected = {}
  BY <1>1 DEF IInv, Listening
<1>4. Streaming /\ queue = <<>>
  BY <1>1 DEF Follows, Streaming
<1>5. Streaming' /\ LastIsTrue'
  BY <1>1, <1>4 DEF Streaming, LastIsTrue
<1>6. ASSUME NEW d \in Device, Alone(d), Followed(d) PROVE Followed(d)'
  <2>1. connected' \cap Of(d) = Attached \cap Checked(d)
    BY <1>1, <1>2, <1>3
  <2>2. Agree(d)'
    BY <1>1, <2>1 DEF Agree, Wanted, Checked, Of, Attached
  <2>3. CASE Attached \cap Checked(d) = {}
    BY <1>1, <1>2, <1>6, <2>1, <2>2, <2>3 DEF Followed
  <2>4. CASE Attached \cap Checked(d) # {}
    <3>1. id_map'[d] \in Checked(d)
      BY <1>1, <1>2, <2>4
    <3>2. Checked(d) = {id_map'[d]}
      BY <1>6, <3>1, OneChecked
    <3> QED
      BY <1>1, <2>1, <2>2, <3>1, <3>2 DEF Followed
  <2> QED
    BY <2>3, <2>4
<1>7. OwnInterface'
  BY <1>1, <1>2 DEF Follows, OwnInterface
<1> QED
  BY <1>1, <1>5, <1>6, <1>7 DEF Follows

\* Steps that leave the listener, and what is remembered, as they were.
LEMMA QuietFollows ==
  ASSUME IInv, Follows,
         InRust(Watch \/ Subscribe \/ FailWatch \/ DropStream \/ QueryPanics)
  PROVE  Follows'
<1>0. code = "rust" /\ code' = "rust" /\ Streaming /\ LastIsTrue
  BY DEF InRust, Follows
<1>1. CASE Watch \/ Subscribe
  <2>1. UNCHANGED <<bus, queue, listening, view, id_map, connected, missed, asked>>
    BY <1>1 DEF Watch, Subscribe, busVars, world, listener
  <2>2. stage \in {"idle", "seeded"} /\ stage' \in {"called", "refused", "watching"}
    BY <1>1 DEF Watch, Subscribe
  <2>3. Streaming' /\ LastIsTrue'
    <3>1. CASE Watch
      BY <1>0, <2>1, <3>1 DEF Watch, busVars, world, Streaming, LastIsTrue
    <3>2. CASE Subscribe
      BY <1>0, <2>1, <3>2 DEF Subscribe, Streaming, LastIsTrue
    <3> QED
      BY <1>1, <3>1, <3>2
  <2>4. ASSUME NEW d \in Device, Followed(d) PROVE Followed(d)'
    BY <1>0, <2>1, <2>2, <2>4 DEF Followed, Expected, Agree, Attached, Wanted
  <2>5. OwnInterface'
    BY <2>1 DEF Follows, OwnInterface
  <2> QED
    BY <1>0, <2>3, <2>4, <2>5 DEF Follows
<1>2. CASE FailWatch \/ DropStream \/ QueryPanics
  <2>1. /\ UNCHANGED <<bus, id_map, connected>> /\ ~listening'
        /\ stream' = "none" /\ stage' \in {"idle", "panicked"}
    BY <1>2 DEF FailWatch, DropStream, QueryPanics
  <2>2. queue' = <<>>
    BY <1>0, <1>2 DEF FailWatch, DropStream, QueryPanics, Streaming
  <2>3. Streaming' /\ LastIsTrue'
    BY <2>1, <2>2 DEF Streaming, LastIsTrue
  <2>4. ASSUME NEW d \in Device, Followed(d) PROVE Followed(d)'
    BY <2>1, <2>4 DEF Followed
  <2>5. OwnInterface'
    BY <2>1 DEF Follows, OwnInterface
  <2> QED
    BY <1>0, <2>3, <2>4, <2>5 DEF Follows
<1> QED
  BY <1>1, <1>2 DEF InRust

\* Rust follows what has come.
LEMMA TakeConnectedFollows == IInv /\ Follows /\ InRust(TakeConnected) => Follows'
<1> SUFFICES ASSUME IInv, Follows, InRust(TakeConnected) PROVE Follows'
  OBVIOUS
<1>1. /\ stage = "watching" /\ stage' = "querying"
      /\ queue # <<>> /\ Head(queue).up /\ queue' = Tail(queue)
      /\ asked' = Head(queue).device
      /\ UNCHANGED <<id_map, connected, bus, stream, missed, listening, view>>
      /\ code = "rust" /\ code' = "rust"
  BY DEF InRust, TakeConnected, listener
<1>2. queue \in Seq(Event) /\ Streaming /\ LastIsTrue
  BY DEF IInv, TypeOK, BusTypeOK, Follows
<1>3. Head(queue).device \in Device
  <2>1. Head(queue) \in Event
    BY <1>1, <1>2
  <2> QED
    BY <2>1 DEF Event
<1>4. /\ LastIsTrue'
      /\ \A d : Expected(d) => Expected(d)' \/ d = Head(queue).device
      /\ \A d : d = Head(queue).device /\ ~Expected(d)' => d \in bus
  BY <1>1, <1>2, Taken
<1>5. Streaming'
  BY <1>1, <1>2, <1>3 DEF Streaming
<1>6. ASSUME NEW d \in Device, Followed(d) PROVE Followed(d)'
  <2>1. Agree(d) => Agree(d)'
    BY <1>1 DEF Agree, Attached, Wanted
  <2>2. CASE d = Head(queue).device
    BY <1>1, <1>4, <1>6, <2>2 DEF Followed
  <2>3. CASE d # Head(queue).device
    BY <1>1, <1>4, <1>6, <2>1, <2>3 DEF Followed
  <2> QED
    BY <2>2, <2>3
<1>7. OwnInterface'
  BY <1>1 DEF Follows, OwnInterface
<1> QED
  BY <1>1, <1>4, <1>5, <1>6, <1>7 DEF Follows

\* The query finds the interface of a device that is there; if the device is gone,
\* the event that says so is still to come.
LEMMA AnswerFollows == IInv /\ IInv' /\ Follows /\ InRust(AnswerQuery) => Follows'
<1> SUFFICES ASSUME IInv, IInv', Follows, InRust(AnswerQuery) PROVE Follows'
  OBVIOUS
<1>1. /\ stage = "querying" /\ stage' = "watching" /\ asked' = NoInfo
      /\ missed' = missed \ {asked}
      /\ UNCHANGED <<bus, stream, queue>> /\ code = "rust" /\ code' = "rust"
  BY DEF InRust, AnswerQuery
<1>2. \/ \E i \in Checked(asked) \cap Attached :
            id_map' = [id_map EXCEPT ![asked] = i] /\ connected' = connected \cup {i}
      \/ Checked(asked) \cap Attached = {} /\ UNCHANGED <<id_map, connected>>
  BY DEF InRust, AnswerQuery
<1>3. /\ view = connected /\ view' = connected'
      /\ listening /\ listening' /\ connected \subseteq Wanted
      /\ id_map \in [Device -> Interfaces \cup {NoInfo}]
  BY <1>1 DEF IInv, TypeOK, RustTypeOK, Listening, KnownIsTold
<1>4. Streaming /\ LastIsTrue /\ asked \in Device
  BY <1>1 DEF Follows, Streaming
<1>5. Streaming' /\ LastIsTrue' /\ \A d : Expected(d)' <=> Expected(d)
  BY <1>1, <1>4 DEF Streaming, LastIsTrue, Expected
<1>6. ASSUME NEW d \in Device, Alone(d), Followed(d), d # asked PROVE Followed(d)'
  <2>1. id_map'[d] = id_map[d] /\ connected' \cap Of(d) = connected \cap Of(d)
    BY <1>2, <1>3, <1>6 DEF Checked, Of
  <2>2. Agree(d) => Agree(d)'
    BY <1>1, <1>3, <2>1 DEF Agree, Attached, Wanted
  <2> QED
    BY <1>1, <1>3, <1>5, <1>6, <2>1, <2>2 DEF Followed
<1>7. ASSUME NEW d \in Device, Alone(d), Followed(d), d = asked PROVE Followed(d)'
  <2>1. connected \cap Of(d) \subseteq Checked(d)
    BY <1>1, <1>3 DEF Wanted, Checked, Of
  <2>2. connected' \cap Of(d) \subseteq {id_map'[d]}
    <3>1. ASSUME NEW i \in Checked(d), id_map' = [id_map EXCEPT ![d] = i], connected' = connected \cup {i}
          PROVE  id_map'[d] = i /\ connected' \cap Of(d) \subseteq {i}
      <4>1. Checked(d) = {i}
        BY <1>7, OneChecked
      <4> QED
        BY <1>3, <1>4, <2>1, <3>1, <4>1
    <3> QED
      BY <1>2, <1>7, <3>1 DEF Followed
  <2>3. ASSUME ~Expected(d) PROVE Agree(d)'
    <3>1. d \in bus
      BY <1>1, <1>7, <2>3 DEF Followed
    <3>2. Checked(d) \cap Attached = Checked(d)
      BY <3>1 DEF Checked, Of, Attached
    <3>3. connected' \cap Of(d) = Checked(d)
      <4>1. ASSUME NEW i \in Checked(d), connected' = connected \cup {i}
            PROVE  connected' \cap Of(d) = Checked(d)
        <5>1. Checked(d) = {i}
          BY <1>7, OneChecked
        <5> QED
          BY <2>1, <4>1, <5>1 DEF Checked
      <4> QED
        BY <1>2, <1>7, <2>1, <3>2, <4>1
    <3> QED
      BY <1>1, <1>3, <3>1, <3>3 DEF Agree, Attached, Wanted, Checked, Of
  <2> QED
    BY <1>1, <1>5, <2>2, <2>3 DEF Followed
<1>8. OwnInterface'
  BY <1>2, <1>3 DEF Follows, OwnInterface
<1> QED
  BY <1>1, <1>5, <1>6, <1>7, <1>8 DEF Follows

\* The interface that id_map holds is the one that is gone.
LEMMA TakeDisconnectedFollows == IInv /\ IInv' /\ Follows /\ InRust(TakeDisconnected) => Follows'
<1> SUFFICES ASSUME IInv, IInv', Follows, InRust(TakeDisconnected) PROVE Follows'
  OBVIOUS
<1>0. PICK d \in Device : d = Head(queue).device
  <2>1. queue \in Seq(Event) /\ queue # <<>>
    BY DEF IInv, TypeOK, BusTypeOK, InRust, TakeDisconnected
  <2>2. Head(queue) \in Event
    BY <2>1
  <2> QED
    BY <2>2 DEF Event
<1>1. /\ stage = "watching" /\ stage' = "watching"
      /\ queue # <<>> /\ ~Head(queue).up /\ queue' = Tail(queue)
      /\ id_map' = [id_map EXCEPT ![d] = NoInfo]
      /\ connected' = connected \ {id_map[d]}
      /\ missed' = missed \ {d}
      /\ UNCHANGED <<asked, bus, stream>> /\ code = "rust" /\ code' = "rust"
  BY <1>0 DEF InRust, TakeDisconnected
<1>2. queue \in Seq(Event) /\ Streaming /\ LastIsTrue
  BY DEF IInv, TypeOK, BusTypeOK, Follows
<1>3. /\ view = connected /\ view' = connected'
      /\ listening /\ listening' /\ connected \subseteq Interfaces
      /\ id_map \in [Device -> Interfaces \cup {NoInfo}]
  BY <1>1 DEF IInv, TypeOK, RustTypeOK, Listening, KnownIsTold
<1>4. /\ LastIsTrue'
      /\ \A e : Expected(e) => Expected(e)' \/ e = d
      /\ ~Expected(d)' => d \notin bus
  BY <1>0, <1>1, <1>2, Taken
<1>5. Streaming'
  BY <1>1, <1>2 DEF Streaming
<1>6. ASSUME NEW e \in Device, Alone(e), Followed(e), e # d PROVE Followed(e)'
  <2>1. id_map'[e] = id_map[e]
    BY <1>1, <1>3, <1>6
  <2>2. connected' \cap Of(e) = connected \cap Of(e)
    <3>1. id_map[d] \in Checked(d) \cup {NoInfo}
      BY DEF Follows, OwnInterface
    <3>2. id_map[d] \notin connected \cap Of(e)
      BY <1>3, <1>6, <3>1, BusAssumption DEF Checked, Of
    <3> QED
      BY <1>1, <3>2
  <2>3. Agree(e) => Agree(e)'
    BY <1>1, <1>3, <2>2 DEF Agree, Attached, Wanted
  <2> QED
    BY <1>1, <1>3, <1>4, <1>6, <2>1, <2>2, <2>3 DEF Followed
<1>7. ASSUME Alone(d), Followed(d) PROVE Followed(d)'
  <2>1. id_map'[d] = NoInfo
    BY <1>1, <1>3, <1>7
  <2>2. connected' \cap Of(d) = {}
    BY <1>1, <1>7 DEF Followed
  <2>3. ~Expected(d)' => Agree(d)'
    BY <1>1, <1>3, <1>4, <2>2 DEF Agree, Attached, Of
  <2> QED
    BY <1>1, <2>1, <2>2, <2>3 DEF Followed
<1>8. OwnInterface'
  BY <1>1, <1>3 DEF Follows, OwnInterface
<1> QED
  BY <1>1, <1>4, <1>5, <1>6, <1>7, <1>8 DEF Follows

\* Any step.
LEMMA NextFollows == IInv /\ IInv' /\ Follows /\ Heard /\ [Next]_vars => Follows'
<1>1. Follows /\ UNCHANGED vars => Follows'
  BY DEF Follows, Streaming, LastIsTrue, OwnInterface, Followed, Expected, Agree, Attached, Wanted,
         vars, busVars, world, listener, rust, go
<1>2. Follows /\ Heard /\ InGo(GoNext) => Follows'
  <2> SUFFICES ASSUME Follows, Heard, InGo(GoNext) PROVE Follows'
    OBVIOUS
  <2>1. code = "go" /\ code' = "go" /\ UNCHANGED rust
    BY DEF InGo
  <2>2. UNCHANGED world
    BY DEF InGo, GoNext, SeedKnown, Cancel, Poll, Compare, Compared, Discover, Vanish, Deliver, Close,
           busVars
  <2> QED
    BY <2>1, <2>2 DEF Follows, Streaming, LastIsTrue, OwnInterface, world, rust
<1> QED
  BY <1>1, <1>2, MoveFollows, SeedFollows, QuietFollows, TakeConnectedFollows, AnswerFollows,
     TakeDisconnectedFollows DEF Next, RustNext, HandleEvent, InRust

\* Once DeviceWatcher has handled all events its listener is right about every
\* device that has one interface that matches, and did not change in the gap
\* before the events started: whatever came and went while an event was queued or
\* a query was under way.
THEOREM RightWhenSettled == Spec => []Settled
<1>1. Spec => []Heard
  BY InitHeard, NextHeard, Invariance, PTL DEF Spec
<1>2. Spec => []Follows
  BY <1>1, InitFollows, NextFollows, Invariance, PTL DEF Spec
<1>3. IInv /\ Heard /\ Follows => Settled
  <2> SUFFICES ASSUME IInv, Heard, Follows, stage = "watching", queue = <<>>,
                      NEW d \in Device \ missed, Alone(d)
               PROVE  Agree(d)
    BY DEF Settled
  <2>1. code = "rust"
    BY DEF Heard, IInv, TypeOK
  <2>2. listening /\ ~Expected(d)
    BY <2>1 DEF IInv, Listening, Expected
  <2> QED
    BY <2>1, <2>2 DEF Follows, Followed
<1> QED
  BY <1>1, <1>2, <1>3, Invariance, PTL
=============================================================================
