--------------------------- MODULE ReaderProperties ---------------------------
(***************************************************************************)
(* What the input side should do for an application.                       *)
(***************************************************************************)
EXTENDS Reader

\* Everything the device sent has been read, decoded, compared and returned.
Quiescent == queue = <<>> /\ \A t \in Task : pc[t] \notin {"decoded", "returning"}

\* At most one task reads with r.
Exclusive(r) == \A t, u \in Task : Uses[t] = r /\ Uses[u] = r => t = u

\* Once everything is returned, a listener believes down exactly what is held
\* down (the diffing of src/state.rs:127-187 over the snapshots of
\* process_input).
HeardIsHeld ==
  Quiescent => \A r \in Reader : \A kind \in Kind :
                 held[kind] = {i \in Index(kind) : heard[r][kind][i]}

\* Once everything is returned, every turn has been told exactly once, and so
\* has every press of a control reported in one state only, whichever tasks
\* read and in whatever order their reports were compared, across timeouts,
\* failed reads and reports without the ACK prefix (src/state.rs:89-114,136-140).
NothingMissed ==
  (Quiescent /\ drops = 0) =>
    /\ turned = turns
    /\ \A kind \in Kind : ~Both(kind) => downs[kind] = presses[kind]

\* No listener is told of a press nobody made, at any moment
\* (src/state.rs:104-111; goport/internal/mirajazz/state.go:105-120).
NoGhostPress ==
  \A kind \in Kind : \A i \in Index(kind) : downs[kind][i] <= presses[kind][i]

\* In the order in which they are computed, under the states mutex, the updates
\* of a reader never say "down" of what they said is down, nor "up" of what
\* they said is up, however many tasks share it (src/state.rs:127-150).  The
\* mutex is released before they are returned (src/state.rs:184-186), so tasks
\* that share a reader may deliver them in another order; but the listener of
\* a reader that one task uses never hears the same twice in a row.
Alternates ==
  /\ ~repeated
  /\ \A r \in Reader : Exclusive(r) => r \notin echoed

\* What the updates computed so far say is what the reader has stored, at any
\* moment, for every kind of control reported in both states
\* (src/state.rs:150,171).
ToldIsStored ==
  \A r \in Reader : \A kind \in Kind : Both(kind) => told[r][kind] = states[r][kind]

\* What is held down, and stays so, is eventually heard to be down; and what
\* is up, and stays so, is heard to be up.
EventuallyHeard ==
  \A kind \in Kind : \A i \in Index(kind) : \A r \in Reader :
    /\ (i \in held[kind]) ~> (heard[r][kind][i] \/ i \notin held[kind])
    /\ (i \notin held[kind]) ~> (~heard[r][kind][i] \/ i \in held[kind])

\* A read with a timeout comes back even if no report ever arrives
\* (src/state.rs:55-57; goport/internal/mirajazz/state.go:74-75).
TimedReadReturns ==
  \A t \in Task : (pc[t] = "waiting" /\ timed[t]) ~> (pc[t] \notin {"waiting", "reading"})

-----------------------------------------------------------------------------
(***************************************************************************)
(* What an application's decoder must do for Alternates and ToldIsStored   *)
(* to hold: give a snapshot of every control, however few are down.  A     *)
(* reader compares only as many controls as both snapshots have, so the    *)
(* shorter one hides the others (src/state.rs:134,155).                    *)
(***************************************************************************)
Full(in) == in.kind \in Kind => in.states \in [Index(in.kind) -> BOOLEAN]

FullSnapshots == \A key, state \in 0..255 : Full(ProcessInput(key, state))


(***************************************************************************)
(* A decoder like the daemon's, the only one in the repository that yields *)
(* input (main.go:122-128), with encoders added in the same way: a report  *)
(* says that one control is down, or that none is, or that an encoder was  *)
(* turned.  When releases are reported the state byte must be looked at.   *)
(* For the byte of no control the daemon's says that nothing is down;      *)
(* another may call it an error, or no input.                              *)
(***************************************************************************)
Pressed(kind, i) == Changed(kind, [j \in Index(kind) |-> j = i])
Released(kind)   == Changed(kind, AllUp(kind))
NotAnInput == {NoData, BadData}

FaithfulDecoder ==
  /\ \A kind \in Kind : \A i \in Index(kind) :
       /\ ProcessInput(Byte(kind, i), 1) = Pressed(kind, i)
       /\ ReportsReleases => BothKeypressStates /\ ProcessInput(Byte(kind, i), 0) = Released(kind)
  /\ \A i \in Index("encoders"), d \in {-1, 1}, state \in {0, 1} :
       ProcessInput(TurnByte(i, d), state) = Twisted(i, d)
  /\ \A state \in {0, 1} :
       ProcessInput(255, state) \in NotAnInput \cup {Released(kind) : kind \in Kind}

\* The byte of no control says nothing about those there are.  The daemon's
\* decoder is not so.
IgnoresUnknown == \A state \in {0, 1} : ProcessInput(255, state) \in NotAnInput

\* One task reads, with the one reader there is; one control is held at once;
\* both states of buttons and encoders are reported.
OneByOne ==
  /\ \A t, u \in Task : t = u
  /\ \A r \in Reader : \E t \in Task : Uses[t] = r
  /\ MaxHeld <= 1
  /\ ReportsReleases /\ BothKeypressStates /\ BothEncoderStates
=============================================================================
