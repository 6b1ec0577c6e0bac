-------------------------------- MODULE Reader --------------------------------
(***************************************************************************)
(* The input side: DeviceStateReader (src/state.rs and                     *)
(* goport/internal/mirajazz/state.go).  A reader takes one input report at *)
(* a time off the handle, which all readers of the device share behind one *)
(* mutex, has the application's process_input decode it into a snapshot,   *)
(* and turns the difference from the last snapshot into updates.           *)
(*                                                                         *)
(* The device and the person using it are external: which byte stands for  *)
(* which control is the convention of Byte, read back by ProcessInput.     *)
(***************************************************************************)
EXTENDS Integers, Sequences, FiniteSets

CONSTANTS
  Task,              \* tasks or goroutines that call read
  Reader,            \* the readers get_reader has made
  Uses,              \* Uses[t]: the reader task t calls
  Free,              \* "nobody holds the mutex of the read half"
  KeyCount, EncoderCount,
  ProtocolVersion,
  BothKeypressStates, BothEncoderStates,   \* supports_both_..._states
  ProcessInput(_, _),   \* the application's decoder of the two raw bytes
  ReportsReleases,   \* the device reports releases too
  MaxHeld,           \* bound: controls held at once
  MaxEvents,         \* bound: reports the device sends
  MaxFaults,         \* bound: reads that fail
  MaxDrops           \* bound: reads dropped half way (Rust futures; 0 for Go)

Kind == {"buttons", "encoders"}
Count(kind) == IF kind = "buttons" THEN KeyCount ELSE EncoderCount
Index(kind) == 0 .. Count(kind) - 1
Both(kind)  == IF kind = "buttons" THEN BothKeypressStates ELSE BothEncoderStates

\* A snapshot is a Vec<bool>; the decoder chooses its length.
IsSnapshot(s) == \E n \in 0 .. 64 : s \in [0 .. n - 1 -> BOOLEAN]
NoData    == [kind |-> "none"]
BadData   == [kind |-> "error"]      \* process_input returned an error
Changed(kind, snapshot) == [kind |-> kind, states |-> snapshot]
Twisted(i, change) == [kind |-> "twist", index |-> i, change |-> change]
IsInput(in) ==
  \/ in = NoData
  \/ in.kind \in Kind /\ IsSnapshot(in.states) /\ in = Changed(in.kind, in.states)
  \/ in \in [kind : {"twist"}, index : Index("encoders"), change : {-1, 1}]

ASSUME ReaderAssumption ==
  /\ Uses \in [Task -> Reader]
  /\ Free \notin Task
  /\ KeyCount \in 0..64 /\ EncoderCount \in 0..32
  /\ ProtocolVersion \in 0..3
  /\ {BothKeypressStates, BothEncoderStates, ReportsReleases} \subseteq BOOLEAN
  /\ {MaxHeld, MaxEvents, MaxFaults, MaxDrops} \subseteq Nat
  /\ \A key, state \in 0..255 : ProcessInput(key, state) = BadData \/ IsInput(ProcessInput(key, state))

VARIABLES
  held,        \* held[kind]: the controls somebody is holding down
  queue,       \* input reports the device has sent and nobody has read
  readLock,    \* the task inside a read of the handle, or Free
  pc, timed,   \* where each task is, and whether its read has a timeout
  input,       \* input[t]: what t has decoded and not yet compared
  updates,     \* updates[t]: what t has computed and read has not returned yet
  states,      \* states[r]: DeviceState of reader r
  events, faults, drops,
  \* History, read by no action:
  presses, downs,    \* how often each control was pressed, and told down
  turns, turned,     \* how far each encoder was turned, and told turned
  told,        \* told[r]: what the updates computed by r say is down
  repeated,    \* the updates computed by a reader said the same twice in a row
  heard,       \* heard[r]: what a listener to r believes is down
  echoed       \* the readers whose listener heard the same twice in a row

device   == <<held, queue, events, presses, turns>>
bounds   == <<faults, drops>>
computed == <<downs, turned, told, repeated>>
listener == <<heard, echoed>>
history  == <<computed, listener>>
vars     == <<device, readLock, pc, timed, input, updates, states, bounds, history>>

Report == [ack : BOOLEAN, key : 0..255, state : 0..255]
\* What one read computes of some controls; of none.
IsUpdates(u) ==
  \E n \in 0 .. 64 : u \in [0 .. n - 1 -> {<<>>, <<"down">>, <<"up">>, <<"down", "up">>}]
Nothing == [kind \in Kind |-> [i \in {} |-> <<>>]]
Zero(kind)    == [i \in Index(kind) |-> 0]
AllUp(kind)   == [i \in Index(kind) |-> FALSE]
InitialStates == [kind \in Kind |-> AllUp(kind)]

\* Types: nothing but the inputs of types.rs is ever compared with a snapshot,
\* and what an error leaves behind is not (src/state.rs:83-125).
TypeOK ==
  /\ held \in [Kind -> SUBSET Nat] /\ \A kind \in Kind : held[kind] \subseteq Index(kind)
  /\ queue \in Seq(Report)
  /\ readLock \in Task \cup {Free}
  /\ pc \in [Task -> {"idle", "waiting", "reading", "decoded", "returning"}]
  /\ timed \in [Task -> BOOLEAN]
  /\ DOMAIN input = Task /\ \A t \in Task : IsInput(input[t])
  /\ \A t \in Task, kind \in Kind : IsUpdates(updates[t][kind])
  /\ \A r \in Reader, kind \in Kind : IsSnapshot(states[r][kind])
  /\ events \in 0..MaxEvents /\ faults \in 0..MaxFaults /\ drops \in 0..MaxDrops
  /\ \A kind \in Kind : {presses[kind], downs[kind]} \subseteq [Index(kind) -> Nat]
  /\ {turns, turned} \subseteq [Index("encoders") -> Int]
  /\ \A r \in Reader, kind \in Kind :
       told[r][kind] \in [Index(kind) -> BOOLEAN] /\ heard[r][kind] \in [Index(kind) -> BOOLEAN]
  /\ repeated \in BOOLEAN /\ echoed \subseteq Reader

Init ==
  /\ held = [kind \in Kind |-> {}]
  /\ queue = <<>>
  /\ readLock = Free
  /\ pc = [t \in Task |-> "idle"]
  /\ timed = [t \in Task |-> FALSE]
  /\ input = [t \in Task |-> NoData]
  /\ updates = [t \in Task |-> Nothing]
  /\ states = [r \in Reader |-> InitialStates]
  /\ events = 0 /\ faults = 0 /\ drops = 0
  /\ presses = [kind \in Kind |-> Zero(kind)] /\ downs = presses
  /\ turns = Zero("encoders") /\ turned = turns
  /\ told = [r \in Reader |-> InitialStates] /\ heard = told
  /\ repeated = FALSE /\ echoed = {}

-----------------------------------------------------------------------------
(***************************************************************************)
(* The device.  Buttons send their index, encoders 64 more when pressed,   *)
(* and 128 or 160 more when turned down or up.                             *)
(***************************************************************************)
Byte(kind, i)  == IF kind = "buttons" THEN i ELSE 64 + i
TurnByte(i, d) == (IF d = 1 THEN 160 ELSE 128) + i

Send(key, state) ==
  /\ events < MaxEvents
  /\ events' = events + 1
  /\ queue' = Append(queue, [ack |-> ProtocolVersion > 0, key |-> key, state |-> state])

HowManyHeld == Cardinality(held["buttons"]) + Cardinality(held["encoders"])

Press(kind, i) ==
  /\ i \notin held[kind]
  /\ HowManyHeld < MaxHeld
  /\ held' = [held EXCEPT ![kind] = @ \cup {i}]
  /\ Send(Byte(kind, i), 1)
  /\ presses' = [presses EXCEPT ![kind][i] = @ + 1]
  /\ UNCHANGED <<turns, readLock, pc, timed, input, updates, states, bounds, history>>

Release(kind, i) ==
  /\ i \in held[kind]
  /\ held' = [held EXCEPT ![kind] = @ \ {i}]
  /\ IF ReportsReleases THEN Send(Byte(kind, i), 0) ELSE UNCHANGED <<queue, events>>
  /\ UNCHANGED <<presses, turns, readLock, pc, timed, input, updates, states, bounds, history>>

Turn(i, d) ==
  /\ Send(TurnByte(i, d), 0)
  /\ turns' = [turns EXCEPT ![i] = @ + d]
  /\ UNCHANGED <<held, presses, readLock, pc, timed, input, updates, states, bounds, history>>

\* Reports that are no input event: one without the prefix, which only newer
\* firmware can tell apart, and one the application cannot decode.
Noise ==
  /\ events < MaxEvents
  /\ events' = events + 1
  /\ \/ /\ ProtocolVersion > 0
        /\ \E i \in Index("buttons") :
             queue' = Append(queue, [ack |-> FALSE, key |-> Byte("buttons", i), state |-> 1])
     \/ queue' = Append(queue, [ack |-> ProtocolVersion > 0, key |-> 255, state |-> 1])
  /\ UNCHANGED <<held, presses, turns, readLock, pc, timed, input, updates, states, bounds, history>>

-----------------------------------------------------------------------------
(***************************************************************************)
(* read: wait for the mutex of the read half; wait, holding it, for a      *)
(* report or for the timeout, which starts only now; decode the report;    *)
(* compare it with the last snapshot under the mutex of the reader.        *)
(***************************************************************************)
Begin(t) ==
  /\ pc[t] = "idle"
  /\ pc' = [pc EXCEPT ![t] = "waiting"]
  /\ \E timeout \in BOOLEAN : timed' = [timed EXCEPT ![t] = timeout]
  /\ UNCHANGED <<device, readLock, input, updates, states, bounds, history>>

TakeReader(t) ==
  /\ pc[t] = "waiting"
  /\ readLock = Free
  /\ readLock' = t
  /\ pc' = [pc EXCEPT ![t] = "reading"]
  /\ UNCHANGED <<device, timed, input, updates, states, bounds, history>>

\* read_input, from the report on.  Faulty variant: no look at the prefix.
DecodeAnything(r) == ProcessInput(r.key, IF BothKeypressStates THEN r.state ELSE 1)

Decode(r) ==
  IF ~r.ack /\ ProtocolVersion > 0
  THEN NoData
  ELSE ProcessInput(r.key, IF BothKeypressStates THEN r.state ELSE 1)

\* Faulty variant of ReadReport: the decoder's error is taken for an input.
ReadErrorsToo(t) ==
  /\ pc[t] = "reading"
  /\ queue # <<>>
  /\ queue' = Tail(queue)
  /\ readLock' = Free
  /\ pc' = [pc EXCEPT ![t] = "decoded"]
  /\ input' = [input EXCEPT ![t] = Decode(Head(queue))]
  /\ UNCHANGED <<held, events, presses, turns, timed, updates, states, bounds, history>>

ReadReport(t) ==
  /\ pc[t] = "reading"
  /\ queue # <<>>
  /\ queue' = Tail(queue)
  /\ readLock' = Free
  /\ LET decoded == Decode(Head(queue))
     IN  IF decoded = BadData
         THEN pc' = [pc EXCEPT ![t] = "idle"] /\ UNCHANGED input
         ELSE pc' = [pc EXCEPT ![t] = "decoded"] /\ input' = [input EXCEPT ![t] = decoded]
  /\ UNCHANGED <<held, events, presses, turns, timed, updates, states, bounds, history>>

\* Faulty variant of TimeOut: the mutex is kept.
TimeOutLocked(t) ==
  /\ pc[t] = "reading" /\ timed[t]
  /\ pc' = [pc EXCEPT ![t] = "idle"]
  /\ UNCHANGED <<device, readLock, timed, input, updates, states, bounds, history>>

\* Faulty variant of TimeOut: a report that came too late is thrown away.
TimeOutLoses(t) ==
  /\ pc[t] = "reading" /\ timed[t]
  /\ queue' = IF queue = <<>> THEN queue ELSE Tail(queue)
  /\ readLock' = Free
  /\ pc' = [pc EXCEPT ![t] = "idle"]
  /\ UNCHANGED <<held, events, presses, turns, timed, input, updates, states, bounds, history>>

\* No report in time: NoData, which changes nothing.
TimeOut(t) ==
  /\ pc[t] = "reading" /\ timed[t]
  /\ readLock' = Free
  /\ pc' = [pc EXCEPT ![t] = "idle"]
  /\ UNCHANGED <<device, timed, input, updates, states, bounds, history>>

\* The backend reports an error.
FailRead(t) ==
  /\ pc[t] = "reading"
  /\ faults < MaxFaults
  /\ faults' = faults + 1
  /\ readLock' = Free
  /\ pc' = [pc EXCEPT ![t] = "idle"]
  /\ UNCHANGED <<device, timed, input, updates, states, drops, history>>

\* A Rust caller drops the future: while it waits for the read half or for a
\* report; or, if another task is inside the same reader's states mutex, with
\* a report already taken, which is then lost.  After the comparison nothing
\* is awaited any more.
Drop(t) ==
  /\ \/ pc[t] \in {"waiting", "reading"}
     \/ pc[t] = "decoded" /\ \E u \in Task \ {t} : Uses[u] = Uses[t] /\ pc[u] = "decoded"
  /\ drops < MaxDrops
  /\ drops' = drops + 1
  /\ readLock' = IF readLock = t THEN Free ELSE readLock
  /\ pc' = [pc EXCEPT ![t] = "idle"]
  /\ input' = [input EXCEPT ![t] = NoData]
  /\ UNCHANGED <<device, timed, updates, states, faults, history>>

-----------------------------------------------------------------------------
(***************************************************************************)
(* input_to_updates.  A control in both snapshots gives the updates        *)
(* Changes(...)[i], in this order; different controls do not interact.     *)
(***************************************************************************)
\* Faulty variant of Changes: releases are not told.
ChangesDown(kind, theirs, mine) ==
  [i \in DOMAIN theirs \cap DOMAIN mine |->
     CASE ~Both(kind) /\ theirs[i]             -> <<"down", "up">>
       [] Both(kind) /\ theirs[i] /\ ~mine[i]  -> <<"down">>
       [] OTHER                                -> <<>>]

Changes(kind, theirs, mine) ==
  [i \in DOMAIN theirs \cap DOMAIN mine |->
     CASE ~Both(kind) /\ theirs[i]             -> <<"down", "up">>
       [] Both(kind) /\ theirs[i] /\ ~mine[i]  -> <<"down">>
       [] Both(kind) /\ ~theirs[i] /\ mine[i]  -> <<"up">>
       [] OTHER                                -> <<>>]

\* What who believes `believed' of the controls of a kind believes after
\* updates, and whether one of them says what is believed already.
Hear(believed, ups) ==
  [i \in DOMAIN believed |->
     IF i \in DOMAIN ups /\ ups[i] # <<>> THEN ups[i][Len(ups[i])] = "down" ELSE believed[i]]
Echoes(believed, ups) ==
  \E i \in DOMAIN ups : ups[i] # <<>> /\ believed[i] = (ups[i][1] = "down")

\* The updates t has computed of one kind.
Tell(t, kind, ups) ==
  LET r == Uses[t]
  IN  /\ updates' = [updates EXCEPT ![t][kind] = ups]
      /\ told' = [told EXCEPT ![r][kind] = Hear(@, ups)]
      /\ downs' = [downs EXCEPT ![kind] =
                    [i \in DOMAIN @ |->
                       IF i \in DOMAIN ups /\ ups[i] # <<>> /\ ups[i][1] = "down"
                       THEN @[i] + 1 ELSE @[i]]]
      /\ repeated' = (repeated \/ Echoes(told[r][kind], ups))

\* Faulty variant of UpdateStates: the new snapshot is not kept.
UpdateForgets(t) ==
  LET in == input[t]  kind == in.kind
  IN  /\ pc[t] = "decoded" /\ kind \in Kind
      /\ Tell(t, kind, Changes(kind, in.states, states[Uses[t]][kind]))
      /\ pc' = [pc EXCEPT ![t] = "returning"]
      /\ input' = [input EXCEPT ![t] = NoData]
      /\ UNCHANGED <<device, readLock, timed, states, bounds, turned, listener>>

\* All of this under the states mutex of the reader.
UpdateStates(t) ==
  LET r == Uses[t]  in == input[t]  kind == in.kind
  IN  /\ pc[t] = "decoded" /\ kind \in Kind
      /\ Tell(t, kind, Changes(kind, in.states, states[r][kind]))
      /\ states' = [states EXCEPT ![r][kind] = in.states]
      /\ pc' = [pc EXCEPT ![t] = "returning"]
      /\ input' = [input EXCEPT ![t] = NoData]
      /\ UNCHANGED <<device, readLock, timed, bounds, turned, listener>>

\* A twist, or nothing: the stored snapshots stay as they are.
UpdateTwist(t) ==
  /\ pc[t] = "decoded" /\ input[t].kind \notin Kind
  /\ turned' = IF input[t].kind = "twist"
               THEN [turned EXCEPT ![input[t].index] = @ + input[t].change]
               ELSE turned
  /\ pc' = [pc EXCEPT ![t] = "returning"]
  /\ input' = [input EXCEPT ![t] = NoData]
  /\ UNCHANGED <<device, readLock, timed, updates, states, bounds, downs, told, repeated, listener>>

\* The mutex is released and read returns the updates: only now, and after
\* whatever other tasks have returned meanwhile, does the listener hear them.
Return(t) ==
  LET r == Uses[t]
  IN  /\ pc[t] = "returning"
      /\ heard' = [heard EXCEPT ![r] =
                     [kind \in Kind |-> Hear(@[kind], updates[t][kind])]]
      /\ echoed' = IF \E kind \in Kind : Echoes(heard[r][kind], updates[t][kind])
                   THEN echoed \cup {r} ELSE echoed
      /\ updates' = [updates EXCEPT ![t] = Nothing]
      /\ pc' = [pc EXCEPT ![t] = "idle"]
      /\ UNCHANGED <<device, readLock, timed, input, states, bounds, computed>>

-----------------------------------------------------------------------------
Device ==
  \/ \E kind \in Kind : \E i \in Index(kind) : Press(kind, i) \/ Release(kind, i)
  \/ \E i \in Index("encoders"), d \in {-1, 1} : Turn(i, d)
  \/ Noise

Update(t) == UpdateStates(t) \/ UpdateTwist(t)

Next ==
  \/ Device
  \/ \E t \in Task :
       \/ Begin(t) \/ TakeReader(t) \/ ReadReport(t) \/ TimeOut(t) \/ FailRead(t)
         \/ Drop(t) \/ Update(t) \/ Return(t)

Spec == Init /\ [][Next]_vars

(***************************************************************************)
(* The callers read in a loop, as all of them do.  A task that waits for   *)
(* the mutex of the read half gets it sooner or later if it keeps being    *)
(* released.  A read looks for a report before it looks at the clock, so   *)
(* no report is overtaken by timeouts for ever.                            *)
(***************************************************************************)
Fairness ==
  \A t \in Task :
    /\ WF_vars(Begin(t)) /\ SF_vars(TakeReader(t))
    /\ SF_vars(ReadReport(t)) /\ WF_vars(TimeOut(t))
    /\ WF_vars(Update(t)) /\ WF_vars(Return(t))

FairSpec == Spec /\ Fairness

-----------------------------------------------------------------------------
\* processInput of the daemon: the snapshot has at most one button in it.
processInput(key, state) ==
  Changed("buttons", [i \in Index("buttons") |-> i = key /\ state = 1])
=============================================================================
