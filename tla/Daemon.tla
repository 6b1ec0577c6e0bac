--------------------------------- MODULE Daemon ---------------------------------
(***************************************************************************)
(* The daemon (goport/cmd/ampligame-daemon/main.go) over the Go handle:    *)
(* main opens the panel, lights and clears it, and then handles button     *)
(* events until a signal comes; readDeviceLoop reads reports and forwards  *)
(* the changes on a channel; every press starts a goroutine that posts it. *)
(*                                                                         *)
(* The calls main makes of the handle are those of GoOps, report by report *)
(* on the wire to Panel.  The daemon draws nothing, so the image cache is  *)
(* empty, and steps that only touch it have no effect.                     *)
(***************************************************************************)
EXTENDS GoOps, Panel

CONSTANTS
  NoKey,        \* a key byte that is no button
  Capacity,     \* of eventChan: 10
  MaxReports,   \* bound: reports the device sends
  MaxFaults     \* bound: calls of the backend that fail

ASSUME DaemonAssumption ==
  /\ NoKey \notin Key
  /\ Capacity \in Nat \ {0}
  /\ {MaxReports, MaxFaults} \subseteq Nat

VARIABLES
  stage,        \* where main is
  todo,         \* the steps left of the call it is in
  initialized,  \* the flag of the handle
  panel,
  signal,       \* a signal waits in sigChan
  events,       \* eventChan
  reader,       \* where readDeviceLoop is
  states,       \* the buttons that are down in the reader's last snapshot
  batch,        \* the buttons whose change is not yet forwarded
  flying,       \* flying[k]: the posts of button k that are under way
  reports, faults,
  \* History, read by no action:
  reported,     \* the button that the last report tells down
  pressed,      \* pressed[k]: how often a report told k down anew
  posted,       \* posted[k]: how often a post was started for k
  handled,      \* handled[k]: the last event main handled of k was a press
  last,         \* the last report written
  failedIn      \* the stages in which a write failed

main    == <<stage, todo, initialized, panel, last, failedIn>>
loop    == <<reader, states, batch>>
hooks   == <<flying, posted, handled>>
outside == <<reports, reported, pressed>>
vars    == <<main, signal, events, loop, hooks, outside, faults>>

ButtonEvent == [button : Key, down : BOOLEAN]

Call == [lighting |-> SetBrightness(50), clearing |-> ClearAllButtonImages, stopping |-> Shutdown]

\* What main does once a call has returned, whether it failed or not.
After == [lighting |-> "clearing", clearing |-> "running", stopping |-> "closing"]

Ended == {"over", "killed"}

Alive == stage \notin Ended

\* Types; and no more events wait than the channel holds (main.go:93).
TypeOK ==
  /\ stage \in {"init", "open", "connect", "running", "closing", "exiting"} \cup DOMAIN Call \cup Ended
  /\ todo \in Seq(Step)
  /\ initialized \in BOOLEAN /\ signal \in BOOLEAN
  /\ panel \in PanelState
  /\ events \in Seq(ButtonEvent) /\ Len(events) <= Capacity
  /\ reader \in {"none", "reading", "forwarding", "sleeping"}
  /\ states \subseteq Key /\ batch \subseteq Key
  /\ reports \in 0..MaxReports /\ faults \in 0..MaxFaults
  /\ reported \in Key \cup {NoKey}
  /\ {flying, pressed, posted} \subseteq [Key -> Nat]
  /\ handled \in [Key -> BOOLEAN]
  /\ last \in Report
  /\ failedIn \subseteq DOMAIN Call

Init ==
  /\ stage = "init" /\ todo = <<>>
  /\ initialized = FALSE /\ panel = PanelInit
  /\ last = STP /\ failedIn = {}
  /\ signal = FALSE /\ events = <<>>
  /\ reader = "none" /\ states = {} /\ batch = {}
  /\ flying = [k \in Key |-> 0] /\ posted = flying /\ pressed = flying
  /\ handled = [k \in Key |-> FALSE]
  /\ reports = 0 /\ faults = 0 /\ reported = NoKey

Fault ==
  /\ faults < MaxFaults
  /\ faults' = faults + 1

-----------------------------------------------------------------------------
(***************************************************************************)
(* main.                                                                   *)
(***************************************************************************)
Enter(s) ==
  /\ stage' = s
  /\ todo' = IF s \in DOMAIN Call THEN Call[s] ELSE <<>>

\* hidapi.Init, OpenFirst and Connect; an error of theirs is fatal, and
\* log.Fatalf runs no deferred call.
Open3 == [init |-> "open", open |-> "connect", connect |-> "lighting"]

OpenDevice ==
  /\ stage \in DOMAIN Open3
  /\ \/ Enter(Open3[stage]) /\ UNCHANGED faults
     \/ Enter("over") /\ Fault
  /\ UNCHANGED <<initialized, panel, last, failedIn, signal, events, loop, hooks, outside>>

\* Faulty variant of Greet: the handshake is put off until the call is done.
GreetLate ==
  /\ todo # <<>> /\ Head(todo) = INITIALIZE
  /\ initialized' = TRUE
  /\ todo' = Tail(todo) \o (IF initialized THEN <<>> ELSE <<Write(Cmd("DIS", 0)), Write(Cmd("LIG", 0))>>)
  /\ UNCHANGED <<stage, panel, last, failedIn, signal, events, loop, hooks, outside, faults>>

\* The handshake replaces the step that asks for it, the first time.
Greet ==
  /\ todo # <<>> /\ Head(todo) = INITIALIZE
  /\ initialized' = TRUE
  /\ todo' = (IF initialized THEN <<>> ELSE <<Write(Cmd("DIS", 0)), Write(Cmd("LIG", 0))>>) \o Tail(todo)
  /\ UNCHANGED <<stage, panel, last, failedIn, signal, events, loop, hooks, outside, faults>>

WriteReport ==
  /\ todo # <<>> /\ Head(todo).do = "write"
  /\ panel' = Deliver(panel, Head(todo).report)
  /\ last' = Head(todo).report
  /\ todo' = Tail(todo)
  /\ UNCHANGED <<stage, initialized, failedIn, signal, events, loop, hooks, outside, faults>>

\* The call returns the error, and main logs it.
FailWrite ==
  /\ todo # <<>> /\ Head(todo).do = "write"
  /\ Fault
  /\ todo' = <<>>
  /\ failedIn' = failedIn \cup {stage}
  /\ UNCHANGED <<stage, initialized, panel, last, signal, events, loop, hooks, outside>>

TouchCache ==
  /\ todo # <<>> /\ Head(todo).do \in {"remove", "empty"}
  /\ todo' = Tail(todo)
  /\ UNCHANGED <<stage, initialized, panel, last, failedIn, signal, events, loop, hooks, outside, faults>>

\* The reader goroutine starts with the loop.
CallReturns ==
  /\ stage \in DOMAIN Call /\ todo = <<>>
  /\ Enter(After[stage])
  /\ reader' = IF stage' = "running" THEN "reading" ELSE reader
  /\ UNCHANGED <<initialized, panel, last, failedIn, signal, events, states, batch, hooks, outside, faults>>

\* Faulty variant of HandleEvent: releases are posted too.
HandleAnyEvent ==
  /\ stage = "running" /\ events # <<>>
  /\ events' = Tail(events)
  /\ LET event == Head(events)  k == event.button IN
       /\ handled' = [handled EXCEPT ![k] = event.down]
       /\ flying' = [flying EXCEPT ![k] = @ + 1]
       /\ posted' = [posted EXCEPT ![k] = @ + 1]
  /\ UNCHANGED <<main, signal, loop, outside, faults>>

\* handleButtonAction: a press starts a post, a release is only logged.
HandleEvent ==
  /\ stage = "running" /\ events # <<>>
  /\ events' = Tail(events)
  /\ LET event == Head(events)  k == event.button IN
       /\ handled' = [handled EXCEPT ![k] = event.down]
       /\ flying' = [flying EXCEPT ![k] = IF event.down THEN @ + 1 ELSE @]
       /\ posted' = [posted EXCEPT ![k] = IF event.down THEN @ + 1 ELSE @]
  /\ UNCHANGED <<main, signal, loop, outside, faults>>

\* Faulty variant of TakeSignal: main waits until the reader is between events.
TakeSignalIdle ==
  /\ stage = "running" /\ signal
  /\ events = <<>> /\ reader = "sleeping"
  /\ signal' = FALSE
  /\ Enter("stopping")
  /\ UNCHANGED <<initialized, panel, last, failedIn, events, loop, hooks, outside, faults>>

\* Faulty variant of TakeSignal: main returns without Shutdown.
TakeSignalCloses ==
  /\ stage = "running" /\ signal
  /\ signal' = FALSE
  /\ Enter("closing")
  /\ UNCHANGED <<initialized, panel, last, failedIn, events, loop, hooks, outside, faults>>

TakeSignal ==
  /\ stage = "running" /\ signal
  /\ signal' = FALSE
  /\ Enter("stopping")
  /\ UNCHANGED <<initialized, panel, last, failedIn, events, loop, hooks, outside, faults>>

\* The deferred calls, last one first: device.Close, hidapi.Exit.
Deferred ==
  /\ stage \in {"closing", "exiting"}
  /\ Enter(IF stage = "closing" THEN "exiting" ELSE "over")
  /\ UNCHANGED <<initialized, panel, last, failedIn, signal, events, loop, hooks, outside, faults>>

\* SIGINT or SIGTERM: it ends the process at once until signal.Notify was
\* called; then one waits in sigChan, and others are dropped.
Signal ==
  /\ Alive
  /\ IF stage \in {"running", "stopping", "closing", "exiting"}
     THEN signal' = TRUE /\ UNCHANGED <<stage, todo>>
     ELSE Enter("killed") /\ UNCHANGED signal
  /\ UNCHANGED <<initialized, panel, last, failedIn, events, loop, hooks, outside, faults>>

-----------------------------------------------------------------------------
(***************************************************************************)
(* readDeviceLoop, and the goroutines that post.  They end with the        *)
(* process; until then the reader goes on, even once main has closed the   *)
(* handle it reads from (what such a read returns is up to the backend).   *)
(***************************************************************************)
\* processInput: a snapshot with at most one button in it.
Snapshot(key, down) == {k \in Key : k = key /\ down}

Difference(old, new) == (old \ new) \cup (new \ old)

\* Faulty variant of ReadReport: the snapshot is compared and not kept.
ReadForgets(key, down) ==
  /\ Alive /\ reader = "reading"
  /\ reports < MaxReports /\ reports' = reports + 1
  /\ batch' = Difference(states, Snapshot(key, down))
  /\ reader' = IF batch' = {} THEN "reading" ELSE "forwarding"
  /\ reported' = IF down THEN key ELSE NoKey
  /\ pressed' = [k \in Key |-> IF down /\ k = key /\ k # reported THEN pressed[k] + 1 ELSE pressed[k]]
  /\ UNCHANGED <<main, signal, events, states, hooks, faults>>

\* A report tells that a button is down or up.  (One that is no input event
\* changes nothing.)
ReadReport(key, down) ==
  /\ Alive /\ reader = "reading"
  /\ reports < MaxReports /\ reports' = reports + 1
  /\ states' = Snapshot(key, down)
  /\ batch' = Difference(states, states')
  /\ reader' = IF batch' = {} THEN "reading" ELSE "forwarding"
  /\ reported' = IF down THEN key ELSE NoKey
  /\ pressed' = [k \in Key |-> IF down /\ k = key /\ k # reported THEN pressed[k] + 1 ELSE pressed[k]]
  /\ UNCHANGED <<main, signal, events, hooks, faults>>

\* Faulty variant of Forward: an event that finds the channel full is dropped.
ForwardOrDrop ==
  /\ Alive /\ reader = "forwarding"
  /\ \E k \in batch :
       /\ \A j \in batch : k <= j
       /\ events' = IF Len(events) < Capacity
                    THEN Append(events, [button |-> k, down |-> k \in states])
                    ELSE events
       /\ batch' = batch \ {k}
  /\ reader' = IF batch' = {} THEN "reading" ELSE "forwarding"
  /\ UNCHANGED <<main, signal, states, hooks, outside, faults>>

\* Faulty variant of Forward: the channel takes any number of events.
ForwardUnbounded ==
  /\ Alive /\ reader = "forwarding"
  /\ \E k \in batch :
       /\ \A j \in batch : k <= j
       /\ events' = Append(events, [button |-> k, down |-> k \in states])
       /\ batch' = batch \ {k}
  /\ reader' = IF batch' = {} THEN "reading" ELSE "forwarding"
  /\ UNCHANGED <<main, signal, states, hooks, outside, faults>>

\* One update, lowest button first; the goroutine waits while the channel is full.
Forward ==
  /\ Alive /\ reader = "forwarding"
  /\ Len(events) < Capacity
  /\ \E k \in batch :
       /\ \A j \in batch : k <= j
       /\ events' = Append(events, [button |-> k, down |-> k \in states])
       /\ batch' = batch \ {k}
  /\ reader' = IF batch' = {} THEN "reading" ELSE "forwarding"
  /\ UNCHANGED <<main, signal, states, hooks, outside, faults>>

\* An error is logged; after a second the loop goes on.
FailRead ==
  /\ Alive /\ reader = "reading"
  /\ Fault
  /\ reader' = "sleeping"
  /\ UNCHANGED <<main, signal, events, states, batch, hooks, outside>>

Wake ==
  /\ Alive /\ reader = "sleeping"
  /\ reader' = "reading"
  /\ UNCHANGED <<main, signal, events, states, batch, hooks, outside, faults>>

\* dispatchWebhook returns: an answer, an error, or its three seconds are over.
EndPost(k) ==
  /\ Alive /\ flying[k] > 0
  /\ flying' = [flying EXCEPT ![k] = @ - 1]
  /\ UNCHANGED <<main, signal, events, loop, posted, handled, outside, faults>>

-----------------------------------------------------------------------------
CallStep == Greet \/ WriteReport \/ FailWrite \/ TouchCache \/ CallReturns
Main     == OpenDevice \/ CallStep \/ HandleEvent \/ TakeSignal \/ Deferred
Read     == \E key \in Key \cup {NoKey}, down \in BOOLEAN : ReadReport(key, down)

Next ==
  \/ Main \/ Signal
  \/ Read \/ Forward \/ FailRead \/ Wake
  \/ \E k \in Key : EndPost(k)

Spec == Init /\ [][Next]_vars

(***************************************************************************)
(* Goroutines that can run do run, and the backend answers every write.    *)
(* Select picks any case that is ready, so neither is passed over for      *)
(* ever.  Nobody presses a button or sends a signal by fairness.           *)
(***************************************************************************)
Fairness ==
  /\ WF_vars(OpenDevice \/ CallStep \/ Deferred)
  /\ WF_vars(HandleEvent) /\ WF_vars(TakeSignal)
  /\ WF_vars(Forward) /\ WF_vars(Wake)
  /\ \A k \in Key : WF_vars(EndPost(k))

FairSpec == Spec /\ Fairness

-----------------------------------------------------------------------------
\* What main has handled last of button k (at 0), its events in the channel, and
\* the next one that the reader would send (behind the last).
Said(k, n) ==
  CASE n = 0                -> handled[k]
    [] n \in DOMAIN events   -> events[n].down
    [] n = Len(events) + 1  -> k \notin Difference(states, batch)

Moments(k) == {0, Len(events) + 1} \cup {n \in DOMAIN events : events[n].button = k}

\* No double trigger: on the way from the reader to main, through a batch and a
\* channel that fills up, the events of a button alternate, and the last one says
\* what the reader has stored (main.go:140-147; "to avoid double-triggering", :159).
NoDoubleTrigger ==
  \A k \in Key : \A m, n \in Moments(k) :
    m < n /\ (\A l \in Moments(k) : l <= m \/ n <= l) => Said(k, m) # Said(k, n)

PressesWaiting(k) == {n \in DOMAIN events : events[n].button = k /\ events[n].down}

\* Every press that was reported has been posted, once, or is on its way: in the
\* channel, or waiting for room in it.  None is dropped, however slow main is
\* (main.go:93, :140-147), and none is invented.
EveryPressCounts ==
  \A k \in Key :
    pressed[k] = posted[k] + Cardinality(PressesWaiting(k))
                           + (IF k \in batch \cap states THEN 1 ELSE 0)

\* The screen is lit and blank when events are first handled, as far as no write
\* failed: either call makes up for nothing the other one missed, and the
\* brightness 0 of the handshake does not outlast it (main.go:85-91, device.go:171-177).
StartsClean ==
  stage = "running" =>
    /\ "lighting" \notin failedIn => panel.level = 50
    /\ "clearing" \notin failedIn => \A k \in Key : panel.shown[k] = Blank

\* When a signal has ended the daemon, the last the panel got was the command to
\* power down, unless a write of Shutdown failed: a second signal, a full channel
\* or a reader that is still at work change nothing (main.go:101-112).
EndsDark ==
  stage = "over" /\ reader # "none" =>
    last = Cmd("HAN", 0) \/ "stopping" \in failedIn

\* Every press is posted in the end, unless the daemon stops handling events:
\* whatever reads fail in between, and however often the channel is full.
EveryPressPosted ==
  \A k \in Key : \A n \in 1..MaxReports :
    pressed[k] >= n ~> (posted[k] >= n \/ stage # "running")

\* A signal that was caught ends the process, whatever the reader is waiting for
\* (main.go:105-110).
SignalEnds == signal ~> ~Alive
=============================================================================
