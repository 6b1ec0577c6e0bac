---------------------------- MODULE Device_proofs ----------------------------
(***************************************************************************)
(* Theorems about Device, for every set of keys, images, tasks and calls.  *)
(***************************************************************************)
EXTENDS DeviceProperties, Panel_proofs

-----------------------------------------------------------------------------
(* The sequences of steps a call goes through.                             *)

\* A flush that has begun is not at its beginning.
LEMMA FlushRestShorter ==
  ASSUME NEW keep, NEW s \in FlushRest(keep)
  PROVE  s # FlushScript(keep)
<1>1. Len(FlushScript(keep)) = 5
  BY DEF FlushScript
<1>2. CASE s = <<INITIALIZE, CHECK, Drain(keep), Write(STP)>>
  <2>1. Len(s) = 4
    BY <1>2
  <2> QED
    BY <1>1, <2>1
<1>3. CASE s = <<CHECK, Drain(keep), Write(STP)>>
  <2>1. Len(s) = 3
    BY <1>3
  <2> QED
    BY <1>1, <2>1
<1>4. CASE s = <<Drain(keep), Write(STP)>>
  <2>1. Len(s) = 2
    BY <1>4
  <2> QED
    BY <1>1, <2>1
<1>5. CASE s = <<Write(STP)>>
  <2>1. Len(s) = 1
    BY <1>5
  <2> QED
    BY <1>1, <2>1
<1>6. CASE s = <<>>
  <2>1. Len(s) = 0
    BY <1>6
  <2> QED
    BY <1>1, <2>1
<1> QED
  BY <1>2, <1>3, <1>4, <1>5, <1>6 DEF FlushRest

\* Doing a step of flush leaves a rest of flush; its first step, and no other,
\* takes the mutex.
LEMMA FlushTails ==
  ASSUME NEW keep, NEW s, s \in FlushRest(keep) \cup {FlushScript(keep)}, s # <<>>
  PROVE  /\ Tail(s) \in FlushRest(keep)
         /\ Head(s).do \in {"lock", "initialize", "check", "drain", "write"}
         /\ Head(s).do = "lock" <=> s = FlushScript(keep)
         /\ Head(s).do = "drain" => /\ s = <<Drain(keep), Write(STP)>>
                                    /\ Head(s).keep = keep
         /\ Head(s).do = "initialize" =>
              s = <<INITIALIZE, CHECK, Drain(keep), Write(STP)>>
         /\ Head(s).do = "check" => s = <<CHECK, Drain(keep), Write(STP)>>
         /\ Head(s).do = "write" => s = <<Write(STP)>>
<1> USE DEF FlushRest, FlushScript
<1>1. /\ INITIALIZE.do = "initialize"
      /\ LOCK.do = "lock"
      /\ CHECK.do = "check"
      /\ Drain(keep).do = "drain" /\ Drain(keep).keep = keep
      /\ Write(STP).do = "write"
  BY DEF INITIALIZE, LOCK, CHECK, Drain, Write
<1>2. CASE s = FlushScript(keep)
  BY <1>1, <1>2
<1>3. CASE s = <<INITIALIZE, CHECK, Drain(keep), Write(STP)>>
  BY <1>1, <1>3
<1>4. CASE s = <<CHECK, Drain(keep), Write(STP)>>
  BY <1>1, <1>4
<1>5. CASE s = <<Drain(keep), Write(STP)>>
  BY <1>1, <1>5
<1>6. CASE s = <<Write(STP)>>
  BY <1>1, <1>6
<1> QED
  BY <1>2, <1>3, <1>4, <1>5, <1>6

\* A call that is not flush never becomes one, and none of its steps belongs
\* to flush.
LEMMA PlainTail ==
  ASSUME NEW s \in Seq(Step), Plain(s), s # <<>>
  PROVE  /\ Plain(Tail(s))
         /\ Head(s).do \notin {"lock", "check", "drain"}
BY DEF Plain

-----------------------------------------------------------------------------
(* The inductive invariant: types, and who may hold the cache mutex.       *)

Inv == TypeOK /\ LockedFlush

\* Of the tasks that do not move, nothing changes but who else has the mutex.
LEMMA Bystander ==
  ASSUME LockedFlush, NEW u \in Task,
         call'[u] = call[u], todo'[u] = todo[u], greeting'[u] = greeting[u],
         job'[u] = job[u], (lock' = u) <=> (lock = u)
  PROVE  CallShape(u)' /\ GreetingShape(u)' /\ JobShape(u)'
BY DEF LockedFlush, CallShape, GreetingShape, JobShape, At

\* What is known of a task that is about to take its next step.
LEMMA NextStep ==
  ASSUME Inv, NEW t \in Task, todo[t] # <<>>
  PROVE  /\ Head(todo[t]) \in Step
         /\ todo[t] \in Seq(Step) /\ Tail(todo[t]) \in Seq(Step)
         /\ call[t] # Idle
         /\ ~At(t, "initialize") => greeting[t] = 0
         /\ ~At(t, "drain") => job[t].left = 0
         /\ At(t, "lock") => /\ lock # t
                             /\ \E keep \in Keeps : todo[t] = FlushScript(keep)
         /\ At(t, "drain") => /\ lock = t
                              /\ Head(todo[t]).keep \in Keeps
                              /\ todo[t] = <<Drain(Head(todo[t]).keep), Write(STP)>>
         /\ At(t, "check") => lock = t
<1>1. todo[t] \in Seq(Step) /\ greeting[t] \in 0..3 /\ job[t] \in Job
  BY DEF Inv, TypeOK
<1>2. CallShape(t) /\ GreetingShape(t) /\ JobShape(t)
  BY DEF Inv, LockedFlush
<1>3. Head(todo[t]) \in Step /\ Tail(todo[t]) \in Seq(Step)
  BY <1>1
<1>4. call[t] # Idle
  BY <1>2 DEF CallShape
<1>5. /\ ~At(t, "initialize") => greeting[t] = 0
      /\ ~At(t, "drain") => job[t].left = 0
  BY <1>1, <1>2 DEF GreetingShape, JobShape, Job
<1>6. CASE lock = t
  <2>1. PICK keep \in Keeps : todo[t] \in FlushRest(keep)
    BY <1>2, <1>6 DEF CallShape
  <2>2. todo[t] # FlushScript(keep)
    BY <2>1, FlushRestShorter
  <2>3. /\ Head(todo[t]).do # "lock"
        /\ Head(todo[t]).do = "drain" => /\ todo[t] = <<Drain(keep), Write(STP)>>
                                         /\ Head(todo[t]).keep = keep
    BY <2>1, <2>2, FlushTails
  <2>4. ~At(t, "lock")
    BY <2>3 DEF At
  <2>5. At(t, "drain") => /\ Head(todo[t]).keep \in Keeps
                          /\ todo[t] = <<Drain(Head(todo[t]).keep), Write(STP)>>
    BY <2>3 DEF At
  <2> QED
    BY <1>1, <1>3, <1>4, <1>5, <1>6, <2>4, <2>5
<1>7. CASE lock # t /\ Plain(todo[t])
  BY <1>1, <1>3, <1>4, <1>5, <1>7, PlainTail DEF At
<1>8. CASE lock # t /\ \E keep \in Keeps : todo[t] = FlushScript(keep)
  <2>1. Head(todo[t]).do = "lock"
    BY <1>8 DEF FlushScript, LOCK
  <2> QED
    BY <1>1, <1>3, <1>4, <1>5, <1>8, <2>1 DEF At
<1> QED
  BY <1>2, <1>6, <1>7, <1>8 DEF CallShape

\* Doing a step, other than taking the mutex, keeps the shape of the call.
LEMMA PopShape ==
  ASSUME Inv, NEW t \in Task, todo[t] # <<>>, ~At(t, "lock"), Pop(t),
         lock' = lock, call' = call
  PROVE  todo' \in [Task -> Seq(Step)] /\ CallShape(t)'
<1>1. todo \in [Task -> Seq(Step)]
  BY DEF Inv, TypeOK
<1>2. todo' \in [Task -> Seq(Step)] /\ todo'[t] = Tail(todo[t])
  BY <1>1, NextStep DEF Pop
<1>3. CallShape(t)
  BY DEF Inv, LockedFlush
<1>4. CASE lock = t
  BY <1>2, <1>3, <1>4, NextStep, FlushTails DEF CallShape
<1>5. CASE lock # t
  <2>1. ~\E keep \in Keeps : todo[t] = FlushScript(keep)
    BY DEF FlushScript, At, LOCK
  <2>2. Plain(todo[t])
    BY <1>3, <1>5, <2>1 DEF CallShape
  <2> QED
    BY <1>2, <1>5, <2>2, NextStep, PlainTail DEF CallShape
<1> QED
  BY <1>2, <1>4, <1>5

\* The same for the whole invariant, when the step ends outside initialize
\* and with no image under way.
LEMMA PopLocked ==
  ASSUME Inv, NEW t \in Task, todo[t] # <<>>, ~At(t, "lock"), Pop(t),
         lock' = lock, call' = call, job' = job, job[t].left = 0,
         greeting'[t] = 0, \A u \in Task \ {t} : greeting'[u] = greeting[u]
  PROVE  todo' \in [Task -> Seq(Step)] /\ LockedFlush'
<1>1. todo' \in [Task -> Seq(Step)] /\ CallShape(t)'
  BY PopShape
<1>2. GreetingShape(t)' /\ JobShape(t)'
  BY DEF GreetingShape, JobShape
<1>3. ASSUME NEW u \in Task, u # t
      PROVE  CallShape(u)' /\ GreetingShape(u)' /\ JobShape(u)'
  <2>1. todo'[u] = todo[u]
    BY <1>3 DEF Inv, TypeOK, Pop
  <2> QED
    BY <1>3, <2>1, Bystander DEF Inv
<1> QED
  BY <1>1, <1>2, <1>3 DEF LockedFlush

\* Leaving a call, in success or not, gives the mutex back.
LEMMA LeaveInv ==
  ASSUME Inv, NEW t \in Task, Leave(t)
  PROVE  /\ LockedFlush'
         /\ lock' \in Task \cup {Free}
         /\ call' \in [Task -> Calls \cup {Idle}]
         /\ todo' \in [Task -> Seq(Step)]
         /\ greeting' \in [Task -> 0..3]
         /\ job' \in [Task -> Job]
<1> USE DEF Leave
<1>1. TypeOK
  BY DEF Inv
<1>2. NoJob \in Job
  BY DEF NoJob, Job, AllKeys
<1>3. /\ lock' \in Task \cup {Free}
      /\ call' \in [Task -> Calls \cup {Idle}]
      /\ todo' \in [Task -> Seq(Step)]
      /\ greeting' \in [Task -> 0..3]
      /\ job' \in [Task -> Job]
  BY <1>1, <1>2 DEF TypeOK
<1>4. lock' # t /\ todo'[t] = <<>> /\ greeting'[t] = 0 /\ job'[t].left = 0
  BY <1>1, DeviceAssumption DEF TypeOK, NoJob
<1>5. CallShape(t)' /\ GreetingShape(t)' /\ JobShape(t)'
  BY <1>4 DEF CallShape, GreetingShape, JobShape, Plain
<1>6. ASSUME NEW u \in Task, u # t
      PROVE  CallShape(u)' /\ GreetingShape(u)' /\ JobShape(u)'
  <2>1. /\ call'[u] = call[u] /\ todo'[u] = todo[u]
        /\ greeting'[u] = greeting[u] /\ job'[u] = job[u]
        /\ (lock' = u) <=> (lock = u)
    BY <1>1, <1>6, DeviceAssumption DEF TypeOK
  <2> QED
    BY <2>1, Bystander DEF Inv
<1> QED
  BY <1>3, <1>5, <1>6 DEF LockedFlush

\* The next report of the image being sent is a report.
LEMMA JobReports ==
  ASSUME Inv, NEW t \in Task, job[t].left > 0
  PROVE  JobReport(t) \in Report
<1>1. job[t].key \in 0..253 /\ job[t].img \in Image
  BY StepsAssumption DEF Inv, LockedFlush, JobShape
<1>2. Data(job[t].img) \in Report
  BY <1>1 DEF Data, Report
<1>3. Bat(job[t].key, job[t].img) \in Report
  <2>1. (job[t].key + 1) % 256 \in 0..255
    BY <1>1
  <2> QED
    BY <1>1, <2>1 DEF Bat, Report
<1> QED
  BY <1>2, <1>3 DEF JobReport

-----------------------------------------------------------------------------
(* Each action keeps the invariant.                                        *)

\* The invariant holds of a handle just connected.
LEMMA InitInv == Init => Inv
<1> SUFFICES ASSUME Init PROVE Inv
  OBVIOUS
<1> USE DEF Init
<1>1. PanelInit \in PanelState
  BY Faces DEF PanelInit, PanelState
<1>2. TypeOK
  <2>1. NoJob \in Job
    BY DEF NoJob, Job, AllKeys
  <2>2. faults \in 0..MaxFaults /\ cancels \in 0..MaxCancels
    BY DeviceAssumption
  <2>3. cache \in [Key -> Image \cup {NoImage}] /\ intent \in [Key -> Face]
    BY Faces DEF EmptyCache
  <2>4. /\ call \in [Task -> Calls \cup {Idle}]
        /\ greeting \in [Task -> 0..3]
        /\ job \in [Task -> Job]
        /\ late \in [Task -> BOOLEAN]
        /\ fate \in [Key -> {"settled", "queued", "sent"}]
    BY <2>1
  <2>5. todo \in [Task -> Seq(Step)]
    OBVIOUS
  <2> QED
    BY <1>1, <2>2, <2>3, <2>4, <2>5 DEF TypeOK
<1>3. LockedFlush
  BY DeviceAssumption DEF LockedFlush, CallShape, GreetingShape, JobShape, Plain, NoJob
<1> QED
  BY <1>2, <1>3 DEF Inv

\* A new call is a flush about to take the mutex, or has nothing to do with it.
LEMMA BeginInv ==
  ASSUME Inv, NEW t \in Task, Begin(t)
  PROVE  Inv'
<1>1. PICK c \in Calls : call' = [call EXCEPT ![t] = c] /\ todo' = [todo EXCEPT ![t] = Script(c)]
  BY DEF Begin
<1>2. TypeOK'
  BY <1>1, DeviceAssumption DEF Inv, TypeOK, Begin, bounds
<1>3. /\ call[t] = Idle /\ CallShape(t) /\ GreetingShape(t) /\ JobShape(t)
      /\ lock' = lock /\ greeting' = greeting /\ job' = job
  BY DEF Inv, LockedFlush, Begin
<1>4. CallShape(t)' /\ GreetingShape(t)' /\ JobShape(t)'
  <2>1. todo'[t] = Script(c) /\ call'[t] = c /\ c # Idle
    BY <1>1, DeviceAssumption DEF Inv, TypeOK
  <2>2. lock # t /\ todo[t] = <<>>
    BY <1>3 DEF CallShape
  <2> QED
    BY <1>3, <2>1, <2>2, DeviceAssumption DEF CallShape, GreetingShape, JobShape, At
<1>5. ASSUME NEW u \in Task, u # t
      PROVE  CallShape(u)' /\ GreetingShape(u)' /\ JobShape(u)'
  <2>1. call'[u] = call[u] /\ todo'[u] = todo[u]
    BY <1>1, <1>5 DEF Inv, TypeOK
  <2> QED
    BY <1>3, <2>1, Bystander DEF Inv
<1> QED
  BY <1>2, <1>4, <1>5 DEF Inv, LockedFlush

\* A call that is done gives the mutex back.
LEMMA ReturnInv ==
  ASSUME Inv, NEW t \in Task, Return(t)
  PROVE  Inv'
BY LeaveInv DEF Return, Inv, TypeOK, bounds, history

\* Loading the flag: the handshake begins, or initialize is over.
LEMMA InitLoadInv ==
  ASSUME Inv, NEW t \in Task, InitLoad(t)
  PROVE  Inv'
<1>1. /\ todo[t] # <<>> /\ ~At(t, "lock") /\ job[t].left = 0
      /\ lock' = lock /\ call' = call /\ job' = job
  BY NextStep DEF InitLoad, At
<1>2. CASE initialized
  <2>1. Pop(t) /\ greeting' = greeting /\ greeting[t] = 0
    BY <1>2 DEF InitLoad
  <2>2. todo' \in [Task -> Seq(Step)] /\ LockedFlush'
    BY <1>1, <2>1, PopLocked
  <2> QED
    BY <1>1, <2>1, <2>2 DEF InitLoad, Inv, TypeOK, bounds, history
<1>3. CASE ~initialized
  <2>1. todo' = todo /\ greeting' = [greeting EXCEPT ![t] = 1]
    BY <1>3 DEF InitLoad
  <2>2. TypeOK'
    BY <1>1, <2>1 DEF InitLoad, Inv, TypeOK, bounds, history
  <2>3. CallShape(t)' /\ GreetingShape(t)' /\ JobShape(t)'
    BY <1>1, <2>1 DEF Inv, LockedFlush, InitLoad, CallShape, GreetingShape, JobShape, At
  <2>4. ASSUME NEW u \in Task, u # t
        PROVE  CallShape(u)' /\ GreetingShape(u)' /\ JobShape(u)'
    <3>1. greeting'[u] = greeting[u]
      BY <2>1, <2>4 DEF Inv, TypeOK
    <3> QED
      BY <1>1, <2>1, <3>1, Bystander DEF Inv
  <2> QED
    BY <2>2, <2>3, <2>4 DEF Inv, LockedFlush
<1> QED
  BY <1>2, <1>3

\* The two steps between, where only the progress of the handshake changes.
LEMMA GreetingInv ==
  ASSUME Inv, NEW t \in Task, InitStore(t) \/ InitDis(t)
  PROVE  Inv'
<1>1. /\ greeting[t] \in {1, 2} /\ greeting' = [greeting EXCEPT ![t] = greeting[t] + 1]
      /\ UNCHANGED <<cache, lock, call, todo, job, bounds, history>>
      /\ initialized' \in BOOLEAN
  <2>1. CASE InitStore(t)
    <3>1. greeting[t] = 1 /\ greeting' = [greeting EXCEPT ![t] = 2] /\ initialized' = TRUE
      BY <2>1 DEF InitStore
    <3> QED
      BY <2>1, <3>1 DEF InitStore, bounds, history
  <2>2. CASE InitDis(t)
    <3>1. greeting[t] = 2 /\ greeting' = [greeting EXCEPT ![t] = 3] /\ initialized' = initialized
      BY <2>2 DEF InitDis
    <3> QED
      BY <2>2, <3>1 DEF InitDis, Inv, TypeOK, bounds, history
  <2> QED
    BY <2>1, <2>2
<1>2. panel' \in PanelState
  <2>1. Cmd("DIS", 0) \in Report
    BY CommandReports DEF Opcode
  <2> QED
    BY <2>1, DeliverType DEF InitStore, InitDis, Inv, TypeOK
<1>3. TypeOK'
  BY <1>1, <1>2 DEF Inv, TypeOK, bounds, history
<1>4. CallShape(t)' /\ GreetingShape(t)' /\ JobShape(t)'
  <2>1. CallShape(t) /\ GreetingShape(t) /\ JobShape(t)
    BY DEF Inv, LockedFlush
  <2> QED
    BY <1>1, <2>1 DEF CallShape, GreetingShape, JobShape, At
<1>5. ASSUME NEW u \in Task, u # t
      PROVE  CallShape(u)' /\ GreetingShape(u)' /\ JobShape(u)'
  <2>1. greeting'[u] = greeting[u]
    BY <1>1, <1>5 DEF Inv, TypeOK
  <2> QED
    BY <1>1, <2>1, Bystander DEF Inv
<1> QED
  BY <1>3, <1>4, <1>5 DEF Inv, LockedFlush

\* The second report of the handshake ends initialize.
LEMMA InitLigInv ==
  ASSUME Inv, NEW t \in Task, InitLig(t)
  PROVE  Inv'
<1>1. At(t, "initialize")
  BY DEF InitLig, Inv, LockedFlush, GreetingShape
<1>2. todo[t] # <<>> /\ ~At(t, "lock") /\ job[t].left = 0
  BY <1>1, NextStep DEF At
<1>3. /\ greeting' \in [Task -> 0..3] /\ greeting'[t] = 0
      /\ \A u \in Task \ {t} : greeting'[u] = greeting[u]
  BY DEF InitLig, Inv, TypeOK
<1>4. todo' \in [Task -> Seq(Step)] /\ LockedFlush'
  BY <1>2, <1>3, PopLocked DEF InitLig
<1>5. Cmd("LIG", 0) \in Report
  BY CommandReports DEF Opcode
<1>6. panel' \in PanelState
  BY <1>5, DeliverType DEF InitLig, Inv, TypeOK
<1> QED
  BY <1>3, <1>4, <1>6 DEF InitLig, Inv, TypeOK, bounds, history

\* A command changes the panel and nothing the tasks share.
LEMMA WriteReportInv ==
  ASSUME Inv, NEW t \in Task, WriteReport(t)
  PROVE  Inv'
<1> DEFINE r == Head(todo[t]).report
<1>1. todo[t] # <<>> /\ ~At(t, "lock") /\ job[t].left = 0 /\ greeting[t] = 0
  BY NextStep DEF WriteReport, At
<1>2. todo' \in [Task -> Seq(Step)] /\ LockedFlush'
  BY <1>1, PopLocked DEF WriteReport
<1>3. r \in Report
  BY <1>1, NextStep, StepFields DEF WriteReport, At, Report
<1>4. panel' \in PanelState
  BY <1>3, DeliverType DEF WriteReport, Inv, TypeOK
<1>5. fate' \in [Key -> {"settled", "queued", "sent"}] /\ intent' \in [Key -> Face]
  BY Faces DEF WriteReport, Inv, TypeOK
<1> QED
  BY <1>2, <1>4, <1>5 DEF WriteReport, Inv, TypeOK, bounds

\* Only images of known keys enter the cache.
LEMMA InsertImageInv ==
  ASSUME Inv, NEW t \in Task, InsertImage(t)
  PROVE  Inv'
<1> DEFINE s == Head(todo[t])
<1>1. todo[t] # <<>> /\ ~At(t, "lock") /\ job[t].left = 0 /\ greeting[t] = 0
  BY NextStep DEF InsertImage, At
<1>2. todo' \in [Task -> Seq(Step)] /\ LockedFlush'
  BY <1>1, PopLocked DEF InsertImage
<1>3. s.key \in Key /\ s.img \in Image
  BY <1>1, NextStep, StepFields DEF InsertImage, At
<1>4. /\ cache' \in [Key -> Image \cup {NoImage}]
      /\ fate' \in [Key -> {"settled", "queued", "sent"}]
      /\ intent' \in [Key -> Face]
  BY <1>3, Faces DEF InsertImage, Inv, TypeOK
<1> QED
  BY <1>2, <1>4 DEF InsertImage, Inv, TypeOK, bounds

\* Images leave the cache.
LEMMA RemoveInv ==
  ASSUME Inv, NEW t \in Task, RemoveImage(t) \/ ClearCache(t)
  PROVE  Inv'
<1>1. todo[t] # <<>> /\ ~At(t, "lock") /\ job[t].left = 0 /\ greeting[t] = 0
  BY NextStep DEF RemoveImage, ClearCache, At
<1>2. /\ Pop(t)
      /\ UNCHANGED <<initialized, lock, call, greeting, job, panel, faults, cancels,
                     stream, late>>
  BY DEF RemoveImage, ClearCache, bounds
<1>3. todo' \in [Task -> Seq(Step)] /\ LockedFlush'
  BY <1>1, <1>2, PopLocked
<1>4. /\ cache' \in [Key -> Image \cup {NoImage}]
      /\ fate' \in [Key -> {"settled", "queued", "sent"}]
      /\ intent' \in [Key -> Face]
  BY Faces DEF RemoveImage, ClearCache, EmptyCache, Inv, TypeOK
<1> QED
  BY <1>2, <1>3, <1>4 DEF Inv, TypeOK

\* flush takes the mutex and is past its first line.
LEMMA LockCacheInv ==
  ASSUME Inv, NEW t \in Task, LockCache(t)
  PROVE  Inv'
<1>1. /\ todo[t] # <<>> /\ job[t].left = 0 /\ greeting[t] = 0 /\ call[t] # Idle
      /\ \E keep \in Keeps : todo[t] = FlushScript(keep)
      /\ Tail(todo[t]) \in Seq(Step)
  BY NextStep DEF LockCache, At
<1>2. /\ todo' \in [Task -> Seq(Step)]
      /\ todo'[t] = Tail(todo[t])
      /\ \A u \in Task \ {t} : todo'[u] = todo[u]
  BY <1>1 DEF LockCache, Pop, Inv, TypeOK
<1>3. TypeOK'
  BY <1>2 DEF LockCache, Inv, TypeOK, bounds, history
<1>4. \E keep \in Keeps : todo'[t] \in FlushRest(keep)
  BY <1>1, <1>2, FlushTails
<1>5. CallShape(t)' /\ GreetingShape(t)' /\ JobShape(t)'
  BY <1>1, <1>4 DEF LockCache, CallShape, GreetingShape, JobShape
<1>6. ASSUME NEW u \in Task, u # t
      PROVE  CallShape(u)' /\ GreetingShape(u)' /\ JobShape(u)'
  <2>1. (lock' = u) <=> (lock = u)
    BY <1>6, DeviceAssumption DEF LockCache
  <2> QED
    BY <1>2, <1>6, <2>1, Bystander DEF LockCache, Inv
<1> QED
  BY <1>3, <1>5, <1>6 DEF Inv, LockedFlush

\* The early return of flush, or the way to its loop.
LEMMA CheckEmptyInv ==
  ASSUME Inv, NEW t \in Task, CheckEmpty(t)
  PROVE  Inv'
<1>1. /\ todo[t] # <<>> /\ ~At(t, "lock") /\ lock = t
      /\ job[t].left = 0 /\ greeting[t] = 0 /\ call[t] # Idle
  BY NextStep DEF CheckEmpty, At
<1>2. CASE Cached = {}
  <2>1. /\ todo' \in [Task -> Seq(Step)]
        /\ todo'[t] = <<>>
        /\ \A u \in Task \ {t} : todo'[u] = todo[u]
    <3>1. todo' = [todo EXCEPT ![t] = <<>>]
      BY <1>2 DEF CheckEmpty
    <3> QED
      BY <3>1 DEF Inv, TypeOK
  <2>2. TypeOK'
    BY <2>1 DEF CheckEmpty, Inv, TypeOK, bounds, history
  <2>3. CallShape(t)' /\ GreetingShape(t)' /\ JobShape(t)'
    <3>1. \A keep : <<>> \in FlushRest(keep)
      BY DEF FlushRest
    <3>2. \E keep \in Keeps : todo'[t] \in FlushRest(keep)
      BY <1>1, <2>1, <3>1 DEF Inv, LockedFlush, CallShape
    <3>3. UNCHANGED <<lock, call, greeting, job>>
      BY DEF CheckEmpty
    <3> QED
      BY <1>1, <3>2, <3>3 DEF CallShape, GreetingShape, JobShape
  <2>4. ASSUME NEW u \in Task, u # t
        PROVE  CallShape(u)' /\ GreetingShape(u)' /\ JobShape(u)'
    BY <2>1, <2>4, Bystander DEF CheckEmpty, Inv
  <2> QED
    BY <2>2, <2>3, <2>4 DEF Inv, LockedFlush
<1>3. CASE Cached # {}
  <2>1. todo' \in [Task -> Seq(Step)] /\ LockedFlush'
    BY <1>1, <1>3, PopLocked DEF CheckEmpty
  <2> QED
    BY <2>1 DEF CheckEmpty, Inv, TypeOK, bounds, history
<1> QED
  BY <1>2, <1>3

\* A flush that holds the mutex goes on with its loop: only its job changes.
LEMMA JobLocked ==
  ASSUME Inv, NEW t \in Task, At(t, "drain"),
         UNCHANGED <<lock, call, todo, greeting>>,
         \A u \in Task \ {t} : job'[u] = job[u],
         job'[t].left > 0 => /\ job'[t].key \in Key
                             /\ job'[t].img \in Image
                             /\ job'[t].left <= Chunks[job'[t].img] + 1
  PROVE  LockedFlush'
<1>1. CallShape(t)' /\ GreetingShape(t)' /\ JobShape(t)'
  BY NextStep DEF Inv, LockedFlush, CallShape, GreetingShape, JobShape, At
<1>2. ASSUME NEW u \in Task, u # t
      PROVE  CallShape(u)' /\ GreetingShape(u)' /\ JobShape(u)'
  BY <1>2, Bystander DEF Inv
<1> QED
  BY <1>1, <1>2 DEF LockedFlush

\* The image taken from the cache is sent under the mutex.
LEMMA TakeImageInv ==
  ASSUME Inv, NEW t \in Task, TakeImage(t)
  PROVE  Inv'
<1>1. PICK k \in Cached :
        /\ job' = [job EXCEPT ![t] = [key |-> k, img |-> cache[k],
                                      left |-> Chunks[cache[k]] + 1]]
        /\ cache' = IF Head(todo[t]).keep THEN cache
                                          ELSE [cache EXCEPT ![k] = NoImage]
  BY DEF TakeImage
<1>2. k \in Key /\ cache[k] \in Image
  BY <1>1 DEF Cached, Inv, TypeOK
<1>3. Chunks[cache[k]] + 1 \in Nat /\ k \in 0..255
  BY <1>2, StepsAssumption
<1>4. /\ job'[t] = [key |-> k, img |-> cache[k], left |-> Chunks[cache[k]] + 1]
      /\ job' \in [Task -> Job]
      /\ \A u \in Task \ {t} : job'[u] = job[u]
  BY <1>1, <1>2, <1>3 DEF Inv, TypeOK, Job
<1>5. LockedFlush'
  BY <1>2, <1>3, <1>4, JobLocked DEF TakeImage
<1>6. cache' \in [Key -> Image \cup {NoImage}]
  BY <1>1, <1>2 DEF Inv, TypeOK
<1> QED
  BY <1>4, <1>5, <1>6 DEF TakeImage, Inv, TypeOK, bounds, history

\* A header or chunk is written, under the mutex still.
LEMMA SendImageReportInv ==
  ASSUME Inv, NEW t \in Task, SendImageReport(t)
  PROVE  Inv'
<1> DEFINE j    == job[t]
           done == j.left = 1
<1>1. /\ j.key \in Key /\ j.img \in Image /\ j.left <= Chunks[j.img] + 1
      /\ j \in Job /\ j.left > 0
  BY DEF SendImageReport, Inv, LockedFlush, JobShape, TypeOK
<1>2. /\ j.left - 1 \in Nat /\ j.key \in 0..255 /\ Chunks[j.img] \in Nat
      /\ j.left \in Nat
  BY <1>1, StepsAssumption DEF Job
<1>3. /\ job' = [job EXCEPT ![t] = IF done THEN NoJob ELSE [j EXCEPT !.left = @ - 1]]
      /\ cache' = IF done /\ Head(todo[t]).keep THEN [cache EXCEPT ![j.key] = NoImage]
                                                ELSE cache
      /\ fate' = IF done THEN [fate EXCEPT ![j.key] = "sent"] ELSE fate
      /\ stream' = [by |-> t, key |-> j.key, img |-> j.img, left |-> j.left - 1]
  BY DEF SendImageReport
<1>4. /\ job' \in [Task -> Job]
      /\ \A u \in Task \ {t} : job'[u] = job[u]
      /\ job'[t] = IF done THEN NoJob ELSE [j EXCEPT !.left = @ - 1]
  <2>1. NoJob \in Job /\ [j EXCEPT !.left = @ - 1] \in Job
    BY <1>1, <1>2 DEF NoJob, Job, AllKeys
  <2> QED
    BY <1>3, <2>1 DEF Inv, TypeOK
<1>5. job'[t].left > 0 => /\ job'[t].key \in Key
                          /\ job'[t].img \in Image
                          /\ job'[t].left <= Chunks[job'[t].img] + 1
  <2>1. CASE done
    BY <1>4, <2>1 DEF NoJob
  <2>2. CASE ~done
    <3>1. job'[t].key = j.key /\ job'[t].img = j.img /\ job'[t].left = j.left - 1
      BY <1>1, <1>4, <2>2 DEF Job
    <3> QED
      BY <1>1, <1>2, <3>1
  <2> QED
    BY <2>1, <2>2
<1>6. LockedFlush'
  BY <1>4, <1>5, JobLocked DEF SendImageReport
<1>7. panel' \in PanelState
  BY <1>1, JobReports, DeliverType DEF SendImageReport, Inv, TypeOK
<1>8. /\ cache' \in [Key -> Image \cup {NoImage}]
      /\ fate' \in [Key -> {"settled", "queued", "sent"}]
  BY <1>1, <1>3 DEF Inv, TypeOK
<1>9. stream' \in Mark \cup {NothingSent}
  BY <1>1, <1>2, <1>3 DEF Mark
<1> QED
  BY <1>4, <1>6, <1>7, <1>8, <1>9 DEF SendImageReport, Inv, TypeOK, bounds

\* The loop of flush ends.
LEMMA DrainDoneInv ==
  ASSUME Inv, NEW t \in Task, DrainDone(t)
  PROVE  Inv'
<1>1. todo[t] # <<>> /\ ~At(t, "lock") /\ job[t].left = 0 /\ greeting[t] = 0
  BY NextStep DEF DrainDone, At
<1>2. todo' \in [Task -> Seq(Step)] /\ LockedFlush'
  BY <1>1, PopLocked DEF DrainDone
<1> QED
  BY <1>2 DEF DrainDone, Inv, TypeOK, bounds, history

\* A call that ends early gives the mutex back too.
LEMMA AbortInv ==
  ASSUME Inv, NEW t \in Task, Abort(t),
         faults' \in 0..MaxFaults, cancels' \in 0..MaxCancels
  PROVE  Inv'
<1>1. cache' \in [Key -> Image \cup {NoImage}]
  BY DEF Abort, EmptyCache, Inv, TypeOK
<1> QED
  BY <1>1, LeaveInv DEF Abort, Inv, TypeOK, history

\* The encoder succeeds, or the call ends.
LEMMA ConvertImageInv ==
  ASSUME Inv, NEW t \in Task, ConvertImage(t)
  PROVE  Inv'
<1>1. todo[t] # <<>> /\ ~At(t, "lock") /\ job[t].left = 0 /\ greeting[t] = 0
  BY NextStep DEF ConvertImage, At
<1>2. faults' \in 0..MaxFaults /\ cancels' \in 0..MaxCancels
  BY DEF ConvertImage, bounds, Inv, TypeOK
<1>3. CASE Abort(t)
  BY <1>2, <1>3, AbortInv
<1>4. CASE /\ Pop(t)
           /\ UNCHANGED <<initialized, cache, lock, call, greeting, job, panel, history>>
  <2>1. todo' \in [Task -> Seq(Step)] /\ LockedFlush'
    BY <1>1, <1>4, PopLocked
  <2> QED
    BY <1>2, <1>4, <2>1 DEF Inv, TypeOK, history
<1> QED
  BY <1>3, <1>4 DEF ConvertImage

\* A write that fails, or a future that is dropped, ends the call.
LEMMA FailInv ==
  ASSUME Inv, NEW t \in Task, FailWrite(t) \/ Cancel(t)
  PROVE  Inv'
<1>1. Abort(t) /\ faults' \in 0..MaxFaults /\ cancels' \in 0..MaxCancels
  BY DeviceAssumption DEF FailWrite, Cancel, Inv, TypeOK
<1> QED
  BY <1>1, AbortInv

\* Every step keeps the invariant.
LEMMA NextInv == Inv /\ [Next]_vars => Inv'
<1> SUFFICES ASSUME Inv, [Next]_vars PROVE Inv'
  OBVIOUS
<1>1. CASE UNCHANGED vars
  BY <1>1 DEF vars, code, bounds, history, Inv, TypeOK, LockedFlush, CallShape,
              GreetingShape, JobShape, At
<1>2. ASSUME NEW t \in Task, Begin(t)         PROVE Inv'  BY <1>2, BeginInv
<1>3. ASSUME NEW t \in Task, Acquire(t)       PROVE Inv'
  BY <1>3, InsertImageInv, RemoveInv, LockCacheInv DEF Acquire
<1>4. ASSUME NEW t \in Task, Advance(t)       PROVE Inv'
  BY <1>4, InitLoadInv, GreetingInv, InitLigInv, WriteReportInv, ConvertImageInv,
     CheckEmptyInv, TakeImageInv, SendImageReportInv, DrainDoneInv, ReturnInv DEF Advance
<1>5. ASSUME NEW t \in Task, FailWrite(t) \/ Cancel(t)  PROVE Inv'  BY <1>5, FailInv
<1> QED
  BY <1>1, <1>2, <1>3, <1>4, <1>5 DEF Next

\* In every reachable state the types are right, and whoever holds the cache
\* mutex is a flush in its course while nobody else sends an image.
THEOREM Invariance == Spec => []Inv
BY InitInv, NextInv, PTL DEF Spec

\* Every variable keeps its type: in particular the panel never counts below
\* zero the reports it expects, and no step is taken of an empty call.
THEOREM TypeCorrect == Spec => []TypeOK
<1>1. Inv => TypeOK
  BY DEF Inv
<1> QED
  BY <1>1, Invariance, PTL

\* The cache mutex is held by a flush that has not returned, and images are
\* sent by the task that holds it (src/device.rs, flush).
THEOREM FlushHoldsTheCache == Spec => []LockedFlush
<1>1. Inv => LockedFlush
  BY DEF Inv
<1> QED
  BY <1>1, Invariance, PTL

-----------------------------------------------------------------------------
(* Image transfers do not mix.                                             *)

\* Only the holder of the mutex has a job, so at most one task has.
LEMMA OneJob ==
  ASSUME Inv, NEW t \in Task, NEW u \in Task, u # t, lock = t
  PROVE  job[u].left = 0
BY DEF Inv, TypeOK, Job, LockedFlush, JobShape

\* No step, of whichever task, breaks into the reports of an image.
LEMMA TransferStep == Inv /\ TransferIntact /\ [Next]_vars => TransferIntact'
<1> SUFFICES ASSUME Inv, TransferIntact, [Next]_vars, NEW u \in Task, Begun(u)'
             PROVE  (stream = [by |-> u, key |-> job[u].key, img |-> job[u].img,
                               left |-> job[u].left])'
  BY DEF TransferIntact
<1>1. CASE UNCHANGED <<job, stream>>
  BY <1>1 DEF TransferIntact, Begun
<1>2. ASSUME NEW t \in Task, Leave(t), UNCHANGED stream
      PROVE  (stream = [by |-> u, key |-> job[u].key, img |-> job[u].img,
                        left |-> job[u].left])'
  <2>1. u # t /\ job'[u] = job[u]
    BY <1>2 DEF Leave, Begun, NoJob, Inv, TypeOK
  <2> QED
    BY <1>2, <2>1 DEF TransferIntact, Begun
<1>3. ASSUME NEW t \in Task, TakeImage(t)
      PROVE  (stream = [by |-> u, key |-> job[u].key, img |-> job[u].img,
                        left |-> job[u].left])'
  <2>1. PICK k \in Cached : job' = [job EXCEPT ![t] = [key |-> k, img |-> cache[k],
                                                       left |-> Chunks[cache[k]] + 1]]
    BY <1>3 DEF TakeImage
  <2>2. cache[k] \in Image /\ Chunks[cache[k]] \in Nat
    BY StepsAssumption DEF Cached, Inv, TypeOK
  <2>3. u # t /\ job'[u] = job[u]
    BY <2>1, <2>2 DEF Begun, Inv, TypeOK
  <2> QED
    BY <1>3, <2>3 DEF TransferIntact, Begun, TakeImage, history
<1>4. ASSUME NEW t \in Task, SendImageReport(t)
      PROVE  (stream = [by |-> u, key |-> job[u].key, img |-> job[u].img,
                        left |-> job[u].left])'
  <2>1. lock = t /\ job[t] \in Job
    BY <1>4 DEF SendImageReport, Inv, LockedFlush, JobShape, TypeOK
  <2>2. u = t
    <3> SUFFICES ASSUME u # t PROVE FALSE
      OBVIOUS
    <3>1. job'[u] = job[u] /\ job[u].left = 0
      BY <1>4, <2>1, OneJob DEF SendImageReport, Inv, TypeOK
    <3> QED
      BY <3>1 DEF Begun
  <2>3. job'[t] = [job[t] EXCEPT !.left = @ - 1]
    BY <1>4, <2>2 DEF SendImageReport, Begun, NoJob, Inv, TypeOK
  <2> QED
    BY <1>4, <2>1, <2>2, <2>3 DEF SendImageReport, Job
<1>5. CASE UNCHANGED vars
  BY <1>1, <1>5 DEF vars, code, history
<1>6. ASSUME NEW t \in Task, Begin(t)
      PROVE  UNCHANGED <<job, stream>>
  BY <1>6 DEF Begin
<1>7. ASSUME NEW t \in Task, Acquire(t)
      PROVE  UNCHANGED <<job, stream>>
  BY <1>7 DEF Acquire, InsertImage, RemoveImage, ClearCache, LockCache, history
<1>8. ASSUME NEW t \in Task, Advance(t)
      PROVE  \/ UNCHANGED <<job, stream>>
             \/ Leave(t) /\ UNCHANGED stream
             \/ TakeImage(t)
             \/ SendImageReport(t)
  BY <1>8 DEF Advance, InitLoad, InitStore, InitDis, InitLig, WriteReport, ConvertImage,
              CheckEmpty, DrainDone, Return, Abort, history
<1>9. ASSUME NEW t \in Task, FailWrite(t) \/ Cancel(t)
      PROVE  Leave(t) /\ UNCHANGED stream
  BY <1>9 DEF FailWrite, Cancel, Abort, history
<1> QED
  BY <1>1, <1>2, <1>3, <1>4, <1>5, <1>6, <1>7, <1>8, <1>9 DEF Next

\* However many tasks flush, whatever fails or is dropped half way, no image
\* report of another transfer comes between the header and the last chunk.
THEOREM ImagesDoNotMix == Spec => []TransferIntact
<1>1. Init => TransferIntact
  BY DEF Init, TransferIntact, Begun, NoJob
<1> QED
  BY <1>1, TransferStep, Invariance, PTL DEF Spec

-----------------------------------------------------------------------------
(* A flush that keeps what it has not sent loses nothing.                  *)

\* No step takes an image out of the cache that has not been sent whole.
LEMMA NothingLostStep ==
  ASSUME FALSE \notin Keeps
  PROVE  Inv /\ NothingLost /\ [Next]_vars => NothingLost'
<1> SUFFICES ASSUME Inv, NothingLost, [Next]_vars PROVE NothingLost'
  OBVIOUS
<1>1. CASE UNCHANGED <<cache, fate>>
  BY <1>1 DEF NothingLost
<1>2. ASSUME NEW t \in Task, At(t, "drain") PROVE Head(todo[t]).keep = TRUE
  BY <1>2, NextStep DEF Keeps, At
<1>3. ASSUME NEW t \in Task, Abort(t) PROVE NothingLost'
  BY <1>2, <1>3 DEF Abort, NothingLost, history
<1>4. CASE UNCHANGED vars
  BY <1>1, <1>4 DEF vars, code, history
<1>5. ASSUME NEW t \in Task, Begin(t) PROVE NothingLost'
  BY <1>1, <1>5 DEF Begin
<1>6. ASSUME NEW t \in Task, InsertImage(t) PROVE NothingLost'
  <2>1. Head(todo[t]).key \in Key /\ Head(todo[t]).img \in Image
    BY <1>6, NextStep, StepFields DEF InsertImage, At
  <2> QED
    BY <1>6, <2>1, StepsAssumption DEF InsertImage, NothingLost, Inv, TypeOK
<1>7. ASSUME NEW t \in Task, RemoveImage(t) \/ ClearCache(t) PROVE NothingLost'
  BY <1>7 DEF RemoveImage, ClearCache, NothingLost
<1>8. ASSUME NEW t \in Task, WriteReport(t) PROVE NothingLost'
  BY <1>8 DEF WriteReport, NothingLost
<1>9. ASSUME NEW t \in Task, TakeImage(t) PROVE NothingLost'
  BY <1>1, <1>2, <1>9 DEF TakeImage, history
<1>10. ASSUME NEW t \in Task, SendImageReport(t) PROVE NothingLost'
  BY <1>10 DEF SendImageReport, NothingLost, Inv, TypeOK
<1>11. ASSUME NEW t \in Task, FailWrite(t) \/ Cancel(t) PROVE NothingLost'
  BY <1>3, <1>11 DEF FailWrite, Cancel
<1>12. ASSUME NEW t \in Task, Acquire(t) PROVE NothingLost'
  BY <1>1, <1>6, <1>7, <1>12 DEF Acquire, LockCache, history
<1>13. ASSUME NEW t \in Task, Advance(t) PROVE NothingLost'
  BY <1>1, <1>3, <1>8, <1>9, <1>10, <1>13 DEF Advance, InitLoad, InitStore, InitDis,
     InitLig, ConvertImage, CheckEmpty, DrainDone, Return, history
<1> QED
  BY <1>4, <1>5, <1>11, <1>12, <1>13 DEF Next

\* The Go flush deletes an entry once it is sent: whatever write fails,
\* wherever, an image that was cached is in the cache until it is sent whole,
\* replaced or cleared (goport/internal/mirajazz/device.go, Flush).
THEOREM GoLosesNothing ==
  ASSUME FALSE \notin Keeps
  PROVE  Spec => []NothingLost
<1>1. Init => NothingLost
  BY DEF Init, NothingLost
<1> QED
  BY <1>1, NothingLostStep, Invariance, PTL DEF Spec

-----------------------------------------------------------------------------
(* A flush that returns success has published everything.                  *)

\* What the proof carries along is enough for a flush that returns.
LEMMA PublishingImplies ==
  ASSUME Inv, Publishing
  PROVE  FlushPublishes
<1> SUFFICES ASSUME Undisturbed, NEW t \in Task, lock = t, todo[t] = <<>>, NEW k \in Key
             PROVE  fate[k] = "settled"
  BY DEF FlushPublishes, Succeeding
<1>1. fate[k] # "sent"
  BY DEF Publishing, At
<1>2. cache[k] = NoImage
  BY DEF Publishing, Cached
<1>3. \A u \in Task : ~(job[u].left > 0)
  BY DEF Inv, LockedFlush, JobShape, At
<1> QED
  BY <1>1, <1>2, <1>3 DEF Publishing, Inv, TypeOK

\* As long as nothing fails, no call is dropped.
LEMMA NoFault ==
  ASSUME Inv, [Next]_vars, Undisturbed'
  PROVE  /\ Undisturbed
         /\ \A t \in Task : ~FailWrite(t) /\ ~Cancel(t)
<1>1. ASSUME NEW t \in Task PROVE ~FailWrite(t) /\ ~Cancel(t)
  <2>1. faults \in Nat /\ cancels \in Nat
    BY DEF Inv, TypeOK
  <2> QED
    BY <2>1 DEF FailWrite, Cancel, Undisturbed
<1>2. UNCHANGED bounds
  <2>1. ASSUME NEW t \in Task, Begin(t) \/ Acquire(t) PROVE UNCHANGED bounds
    BY <2>1 DEF Begin, Acquire, InsertImage, RemoveImage, ClearCache, LockCache
  <2>2. ASSUME NEW t \in Task, Advance(t) PROVE UNCHANGED bounds
    <3>1. CASE InitLoad(t) \/ InitStore(t) \/ InitDis(t) \/ InitLig(t)
      BY <3>1 DEF InitLoad, InitStore, InitDis, InitLig
    <3>2. CASE WriteReport(t) \/ ConvertImage(t) \/ CheckEmpty(t)
      BY <3>2 DEF WriteReport, ConvertImage, CheckEmpty
    <3>3. CASE TakeImage(t) \/ SendImageReport(t)
      BY <3>3 DEF TakeImage, SendImageReport
    <3>4. CASE DrainDone(t) \/ Return(t)
      BY <3>4 DEF DrainDone, Return
    <3> QED
      BY <2>2, <3>1, <3>2, <3>3, <3>4 DEF Advance
  <2>3. CASE UNCHANGED vars
    BY <2>3 DEF vars
  <2> QED
    BY <1>1, <2>1, <2>2, <2>3, Zenon DEF Next
<1> QED
  BY <1>1, <1>2 DEF Undisturbed, bounds

\* Every step keeps account of each image: in the cache, under way, or sent by
\* a flush that has its STP still to write.
LEMMA PublishingStep == Inv /\ Publishing /\ [Next]_vars => Publishing'
<1> SUFFICES ASSUME Inv, Publishing, [Next]_vars, Undisturbed' PROVE Publishing'
  BY DEF Publishing
<1>1. ASSUME NEW t \in Task PROVE ~FailWrite(t) /\ ~Cancel(t)
  BY NoFault
<1>3. Undisturbed
  BY NoFault
<1> DEFINE Queued  == \A k \in Key : fate[k] = "queued" =>
                        cache[k] # NoImage \/ \E t \in Task : job[t].left > 0 /\ job[t].key = k
           Sent    == \A k \in Key : fate[k] = "sent" =>
                        lock \in Task /\ (At(lock, "drain") \/ At(lock, "write"))
           Drained == \A t \in Task : lock = t /\ (todo[t] = <<>> \/ At(t, "write")) => Cached = {}
<1>4. Queued /\ Sent /\ Drained
  BY <1>3 DEF Publishing
<1>5. SUFFICES Queued' /\ Sent' /\ Drained'
  BY DEF Publishing
\* Steps of a task outside its flush change nothing the flush relies on.
<1>6. ASSUME NEW t \in Task, lock # t, lock' = lock, cache' = cache,
             \A u \in Task : job[u].left > 0 => job'[u] = job[u],
             \A u \in Task \ {t} : todo'[u] = todo[u],
             \A k \in Key : fate'[k] = fate[k] \/ fate'[k] = "settled"
      PROVE  Queued' /\ Sent' /\ Drained'
  <2>1. Queued'
    BY <1>4, <1>6
  <2>2. Sent'
    <3> SUFFICES ASSUME NEW k \in Key, fate[k] = "sent"
                 PROVE  (lock \in Task /\ (At(lock, "drain") \/ At(lock, "write")))'
      BY <1>6
    <3>1. lock \in Task /\ (At(lock, "drain") \/ At(lock, "write")) /\ todo'[lock] = todo[lock]
      BY <1>4, <1>6
    <3> QED
      BY <1>6, <3>1 DEF At
  <2>3. Drained'
    BY <1>4, <1>6 DEF Cached, At
  <2> QED
    BY <2>1, <2>2, <2>3
\* Neither is anything sent while nobody holds the mutex.
<1>7. lock = Free => \A k \in Key : fate[k] # "sent"
  BY <1>4, DeviceAssumption
\* The holder of the mutex: where it is in flush, and where that leads.
<1>8. ASSUME NEW t \in Task, lock = t, todo[t] # <<>>
      PROVE  /\ Head(todo[t]).do \in {"initialize", "check", "drain", "write"}
             /\ At(t, "initialize") => /\ Tail(todo[t]) # <<>>
                                       /\ Head(Tail(todo[t])).do = "check"
             /\ At(t, "check") => /\ Tail(todo[t]) # <<>>
                                  /\ Head(Tail(todo[t])).do = "drain"
             /\ At(t, "drain") => /\ Tail(todo[t]) # <<>>
                                  /\ Head(Tail(todo[t])).do = "write"
             /\ At(t, "write") => todo[t] = <<Write(STP)>> /\ Tail(todo[t]) = <<>>
  <2>1. PICK keep \in Keeps : todo[t] \in FlushRest(keep)
    BY <1>8 DEF Inv, LockedFlush, CallShape
  <2>2. todo[t] # FlushScript(keep)
    BY <2>1, FlushRestShorter
  <2>3. CHECK.do = "check" /\ Drain(keep).do = "drain" /\ Write(STP).do = "write"
    BY DEF CHECK, Drain, Write
  <2>4. Head(todo[t]).do \in {"initialize", "check", "drain", "write"}
    BY <1>8, <2>1, <2>2, FlushTails
  <2>5. CASE At(t, "initialize")
    <3>1. todo[t] = <<INITIALIZE, CHECK, Drain(keep), Write(STP)>>
      BY <2>1, <2>5, FlushTails DEF At
    <3> QED
      BY <2>3, <2>4, <2>5, <3>1 DEF At
  <2>6. CASE At(t, "check")
    <3>1. todo[t] = <<CHECK, Drain(keep), Write(STP)>>
      BY <2>1, <2>6, FlushTails DEF At
    <3> QED
      BY <2>3, <2>4, <2>6, <3>1 DEF At
  <2>7. CASE At(t, "drain")
    <3>1. todo[t] = <<Drain(keep), Write(STP)>>
      BY <2>1, <2>7, FlushTails DEF At
    <3> QED
      BY <2>3, <2>4, <2>7, <3>1 DEF At
  <2>8. CASE At(t, "write")
    <3>1. todo[t] = <<Write(STP)>>
      BY <2>1, <2>8, FlushTails DEF At
    <3> QED
      BY <2>3, <2>4, <2>8, <3>1 DEF At
  <2> QED
    BY <1>8, <2>4, <2>5, <2>6, <2>7, <2>8 DEF At
<1>9. ASSUME NEW t \in Task, todo[t] # <<>>, Pop(t)
      PROVE  /\ todo'[t] = Tail(todo[t])
             /\ \A u \in Task \ {t} : todo'[u] = todo[u]
  BY <1>9 DEF Pop, Inv, TypeOK
\* The holder before its loop: nothing has been sent yet.
<1>10. ASSUME NEW t \in Task, At(t, "initialize") \/ greeting[t] > 0,
              lock' = lock, cache' = cache, job' = job, fate' = fate,
              todo' = todo \/ Pop(t)
       PROVE  Queued' /\ Sent' /\ Drained'
  <2>1. At(t, "initialize") /\ todo[t] # <<>>
    BY <1>10 DEF Inv, LockedFlush, GreetingShape, At
  <2>2. \A u \in Task \ {t} : todo'[u] = todo[u]
    BY <1>9, <1>10, <2>1
  <2>3. CASE lock # t
    BY <1>6, <1>10, <2>2, <2>3
  <2>4. CASE lock = t
    <3>1. \A k \in Key : fate[k] # "sent"
      BY <1>4, <2>1, <2>4 DEF At
    <3>2. todo'[t] # <<>> /\ ~At(t, "write")'
      BY <1>8, <1>9, <1>10, <2>1, <2>4 DEF At
    <3> QED
      BY <1>4, <1>10, <2>4, <3>1, <3>2
  <2> QED
    BY <2>3, <2>4
<1>11. ASSUME NEW t \in Task, Leave(t), cache' = cache, fate' = fate, job[t].left = 0,
              todo[t] = <<>> \/ lock # t
       PROVE  Queued' /\ Sent' /\ Drained'
  <2>1. \A u \in Task : u # t => job'[u] = job[u] /\ todo'[u] = todo[u]
    BY <1>11 DEF Leave, Inv, TypeOK
  <2>2. \A u \in Task : job[u].left > 0 => job'[u] = job[u]
    BY <1>11, <2>1
  <2>3. CASE lock # t
    BY <1>6, <1>11, <2>1, <2>2, <2>3 DEF Leave
  <2>4. CASE lock = t
    <3>1. \A k \in Key : fate[k] # "sent"
      BY <1>4, <1>11, <2>4 DEF At
    <3>2. lock' = Free
      BY <1>11, <2>4 DEF Leave
    <3> QED
      BY <1>4, <1>11, <2>2, <3>1, <3>2, DeviceAssumption
  <2> QED
    BY <2>3, <2>4
<1>12. ASSUME NEW t \in Task, Begin(t) PROVE Queued' /\ Sent' /\ Drained'
  <2>1. lock # t
    BY <1>12 DEF Begin, Inv, LockedFlush, CallShape
  <2>2. \A u \in Task \ {t} : todo'[u] = todo[u]
    BY <1>12 DEF Begin, Inv, TypeOK
  <2> QED
    BY <1>6, <1>12, <2>1, <2>2 DEF Begin
<1>13. ASSUME NEW t \in Task, Acquire(t) PROVE Queued' /\ Sent' /\ Drained'
  <2>1. CASE InsertImage(t)
    <3> DEFINE s == Head(todo[t])
    <3>1. lock = Free /\ lock' = Free /\ job' = job
      BY <2>1 DEF InsertImage
    <3>2. s.key \in Key /\ s.img \in Image
      BY <2>1, NextStep, StepFields DEF InsertImage, At
    <3>3. /\ cache' = [cache EXCEPT ![s.key] = s.img]
          /\ fate'  = [fate EXCEPT ![s.key] = "queued"]
      BY <2>1 DEF InsertImage
    <3>4. Queued'
      BY <1>4, <3>1, <3>2, <3>3, StepsAssumption DEF Inv, TypeOK
    <3>5. Sent'
      BY <1>7, <3>1, <3>2, <3>3 DEF Inv, TypeOK
    <3> QED
      BY <3>1, <3>4, <3>5, DeviceAssumption
  <2>2. CASE RemoveImage(t)
    <3>1. lock = Free /\ lock' = Free /\ job' = job
      BY <2>2 DEF RemoveImage
    <3>2. Queued'
      BY <1>4, <2>2, <3>1 DEF RemoveImage
    <3>3. Sent'
      BY <1>7, <2>2, <3>1 DEF RemoveImage
    <3> QED
      BY <3>1, <3>2, <3>3, DeviceAssumption
  <2>3. CASE ClearCache(t)
    <3>1. lock' = Free /\ \A k \in Key : fate'[k] = "settled"
      BY <2>3 DEF ClearCache
    <3> QED
      BY <3>1, DeviceAssumption
  <2>4. CASE LockCache(t)
    <3>1. /\ lock = Free /\ lock' = t /\ Pop(t) /\ todo[t] # <<>>
          /\ UNCHANGED <<cache, job, fate>>
      BY <2>4 DEF LockCache, At, history
    <3>2. PICK keep \in Keeps : todo[t] = FlushScript(keep)
      BY <2>4, NextStep DEF LockCache, At
    <3>3. todo'[t] = <<INITIALIZE, CHECK, Drain(keep), Write(STP)>>
      <4>1. Tail(FlushScript(keep)) = <<INITIALIZE, CHECK, Drain(keep), Write(STP)>>
        BY DEF FlushScript
      <4> QED
        BY <1>9, <3>1, <3>2, <4>1
    <3>4. todo'[t] # <<>> /\ ~At(t, "write")'
      BY <3>3 DEF At, INITIALIZE
    <3> QED
      BY <1>4, <1>7, <3>1, <3>4
  <2> QED
    BY <1>13, <2>1, <2>2, <2>3, <2>4 DEF Acquire
<1>14. ASSUME NEW t \in Task, Advance(t) PROVE Queued' /\ Sent' /\ Drained'
  <2>1. CASE InitLoad(t) \/ InitStore(t) \/ InitDis(t) \/ InitLig(t)
    <3>1. At(t, "initialize") \/ greeting[t] > 0
      BY <2>1 DEF InitLoad, InitStore, InitDis, InitLig
    <3>2. UNCHANGED <<lock, cache, job, fate>> /\ (todo' = todo \/ Pop(t))
      BY <2>1 DEF InitLoad, InitStore, InitDis, InitLig, history
    <3> QED
      BY <1>10, <3>1, <3>2
  <2>2. CASE WriteReport(t)
    <3>1. /\ At(t, "write") /\ todo[t] # <<>> /\ Pop(t)
          /\ UNCHANGED <<lock, cache, job>>
          /\ \A k \in Key : fate'[k] = fate[k] \/ fate'[k] = "settled"
      BY <2>2 DEF WriteReport, At
    <3>2. CASE lock # t
      BY <1>6, <1>9, <3>1, <3>2
    <3>3. CASE lock = t
      <4>1. Head(todo[t]) = Write(STP)
        BY <1>8, <3>1, <3>3
      <4>2. Head(todo[t]).report.op = "STP"
        BY <4>1 DEF Write, STP, Cmd
      <4>3. \A k \in Key : fate'[k] # "sent"
        BY <2>2, <4>2 DEF WriteReport
      <4> QED
        BY <1>4, <3>1, <3>3, <4>3 DEF Cached
    <3> QED
      BY <3>2, <3>3
  <2>3. CASE ConvertImage(t)
    <3>1. todo[t] # <<>> /\ At(t, "convert") /\ job[t].left = 0 /\ fate' = fate
      BY <2>3, NextStep DEF ConvertImage, At, Abort, history
    <3>2. lock # t
      BY <1>8, <3>1 DEF At
    <3>3. CASE Abort(t)
      <4>1. cache' = cache
        BY <3>1, <3>3 DEF Abort, At
      <4> QED
        BY <1>11, <3>1, <3>2, <3>3, <4>1 DEF Abort
    <3>4. CASE Pop(t) /\ UNCHANGED <<cache, lock, job>>
      BY <1>6, <1>9, <3>1, <3>2, <3>4
    <3> QED
      BY <2>3, <3>3, <3>4 DEF ConvertImage
  <2>4. CASE CheckEmpty(t)
    <3>1. /\ At(t, "check") /\ todo[t] # <<>> /\ lock = t
          /\ UNCHANGED <<lock, cache, job, fate>>
      BY <2>4, NextStep DEF CheckEmpty, At, history
    <3>2. \A k \in Key : fate[k] # "sent"
      BY <1>4, <3>1 DEF At
    <3>3. CASE Cached = {}
      BY <1>4, <3>1, <3>2, <3>3 DEF Cached
    <3>4. CASE Cached # {}
      <4>1. todo'[t] # <<>> /\ ~At(t, "write")'
        BY <1>8, <1>9, <2>4, <3>1, <3>4 DEF CheckEmpty, At
      <4> QED
        BY <1>4, <3>1, <3>2, <4>1
    <3> QED
      BY <3>3, <3>4
  <2>5. CASE TakeImage(t)
    <3>1. /\ At(t, "drain") /\ todo[t] # <<>> /\ lock = t /\ job[t].left = 0
          /\ UNCHANGED <<lock, todo, fate>>
      BY <2>5, NextStep DEF TakeImage, At, history
    <3>2. PICK k \in Cached :
            /\ job' = [job EXCEPT ![t] = [key |-> k, img |-> cache[k],
                                          left |-> Chunks[cache[k]] + 1]]
            /\ cache' = IF Head(todo[t]).keep THEN cache
                                              ELSE [cache EXCEPT ![k] = NoImage]
      BY <2>5 DEF TakeImage
    <3>3. k \in Key /\ Chunks[cache[k]] + 1 > 0
      BY <3>2, StepsAssumption DEF Cached, Inv, TypeOK
    <3>4. job'[t].left > 0 /\ job'[t].key = k /\ \A u \in Task \ {t} : job'[u] = job[u]
      BY <3>2, <3>3 DEF Inv, TypeOK
    <3>5. \A l \in Key : l # k => cache'[l] = cache[l]
      BY <3>2 DEF Inv, TypeOK
    <3>6. Queued'
      BY <1>4, <3>1, <3>4, <3>5
    <3>7. Sent' /\ Drained'
      BY <1>4, <3>1 DEF At
    <3> QED
      BY <3>6, <3>7
  <2>6. CASE SendImageReport(t)
    <3>1. /\ At(t, "drain") /\ todo[t] # <<>> /\ lock = t
          /\ UNCHANGED <<lock, todo>>
      BY <2>6, NextStep DEF SendImageReport, At
    <3>2. job[t].key \in Key /\ job[t] \in Job /\ job[t].left > 0
      BY <2>6 DEF SendImageReport, Inv, TypeOK, LockedFlush, JobShape
    <3>3. \A u \in Task \ {t} : job'[u] = job[u]
      BY <2>6 DEF SendImageReport, Inv, TypeOK
    <3>4. CASE job[t].left = 1
      <4>1. /\ fate' = [fate EXCEPT ![job[t].key] = "sent"]
            /\ \A k \in Key : k # job[t].key => cache'[k] = cache[k]
        BY <2>6, <3>4 DEF SendImageReport, Inv, TypeOK
      <4>2. Queued'
        BY <1>4, <3>2, <3>3, <4>1 DEF Inv, TypeOK
      <4> QED
        BY <3>1, <4>2 DEF At
    <3>5. CASE job[t].left # 1
      <4>1. /\ fate' = fate /\ cache' = cache
            /\ job' = [job EXCEPT ![t] = [job[t] EXCEPT !.left = @ - 1]]
        BY <2>6, <3>5 DEF SendImageReport
      <4>2. job'[t].key = job[t].key /\ job'[t].left > 0
        BY <3>2, <3>5, <4>1 DEF Job, Inv, TypeOK
      <4>3. Queued'
        BY <1>4, <3>2, <3>3, <4>1, <4>2
      <4> QED
        BY <3>1, <4>3 DEF At
    <3> QED
      BY <3>4, <3>5
  <2>7. CASE DrainDone(t)
    <3>1. /\ At(t, "drain") /\ todo[t] # <<>> /\ lock = t /\ Cached = {}
          /\ Pop(t) /\ UNCHANGED <<lock, cache, job, fate>>
      BY <2>7, NextStep DEF DrainDone, At, history
    <3>2. At(t, "write")' /\ Cached' = {}
      BY <1>8, <1>9, <3>1, FlushTails DEF At, Cached
    <3> QED
      BY <1>4, <3>1, <3>2
  <2>8. CASE Return(t)
    <3>1. todo[t] = <<>> /\ Leave(t) /\ cache' = cache /\ fate' = fate
      BY <2>8 DEF Return, history
    <3>2. job[t].left = 0
      BY <3>1 DEF Inv, TypeOK, Job, LockedFlush, JobShape, At
    <3> QED
      BY <1>11, <3>1, <3>2
  <2> QED
    BY <1>14, <2>1, <2>2, <2>3, <2>4, <2>5, <2>6, <2>7, <2>8 DEF Advance
<1>15. CASE UNCHANGED vars
  BY <1>4, <1>15 DEF vars, code, history, Cached, At
<1> QED
  BY <1>1, <1>12, <1>13, <1>14, <1>15 DEF Next

\* What a flush has taken out of the cache is under way or waits for its STP,
\* unless something failed: at every moment, for every image.
THEOREM NothingIsForgotten == Spec => []Publishing
<1>1. Init => Publishing
  BY DeviceAssumption DEF Init, Publishing
<1> QED
  BY <1>1, PublishingStep, Invariance, PTL DEF Spec

\* When nothing has failed and no call was dropped, a flush that is about to
\* return success has sent and committed every image, whichever tasks cached
\* it and whatever they are doing meanwhile.
THEOREM SuccessfulFlushPublishes == Spec => []FlushPublishes
<1>1. Inv /\ Publishing => FlushPublishes
  BY PublishingImplies
<1> QED
  BY <1>1, NothingIsForgotten, Invariance, PTL

-----------------------------------------------------------------------------
(* The handshake.                                                          *)

\* A call that began with the flag set finds it set: nothing clears it.
LEMMA RacersStep ==
  ASSUME Inv, [Next]_vars, OnlyRacersGreet, \A t \in Task : late[t] => initialized
  PROVE  OnlyRacersGreet' /\ \A t \in Task : late'[t] => initialized'
<1>1. ASSUME NEW t \in Task, call[t] = Idle PROVE greeting[t] = 0
  <2>1. greeting[t] \in 0..3 /\ CallShape(t) /\ GreetingShape(t)
    BY DEF Inv, LockedFlush, TypeOK
  <2>2. ~At(t, "initialize")
    BY <1>1, <2>1 DEF CallShape, At
  <2> QED
    BY <2>1, <2>2 DEF GreetingShape
<1>2. CASE UNCHANGED <<initialized, greeting, late>>
  BY <1>2 DEF OnlyRacersGreet
<1>3. ASSUME NEW t \in Task, Begin(t)
      PROVE  OnlyRacersGreet' /\ \A u \in Task : late'[u] => initialized'
  <2>1. UNCHANGED <<initialized, greeting>> /\ late' = [late EXCEPT ![t] = initialized] /\ greeting[t] = 0
    BY <1>1, <1>3 DEF Begin
  <2> QED
    BY <2>1 DEF OnlyRacersGreet, Inv, TypeOK
<1>4. ASSUME NEW t \in Task, InitLoad(t) \/ InitStore(t) \/ InitDis(t) \/ InitLig(t)
      PROVE  OnlyRacersGreet' /\ \A u \in Task : late'[u] => initialized'
  <2>1. late' = late /\ (initialized => initialized')
    BY <1>4 DEF InitLoad, InitStore, InitDis, InitLig, history
  <2>2. /\ \A u \in Task \ {t} : greeting'[u] = greeting[u]
        /\ greeting'[t] # 0 => greeting[t] # 0 \/ ~initialized
    BY <1>4 DEF InitLoad, InitStore, InitDis, InitLig, Inv, TypeOK
  <2> QED
    BY <2>1, <2>2 DEF OnlyRacersGreet
<1>5. ASSUME NEW t \in Task, Leave(t), UNCHANGED <<initialized, late>>
      PROVE  OnlyRacersGreet' /\ \A u \in Task : late'[u] => initialized'
  <2>1. greeting' = [greeting EXCEPT ![t] = 0]
    BY <1>5 DEF Leave
  <2> QED
    BY <1>5, <2>1 DEF OnlyRacersGreet, Inv, TypeOK
<1>6. ASSUME NEW t \in Task, Acquire(t) \/ WriteReport(t) \/ CheckEmpty(t) \/ TakeImage(t)
                             \/ SendImageReport(t) \/ DrainDone(t)
      PROVE  UNCHANGED <<initialized, greeting, late>>
  BY <1>6 DEF Acquire, InsertImage, RemoveImage, ClearCache, LockCache, WriteReport, CheckEmpty,
              TakeImage, SendImageReport, DrainDone, history
<1>7. ASSUME NEW t \in Task, Return(t) \/ ConvertImage(t) \/ FailWrite(t) \/ Cancel(t)
      PROVE  \/ UNCHANGED <<initialized, greeting, late>>
             \/ Leave(t) /\ UNCHANGED <<initialized, late>>
  BY <1>7 DEF Return, ConvertImage, FailWrite, Cancel, Abort, history
<1>8. CASE UNCHANGED vars
  BY <1>2, <1>8 DEF vars, code, history
<1> QED
  BY <1>2, <1>3, <1>4, <1>5, <1>6, <1>7, <1>8 DEF Next, Advance

\* The damage of the unguarded test-and-set of the flag is over with the calls
\* that were running when it was first set: no later call sends a handshake,
\* whichever tasks make it and whatever fails.
THEOREM LateCallsDoNotGreet == Spec => []OnlyRacersGreet
<1> DEFINE Flagged == \A t \in Task : late[t] => initialized
<1>1. Init => OnlyRacersGreet /\ Flagged
  BY DEF Init, OnlyRacersGreet
<1>2. Inv /\ [Next]_vars /\ OnlyRacersGreet /\ Flagged => (OnlyRacersGreet /\ Flagged)'
  BY RacersStep
<1> QED
  BY <1>1, <1>2, Invariance, PTL DEF Spec
=============================================================================
