---------------------------- MODULE Drawing_proofs ----------------------------
(***************************************************************************)
(* Theorems about what the panel shows.  Nothing on the wire says whose a  *)
(* report is, so these hold of handles that are used with some care: by    *)
(* one task, or by several of which only flush writes.                     *)
(***************************************************************************)
EXTENDS Device_proofs

\* Nobody else uses the handle.
OneTask == \A t, u \in Task : t = u

\* The calls that are not flush take only steps that are in S.
OtherwiseOnly(S) ==
  \A c \in Calls : Plain(Script(c)) => \A n \in DOMAIN Script(c) : Script(c)[n] \in S

\* Steps that send nothing; that do not go through initialize; that leave its
\* report to initialize; that draw images.
Silent    == {s \in Step : s.do \notin {"initialize", "write"}}
Ungreeted == {s \in Step : s.do # "initialize"}
Discreet  == {s \in Step : s.do = "write" => s.report.op # "DIS"}
Drawn     == {s \in Step : s.do \in {"convert", "insert"}}

-----------------------------------------------------------------------------
(* Where a call can be.                                                    *)

\* Outside flush, what is left to do is in S.
Doing(S) ==
  \A t \in Task : lock # t /\ Plain(todo[t]) => \A n \in DOMAIN todo[t] : todo[t][n] \in S

\* Who writes has the panel to itself.
Exclusive == \A t \in Task : At(t, "write") \/ At(t, "initialize") => lock \in {t, Free}

\* What the step of whichever task does to the steps that task u has to do.
LEMMA TodoMoves ==
  ASSUME Inv, [Next]_vars, NEW u \in Task
  PROVE  \/ /\ todo'[u] = todo[u] /\ call'[u] = call[u]
            /\ (lock' = u) <=> (lock = u)
         \/ /\ call[u] = Idle /\ lock' = lock
            /\ \E c \in Calls : todo'[u] = Script(c) /\ call'[u] = c
         \/ /\ todo[u] # <<>> /\ todo'[u] = Tail(todo[u]) /\ call'[u] = call[u]
            /\ \/ At(u, "lock") /\ lock = Free /\ lock' = u
               \/ ~At(u, "lock") /\ lock' = lock
         \/ todo'[u] = <<>> /\ call'[u] = Idle /\ lock' # u
         \/ todo'[u] = <<>> /\ call'[u] = call[u] /\ lock = u /\ lock' = u
<1>0. /\ todo \in [Task -> Seq(Step)] /\ call \in [Task -> Calls \cup {Idle}]
      /\ lock \in Task \cup {Free}
  BY DEF Inv, TypeOK
<1> DEFINE Same == todo'[u] = todo[u] /\ call'[u] = call[u] /\ ((lock' = u) <=> (lock = u))
           Gone == todo'[u] = <<>> /\ call'[u] = Idle /\ lock' # u
           Popped == /\ todo[u] # <<>> /\ todo'[u] = Tail(todo[u]) /\ call'[u] = call[u]
                     /\ \/ At(u, "lock") /\ lock = Free /\ lock' = u
                        \/ ~At(u, "lock") /\ lock' = lock
<1>1. CASE UNCHANGED <<todo, call, lock>>
  BY <1>1
<1>2. ASSUME NEW t \in Task, Begin(t)
      PROVE  Same \/ (call[u] = Idle /\ lock' = lock /\ \E c \in Calls : todo'[u] = Script(c) /\ call'[u] = c)
  BY <1>0, <1>2 DEF Begin
<1>3. ASSUME NEW t \in Task, Pop(t), UNCHANGED <<call, lock>>, todo[t] # <<>>, ~At(t, "lock")
      PROVE  Same \/ Popped
  BY <1>0, <1>3 DEF Pop
<1>4. ASSUME NEW t \in Task, LockCache(t)
      PROVE  Same \/ Popped
  BY <1>0, <1>4, DeviceAssumption DEF LockCache, Pop, At
<1>5. ASSUME NEW t \in Task, Leave(t)
      PROVE  Same \/ Gone
  BY <1>0, <1>5, DeviceAssumption DEF Leave
<1>6. ASSUME NEW t \in Task, CheckEmpty(t)
      PROVE  Same \/ Popped \/ (todo'[u] = <<>> /\ call'[u] = call[u] /\ lock = u /\ lock' = u)
  <2>1. lock = t /\ todo[t] # <<>> /\ ~At(t, "lock") /\ UNCHANGED <<call, lock>>
    BY <1>6, NextStep DEF CheckEmpty, At
  <2>2. CASE Pop(t)
    BY <1>3, <2>1, <2>2
  <2>3. CASE todo' = [todo EXCEPT ![t] = <<>>]
    BY <1>0, <2>1, <2>3
  <2> QED
    BY <1>6, <2>2, <2>3 DEF CheckEmpty
<1>7. ASSUME NEW t \in Task, InitLoad(t) \/ InitStore(t) \/ InitDis(t) \/ TakeImage(t) \/ SendImageReport(t)
                             \/ InitLig(t) \/ WriteReport(t) \/ DrainDone(t)
                             \/ InsertImage(t) \/ RemoveImage(t) \/ ClearCache(t)
      PROVE  Same \/ Popped
  <2>1. CASE UNCHANGED <<todo, call, lock>>
    BY <2>1
  <2>2. CASE Pop(t) /\ todo[t] # <<>> /\ ~At(t, "lock") /\ UNCHANGED <<call, lock>>
    BY <1>3, <2>2
  <2>3. InitLig(t) => At(t, "initialize")
    BY DEF InitLig, Inv, LockedFlush, GreetingShape
  <2> QED
    BY <1>7, <2>1, <2>2, <2>3 DEF InitLoad, InitStore, InitDis, TakeImage, SendImageReport, InitLig,
       WriteReport, DrainDone, InsertImage, RemoveImage, ClearCache, At
<1>8. ASSUME NEW t \in Task, ConvertImage(t) \/ Return(t) \/ FailWrite(t) \/ Cancel(t)
      PROVE  Same \/ Gone \/ Popped
  <2>1. CASE Leave(t)
    BY <1>5, <2>1
  <2>2. CASE ConvertImage(t) /\ Pop(t) /\ UNCHANGED <<call, lock>>
    BY <1>3, <2>2 DEF ConvertImage, At
  <2> QED
    BY <1>8, <2>1, <2>2 DEF ConvertImage, Return, FailWrite, Cancel, Abort
<1>9. CASE UNCHANGED vars
  BY <1>1, <1>9 DEF vars, code
<1> QED
  BY <1>2, <1>4, <1>6, <1>7, <1>8, <1>9 DEF Next, Acquire, Advance

\* A call that is not flush stays among the steps in S.
LEMMA DoingStep ==
  ASSUME Inv, [Next]_vars, NEW S, OtherwiseOnly(S), Doing(S)
  PROVE  Doing(S)'
<1> SUFFICES ASSUME NEW t \in Task, lock' # t, Plain(todo'[t]), NEW n \in DOMAIN todo'[t]
             PROVE  todo'[t][n] \in S
  BY DEF Doing
<1>1. CASE todo'[t] = todo[t] /\ ((lock' = t) <=> (lock = t))
  BY <1>1 DEF Doing
<1>2. CASE \E c \in Calls : todo'[t] = Script(c)
  BY <1>2 DEF OtherwiseOnly
<1>3. CASE todo[t] # <<>> /\ todo'[t] = Tail(todo[t]) /\ ~At(t, "lock") /\ lock' = lock
  <2>1. ~\E keep \in Keeps : todo[t] = FlushScript(keep)
    BY <1>3 DEF FlushScript, At, LOCK
  <2>2. Plain(todo[t])
    BY <1>3, <2>1 DEF Inv, LockedFlush, CallShape
  <2>3. n + 1 \in DOMAIN todo[t] /\ todo'[t][n] = todo[t][n + 1]
    BY <1>3 DEF Inv, TypeOK
  <2> QED
    BY <1>3, <2>2, <2>3 DEF Doing
<1>4. CASE todo'[t] = <<>>
  BY <1>4
<1> QED
  BY <1>1, <1>2, <1>3, <1>4, TodoMoves

\* Nothing is left to do in the beginning.
LEMMA InitDoing == \A S : Init => Doing(S)
BY DEF Init, Doing

\* A call that is not flush, and does not hold its mutex, takes steps of S.
LEMMA OtherSteps ==
  ASSUME Inv, NEW S, Doing(S), NEW t \in Task, todo[t] # <<>>, lock # t, ~At(t, "lock")
  PROVE  Head(todo[t]) \in S
<1>1. ~\E keep \in Keeps : todo[t] = FlushScript(keep)
  BY DEF FlushScript, At, LOCK
<1>2. Plain(todo[t])
  BY <1>1 DEF Inv, LockedFlush, CallShape
<1>3. 1 \in DOMAIN todo[t] /\ Head(todo[t]) = todo[t][1]
  BY DEF Inv, TypeOK
<1> QED
  BY <1>2, <1>3 DEF Doing

\* A task that writes while another holds the mutex would not be silent.
LEMMA SilentOthers ==
  ASSUME Inv, Doing(Silent)
  PROVE  Exclusive
BY OtherSteps DEF Exclusive, Silent, At

\* A task that is alone has the panel to itself, and so has a flush when
\* nothing else writes.
LEMMA AlwaysExclusive ==
  ASSUME OneTask \/ OtherwiseOnly(Silent)
  PROVE  Spec => []Exclusive
<1>1. ASSUME OneTask PROVE Spec => []Exclusive
  <2>1. Inv => Exclusive
    BY <1>1 DEF Inv, TypeOK, Exclusive, OneTask
  <2> QED
    BY <2>1, Invariance, PTL
<1>2. ASSUME OtherwiseOnly(Silent) PROVE Spec => []Exclusive
  <2>1. Init => Doing(Silent)
    BY InitDoing
  <2>2. Inv /\ Doing(Silent) /\ [Next]_vars => Doing(Silent)'
    BY <1>2, DoingStep
  <2>3. Inv /\ Doing(Silent) => Exclusive
    BY SilentOthers
  <2> QED
    BY <2>1, <2>2, <2>3, Invariance, PTL DEF Spec
<1> QED
  BY <1>1, <1>2

-----------------------------------------------------------------------------
(* The panel keeps step with the flush.                                    *)

\* The image that is being sent: the panel expects exactly its chunks that are
\* still to come, and the cache has it until it is sent, in Go, or not any more.
Sending(t) ==
  job[t].left > 0 =>
    /\ panel.left = IF Begun(t) THEN job[t].left ELSE 0
    /\ Begun(t) => panel.img = job[t].img /\ panel.at = job[t].key + 1 /\ panel.clean
    /\ cache[job[t].key] = IF Head(todo[t]).keep THEN job[t].img ELSE NoImage

InStep ==
  Undisturbed =>
    /\ \A t \in Task : Sending(t)
    /\ (\A t \in Task : job[t].left = 0) => panel.left = 0
    /\ ~panel.swallowed

\* While nobody, or somebody who is not sending an image, has the mutex, no image
\* is under way and the panel expects none.
LEMMA Between ==
  ASSUME Inv, InStep, Undisturbed, NEW t \in Task, lock \in {t, Free}, ~At(t, "drain")
  PROVE  panel.left = 0 /\ \A u \in Task : job[u].left = 0
<1>1. ASSUME NEW u \in Task PROVE job[u].left = 0
  <2>1. job[u].left \in Nat /\ JobShape(u)
    BY DEF Inv, TypeOK, Job, LockedFlush
  <2>2. job[u].left > 0 => u = t
    BY <2>1, DeviceAssumption DEF JobShape
  <2> QED
    BY <2>1, <2>2 DEF JobShape
<1> QED
  BY <1>1 DEF InStep

\* Keys count from one on the wire.
LEMMA PaintKey ==
  ASSUME NEW f \in [Key -> Face], NEW k \in Key, NEW i
  PROVE  Paint(f, k + 1, i) = [f EXCEPT ![k] = i]
<1>1. \A l \in Key : l + 1 = k + 1 <=> l = k
  BY StepsAssumption
<1> QED
  BY <1>1 DEF Paint

\* The report of a flush: the panel takes it for what it is.
LEMMA ReportInStep ==
  ASSUME Inv, InStep, Undisturbed, NEW t \in Task, SendImageReport(t)
  PROVE  /\ panel'.swallowed = panel.swallowed /\ panel'.greetings = panel.greetings
         /\ panel'.ready = panel.ready /\ panel'.shown = panel.shown
         /\ panel'.early => panel.early \/ ~panel.ready
         /\ panel'.left = job[t].left - 1
         /\ panel'.left > 0 => panel'.img = job[t].img /\ panel'.at = job[t].key + 1 /\ panel'.clean
         /\ panel'.next = IF job[t].left = 1 THEN [panel.next EXCEPT ![job[t].key] = job[t].img]
                                             ELSE panel.next
<1>0. panel \in PanelState /\ panel.next \in [Key -> Face]
  BY DEF Inv, TypeOK, PanelState
<1>1. /\ job[t].key \in Key /\ job[t].img \in Image /\ job[t].left \in Nat /\ job[t].left > 0
      /\ job[t].left <= Chunks[job[t].img] + 1 /\ Chunks[job[t].img] \in Nat
      /\ panel' = Deliver(panel, JobReport(t))
  BY StepsAssumption DEF SendImageReport, Inv, LockedFlush, JobShape, TypeOK, Job
<1>2. PICK k \in Key, i \in Image, n \in Nat : k = job[t].key /\ i = job[t].img /\ n = job[t].left
  BY <1>1
<1>3. Begun(t) <=> n <= Chunks[i]
  BY <1>1, <1>2 DEF Begun
<1>4. /\ panel.left = IF Begun(t) THEN n ELSE 0
      /\ Begun(t) => panel.img = i /\ panel.at = k + 1 /\ panel.clean
  BY <1>1, <1>2 DEF InStep, Sending
<1>5. Paint(panel.next, k + 1, i) = [panel.next EXCEPT ![k] = i]
  BY <1>0, PaintKey
<1>6. CASE Begun(t)
  <2>1. panel' = Deliver(panel, Data(panel.img)) /\ panel.img \in Image
    BY <1>1, <1>2, <1>4, <1>6 DEF JobReport
  <2>2. panel.left = n /\ panel.left > 0
    BY <1>1, <1>2, <1>4, <1>6
  <2>3. /\ panel'.left = panel.left - 1 /\ panel'.at = panel.at /\ panel'.img = panel.img /\ panel'.clean
        /\ panel'.swallowed = panel.swallowed /\ panel'.greetings = panel.greetings
        /\ panel'.ready = panel.ready /\ panel'.early = panel.early
        /\ panel'.next = IF panel.left = 1 THEN Paint(panel.next, panel.at, panel.img) ELSE panel.next
        /\ panel'.shown = panel.shown
    BY <1>0, <1>4, <1>6, <2>1, <2>2, DeliverData
  <2> QED
    BY <1>2, <1>4, <1>5, <1>6, <2>2, <2>3
<1>7. CASE ~Begun(t)
  <2>1. panel' = Deliver(panel, Bat(k, i)) /\ n = Chunks[i] + 1 /\ panel.left = 0
    BY <1>1, <1>2, <1>3, <1>4, <1>7 DEF JobReport
  <2>2. /\ panel'.left = Chunks[i] /\ panel'.at = k + 1 /\ panel'.img = i /\ panel'.clean
        /\ panel'.swallowed = panel.swallowed /\ panel'.greetings = panel.greetings
        /\ panel'.ready = panel.ready /\ (panel'.early => panel.early \/ ~panel.ready)
        /\ panel'.next = IF Chunks[i] = 0 THEN Paint(panel.next, k + 1, i) ELSE panel.next
        /\ panel'.shown = panel.shown
    BY <1>0, <1>2, <2>1, DeliverBat
  <2>3. Chunks[i] = 0 <=> n = 1
    BY <1>1, <1>2, <2>1
  <2>4. panel'.next = IF n = 1 THEN [panel.next EXCEPT ![k] = i] ELSE panel.next
    BY <1>5, <2>2, <2>3
  <2>5. panel'.left = n - 1 /\ panel'.img = i /\ panel'.at = k + 1 /\ panel'.clean
    BY <1>1, <1>2, <2>1, <2>2
  <2> QED
    BY <1>2, <2>2, <2>4, <2>5
<1> QED
  BY <1>6, <1>7

\* A command is understood by a panel that expects no image.
LEMMA CommandInStep ==
  ASSUME Inv, Exclusive, InStep, Undisturbed, NEW t \in Task,
         InitDis(t) \/ InitLig(t) \/ WriteReport(t)
  PROVE  /\ panel.left = 0 /\ \A u \in Task : job[u].left = 0
         /\ panel'.left = 0 /\ panel'.swallowed = panel.swallowed
<1>1. At(t, "initialize") \/ At(t, "write")
  BY DEF InitDis, InitLig, WriteReport, Inv, LockedFlush, GreetingShape
<1>2. panel.left = 0 /\ \A u \in Task : job[u].left = 0
  BY <1>1, Between DEF Exclusive, At
<1>3. \E r \in Command : panel' = Deliver(panel, r)
  <2>1. Cmd("DIS", 0) \in Command /\ Cmd("LIG", 0) \in Command
    BY DEF Cmd, Command, Opcode
  <2>2. WriteReport(t) => Head(todo[t]).report \in Command
    BY NextStep, StepFields DEF WriteReport, At
  <2> QED
    BY <2>1, <2>2 DEF InitDis, InitLig, WriteReport
<1>4. panel \in PanelState
  BY DEF Inv, TypeOK
<1> QED
  BY <1>2, <1>3, <1>4, DeliverCommand

\* Whatever happens, the panel stays in step.
LEMMA InStepKept ==
  ASSUME Inv, Exclusive, InStep, [Next]_vars
  PROVE  InStep'
<1> SUFFICES ASSUME Undisturbed' PROVE InStep'
  BY DEF InStep
<1>1. Undisturbed /\ \A t \in Task : ~FailWrite(t) /\ ~Cancel(t)
  BY NoFault
<1>2. /\ \A t \in Task : Sending(t)
      /\ (\A t \in Task : job[t].left = 0) => panel.left = 0
      /\ ~panel.swallowed
  BY <1>1 DEF InStep
<1>3. \A t \in Task : job[t] \in Job /\ job[t].left \in Nat /\ JobShape(t)
  BY DEF Inv, TypeOK, Job, LockedFlush
\* Nothing is under way, before and after.
<1>4. ASSUME \A t \in Task : job'[t].left = 0, panel'.left = 0, panel'.swallowed = panel.swallowed
      PROVE  InStep'
  BY <1>2, <1>4 DEF InStep, Sending
\* Steps that a job has nothing to do with.
<1>5. ASSUME NEW t \in Task, UNCHANGED <<panel, cache>>, lock # t \/ job[t].left = 0,
             \A u \in Task \ {t} : job'[u] = job[u] /\ todo'[u] = todo[u],
             job'[t].left = 0
      PROVE  InStep'
  <2>1. job[t].left = 0
    BY <1>3, <1>5 DEF JobShape
  <2>2. ASSUME NEW u \in Task PROVE Sending(u)'
    BY <1>2, <1>5, <2>2 DEF Sending, Begun
  <2>3. (\A u \in Task : job'[u].left = 0) => panel'.left = 0
    BY <1>2, <1>5, <2>1
  <2> QED
    BY <1>2, <1>5, <2>2, <2>3 DEF InStep
<1>6. ASSUME NEW t \in Task, UNCHANGED <<panel, cache, job>>, ~At(t, "drain"),
             \A u \in Task \ {t} : todo'[u] = todo[u]
      PROVE  InStep'
  BY <1>3, <1>5, <1>6 DEF JobShape
<1>7. ASSUME NEW t \in Task, Begin(t) PROVE InStep'
  <2>1. ~At(t, "drain") /\ UNCHANGED <<panel, cache, job>>
    BY <1>7 DEF Begin, Inv, LockedFlush, CallShape, At
  <2>2. \A u \in Task \ {t} : todo'[u] = todo[u]
    BY <1>7 DEF Begin, Inv, TypeOK
  <2> QED
    BY <1>6, <2>1, <2>2
<1>8. ASSUME NEW t \in Task, InsertImage(t) \/ RemoveImage(t) \/ ClearCache(t) PROVE InStep'
  <2>1. lock = Free /\ UNCHANGED <<panel, job>>
    BY <1>8 DEF InsertImage, RemoveImage, ClearCache
  <2>2. \A u \in Task : job[u].left = 0
    BY <1>3, <2>1, DeviceAssumption DEF JobShape
  <2> QED
    BY <1>2, <1>4, <2>1, <2>2
<1>9. ASSUME NEW t \in Task, LockCache(t) \/ InitLoad(t) \/ InitStore(t) \/ CheckEmpty(t) PROVE InStep'
  <2>1. ~At(t, "drain") /\ UNCHANGED <<panel, cache, job>>
    BY <1>9 DEF LockCache, InitLoad, InitStore, CheckEmpty, At, Inv, LockedFlush, GreetingShape
  <2>2. \A u \in Task \ {t} : todo'[u] = todo[u]
    BY <1>9 DEF LockCache, InitLoad, InitStore, CheckEmpty, Pop, Inv, TypeOK
  <2> QED
    BY <1>6, <2>1, <2>2
<1>10. ASSUME NEW t \in Task, InitDis(t) \/ InitLig(t) \/ WriteReport(t) PROVE InStep'
  <2>1. job' = job
    BY <1>10 DEF InitDis, InitLig, WriteReport
  <2> QED
    BY <1>1, <1>4, <1>10, <2>1, CommandInStep
<1>11. ASSUME NEW t \in Task, DrainDone(t) PROVE InStep'
  <2>1. UNCHANGED <<panel, cache, job>> /\ job[t].left = 0
    BY <1>11 DEF DrainDone
  <2>2. \A u \in Task \ {t} : todo'[u] = todo[u]
    BY <1>11 DEF DrainDone, Pop, Inv, TypeOK
  <2> QED
    BY <1>5, <2>1, <2>2
<1>12. ASSUME NEW t \in Task, TakeImage(t) PROVE InStep'
  <2>1. /\ At(t, "drain") /\ todo[t] # <<>> /\ lock = t /\ job[t].left = 0
        /\ UNCHANGED <<lock, todo, panel>>
    BY <1>12, NextStep DEF TakeImage, At
  <2>2. PICK k \in Cached :
          /\ job' = [job EXCEPT ![t] = [key |-> k, img |-> cache[k],
                                        left |-> Chunks[cache[k]] + 1]]
          /\ cache' = IF Head(todo[t]).keep THEN cache
                                            ELSE [cache EXCEPT ![k] = NoImage]
    BY <1>12 DEF TakeImage
  <2>3. k \in Key /\ cache[k] \in Image /\ Chunks[cache[k]] \in Nat
    BY <2>2, StepsAssumption DEF Cached, Inv, TypeOK
  <2>4. /\ job'[t] = [key |-> k, img |-> cache[k], left |-> Chunks[cache[k]] + 1]
        /\ \A u \in Task \ {t} : job'[u] = job[u]
    BY <2>2 DEF Inv, TypeOK
  <2>5. \A u \in Task \ {t} : job[u].left = 0
    BY <2>1, OneJob
  <2>6. panel'.left = 0
    BY <1>2, <2>1, <2>5
  <2>7. /\ job'[t].left = Chunks[job'[t].img] + 1 /\ job'[t].left > 0
        /\ job'[t].key = k /\ job'[t].img = cache[k]
    BY <2>3, <2>4
  <2>8. ~Begun(t)'
    BY <2>3, <2>7 DEF Begun
  <2>9. cache'[k] = IF Head(todo'[t]).keep THEN cache[k] ELSE NoImage
    BY <2>1, <2>2, <2>3 DEF Inv, TypeOK
  <2>10. Sending(t)'
    BY <2>6, <2>7, <2>8, <2>9 DEF Sending
  <2>11. \A u \in Task \ {t} : Sending(u)'
    BY <2>4, <2>5 DEF Sending
  <2> QED
    BY <1>2, <2>1, <2>7, <2>10, <2>11 DEF InStep
<1>13. ASSUME NEW t \in Task, SendImageReport(t) PROVE InStep'
  <2>1. /\ At(t, "drain") /\ todo[t] # <<>> /\ lock = t /\ job[t].left > 0
        /\ UNCHANGED <<lock, todo>>
    BY <1>13, NextStep DEF SendImageReport, At
  <2>2. /\ panel'.swallowed = panel.swallowed
        /\ panel'.left = job[t].left - 1
        /\ panel'.left > 0 => panel'.img = job[t].img /\ panel'.at = job[t].key + 1 /\ panel'.clean
    BY <1>1, <1>13, ReportInStep
  <2>3. \A u \in Task \ {t} : job[u].left = 0 /\ job'[u] = job[u]
    BY <1>13, <2>1, OneJob DEF SendImageReport, Inv, TypeOK
  <2>4. CASE job[t].left = 1
    <3>1. job'[t] = NoJob
      BY <1>13, <2>4 DEF SendImageReport, Inv, TypeOK
    <3>2. \A u \in Task : job'[u].left = 0
      BY <2>3, <3>1 DEF NoJob
    <3> QED
      BY <1>4, <2>2, <2>4, <3>2
  <2>5. CASE job[t].left # 1
    <3>1. job'[t] = [job[t] EXCEPT !.left = @ - 1] /\ cache' = cache
      BY <1>13, <2>5 DEF SendImageReport, Inv, TypeOK
    <3>2. /\ job'[t].left = job[t].left - 1 /\ job'[t].left > 0
          /\ job'[t].key = job[t].key /\ job'[t].img = job[t].img
      BY <1>3, <2>1, <2>5, <3>1 DEF Job
    <3>3. Chunks[job[t].img] \in Nat
      BY <1>3, <2>1, StepsAssumption DEF JobShape
    <3>4. Begun(t)'
      BY <1>3, <2>1, <3>2, <3>3 DEF Begun, JobShape
    <3>5. Sending(t)'
      BY <1>2, <2>1, <2>2, <3>1, <3>2, <3>4 DEF Sending
    <3>6. \A u \in Task \ {t} : Sending(u)'
      BY <2>3 DEF Sending
    <3> QED
      BY <1>2, <2>2, <3>2, <3>5, <3>6 DEF InStep
  <2> QED
    BY <2>4, <2>5
<1>14. ASSUME NEW t \in Task, ConvertImage(t) \/ Return(t) PROVE InStep'
  <2>1. job[t].left = 0 /\ ~At(t, "drain")
    BY <1>3, <1>14 DEF ConvertImage, Return, At, JobShape
  <2>2. UNCHANGED <<panel, cache>>
    BY <1>14, <2>1 DEF ConvertImage, Return, Abort
  <2>3. \A u \in Task \ {t} : job'[u] = job[u] /\ todo'[u] = todo[u]
    BY <1>14 DEF ConvertImage, Return, Abort, Leave, Pop, Inv, TypeOK
  <2>4. job'[t].left = 0
    BY <1>14, <2>1 DEF ConvertImage, Return, Abort, Leave, NoJob, Inv, TypeOK
  <2> QED
    BY <1>5, <2>1, <2>2, <2>3, <2>4
<1>15. CASE UNCHANGED vars
  BY <1>1, <1>2, <1>15 DEF vars, code, InStep, Sending, Begun
<1> QED
  BY <1>1, <1>7, <1>8, <1>9, <1>10, <1>11, <1>12, <1>13, <1>14, <1>15 DEF Next, Acquire, Advance

\* Panel and handle start in step.
LEMMA InitInStep == Init => InStep
BY DEF Init, InStep, Sending, NoJob, PanelInit

\* Nothing the panel receives is taken for image data by mistake.
LEMMA AlwaysInStep ==
  ASSUME OneTask \/ OtherwiseOnly(Silent)
  PROVE  Spec => []InStep
<1>1. Spec => []Exclusive
  BY AlwaysExclusive
<1> QED
  BY <1>1, InitInStep, InStepKept, Invariance, PTL DEF Spec

\* Unless something fails, no report is taken for image data that is none: one task
\* at a time, or any number of which only flush writes to the panel.
THEOREM NothingIsSwallowed ==
  ASSUME OneTask \/ OtherwiseOnly(Silent)
  PROVE  Spec => [](Undisturbed => CommandsUnderstood)
<1>1. InStep => (Undisturbed => CommandsUnderstood)
  BY DEF InStep, CommandsUnderstood
<1> QED
  BY <1>1, AlwaysInStep, PTL

-----------------------------------------------------------------------------
(* The handshake.                                                          *)

\* One task at a time is inside initialize; only initialize sends its reports.
OneGreets == \A t, u \in Task : At(t, "initialize") /\ At(u, "initialize") => t = u
NoOtherDis == \A t \in Task : At(t, "write") => Head(todo[t]).report.op # "DIS"

\* The handshake is sent by who sets the flag, and counted once.
Greeted ==
  /\ panel.greetings <= 1
  /\ ~initialized => panel.greetings = 0
  /\ \A t \in Task : /\ greeting[t] = 1 => ~initialized
                     /\ greeting[t] = 2 => panel.greetings = 0
                     /\ greeting[t] > 1 => initialized

\* If only flush goes through initialize, the mutex lets one task greet at a
\* time.
LEMMA UngreetedGreets ==
  ASSUME Inv, Doing(Ungreeted)
  PROVE  OneGreets
BY OtherSteps DEF OneGreets, Ungreeted, At

\* Calls that do not write DIS leave it to initialize.
LEMMA DiscreetWrites ==
  ASSUME Inv, Doing(Discreet)
  PROVE  NoOtherDis
<1> SUFFICES ASSUME NEW t \in Task, At(t, "write") PROVE Head(todo[t]).report.op # "DIS"
  BY DEF NoOtherDis
<1>1. CASE lock = t
  <2>1. PICK keep \in Keeps : todo[t] \in FlushRest(keep)
    BY <1>1 DEF Inv, LockedFlush, CallShape
  <2>2. todo[t] = <<Write(STP)>>
    BY <2>1, FlushTails DEF At
  <2> QED
    BY <2>2 DEF Write, STP, Cmd
<1>2. CASE lock # t
  BY <1>2, OtherSteps DEF Discreet, At
<1> QED
  BY <1>1, <1>2

\* Who greets sets the flag on the way, and nobody greets once it is set.
LEMMA GreetedStep ==
  ASSUME Inv, OneGreets, NoOtherDis, Greeted, [Next]_vars
  PROVE  Greeted'
<1>1. \A t \in Task : greeting[t] > 0 => At(t, "initialize")
  BY DEF Inv, LockedFlush, GreetingShape
<1>2. panel \in PanelState /\ panel.greetings \in Nat /\ greeting \in [Task -> 0..3]
  BY DEF Inv, TypeOK, PanelState
\* Steps outside the handshake.
<1>3. ASSUME UNCHANGED <<initialized, greeting>>, panel'.greetings = panel.greetings
      PROVE  Greeted'
  BY <1>3 DEF Greeted
<1>4. ASSUME NEW r \in Report, r.op # "DIS", panel' = Deliver(panel, r)
      PROVE  panel'.greetings = panel.greetings
  BY <1>2, <1>4, DeliverGreetings
<1>5. ASSUME NEW t \in Task, greeting' = [greeting EXCEPT ![t] = 0], UNCHANGED initialized,
             panel'.greetings = panel.greetings
      PROVE  Greeted'
  BY <1>2, <1>5 DEF Greeted
<1>6. ASSUME NEW t \in Task, InitLoad(t) PROVE Greeted'
  <2>1. CASE initialized
    BY <1>3, <1>6, <2>1 DEF InitLoad
  <2>2. CASE ~initialized
    BY <1>2, <1>6, <2>2 DEF InitLoad, Greeted
  <2> QED
    BY <2>1, <2>2
<1>7. ASSUME NEW t \in Task, InitStore(t) PROVE Greeted'
  <2>1. /\ greeting[t] = 1 /\ greeting' = [greeting EXCEPT ![t] = 2]
        /\ initialized' = TRUE /\ panel' = panel
    BY <1>7 DEF InitStore
  <2>2. panel.greetings = 0
    BY <2>1 DEF Greeted
  <2>3. \A u \in Task \ {t} : greeting[u] = 0
    BY <1>1, <1>2, <2>1 DEF OneGreets
  <2> QED
    BY <1>2, <2>1, <2>2, <2>3 DEF Greeted
<1>8. ASSUME NEW t \in Task, InitDis(t) PROVE Greeted'
  <2>1. /\ greeting[t] = 2 /\ greeting' = [greeting EXCEPT ![t] = 3]
        /\ initialized' = initialized /\ panel' = Deliver(panel, Cmd("DIS", 0))
    BY <1>8 DEF InitDis
  <2>2. panel.greetings = 0 /\ initialized
    BY <2>1 DEF Greeted
  <2>3. \A u \in Task \ {t} : greeting[u] = 0
    BY <1>1, <1>2, <2>1 DEF OneGreets
  <2>4. Cmd("DIS", 0) \in Report
    BY CommandReports DEF Opcode
  <2>5. panel'.greetings <= 1
    BY <1>2, <2>1, <2>2, <2>4, DeliverGreetings
  <2> QED
    BY <1>2, <2>1, <2>2, <2>3, <2>5 DEF Greeted
<1>9. ASSUME NEW t \in Task, InitLig(t) PROVE Greeted'
  <2>1. Cmd("LIG", 0) \in Report
    BY CommandReports DEF Opcode
  <2>2. Cmd("LIG", 0).op # "DIS"
    BY DEF Cmd
  <2> QED
    BY <1>4, <1>5, <1>9, <2>1, <2>2 DEF InitLig
<1>10. ASSUME NEW t \in Task, WriteReport(t) PROVE Greeted'
  <2>1. At(t, "write") /\ panel' = Deliver(panel, Head(todo[t]).report) /\ UNCHANGED <<initialized, greeting>>
    BY <1>10 DEF WriteReport
  <2>2. Head(todo[t]).report \in Report /\ Head(todo[t]).report.op # "DIS"
    BY <2>1, NextStep, StepFields DEF At, Report, NoOtherDis
  <2> QED
    BY <1>3, <1>4, <2>1, <2>2
<1>11. ASSUME NEW t \in Task, SendImageReport(t) PROVE Greeted'
  <2>1. JobReport(t) \in Report /\ JobReport(t).op # "DIS"
    BY <1>11, JobReports DEF SendImageReport, JobReport, Bat, Data
  <2> QED
    BY <1>3, <1>4, <1>11, <2>1 DEF SendImageReport
<1>12. ASSUME NEW t \in Task, Begin(t) \/ Acquire(t) \/ CheckEmpty(t) \/ TakeImage(t) \/ DrainDone(t)
       PROVE  Greeted'
  BY <1>3, <1>12 DEF Begin, Acquire, InsertImage, RemoveImage, ClearCache, LockCache, CheckEmpty,
                     TakeImage, DrainDone
<1>13. ASSUME NEW t \in Task, Return(t) \/ ConvertImage(t) \/ FailWrite(t) \/ Cancel(t)
       PROVE  Greeted'
  <2>1. \/ UNCHANGED <<initialized, greeting, panel>>
        \/ Leave(t) /\ UNCHANGED <<initialized, panel>>
    BY <1>13 DEF Return, ConvertImage, FailWrite, Cancel, Abort
  <2> QED
    BY <1>3, <1>5, <2>1 DEF Leave
<1>14. CASE UNCHANGED vars
  BY <1>3, <1>14 DEF vars, code
<1> QED
  BY <1>6, <1>7, <1>8, <1>9, <1>10, <1>11, <1>12, <1>13, <1>14 DEF Next, Advance

\* The flag is unset and nothing is greeted.
LEMMA InitGreeted == Init => Greeted
BY DEF Init, Greeted, PanelInit

\* The panel is woken once, whatever fails and whatever is dropped half way, when
\* one task uses the handle or only flush, under its mutex, initializes it: the
\* unguarded test-and-set of the flag needs no more than that.
THEOREM WokenOnce ==
  ASSUME OtherwiseOnly(Discreet), OneTask \/ OtherwiseOnly(Ungreeted)
  PROVE  Spec => []HandshakeOnce
<1>1. Spec => []NoOtherDis
  <2>1. Init => Doing(Discreet)
    BY InitDoing
  <2>2. Inv /\ Doing(Discreet) /\ [Next]_vars => Doing(Discreet)'
    BY DoingStep
  <2> QED
    BY <2>1, <2>2, DiscreetWrites, Invariance, PTL DEF Spec
<1>2. Spec => []OneGreets
  <2>1. ASSUME OneTask PROVE Spec => []OneGreets
    <3>1. Inv => OneGreets
      BY <2>1 DEF OneGreets, OneTask
    <3> QED
      BY <3>1, Invariance, PTL
  <2>2. ASSUME OtherwiseOnly(Ungreeted) PROVE Spec => []OneGreets
    <3>1. Init => Doing(Ungreeted)
      BY InitDoing
    <3>2. Inv /\ Doing(Ungreeted) /\ [Next]_vars => Doing(Ungreeted)'
      BY <2>2, DoingStep
    <3> QED
      BY <3>1, <3>2, UngreetedGreets, Invariance, PTL DEF Spec
  <2> QED
    BY <2>1, <2>2
<1>3. Greeted => HandshakeOnce
  BY DEF Greeted, HandshakeOnce
<1> QED
  BY <1>1, <1>2, <1>3, InitGreeted, GreetedStep, Invariance, PTL DEF Spec

-----------------------------------------------------------------------------
(* From outside: a hidden frame, and one that is shown.                    *)

\* The hidden frame, put together from a cache, the images under way and the
\* frame the panel is preparing.
Composed(c, j, n) ==
  [k \in Key |-> IF c[k] # NoImage THEN c[k]
                 ELSE IF \E t \in Task : j[t].left > 0 /\ j[t].key = k
                      THEN j[CHOOSE t \in Task : j[t].left > 0].img
                      ELSE n[k]]

\* The abstract frame, as an operator of what it depends on.
LEMMA FrameComposed ==
  Frame = Composed(cache, job, panel.next) /\ Frame' = Composed(cache', job', panel'.next)
BY DEF Frame, Composed

\* Without an image under way, and with one.
LEMMA ComposedIdle ==
  ASSUME NEW c, NEW j, NEW n, \A t \in Task : ~(j[t].left > 0)
  PROVE  Composed(c, j, n) = [k \in Key |-> IF c[k] # NoImage THEN c[k] ELSE n[k]]
BY DEF Composed

OnlyJob(j, t) == t \in Task /\ j[t].left > 0 /\ \A u \in Task \ {t} : ~(j[u].left > 0)

\* During one image, the frame holds that image for its key.
LEMMA ComposedSending ==
  ASSUME NEW c, NEW j, NEW n, NEW t, OnlyJob(j, t)
  PROVE  Composed(c, j, n) =
           [k \in Key |-> IF c[k] # NoImage THEN c[k]
                          ELSE IF k = j[t].key THEN j[t].img ELSE n[k]]
<1>1. (CHOOSE u \in Task : j[u].left > 0) = t
  BY DEF OnlyJob
<1>2. \A k : (\E u \in Task : j[u].left > 0 /\ j[u].key = k) <=> j[t].key = k
  BY DEF OnlyJob
<1> QED
  BY <1>1, <1>2 DEF Composed

\* A step that changes neither frame.
Stutter == Frame' = Frame /\ panel'.shown = panel.shown

\* Steps that change neither cache, nor image on its way, nor panel are
\* hidden from the abstract buffer.
LEMMA SameParts ==
  ASSUME cache' = cache, job' = job, panel'.next = panel.next, panel'.shown = panel.shown
  PROVE  Stutter
BY DEF Stutter, Frame

\* Steps that have nothing to do with images.
LEMMA PlainStutters ==
  ASSUME Inv, Exclusive, InStep, Undisturbed, NEW t \in Task,
         \/ Begin(t) \/ LockCache(t) \/ InitLoad(t) \/ InitStore(t) \/ InitDis(t) \/ InitLig(t)
         \/ CheckEmpty(t) \/ DrainDone(t) \/ ConvertImage(t) \/ Return(t)
  PROVE  Stutter /\ panel'.next = panel.next
<1>1. CASE Begin(t) \/ LockCache(t) \/ InitLoad(t) \/ InitStore(t) \/ CheckEmpty(t) \/ DrainDone(t)
  BY <1>1, SameParts DEF Begin, LockCache, InitLoad, InitStore, CheckEmpty, DrainDone
<1>2. CASE InitDis(t) \/ InitLig(t)
  <2>1. PICK r \in Command : r.op \in {"DIS", "LIG"} /\ panel' = Deliver(panel, r)
    <3>1. Cmd("DIS", 0) \in Command /\ Cmd("LIG", 0) \in Command
      BY DEF Cmd, Command, Opcode
    <3>2. Cmd("DIS", 0).op = "DIS" /\ Cmd("LIG", 0).op = "LIG"
      BY DEF Cmd
    <3> QED
      BY <1>2, <3>1, <3>2 DEF InitDis, InitLig
  <2>2. panel.left = 0 /\ panel \in PanelState
    BY <1>2, CommandInStep DEF Inv, TypeOK
  <2>3. panel' = Deliver(panel, r) /\ r.op # "CLE" /\ r.op # "STP"
    BY <2>1
  <2>4. panel'.next = panel.next /\ panel'.shown = panel.shown
    BY <2>2, <2>3, DeliverCommand
  <2> QED
    BY <1>2, <2>4, SameParts DEF InitDis, InitLig
<1>3. CASE ConvertImage(t) \/ Return(t)
  <2>1. ~At(t, "drain") /\ todo[t] \in Seq(Step)
    BY <1>3 DEF ConvertImage, Return, At, Inv, TypeOK
  <2>2. job[t].left = 0
    BY <2>1 DEF Inv, TypeOK, LockedFlush, JobShape, Job
  <2>3. cache' = cache /\ panel' = panel
    BY <1>3, <2>1 DEF ConvertImage, Return, Abort
  <2>4. \A u \in Task : job'[u] = job[u] \/ (u = t /\ job'[u] = NoJob)
    BY <1>3 DEF ConvertImage, Return, Abort, Leave, Inv, TypeOK
  <2>5. \A u \in Task : job'[u] = job[u] \/ (~(job'[u].left > 0) /\ ~(job[u].left > 0))
    BY <2>2, <2>4 DEF NoJob
  <2>6. Frame' = Frame
    <3>1. CASE \A u \in Task : ~(job[u].left > 0)
      <4>1. \A u \in Task : ~(job'[u].left > 0)
        BY <2>5, <3>1
      <4> QED
        BY <2>3, <3>1, <4>1, FrameComposed, ComposedIdle
    <3>2. ASSUME NEW u \in Task, job[u].left > 0 PROVE Frame' = Frame
      <4>1. job'[u] = job[u] /\ OnlyJob(job, u) /\ OnlyJob(job', u)
        <5>1. lock = u
          BY <3>2 DEF Inv, LockedFlush, JobShape
        <5>2. u # t
          BY <2>2, <3>2
        <5> QED
          BY <2>4, <2>5, <3>2, <5>1, <5>2, OneJob DEF OnlyJob
      <4>2. Composed(cache, job, panel.next) =
              [k \in Key |-> IF cache[k] # NoImage THEN cache[k]
                             ELSE IF k = job[u].key THEN job[u].img ELSE panel.next[k]]
        BY <4>1, ComposedSending
      <4>3. Composed(cache', job', panel'.next) =
              [k \in Key |-> IF cache'[k] # NoImage THEN cache'[k]
                             ELSE IF k = job'[u].key THEN job'[u].img ELSE panel'.next[k]]
        BY <4>1, ComposedSending
      <4> QED
        BY <2>3, <4>1, <4>2, <4>3, FrameComposed
    <3> QED
      BY <3>1, <3>2
  <2> QED
    BY <2>3, <2>6 DEF Stutter
<1> QED
  BY <1>1, <1>2, <1>3

\* write_image draws on the hidden frame.
LEMMA InsertDraws ==
  ASSUME Inv, NEW t \in Task, InsertImage(t)
  PROVE  \E k \in Key, i \in Image : Buffered!Draw(k, i)
<1>1. /\ At(t, "insert") /\ todo[t] # <<>> /\ lock = Free
      /\ job' = job /\ panel' = panel
  BY DEF InsertImage, At
<1>2. PICK k \in Key, i \in Image : cache' = [cache EXCEPT ![k] = i]
  BY <1>1, NextStep, StepFields DEF InsertImage, At
<1>3. \A u \in Task : ~(job[u].left > 0)
  BY <1>1, DeviceAssumption DEF Inv, LockedFlush, JobShape
<1>4. /\ Frame  = [l \in Key |-> IF cache[l] # NoImage THEN cache[l] ELSE panel.next[l]]
      /\ Frame' = [l \in Key |-> IF cache'[l] # NoImage THEN cache'[l] ELSE panel.next[l]]
  <2>1. \A u \in Task : ~(job'[u].left > 0)
    BY <1>1, <1>3
  <2> QED
    BY <1>1, <1>3, <2>1, FrameComposed, ComposedIdle
<1>5. i # NoImage /\ cache \in [Key -> Image \cup {NoImage}]
  BY <1>2, StepsAssumption DEF Inv, TypeOK
<1>6. Frame' = [Frame EXCEPT ![k] = i]
  BY <1>2, <1>4, <1>5
<1> QED
  BY <1>1, <1>6 DEF Buffered!Draw

\* The only report that is sent outside an image and the handshake is the STP of
\* flush, and nothing is hidden from it in the cache.
LEMMA ReportShows ==
  ASSUME Inv, Exclusive, InStep, Undisturbed, Publishing, Doing(Drawn), NEW t \in Task, WriteReport(t)
  PROVE  Buffered!Show
<1>1. /\ At(t, "write") /\ todo[t] # <<>> /\ job' = job /\ cache' = cache
      /\ panel' = Deliver(panel, Head(todo[t]).report)
  BY DEF WriteReport, At
<1>2. lock = t
  BY <1>1, OtherSteps DEF Drawn, At
<1>3. Head(todo[t]).report = STP
  <2>1. PICK keep \in Keeps : todo[t] \in FlushRest(keep)
    BY <1>2 DEF Inv, LockedFlush, CallShape
  <2>2. todo[t] = <<Write(STP)>>
    BY <1>1, <2>1, FlushTails DEF At
  <2> QED
    BY <2>2 DEF Write
<1>4. panel.left = 0 /\ panel \in PanelState /\ \A u \in Task : job[u].left = 0
  BY CommandInStep DEF Inv, TypeOK
<1>5. panel'.next = panel.next /\ panel'.shown = panel.next
  <2>1. STP \in Command /\ STP.op = "STP"
    BY DEF STP, Cmd, Command, Opcode
  <2>2. PICK r \in Command : r = STP /\ r.op = "STP"
    BY <2>1
  <2>3. panel' = Deliver(panel, r)
    BY <1>1, <1>3, <2>2
  <2> QED
    BY <1>4, <2>2, <2>3, DeliverCommand
<1>6. \A k \in Key : cache[k] = NoImage
  BY <1>1, <1>2 DEF Publishing, Cached
<1>7. Frame = panel.next
  <2>1. \A u \in Task : ~(job[u].left > 0)
    BY <1>4
  <2>2. Frame = [l \in Key |-> IF cache[l] # NoImage THEN cache[l] ELSE panel.next[l]]
    BY <2>1, FrameComposed, ComposedIdle
  <2> QED
    BY <1>4, <1>6, <2>2 DEF PanelState
<1>8. Frame' = Frame
  BY <1>1, <1>5 DEF Frame
<1> QED
  BY <1>5, <1>7, <1>8 DEF Buffered!Show

\* An image that is taken out of the cache, or sent, is hidden as before.
LEMMA TakeHides ==
  ASSUME Inv, NEW t \in Task, TakeImage(t)
  PROVE  Stutter
<1>1. /\ At(t, "drain") /\ todo[t] # <<>> /\ job[t].left = 0 /\ lock = t /\ panel' = panel
  BY NextStep DEF TakeImage, At
<1>2. PICK k \in Cached :
        /\ job' = [job EXCEPT ![t] = [key |-> k, img |-> cache[k], left |-> Chunks[cache[k]] + 1]]
        /\ cache' = IF Head(todo[t]).keep THEN cache ELSE [cache EXCEPT ![k] = NoImage]
  BY DEF TakeImage
<1>3. k \in Key /\ cache[k] # NoImage /\ Chunks[cache[k]] + 1 > 0
  BY <1>2, StepsAssumption DEF Cached, Inv, TypeOK
<1>4. \A u \in Task \ {t} : job[u].left = 0
  BY <1>1, OneJob
<1>5. /\ job'[t].key = k /\ job'[t].img = cache[k] /\ job'[t].left > 0
      /\ \A u \in Task \ {t} : job'[u] = job[u]
  BY <1>2, <1>3 DEF Inv, TypeOK
<1>6. Composed(cache, job, panel.next)
        = [l \in Key |-> IF cache[l] # NoImage THEN cache[l] ELSE panel.next[l]]
  <2>1. \A u \in Task : ~(job[u].left > 0)
    BY <1>1, <1>4
  <2> QED
    BY <2>1, ComposedIdle
<1>7. Composed(cache', job', panel'.next)
        = [l \in Key |-> IF cache'[l] # NoImage THEN cache'[l]
                         ELSE IF l = k THEN cache[k] ELSE panel.next[l]]
  <2>1. OnlyJob(job', t)
    BY <1>4, <1>5 DEF OnlyJob
  <2>2. Composed(cache', job', panel'.next)
        = [l \in Key |-> IF cache'[l] # NoImage THEN cache'[l]
                         ELSE IF l = job'[t].key THEN job'[t].img ELSE panel'.next[l]]
    BY <2>1, ComposedSending
  <2> QED
    BY <1>1, <1>5, <2>2
<1>8. \A l \in Key : l # k => cache'[l] = cache[l]
  BY <1>2 DEF Inv, TypeOK
<1>9. cache'[k] = cache[k] \/ cache'[k] = NoImage
  BY <1>2, <1>3 DEF Inv, TypeOK
<1>10. Composed(cache', job', panel'.next) = Composed(cache, job, panel.next)
  BY <1>3, <1>6, <1>7, <1>8, <1>9
<1> QED
  BY <1>1, <1>10, FrameComposed DEF Stutter

\* So are the reports of an image: the frame had it already.
LEMMA SendHides ==
  ASSUME Inv, InStep, Undisturbed, NEW t \in Task, SendImageReport(t)
  PROVE  Stutter
<1>0. panel.next \in [Key -> Face] /\ cache \in [Key -> Image \cup {NoImage}] /\ job[t] \in Job
  BY DEF Inv, TypeOK, PanelState
<1>1. /\ At(t, "drain") /\ todo[t] # <<>> /\ lock = t /\ job[t].left > 0
      /\ job[t].key \in Key /\ job[t].img \in Image
  BY NextStep DEF SendImageReport, At, Inv, LockedFlush, JobShape
<1>2. PICK k \in Key, i \in Image : k = job[t].key /\ i = job[t].img
  BY <1>1
<1>3. /\ panel'.shown = panel.shown
      /\ panel'.next = IF job[t].left = 1 THEN [panel.next EXCEPT ![k] = i] ELSE panel.next
  BY <1>2, ReportInStep
<1>4. cache[k] = IF Head(todo[t]).keep THEN i ELSE NoImage
  BY <1>1, <1>2 DEF InStep, Sending
<1>5. \A u \in Task \ {t} : job[u].left = 0 /\ job'[u] = job[u]
  BY <1>1, OneJob DEF SendImageReport, Inv, TypeOK
<1>6. Composed(cache, job, panel.next)
        = [l \in Key |-> IF cache[l] # NoImage THEN cache[l] ELSE IF l = k THEN i ELSE panel.next[l]]
  <2>1. OnlyJob(job, t)
    BY <1>1, <1>5 DEF OnlyJob
  <2>2. Composed(cache, job, panel.next)
          = [l \in Key |-> IF cache[l] # NoImage THEN cache[l]
                           ELSE IF l = job[t].key THEN job[t].img ELSE panel.next[l]]
    BY <2>1, ComposedSending
  <2> QED
    BY <1>2, <2>2
<1>7. CASE job[t].left = 1
  <2>1. job'[t] = NoJob
    BY <1>7 DEF SendImageReport, Inv, TypeOK
  <2>2. \A u \in Task : ~(job'[u].left > 0)
    BY <1>5, <2>1 DEF NoJob
  <2>3. cache' = IF Head(todo[t]).keep THEN [cache EXCEPT ![k] = NoImage] ELSE cache
    BY <1>2, <1>7 DEF SendImageReport
  <2>4. cache'[k] = NoImage /\ \A l \in Key : l # k => cache'[l] = cache[l]
    BY <1>0, <1>4, <2>3
  <2>5. Composed(cache', job', panel'.next)
          = [l \in Key |-> IF cache'[l] # NoImage THEN cache'[l] ELSE panel'.next[l]]
    BY <2>2, ComposedIdle
  <2>6. panel'.next[k] = i /\ \A l \in Key : l # k => panel'.next[l] = panel.next[l]
    BY <1>0, <1>3, <1>7
  <2>7. cache[k] \in {i, NoImage}
    BY <1>4
  <2>8. Composed(cache', job', panel'.next) = Composed(cache, job, panel.next)
    BY <1>6, <2>4, <2>5, <2>6, <2>7
  <2> QED
    BY <1>3, <2>8, FrameComposed DEF Stutter
<1>8. CASE job[t].left # 1
  <2>1. job'[t] = [job[t] EXCEPT !.left = @ - 1] /\ cache' = cache
    BY <1>8 DEF SendImageReport, Inv, TypeOK
  <2>2. job'[t].key = k /\ job'[t].img = i /\ job'[t].left > 0
    BY <1>0, <1>1, <1>2, <1>8, <2>1 DEF Job
  <2>3. OnlyJob(job', t)
    BY <1>5, <2>2 DEF OnlyJob
  <2>4. Composed(cache', job', panel'.next)
          = [l \in Key |-> IF cache'[l] # NoImage THEN cache'[l]
                           ELSE IF l = job'[t].key THEN job'[t].img ELSE panel'.next[l]]
    BY <2>3, ComposedSending
  <2>5. Composed(cache', job', panel'.next) = Composed(cache, job, panel.next)
    BY <1>3, <1>6, <1>8, <2>1, <2>2, <2>4
  <2> QED
    BY <1>3, <2>5, FrameComposed DEF Stutter
<1> QED
  BY <1>7, <1>8

\* Every step of the device is a step of the double buffer, or changes neither frame.
LEMMA BufferedStep ==
  ASSUME Inv, Exclusive, InStep, Publishing, Doing(Drawn), Undisturbed, Undisturbed', [Next]_vars
  PROVE  [Buffered!Next]_<<Frame, panel.shown>>
<1>1. Stutter => [Buffered!Next]_<<Frame, panel.shown>>
  BY DEF Stutter
<1>2. \A t \in Task : ~FailWrite(t) /\ ~Cancel(t)
  BY NoFault
<1>3. ASSUME NEW t \in Task, RemoveImage(t) \/ ClearCache(t) PROVE FALSE
  <2>1. todo[t] # <<>> /\ ~At(t, "lock") /\ lock # t /\ Head(todo[t]).do \in {"remove", "empty"}
    BY <1>3, DeviceAssumption DEF RemoveImage, ClearCache, At
  <2> QED
    BY <2>1, OtherSteps DEF Drawn
<1>4. ASSUME NEW t \in Task, InsertImage(t) PROVE Buffered!Next
  BY <1>4, InsertDraws DEF Buffered!Next
<1>5. ASSUME NEW t \in Task, WriteReport(t) PROVE Buffered!Next
  BY <1>5, ReportShows DEF Buffered!Next
<1>6. ASSUME NEW t \in Task, TakeImage(t) \/ SendImageReport(t) PROVE Stutter
  BY <1>6, TakeHides, SendHides
<1>7. CASE UNCHANGED vars
  BY <1>7, SameParts DEF vars, code, Stutter
<1> QED
  BY <1>1, <1>2, <1>3, <1>4, <1>5, <1>6, <1>7, PlainStutters DEF Next, Acquire, Advance

\* The frame of a new handle is blank, as the abstract one is.
LEMMA InitBuffered == Init => Buffered!Init
<1> SUFFICES ASSUME Init PROVE Buffered!Init
  OBVIOUS
<1>1. \A t \in Task : ~(job[t].left > 0)
  BY DEF Init, NoJob
<1>2. Frame = [l \in Key |-> IF cache[l] # NoImage THEN cache[l] ELSE panel.next[l]]
  BY <1>1, FrameComposed, ComposedIdle
<1>3. /\ panel.next = [l \in Key |-> Factory] /\ panel.shown = [l \in Key |-> Factory]
      /\ cache = [l \in Key |-> NoImage]
  BY DEF Init, PanelInit, EmptyCache
<1> QED
  BY <1>2, <1>3 DEF Buffered!Init

\* The device implements a double buffer, however the tasks interleave, as long
\* as no write fails and no call is dropped: write_image draws, and flush shows
\* everything drawn so far at once, though it sends image after image, report
\* after report, and others draw meanwhile.
THEOREM FlushesAreAtomic ==
  ASSUME OtherwiseOnly(Drawn)
  PROVE  Spec /\ []Undisturbed => FlushIsAtomic
<1>1. OtherwiseOnly(Silent)
  BY DEF OtherwiseOnly, Drawn, Silent
<1>2. Spec => []Exclusive
  BY <1>1, AlwaysExclusive
<1>3. Spec => []InStep
  BY <1>1, AlwaysInStep
<1>4. Spec => []Doing(Drawn)
  <2>1. Init => Doing(Drawn)
    BY InitDoing
  <2>2. Inv /\ Doing(Drawn) /\ [Next]_vars => Doing(Drawn)'
    BY DoingStep
  <2> QED
    BY <2>1, <2>2, Invariance, PTL DEF Spec
<1> QED
  BY <1>2, <1>3, <1>4, InitBuffered, BufferedStep, NothingIsForgotten, Invariance, PTL
     DEF Spec, FlushIsAtomic, Buffered!Spec

-----------------------------------------------------------------------------
(* What the calls of one task rely on: each begins with initialize, and    *)
(* what it clears on the panel it also takes out of the cache.             *)

\* A step that sends what a panel should not be sent before its handshake: only
\* the handshake itself, which is no such step, sends LIG to a panel not ready.
Needy(s) == s.do = "drain" \/ (s.do = "write" /\ s.report.op \notin {"DIS", "MOD"})

Greets(script) ==
  \A n \in DOMAIN script : Needy(script[n]) => \E m \in 1..(n - 1) : script[m].do = "initialize"

\* A step that clears key k on the panel, by its own key byte or with all the
\* others; one that takes it out of the cache.
Clears(s, k)    == s.do = "write" /\ s.report.op = "CLE" /\ s.report.arg = k + 1
ClearsAny(s, k) == s.do = "write" /\ s.report.op = "CLE" /\ s.report.arg \in {k + 1, 255}
Drops(s, k)     == s.do = "empty" \/ (s.do = "remove" /\ s.key = k)

\* c clears what d drops: an entry is removed after its key was cleared, and
\* the cache emptied after all keys were, in whichever way.
Readies(c, d, k) == IF d.do = "empty" THEN ClearsAny(c, k) ELSE Clears(c, k)

\* A key that is cleared by its own byte is dropped later, and nothing is that
\* was not cleared before; nothing is drawn in a call that drops.
Mends(script) ==
  \A k \in Key, n \in DOMAIN script :
    /\ Clears(script[n], k) => \E m \in DOMAIN script : m > n /\ Drops(script[m], k)
    /\ Drops(script[n], k) =>
         /\ \E m \in 1..(n - 1) : Readies(script[m], script[n], k)
         /\ \A m \in DOMAIN script : script[m].do \notin {"insert", "convert"}

-----------------------------------------------------------------------------
(* The panel is greeted before anything else is sent to it.                *)

\* The flag says that the handshake is done, or being sent; what is left to do
\* sends nothing needy before initialize unless the flag is set.
Prepared ==
  Undisturbed =>
    /\ ~panel.early
    /\ panel.ready => panel.greetings > 0
    /\ \A t \in Task :
         /\ greeting[t] = 0 /\ initialized => panel.ready
         /\ greeting[t] > 1 => initialized
         /\ greeting[t] = 3 => panel.greetings > 0
         /\ initialized \/ Greets(todo[t])

\* A call that greets first does not begin with a write.
LEMMA GreetsHead ==
  ASSUME NEW s \in Seq(Step), s # <<>>, Greets(s)
  PROVE  ~Needy(Head(s))
<1>1. 1 \in DOMAIN s /\ Head(s) = s[1]
  OBVIOUS
<1> QED
  BY <1>1 DEF Greets

\* Up to its handshake, the rest of such a call greets first too.
LEMMA GreetsTail ==
  ASSUME NEW s \in Seq(Step), s # <<>>, Greets(s), Head(s).do # "initialize"
  PROVE  Greets(Tail(s))
<1> SUFFICES ASSUME NEW n \in DOMAIN Tail(s), Needy(Tail(s)[n])
             PROVE  \E m \in 1..(n - 1) : Tail(s)[m].do = "initialize"
  BY DEF Greets
<1>1. /\ n \in Nat \ {0} /\ n + 1 \in DOMAIN s /\ Tail(s)[n] = s[n + 1] /\ Head(s) = s[1]
      /\ \A m \in 1..(n - 1) : Tail(s)[m] = s[m + 1]
  OBVIOUS
<1>2. PICK m \in 1..n : s[m].do = "initialize"
  BY <1>1 DEF Greets
<1>3. m # 1 /\ m - 1 \in 1..(n - 1) /\ Tail(s)[m - 1] = s[m]
  BY <1>1, <1>2
<1> QED
  BY <1>2, <1>3

\* A step that sends nothing, and ends outside the handshake unless it begins it.
LEMMA PreparedQuietly ==
  ASSUME Inv, OneTask, Prepared, Undisturbed, NEW t \in Task,
         UNCHANGED <<panel, initialized, faults, cancels>>,
         greeting'[t] = greeting[t] \/ (greeting[t] = 0 /\ greeting'[t] = 1 /\ ~initialized),
         initialized \/ Greets(todo'[t])
  PROVE  Prepared'
<1>1. \A u \in Task : u = t
  BY DEF OneTask
<1> QED
  BY <1>1 DEF Prepared, Undisturbed

\* A task alone greets before it writes.
LEMMA PreparedStep ==
  ASSUME Inv, OneTask, Exclusive, InStep, Prepared, [Next]_vars, \A c \in Calls : Greets(Script(c))
  PROVE  Prepared'
<1> SUFFICES ASSUME Undisturbed' PROVE Prepared'
  BY DEF Prepared
<1>0. /\ Undisturbed /\ \A t \in Task : ~FailWrite(t) /\ ~Cancel(t)
      /\ \A t, u \in Task : t = u
  BY NoFault DEF OneTask
<1>1. /\ panel \in PanelState /\ panel.greetings \in Nat /\ greeting \in [Task -> 0..3]
      /\ todo \in [Task -> Seq(Step)]
  BY DEF Inv, TypeOK, PanelState
<1>2. UNCHANGED <<faults, cancels>>
  BY <1>0, DeviceAssumption DEF Undisturbed
<1>3. Greets(<<>>)
  BY DEF Greets
<1>4. ASSUME NEW t \in Task, Begin(t) PROVE Prepared'
  <2>1. Greets(todo'[t])
    BY <1>1, <1>4 DEF Begin
  <2> QED
    BY <1>0, <1>2, <1>4, <2>1, PreparedQuietly DEF Begin
<1>5. ASSUME NEW t \in Task, Pop(t), todo[t] # <<>>, Head(todo[t]).do # "initialize",
             UNCHANGED <<panel, initialized, greeting>>
      PROVE  Prepared'
  <2>1. initialized \/ Greets(todo'[t])
    BY <1>0, <1>1, <1>5, GreetsTail DEF Pop, Prepared
  <2> QED
    BY <1>0, <1>2, <1>5, <2>1, PreparedQuietly
<1>6. ASSUME NEW t \in Task, Acquire(t) \/ CheckEmpty(t) \/ TakeImage(t) \/ DrainDone(t) PROVE Prepared'
  <2>1. UNCHANGED <<panel, initialized, greeting>> /\ todo[t] # <<>> /\ Head(todo[t]).do # "initialize"
    BY <1>6 DEF Acquire, InsertImage, RemoveImage, ClearCache, LockCache, CheckEmpty, TakeImage, DrainDone, At
  <2>2. CASE Pop(t)
    BY <1>5, <2>1, <2>2
  <2>3. CASE todo'[t] = <<>> \/ todo' = todo
    BY <1>0, <1>2, <1>3, <2>1, <2>3, PreparedQuietly DEF Prepared
  <2> QED
    BY <1>1, <1>6, <2>2, <2>3 DEF Acquire, InsertImage, RemoveImage, ClearCache, LockCache, CheckEmpty,
       TakeImage, DrainDone
<1>7. ASSUME NEW t \in Task, ConvertImage(t) \/ Return(t) PROVE Prepared'
  <2>1. ~At(t, "initialize") /\ UNCHANGED <<panel, initialized>>
    BY <1>7 DEF ConvertImage, Return, Abort, At
  <2>2. greeting[t] = 0
    BY <1>1, <2>1 DEF Inv, LockedFlush, GreetingShape
  <2>3. CASE Leave(t)
    <3>1. greeting'[t] = 0 /\ todo'[t] = <<>>
      BY <1>1, <2>3 DEF Leave
    <3> QED
      BY <1>0, <1>2, <1>3, <2>1, <2>2, <3>1, PreparedQuietly
  <2>4. CASE Pop(t) /\ greeting' = greeting /\ At(t, "convert")
    BY <1>5, <2>1, <2>4 DEF At
  <2> QED
    BY <1>7, <2>3, <2>4 DEF ConvertImage, Return, Abort
<1>8. ASSUME NEW t \in Task, InitLoad(t) PROVE Prepared'
  <2>1. UNCHANGED <<panel, initialized>> /\ greeting[t] = 0
    BY <1>8 DEF InitLoad
  <2>2. CASE initialized
    BY <1>0, <1>2, <1>8, <2>1, <2>2, PreparedQuietly DEF InitLoad
  <2>3. CASE ~initialized
    <3>1. greeting'[t] = 1 /\ todo' = todo
      BY <1>1, <1>8, <2>3 DEF InitLoad
    <3> QED
      BY <1>0, <1>2, <2>1, <2>3, <3>1, PreparedQuietly DEF Prepared
  <2> QED
    BY <2>2, <2>3
<1>9. ASSUME NEW t \in Task, InitStore(t) PROVE Prepared'
  <2>1. initialized' = TRUE /\ greeting'[t] = 2 /\ panel' = panel
    BY <1>1, <1>9 DEF InitStore
  <2> QED
    BY <1>0, <2>1 DEF Prepared
<1>10. ASSUME NEW t \in Task, InitDis(t) PROVE Prepared'
  <2>1. PICK r \in Command : r.op = "DIS" /\ panel' = Deliver(panel, r)
    <3>1. Cmd("DIS", 0) \in Command /\ Cmd("DIS", 0).op = "DIS"
      BY DEF Cmd, Command, Opcode
    <3> QED
      BY <1>10, <3>1 DEF InitDis
  <2>2. panel.left = 0
    BY <1>0, <1>10, CommandInStep
  <2>3. /\ panel'.greetings = panel.greetings + 1 /\ panel'.ready = panel.ready
        /\ panel'.early => panel.early
    BY <1>1, <2>1, <2>2, DeliverCommand DEF Expected
  <2>4. initialized' = initialized /\ greeting[t] = 2 /\ greeting'[t] = 3
    BY <1>1, <1>10 DEF InitDis
  <2> QED
    BY <1>0, <1>1, <2>3, <2>4 DEF Prepared
<1>11. ASSUME NEW t \in Task, InitLig(t) PROVE Prepared'
  <2>1. PICK r \in Command : r.op = "LIG" /\ panel' = Deliver(panel, r)
    <3>1. Cmd("LIG", 0) \in Command /\ Cmd("LIG", 0).op = "LIG"
      BY DEF Cmd, Command, Opcode
    <3> QED
      BY <1>11, <3>1 DEF InitLig
  <2>2. panel.left = 0
    BY <1>0, <1>11, CommandInStep
  <2>3. initialized' = initialized /\ greeting[t] = 3 /\ greeting'[t] = 0
    BY <1>1, <1>11 DEF InitLig
  <2>4. initialized /\ panel.greetings > 0 /\ ~panel.early
    BY <1>0, <2>3 DEF Prepared
  <2>5. /\ panel'.greetings = panel.greetings /\ (panel'.ready <=> panel.greetings > 0)
        /\ panel'.early => panel.early
    BY <1>1, <2>1, <2>2, <2>4, DeliverCommand DEF Expected
  <2> QED
    BY <1>0, <1>1, <2>3, <2>4, <2>5 DEF Prepared
<1>12. ASSUME NEW t \in Task, WriteReport(t) PROVE Prepared'
  <2>1. /\ At(t, "write") /\ todo[t] # <<>> /\ todo'[t] = Tail(todo[t]) /\ UNCHANGED <<initialized, greeting>>
        /\ panel' = Deliver(panel, Head(todo[t]).report)
    BY <1>1, <1>12 DEF WriteReport, At, Pop
  <2>2. PICK r \in Command : r = Head(todo[t]).report
    BY <2>1, NextStep, StepFields DEF At
  <2>3. panel.left = 0 /\ greeting[t] = 0
    BY <1>0, <1>12, <2>1, CommandInStep, NextStep DEF At
  <2>4. /\ r.op = "DIS" => panel'.greetings = panel.greetings + 1
        /\ r.op # "DIS" => panel'.greetings = panel.greetings
        /\ r.op = "LIG" => (panel'.ready <=> panel.greetings > 0)
        /\ r.op # "LIG" => panel'.ready = panel.ready
        /\ panel'.early => panel.early \/ (~panel.ready /\ r.op \notin {"DIS", "MOD"})
    BY <1>1, <2>1, <2>2, <2>3, DeliverCommand DEF Expected
  <2>5. initialized \/ r.op \in {"DIS", "MOD"}
    <3>1. ~initialized => ~Needy(Head(todo[t]))
      BY <1>0, <1>1, <2>1, GreetsHead DEF Prepared
    <3> QED
      BY <2>1, <2>2, <3>1 DEF Needy, At
  <2>6. initialized \/ Greets(todo'[t])
    BY <1>0, <1>1, <2>1, GreetsTail DEF Prepared, At
  <2>7. ~panel'.early
    BY <1>0, <2>3, <2>4, <2>5 DEF Prepared
  <2>8. panel.ready => panel'.ready
    BY <1>0, <2>4 DEF Prepared
  <2>9. panel'.ready => panel'.greetings > 0
    <3>1. panel.greetings > 0 => panel'.greetings > 0
      BY <1>1, <2>4
    <3>2. panel'.ready => panel.greetings > 0
      BY <1>0, <2>4 DEF Prepared
    <3> QED
      BY <3>1, <3>2
  <2>10. greeting'[t] = 0 /\ (initialized' => panel'.ready) /\ (initialized' \/ Greets(todo'[t]))
    BY <1>0, <2>1, <2>3, <2>6, <2>8 DEF Prepared
  <2>11. \A u \in Task : /\ greeting'[u] = 0 /\ (initialized' => panel'.ready)
                         /\ initialized' \/ Greets(todo'[u])
    BY <1>0, <2>10
  <2> QED
    BY <2>7, <2>9, <2>11 DEF Prepared
<1>13. ASSUME NEW t \in Task, SendImageReport(t) PROVE Prepared'
  <2>1. At(t, "drain") /\ todo[t] # <<>> /\ UNCHANGED <<initialized, greeting, todo>>
    BY <1>13 DEF SendImageReport, At
  <2>2. greeting[t] = 0
    BY <2>1, NextStep DEF At
  <2>3. initialized
    BY <1>0, <1>1, <2>1, GreetsHead DEF Prepared, Needy, At
  <2>4. /\ panel'.greetings = panel.greetings /\ panel'.ready = panel.ready
        /\ panel'.early => panel.early \/ ~panel.ready
    BY <1>0, <1>13, ReportInStep
  <2>5. panel.ready /\ ~panel'.early
    BY <1>0, <2>2, <2>3, <2>4 DEF Prepared
  <2> QED
    BY <1>0, <2>1, <2>2, <2>4, <2>5 DEF Prepared
<1>14. CASE UNCHANGED vars
  BY <1>0, <1>14 DEF Prepared, vars, code
<1> QED
  BY <1>0, <1>4, <1>6, <1>7, <1>8, <1>9, <1>10, <1>11, <1>12, <1>13, <1>14 DEF Next, Advance

\* The panel is not ready and nothing is left to do.
LEMMA InitPrepared == Init => Prepared
BY DEF Init, Prepared, PanelInit, Greets

\* One task never sends a command before the handshake when every call that sends
\* one begins with initialize, as long as nothing fails.
THEOREM GreetsBeforeAll ==
  ASSUME OneTask, \A c \in Calls : Greets(Script(c))
  PROVE  Spec => []GreetedFirst
<1>1. Spec => []Exclusive
  BY AlwaysExclusive
<1>2. Spec => []InStep
  BY AlwaysInStep
<1>3. Prepared => GreetedFirst
  BY DEF Prepared, GreetedFirst
<1> QED
  BY <1>1, <1>2, <1>3, InitPrepared, PreparedStep, Invariance, PTL DEF Spec

-----------------------------------------------------------------------------
(* What the application asked for.                                         *)

\* What t's call will still clear or drop.
Clearing(t) == \E k \in Key, n \in DOMAIN todo[t] : Clears(todo[t][n], k) \/ Drops(todo[t][n], k)

\* A task that clears is the only one.
OneClears == \A t, u \in Task : Clearing(t) => u = t

Wiped(k) == intent[k] = Blank /\ panel.next[k] = Blank

\* Step d may drop key k: it is clear on the panel, and was meant to be.
Ready(d, k) == panel.next[k] = Blank /\ (d.do # "empty" => intent[k] = Blank)

\* What is still to be dropped has been cleared, or will be.
Mending(t) ==
  \A k \in Key, n \in DOMAIN todo[t] :
    /\ Clears(todo[t][n], k) => \E m \in DOMAIN todo[t] : m > n /\ Drops(todo[t][m], k)
    /\ Drops(todo[t][n], k) =>
         /\ \/ Ready(todo[t][n], k)
            \/ \E m \in 1..(n - 1) : Readies(todo[t][m], todo[t][n], k)
         /\ \A m \in DOMAIN todo[t] : todo[t][m].do \notin {"insert", "convert"}

\* The hidden frame is what was asked for, but for keys that were cleared on
\* the panel and are about to be dropped from the cache.
Asked ==
  \A k \in Key : \/ intent[k] = Frame[k]
                 \/ Wiped(k) /\ \E t \in Task : \E n \in DOMAIN todo[t] : Drops(todo[t][n], k)

\* What waits in the cache, or is being sent, is on its way to the panel.
OnTheWay ==
  /\ \A k \in Key : cache[k] # NoImage => fate[k] = "queued"
  /\ \A t \in Task : job[t].left > 0 => fate[job[t].key] = "queued"

\* What is not on its way any more is shown.
Arrived == \A k \in Key : fate[k] = "settled" /\ intent[k] \in Image => panel.shown[k] = intent[k]

AsAsked == Undisturbed => Asked /\ OnTheWay /\ Arrived /\ \A t \in Task : Mending(t)

\* A flush that has the mutex clears nothing, nor does a new one.
LEMMA FlushClearsNothing ==
  ASSUME NEW keep, NEW s \in FlushRest(keep) \cup {FlushScript(keep)}, NEW n \in DOMAIN s, NEW k
  PROVE  ~Clears(s[n], k) /\ ~Drops(s[n], k)
<1>1. s[n] \in {LOCK, INITIALIZE, CHECK, Drain(keep), Write(STP)}
  BY DEF FlushRest, FlushScript
<1>2. /\ s[n].do \in {"lock", "initialize", "check", "drain", "write"}
      /\ s[n].do = "write" => s[n].report.op = "STP"
  BY <1>1 DEF LOCK, INITIALIZE, CHECK, Drain, Write, STP, Cmd
<1> QED
  BY <1>2 DEF Clears, Drops

\* Who holds the cache mutex is in a flush, and not about to clear.
LEMMA HolderClearsNothing ==
  ASSUME Inv, NEW t \in Task, lock = t
  PROVE  ~Clearing(t)
<1>1. PICK keep \in Keeps : todo[t] \in FlushRest(keep)
  BY DEF Inv, LockedFlush, CallShape
<1> QED
  BY <1>1, FlushClearsNothing DEF Clearing

\* The steps of a call that are left after the first.
LEMMA Rest ==
  ASSUME NEW s \in Seq(Step), s # <<>>
  PROVE  /\ 1 \in DOMAIN s /\ Head(s) = s[1]
         /\ \A n \in DOMAIN Tail(s) : n \in Nat \ {0} /\ n + 1 \in DOMAIN s /\ Tail(s)[n] = s[n + 1]
         /\ \A n \in DOMAIN s : n # 1 => n - 1 \in DOMAIN Tail(s) /\ Tail(s)[n - 1] = s[n]
         /\ \A n \in DOMAIN s : n \in Nat \ {0}
OBVIOUS

\* Doing a step of a call that clears: what is still to be dropped, and was
\* cleared before or by this step, may be.
LEMMA MendingTail ==
  ASSUME Inv, NEW t \in Task, todo[t] # <<>>, Mending(t), todo'[t] = Tail(todo[t]),
         \A k \in Key, n \in DOMAIN todo'[t] : \A d :
           d = todo'[t][n] /\ Drops(d, k) /\ (Ready(d, k) \/ Readies(Head(todo[t]), d, k))
             => Ready(d, k)'
  PROVE  Mending(t)'
<1>1. todo[t] \in Seq(Step)
  BY DEF Inv, TypeOK
<1>2. ASSUME NEW k \in Key, NEW n \in DOMAIN todo'[t], Clears(todo'[t][n], k)
      PROVE  \E m \in DOMAIN todo'[t] : m > n /\ Drops(todo'[t][m], k)
  <2>1. n + 1 \in DOMAIN todo[t] /\ n \in Nat /\ Clears(todo[t][n + 1], k)
    BY <1>1, <1>2, Rest
  <2>2. PICK m \in DOMAIN todo[t] : m > n + 1 /\ Drops(todo[t][m], k)
    BY <2>1 DEF Mending
  <2>3. m \in Nat /\ m - 1 \in DOMAIN todo'[t] /\ todo'[t][m - 1] = todo[t][m]
    BY <1>1, <2>1, <2>2, Rest
  <2>4. m - 1 > n /\ Drops(todo'[t][m - 1], k)
    BY <2>1, <2>2, <2>3
  <2> QED
    BY <2>3, <2>4
<1>3. ASSUME NEW k \in Key, NEW n \in DOMAIN todo'[t], Drops(todo'[t][n], k)
      PROVE  /\ \/ Ready(todo[t][n], k)'
                \/ \E m \in 1..(n - 1) : Readies(todo'[t][m], todo'[t][n], k)
             /\ \A m \in DOMAIN todo'[t] : todo'[t][m].do \notin {"insert", "convert"}
  <2> PICK d : d = todo'[t][n]
    OBVIOUS
  <2>1. n + 1 \in DOMAIN todo[t] /\ n \in Nat /\ d = todo[t][n + 1] /\ Drops(todo[t][n + 1], k)
    BY <1>1, <1>3, Rest
  <2>2. \A m \in DOMAIN todo[t] : todo[t][m].do \notin {"insert", "convert"}
    BY <2>1 DEF Mending
  <2>3. \A m \in DOMAIN todo'[t] : todo'[t][m].do \notin {"insert", "convert"}
    BY <1>1, <2>2, Rest
  <2>0. Ready(d, k)' => Ready(todo[t][n], k)'
    BY DEF Ready
  <2>4. CASE Ready(d, k)
    BY <1>3, <2>0, <2>3, <2>4
  <2>5. CASE ~Ready(d, k)
    <3>1. PICK m \in 1..n : Readies(todo[t][m], d, k)
      BY <2>1, <2>5 DEF Mending
    <3>2. CASE m = 1
      <4>1. Readies(Head(todo[t]), d, k)
        BY <1>1, <3>1, <3>2, Rest
      <4> QED
        BY <1>3, <2>0, <2>3, <4>1
    <3>3. CASE m # 1
      <4>1. m \in DOMAIN todo[t] /\ m - 1 \in 1..(n - 1)
        BY <1>1, <2>1, <3>1, <3>3
      <4>2. todo'[t][m - 1] = todo[t][m]
        BY <1>1, <3>3, <4>1, Rest
      <4>3. Readies(todo'[t][m - 1], d, k)
        BY <3>1, <4>2
      <4> QED
        BY <2>3, <4>1, <4>3
    <3> QED
      BY <3>2, <3>3
  <2> QED
    BY <2>4, <2>5
<1> QED
  BY <1>2, <1>3 DEF Mending

\* Nobody else clears anything.
LEMMA OthersMend ==
  ASSUME OneClears, NEW t \in Task, NEW u \in Task, u # t, todo'[u] = todo[u]
  PROVE  Mending(u)' /\ ~Clearing(u)
BY DEF OneClears, Clearing, Mending

\* No image is under way while the mutex is free.
LEMMA FreeMeansIdle ==
  ASSUME Inv, lock = Free
  PROVE  \A u \in Task : ~(job[u].left > 0)
BY DeviceAssumption DEF Inv, LockedFlush, JobShape

\* Steps that have nothing to do with images, nor with what was asked for.
LEMMA QuietlyAsAsked ==
  ASSUME Inv, OneClears, Asked, OnTheWay, Arrived, \A u \in Task : Mending(u),
         NEW t \in Task, Stutter, UNCHANGED <<cache, fate, intent>>, panel'.next = panel.next,
         \A u \in Task : job'[u] = job[u] \/ ~(job'[u].left > 0),
         \A u \in Task \ {t} : todo'[u] = todo[u],
         \/ todo[t] = <<>> /\ Mends(todo'[t])
         \/ todo'[t] = todo[t]
         \/ todo'[t] = <<>> /\ ~Clearing(t)
         \/ /\ todo[t] # <<>> /\ todo'[t] = Tail(todo[t])
            /\ Head(todo[t]).do \notin {"write", "empty", "remove"}
  PROVE  Asked' /\ OnTheWay' /\ Arrived' /\ \A u \in Task : Mending(u)'
<1>1. \A k \in Key : /\ Wiped(k)' <=> Wiped(k)
                     /\ \A d : Ready(d, k)' <=> Ready(d, k)
  BY DEF Wiped, Ready
<1>2. OnTheWay' /\ Arrived'
  BY DEF OnTheWay, Arrived, Stutter
<1>3. todo[t] \in Seq(Step)
  BY DEF Inv, TypeOK
<1>4. CASE todo[t] = <<>> /\ Mends(todo'[t])
  <2>1. Mending(t)'
    BY <1>4 DEF Mends, Mending
  <2>2. \A k \in Key : intent'[k] = Frame'[k] \/ (Wiped(k)' /\ \E u \in Task \ {t} : \E n \in DOMAIN todo'[u] : Drops(todo'[u][n], k))
    BY <1>1, <1>4 DEF Asked, Stutter
  <2>3. Asked'
    BY <2>2 DEF Asked
  <2> QED
    BY <1>2, <2>1, <2>3, OthersMend
<1>7. CASE todo'[t] = todo[t]
  <2>1. \A u \in Task : todo'[u] = todo[u]
    BY <1>7
  <2>2. Asked' /\ \A u \in Task : Mending(u)'
    BY <1>1, <2>1 DEF Asked, Mending, Stutter
  <2> QED
    BY <1>2, <2>2
<1>5. CASE todo'[t] = <<>> /\ ~Clearing(t)
  <2>1. Mending(t)'
    BY <1>5 DEF Clearing, Mending
  <2>2. \A k \in Key : intent'[k] = Frame'[k] \/ (Wiped(k)' /\ \E u \in Task \ {t} : \E n \in DOMAIN todo'[u] : Drops(todo'[u][n], k))
    BY <1>1, <1>5 DEF Asked, Stutter, Clearing
  <2>3. Asked'
    BY <2>2 DEF Asked
  <2> QED
    BY <1>2, <2>1, <2>3, OthersMend
<1>6. CASE /\ todo[t] # <<>> /\ todo'[t] = Tail(todo[t])
           /\ Head(todo[t]).do \notin {"write", "empty", "remove"}
  <2>1. \A k \in Key : /\ ~Drops(Head(todo[t]), k)
                       /\ \A d : ~Readies(Head(todo[t]), d, k)
    BY <1>6 DEF Clears, ClearsAny, Readies, Drops
  <2>2. Mending(t)'
    BY <1>1, <1>6, <2>1, MendingTail
  <2>3. ASSUME NEW k \in Key PROVE intent'[k] = Frame'[k] \/ (Wiped(k)' /\ \E u \in Task : \E n \in DOMAIN todo'[u] : Drops(todo'[u][n], k))
    <3>1. CASE intent[k] = Frame[k]
      BY <3>1 DEF Stutter
    <3>2. CASE intent[k] # Frame[k]
      <4>0. PICK u \in Task : Wiped(k) /\ \E n \in DOMAIN todo[u] : Drops(todo[u][n], k)
        BY <3>2 DEF Asked
      <4>1. PICK n \in DOMAIN todo[u] : Wiped(k) /\ Drops(todo[u][n], k)
        BY <4>0
      <4>2. CASE u = t
        <5>1. n # 1
          BY <1>3, <1>6, <2>1, <4>1, <4>2, Rest
        <5>2. n - 1 \in DOMAIN todo'[t] /\ todo'[t][n - 1] = todo[t][n]
          BY <1>3, <1>6, <4>1, <4>2, <5>1, Rest
        <5> QED
          BY <1>1, <4>1, <4>2, <5>2
      <4>3. CASE u # t
        BY <1>1, <4>1, <4>3
      <4> QED
        BY <4>2, <4>3
    <3> QED
      BY <3>1, <3>2
  <2>4. Asked'
    BY <2>3 DEF Asked
  <2> QED
    BY <1>2, <2>2, <2>4, OthersMend
<1> QED
  BY <1>4, <1>5, <1>6, <1>7

\* write_image: the image is what was asked for, and is on its way.
LEMMA InsertAsAsked ==
  ASSUME Inv, OneClears, Asked, OnTheWay, Arrived, \A u \in Task : Mending(u),
         NEW t \in Task, InsertImage(t)
  PROVE  Asked' /\ OnTheWay' /\ Arrived' /\ \A u \in Task : Mending(u)'
<1>1. /\ todo[t] # <<>> /\ Head(todo[t]).do = "insert" /\ todo'[t] = Tail(todo[t])
      /\ \A u \in Task \ {t} : todo'[u] = todo[u]
      /\ lock = Free /\ job' = job /\ panel' = panel /\ todo[t] \in Seq(Step)
  BY DEF InsertImage, At, Pop, Inv, TypeOK
<1>2. PICK k \in Key, i \in Image : /\ cache'  = [cache EXCEPT ![k] = i]
                                    /\ fate'   = [fate EXCEPT ![k] = "queued"]
                                    /\ intent' = [intent EXCEPT ![k] = i]
  BY <1>1, NextStep, StepFields DEF InsertImage, At
<1>3. /\ i # NoImage /\ cache \in [Key -> Image \cup {NoImage}] /\ intent \in [Key -> Face]
      /\ fate \in [Key -> {"settled", "queued", "sent"}]
  BY StepsAssumption DEF Inv, TypeOK
<1>4. \A l \in Key, u \in Task : \A n \in DOMAIN todo[u] : ~Drops(todo[u][n], l)
  <2>1. \A l \in Key, n \in DOMAIN todo[t] : ~Drops(todo[t][n], l)
    BY <1>1, Rest DEF Mending
  <2>2. \A u \in Task \ {t} : ~Clearing(u)
    BY DEF OneClears
  <2> QED
    BY <2>1, <2>2 DEF Clearing
<1>5. \A l \in Key : intent'[l] = Frame'[l]
  <2>1. \A l \in Key : l # k => cache'[l] = cache[l] /\ intent'[l] = intent[l]
    BY <1>2, <1>3
  <2>2. \A l \in Key : l # k => Frame'[l] = Frame[l]
    BY <1>1, <2>1 DEF Frame
  <2>3. Frame'[k] = i /\ intent'[k] = i
    BY <1>2, <1>3 DEF Frame
  <2>4. \A l \in Key : intent[l] = Frame[l]
    BY <1>4 DEF Asked
  <2> QED
    BY <2>1, <2>2, <2>3, <2>4
<1>6. OnTheWay'
  <2>1. \A u \in Task : ~(job'[u].left > 0)
    BY <1>1, FreeMeansIdle
  <2>2. \A l \in Key : cache'[l] # NoImage => fate'[l] = "queued"
    BY <1>2, <1>3 DEF OnTheWay
  <2> QED
    BY <2>1, <2>2 DEF OnTheWay
<1>7. Arrived'
  BY <1>1, <1>2, <1>3 DEF Arrived
<1>8. Mending(t)'
  <2>1. \A n \in DOMAIN todo'[t] : \A l \in Key : ~Drops(todo'[t][n], l)
    BY <1>1, <1>4, Rest
  <2> QED
    BY <1>1, <2>1, MendingTail
<1> QED
  BY <1>1, <1>5, <1>6, <1>7, <1>8, OthersMend DEF Asked

\* What is dropped from the cache first is clear on the panel.
LEMMA HeadReady ==
  ASSUME Inv, NEW t \in Task, Mending(t), todo[t] # <<>>, NEW k \in Key, Drops(Head(todo[t]), k)
  PROVE  Ready(Head(todo[t]), k)
<1>1. 1 \in DOMAIN todo[t] /\ Head(todo[t]) = todo[t][1]
  BY Rest DEF Inv, TypeOK
<1>2. 1..(1 - 1) = {}
  OBVIOUS
<1> QED
  BY <1>1, <1>2 DEF Mending

\* Whatever of a key is still to be dropped, but for the step at hand.
LEMMA StillDropped ==
  ASSUME Inv, NEW t \in Task, todo[t] # <<>>, todo'[t] = Tail(todo[t]),
         \A u \in Task \ {t} : todo'[u] = todo[u], NEW k, ~Drops(Head(todo[t]), k),
         \E u \in Task : \E n \in DOMAIN todo[u] : Drops(todo[u][n], k)
  PROVE  \E u \in Task : \E n \in DOMAIN todo'[u] : Drops(todo'[u][n], k)
<1>0. PICK u \in Task : \E n \in DOMAIN todo[u] : Drops(todo[u][n], k)
  OBVIOUS
<1>1. PICK n \in DOMAIN todo[u] : Drops(todo[u][n], k)
  BY <1>0
<1>2. CASE u = t
  <2>0. todo[t] \in Seq(Step)
    BY DEF Inv, TypeOK
  <2>1. n # 1
    BY <1>1, <1>2, <2>0, Rest
  <2>2. n - 1 \in DOMAIN todo'[t] /\ todo'[t][n - 1] = todo[t][n]
    BY <1>1, <1>2, <2>0, <2>1, Rest
  <2> QED
    BY <1>1, <1>2, <2>2
<1>3. CASE u # t
  BY <1>1, <1>3
<1> QED
  BY <1>2, <1>3

\* Dropping a key, or all of them, from the cache: the panel has cleared it.
LEMMA DropAsAsked ==
  ASSUME Inv, OneClears, Asked, OnTheWay, Arrived, \A u \in Task : Mending(u),
         NEW t \in Task, RemoveImage(t) \/ ClearCache(t)
  PROVE  Asked' /\ OnTheWay' /\ Arrived' /\ \A u \in Task : Mending(u)'
<1>1. /\ todo[t] # <<>> /\ todo'[t] = Tail(todo[t]) /\ \A u \in Task \ {t} : todo'[u] = todo[u]
      /\ lock = Free /\ job' = job /\ panel' = panel
      /\ Head(todo[t]).do \in {"remove", "empty"}
  BY DEF RemoveImage, ClearCache, At, Pop, Inv, TypeOK
<1>2. \A k \in Key : IF Drops(Head(todo[t]), k) THEN cache'[k] = NoImage /\ fate'[k] = "settled"
                                                ELSE cache'[k] = cache[k] /\ fate'[k] = fate[k]
  <2>1. CASE RemoveImage(t)
    <3>1. \A k \in Key : Drops(Head(todo[t]), k) <=> k \in {Head(todo[t]).key}
      BY <2>1 DEF RemoveImage, At, Drops
    <3> QED
      BY <2>1, <3>1 DEF RemoveImage
  <2>2. CASE ClearCache(t)
    BY <2>2 DEF ClearCache, EmptyCache, Drops, At
  <2> QED
    BY <2>1, <2>2
<1>3. \A k \in Key : intent'[k] \in {Blank, intent[k]} /\ (~Drops(Head(todo[t]), k) => intent'[k] = intent[k])
  BY DEF RemoveImage, ClearCache, Drops, At
<1>4. ASSUME NEW k \in Key, Drops(Head(todo[t]), k) PROVE Wiped(k)'
  <2>1. Ready(Head(todo[t]), k)
    BY <1>1, <1>4, HeadReady
  <2>2. CASE RemoveImage(t)
    BY <2>1, <2>2 DEF RemoveImage, At, Ready, Wiped
  <2>3. CASE ClearCache(t)
    BY <1>1, <2>1, <2>3 DEF ClearCache, Ready, Wiped
  <2> QED
    BY <2>2, <2>3
<1>5. \A u \in Task : ~(job[u].left > 0)
  BY <1>1, FreeMeansIdle
<1>6. ASSUME NEW k \in Key
      PROVE  intent'[k] = Frame'[k] \/ (Wiped(k)' /\ \E u \in Task : \E n \in DOMAIN todo'[u] : Drops(todo'[u][n], k))
  <2>1. CASE Drops(Head(todo[t]), k)
    <3>1. Frame'[k] = panel'.next[k]
      BY <1>1, <1>2, <1>5, <2>1 DEF Frame
    <3> QED
      BY <1>4, <2>1, <3>1 DEF Wiped
  <2>2. CASE ~Drops(Head(todo[t]), k)
    <3>1. Frame'[k] = Frame[k] /\ intent'[k] = intent[k]
      BY <1>1, <1>2, <1>3, <2>2 DEF Frame
    <3>2. CASE intent[k] = Frame[k]
      BY <3>1, <3>2
    <3>3. CASE intent[k] # Frame[k]
      BY <1>1, <2>2, <3>1, <3>3, StillDropped DEF Asked, Wiped
    <3> QED
      BY <3>2, <3>3
  <2> QED
    BY <2>1, <2>2
<1>7. OnTheWay'
  BY <1>1, <1>2, <1>5 DEF OnTheWay
<1>8. Arrived'
  BY <1>1, <1>2, <1>3, <1>4, PanelAssumption DEF Arrived, Wiped
<1>9. Mending(t)'
  <2>1. \A k \in Key : \A d : ~Readies(Head(todo[t]), d, k) /\ (Ready(d, k) => Ready(d, k)')
    BY <1>1, <1>3 DEF Clears, ClearsAny, Readies, Ready
  <2> QED
    BY <1>1, <2>1, MendingTail
<1> QED
  BY <1>1, <1>6, <1>7, <1>8, <1>9, OthersMend DEF Asked

\* A command: CLE for a key wipes it; CLE for all keys wipes those that have no
\* image waiting, and leaves the others as they were asked for; STP shows what
\* has been sent.
LEMMA WriteAsAsked ==
  ASSUME Inv, Exclusive, InStep, Undisturbed, OneClears, Asked, OnTheWay, Arrived,
         \A u \in Task : Mending(u), NEW t \in Task, WriteReport(t)
  PROVE  Asked' /\ OnTheWay' /\ Arrived' /\ \A u \in Task : Mending(u)'
<1>1. /\ todo[t] # <<>> /\ todo'[t] = Tail(todo[t]) /\ \A u \in Task \ {t} : todo'[u] = todo[u]
      /\ UNCHANGED <<job, cache>> /\ Head(todo[t]).do = "write" /\ todo[t] \in Seq(Step)
  BY DEF WriteReport, At, Pop, Inv, TypeOK
<1>2. PICK r \in Command : r = Head(todo[t]).report
  BY <1>1, NextStep, StepFields
<1>3. /\ panel' = Deliver(panel, r)
      /\ fate' = IF r.op = "STP" THEN [k \in Key |-> IF fate[k] = "sent" THEN "settled" ELSE fate[k]]
                                 ELSE fate
      /\ \A k \in Key : intent'[k] = IF r.op = "CLE" /\ (r.arg = k + 1 \/ (r.arg = 255 /\ cache[k] = NoImage))
                                     THEN Blank ELSE intent[k]
  BY <1>2 DEF WriteReport, Blanks
<1>4. panel.left = 0 /\ panel \in PanelState /\ \A u \in Task : ~(job[u].left > 0)
  BY CommandInStep DEF Inv, TypeOK
<1> DEFINE Own(k) == r.op = "CLE" /\ r.arg = k + 1
           All(k) == r.op = "CLE" /\ r.arg # k + 1 /\ r.arg = 255
           Not(k) == r.op = "CLE" => r.arg \notin {k + 1, 255}
<1>5. \A k \in Key : /\ Clears(Head(todo[t]), k) <=> Own(k)
                     /\ ClearsAny(Head(todo[t]), k) <=> Own(k) \/ All(k)
                     /\ ~Drops(Head(todo[t]), k)
                     /\ Own(k) \/ All(k) \/ Not(k)
  BY <1>1, <1>2 DEF Clears, ClearsAny, Drops
<1>6. ASSUME NEW k \in Key, Own(k) \/ All(k) PROVE panel'.next[k] = Blank
  BY <1>3, <1>4, <1>6, DeliverCommand
<1>7. ASSUME NEW k \in Key, Own(k) PROVE Wiped(k)'
  BY <1>3, <1>6, <1>7 DEF Wiped
<1>8. ASSUME NEW k \in Key, All(k)
      PROVE  intent'[k] = IF cache[k] = NoImage THEN Blank ELSE intent[k]
  BY <1>3, <1>8
<1>9. ASSUME NEW k \in Key, Not(k)
      PROVE  /\ panel'.next[k] = panel.next[k] /\ intent'[k] = intent[k]
             /\ panel'.shown[k] = IF r.op = "STP" THEN panel.next[k] ELSE panel.shown[k]
  <2>1. CASE r.op = "CLE"
    <3>1. r.arg \notin {k + 1, 255}
      BY <1>9, <2>1
    <3>2. panel'.next[k] = panel.next[k] /\ panel'.shown[k] = panel.shown[k]
      BY <1>3, <1>4, <2>1, <3>1, DeliverCommand
    <3> QED
      BY <1>3, <2>1, <3>1, <3>2
  <2>2. CASE r.op # "CLE"
    <3>1. /\ panel'.next = panel.next
          /\ r.op = "STP" => panel'.shown = panel.next
          /\ r.op # "STP" => panel'.shown = panel.shown
      BY <1>3, <1>4, <2>2, DeliverCommand
    <3> QED
      BY <1>3, <2>2, <3>1
  <2> QED
    BY <2>1, <2>2
<1> HIDE DEF Own, All, Not
<1>10. ASSUME NEW k \in Key
       PROVE  intent'[k] = Frame'[k] \/ (Wiped(k)' /\ \E u \in Task : \E n \in DOMAIN todo'[u] : Drops(todo'[u][n], k))
  <2>0. ~Drops(Head(todo[t]), k)
    BY <1>5
  <2>1. CASE Own(k)
    <3>1. 1 \in DOMAIN todo[t] /\ Clears(todo[t][1], k)
      BY <1>1, <1>5, <2>1, Rest
    <3>2. \E u \in Task : \E n \in DOMAIN todo[u] : Drops(todo[u][n], k)
      BY <3>1 DEF Mending
    <3> QED
      BY <1>1, <1>7, <2>0, <2>1, <3>2, StillDropped
  <2>2. CASE All(k) /\ cache[k] = NoImage
    <3>1. Frame'[k] = panel'.next[k]
      BY <1>1, <1>4, <2>2 DEF Frame
    <3> QED
      BY <1>6, <1>8, <2>2, <3>1
  <2>3. CASE (All(k) /\ cache[k] # NoImage) \/ Not(k)
    <3>1. Frame'[k] = Frame[k] /\ intent'[k] = intent[k]
      BY <1>1, <1>8, <1>9, <2>3 DEF Frame
    <3>2. CASE intent[k] = Frame[k]
      BY <3>1, <3>2
    <3>3. CASE intent[k] # Frame[k]
      <4>1. Wiped(k)'
        BY <1>6, <1>9, <2>3, <3>1, <3>3 DEF Asked, Wiped
      <4> QED
        BY <1>1, <2>0, <3>3, <4>1, StillDropped DEF Asked
    <3> QED
      BY <3>2, <3>3
  <2> QED
    BY <1>5, <2>1, <2>2, <2>3
<1>11. OnTheWay'
  BY <1>1, <1>3, <1>4 DEF OnTheWay
<1>12. ASSUME NEW k \in Key, fate'[k] = "settled", intent'[k] \in Image
       PROVE  panel'.shown[k] = intent'[k]
  <2>1. ~Own(k)
    BY <1>7, <1>12, PanelAssumption DEF Wiped
  <2>2. ~All(k)
    <3>1. CASE All(k) /\ cache[k] = NoImage
      BY <1>8, <1>12, <3>1, PanelAssumption
    <3>2. CASE All(k) /\ cache[k] # NoImage
      <4>1. r.op # "STP" /\ fate[k] = "queued"
        BY <3>2 DEF All, OnTheWay
      <4> QED
        BY <1>3, <1>12, <4>1
    <3> QED
      BY <3>1, <3>2
  <2>3. Not(k) /\ intent'[k] = intent[k]
    BY <1>5, <1>9, <2>1, <2>2
  <2>4. CASE r.op = "STP"
    <3>1. fate[k] # "queued"
      BY <1>3, <1>12, <2>4
    <3>2. Frame[k] = panel.next[k]
      BY <1>4, <3>1 DEF OnTheWay, Frame
    <3>3. intent[k] = Frame[k]
      BY <1>12, <2>3, PanelAssumption DEF Asked, Wiped
    <3> QED
      BY <1>9, <2>3, <2>4, <3>2, <3>3
  <2>5. CASE r.op # "STP"
    BY <1>3, <1>9, <1>12, <2>3, <2>5 DEF Arrived
  <2> QED
    BY <2>4, <2>5
<1>13. Mending(t)'
  <2>1. ASSUME NEW k \in Key, NEW d, Drops(d, k), Ready(d, k) \/ Readies(Head(todo[t]), d, k)
        PROVE  Ready(d, k)'
    <3>1. CASE Own(k)
      BY <1>7, <3>1 DEF Wiped, Ready
    <3>2. CASE All(k)
      <4>1. d.do # "empty" => intent[k] = Blank
        BY <1>5, <2>1, <3>2 DEF Ready, Readies, Own, All
      <4> QED
        BY <1>6, <1>8, <3>2, <4>1 DEF Ready
    <3>3. CASE Not(k)
      <4>1. ~Readies(Head(todo[t]), d, k)
        BY <1>5, <3>3 DEF Readies, Own, All, Not
      <4> QED
        BY <1>9, <2>1, <3>3, <4>1 DEF Ready
    <3> QED
      BY <1>5, <3>1, <3>2, <3>3
  <2> QED
    BY <1>1, <2>1, MendingTail
<1> QED
  BY <1>1, <1>10, <1>11, <1>12, <1>13, OthersMend DEF Asked, Arrived

\* Taking an image out of the cache and sending it change nothing that was asked for.
LEMMA SendAsAsked ==
  ASSUME Inv, InStep, Undisturbed, OneClears, Asked, OnTheWay, Arrived, \A u \in Task : Mending(u),
         NEW t \in Task, TakeImage(t) \/ SendImageReport(t)
  PROVE  Asked' /\ OnTheWay' /\ Arrived' /\ \A u \in Task : Mending(u)'
<1>1. /\ At(t, "drain") /\ todo[t] # <<>> /\ lock = t /\ UNCHANGED <<todo, intent>>
  BY NextStep DEF TakeImage, SendImageReport, At, history
<1>2. Stutter
  BY TakeHides, SendHides
<1>3. \A u \in Task : ~Clearing(u)
  BY <1>1, HolderClearsNothing DEF OneClears
<1>4. Asked'
  <2>1. \A k \in Key : intent[k] = Frame[k]
    BY <1>3 DEF Asked, Clearing
  <2> QED
    BY <1>1, <1>2, <2>1 DEF Asked, Stutter
<1>5. \A u \in Task : Mending(u)'
  BY <1>1, <1>3 DEF Clearing, Mending
<1>6. \A u \in Task \ {t} : ~(job[u].left > 0) /\ job'[u] = job[u]
  BY <1>1, OneJob DEF TakeImage, SendImageReport, Inv, TypeOK
<1>7. CASE TakeImage(t)
  <2>1. fate' = fate
    BY <1>7 DEF TakeImage, history
  <2>2. PICK k \in Cached :
          /\ job' = [job EXCEPT ![t] = [key |-> k, img |-> cache[k], left |-> Chunks[cache[k]] + 1]]
          /\ cache' = IF Head(todo[t]).keep THEN cache ELSE [cache EXCEPT ![k] = NoImage]
    BY <1>7 DEF TakeImage
  <2>3. k \in Key /\ cache[k] # NoImage /\ job'[t].key = k
    BY <2>2 DEF Cached, Inv, TypeOK
  <2>4. \A l \in Key : cache'[l] # NoImage => cache[l] # NoImage
    BY <2>2, <2>3 DEF Inv, TypeOK
  <2>5. OnTheWay'
    BY <1>6, <2>1, <2>3, <2>4 DEF OnTheWay
  <2>6. Arrived'
    BY <1>1, <1>2, <2>1 DEF Arrived, Stutter
  <2> QED
    BY <1>4, <1>5, <2>5, <2>6
<1>8. CASE SendImageReport(t)
  <2>0. /\ job[t].left > 0 /\ job[t].key \in Key
        /\ fate \in [Key -> {"settled", "queued", "sent"}] /\ cache \in [Key -> Image \cup {NoImage}]
    BY <1>8 DEF SendImageReport, Inv, TypeOK, LockedFlush, JobShape
  <2>1. CASE job[t].left = 1
    <3>1. job'[t] = NoJob /\ fate' = [fate EXCEPT ![job[t].key] = "sent"]
      BY <1>8, <2>1 DEF SendImageReport, Inv, TypeOK
    <3>2. \A u \in Task : ~(job'[u].left > 0)
      BY <1>6, <3>1 DEF NoJob
    <3>3. cache' = IF Head(todo[t]).keep THEN [cache EXCEPT ![job[t].key] = NoImage] ELSE cache
      BY <1>8, <2>1 DEF SendImageReport
    <3>4. ~Head(todo[t]).keep => cache[job[t].key] = NoImage
      BY <2>0 DEF InStep, Sending
    <3>5. /\ cache'[job[t].key] = NoImage
          /\ \A l \in Key : l # job[t].key => cache'[l] = cache[l] /\ fate'[l] = fate[l]
      BY <2>0, <3>1, <3>3, <3>4
    <3>6. OnTheWay'
      BY <3>2, <3>5 DEF OnTheWay
    <3>7. fate'[job[t].key] = "sent"
      BY <2>0, <3>1
    <3>8. Arrived'
      BY <1>1, <1>2, <3>5, <3>7 DEF Arrived, Stutter
    <3> QED
      BY <1>4, <1>5, <3>6, <3>8
  <2>2. CASE job[t].left # 1
    <3>1. /\ job'[t] = [job[t] EXCEPT !.left = @ - 1] /\ cache' = cache /\ fate' = fate
      BY <1>8, <2>2 DEF SendImageReport, Inv, TypeOK
    <3>2. job'[t].key = job[t].key
      BY <3>1 DEF Inv, TypeOK, Job
    <3>3. OnTheWay'
      <4>1. \A k \in Key : cache'[k] # NoImage => fate'[k] = "queued"
        BY <3>1 DEF OnTheWay
      <4>2. fate'[job'[t].key] = "queued"
        <5>1. fate[job[t].key] = "queued"
          BY <2>0 DEF OnTheWay
        <5> QED
          BY <3>1, <3>2, <5>1, Zenon
      <4>3. \A u \in Task : job'[u].left > 0 => u = t
        BY <1>6
      <4> QED
        BY <4>1, <4>2, <4>3 DEF OnTheWay
    <3>4. Arrived'
      BY <1>1, <1>2, <3>1 DEF Arrived, Stutter
    <3> QED
      BY <1>4, <1>5, <3>3, <3>4
  <2> QED
    BY <2>1, <2>2
<1> QED
  BY <1>7, <1>8

\* What is drawn stays in the cache or reaches the panel.
LEMMA AsAskedStep ==
  ASSUME Inv, Exclusive, InStep, OneClears, AsAsked, [Next]_vars, \A c \in Calls : Mends(Script(c))
  PROVE  AsAsked'
<1> SUFFICES ASSUME Undisturbed'
             PROVE  Asked' /\ OnTheWay' /\ Arrived' /\ \A u \in Task : Mending(u)'
  BY DEF AsAsked
<1>0. /\ Undisturbed /\ \A t \in Task : ~FailWrite(t) /\ ~Cancel(t)
      /\ Asked /\ OnTheWay /\ Arrived /\ \A u \in Task : Mending(u)
  BY NoFault DEF AsAsked
<1>1. /\ todo \in [Task -> Seq(Step)] /\ job \in [Task -> Job] /\ ~(NoJob.left > 0)
  BY DEF Inv, TypeOK, NoJob
<1>2. ASSUME NEW t \in Task, Begin(t) PROVE todo[t] = <<>> /\ Mends(todo'[t])
  BY <1>1, <1>2 DEF Begin, Inv, LockedFlush, CallShape
<1>3. ASSUME NEW t \in Task, Begin(t) PROVE Asked' /\ OnTheWay' /\ Arrived' /\ \A u \in Task : Mending(u)'
  <2>1. Stutter /\ panel'.next = panel.next
    BY <1>0, <1>3, PlainStutters
  <2>2. /\ UNCHANGED <<cache, fate, intent, job>> /\ \A u \in Task \ {t} : todo'[u] = todo[u]
    BY <1>1, <1>3 DEF Begin
  <2> QED
    BY <1>0, <1>2, <1>3, <2>1, <2>2, QuietlyAsAsked
<1>4. ASSUME NEW t \in Task, InitLoad(t) \/ InitStore(t) \/ InitDis(t) \/ InitLig(t) \/ LockCache(t)
                             \/ CheckEmpty(t) \/ DrainDone(t) \/ ConvertImage(t) \/ Return(t)
      PROVE  Asked' /\ OnTheWay' /\ Arrived' /\ \A u \in Task : Mending(u)'
  <2>1. Stutter /\ panel'.next = panel.next
    BY <1>0, <1>4, PlainStutters
  <2>2. UNCHANGED <<fate, intent>>
    BY <1>4 DEF InitLoad, InitStore, InitDis, InitLig, LockCache, CheckEmpty, DrainDone, ConvertImage,
       Return, Abort, history
  <2>3. cache' = cache
    BY <1>4 DEF InitLoad, InitStore, InitDis, InitLig, LockCache, CheckEmpty, DrainDone, ConvertImage,
       Return, Abort, At
  <2>4. \A u \in Task : job'[u] = job[u] \/ ~(job'[u].left > 0)
    <3>1. job' = job \/ job' = [job EXCEPT ![t] = NoJob]
      BY <1>4 DEF InitLoad, InitStore, InitDis, InitLig, LockCache, CheckEmpty, DrainDone, ConvertImage,
         Return, Abort, Leave
    <3> QED
      BY <1>1, <3>1
  <2>5. \/ todo' = todo
        \/ todo[t] # <<>> /\ Pop(t) /\ Head(todo[t]).do \notin {"write", "empty", "remove"}
        \/ todo' = [todo EXCEPT ![t] = <<>>] /\ ~Clearing(t)
    <3>1. CASE InitLoad(t) \/ InitStore(t) \/ InitDis(t) \/ InitLig(t)
      <4>1. At(t, "initialize")
        BY <3>1 DEF InitLoad, InitStore, InitDis, InitLig, Inv, LockedFlush, GreetingShape
      <4> QED
        BY <3>1, <4>1 DEF InitLoad, InitStore, InitDis, InitLig, At
    <3>2. CASE LockCache(t) \/ DrainDone(t)
      BY <3>2 DEF LockCache, DrainDone, At
    <3>3. CASE CheckEmpty(t)
      <4>1. ~Clearing(t) /\ At(t, "check")
        BY <3>3, NextStep, HolderClearsNothing DEF CheckEmpty, At
      <4> QED
        BY <3>3, <4>1 DEF CheckEmpty, At
    <3>4. CASE ConvertImage(t)
      <4>1. /\ todo[t] # <<>> /\ Head(todo[t]).do = "convert"
            /\ 1 \in DOMAIN todo[t] /\ Head(todo[t]) = todo[t][1]
        BY <1>1, <3>4, Rest DEF ConvertImage, At
      <4>2. ~Clearing(t)
        BY <1>0, <4>1 DEF Mending, Clearing
      <4> QED
        BY <3>4, <4>1, <4>2 DEF ConvertImage, Abort, Leave
    <3>5. CASE Return(t)
      <4>1. todo[t] = <<>> /\ todo' = [todo EXCEPT ![t] = <<>>]
        BY <3>5 DEF Return, Leave
      <4> QED
        BY <1>1, <4>1 DEF Clearing
    <3> QED
      BY <1>4, <3>1, <3>2, <3>3, <3>4, <3>5
  <2>6. \A u \in Task \ {t} : todo'[u] = todo[u]
    BY <1>1, <2>5 DEF Pop
  <2>7. \/ todo'[t] = todo[t]
        \/ todo'[t] = <<>> /\ ~Clearing(t)
        \/ /\ todo[t] # <<>> /\ todo'[t] = Tail(todo[t])
           /\ Head(todo[t]).do \notin {"write", "empty", "remove"}
    BY <1>1, <2>5 DEF Pop
  <2> QED
    BY <1>0, <2>1, <2>2, <2>3, <2>4, <2>6, <2>7, QuietlyAsAsked
<1>5. ASSUME NEW t \in Task, InsertImage(t) \/ RemoveImage(t) \/ ClearCache(t)
      PROVE  Asked' /\ OnTheWay' /\ Arrived' /\ \A u \in Task : Mending(u)'
  BY <1>0, <1>5, InsertAsAsked, DropAsAsked
<1>6. ASSUME NEW t \in Task, WriteReport(t) \/ TakeImage(t) \/ SendImageReport(t)
      PROVE  Asked' /\ OnTheWay' /\ Arrived' /\ \A u \in Task : Mending(u)'
  BY <1>0, <1>6, WriteAsAsked, SendAsAsked
<1>7. CASE UNCHANGED vars
  <2>1. UNCHANGED <<cache, job, panel, fate, intent, todo>>
    BY <1>7 DEF vars, code, history
  <2>2. Stutter
    BY <2>1, SameParts
  <2> QED
    BY <1>0, <2>1, <2>2 DEF Asked, OnTheWay, Arrived, Mending, Wiped, Ready, Stutter
<1> QED
  BY <1>0, <1>3, <1>4, <1>5, <1>6, <1>7 DEF Next, Acquire, Advance

\* Nothing is drawn yet.
LEMMA InitAsAsked == Init => AsAsked
<1> SUFFICES ASSUME Init PROVE AsAsked
  OBVIOUS
<1>1. \A t \in Task : todo[t] = <<>> /\ ~(job[t].left > 0)
  BY DEF Init, NoJob
<1>2. /\ \A k \in Key : panel.next[k] = Factory /\ cache[k] = NoImage /\ intent[k] = Factory
      /\ \A k \in Key : fate[k] = "settled"
  BY DEF Init, PanelInit, EmptyCache
<1>3. Asked
  BY <1>1, <1>2 DEF Asked, Frame
<1>4. OnTheWay /\ Arrived
  BY <1>1, <1>2, PanelAssumption DEF OnTheWay, Arrived
<1>5. \A t \in Task : Mending(t)
  BY <1>1 DEF Mending
<1> QED
  BY <1>3, <1>4, <1>5 DEF AsAsked

\* One task that clears a key on the panel and in the cache, or several that draw.
Careful == (OneTask /\ \A c \in Calls : Mends(Script(c))) \/ OtherwiseOnly(Drawn)

\* Calls of careful tasks forget an image only if they take it off the panel.
LEMMA CarefulMends ==
  ASSUME Careful
  PROVE  \A c \in Calls : Mends(Script(c))
<1> SUFFICES ASSUME OtherwiseOnly(Drawn), NEW c \in Calls PROVE Mends(Script(c))
  BY DEF Careful
<1>1. \A n \in DOMAIN Script(c) : \A k : ~Clears(Script(c)[n], k) /\ ~Drops(Script(c)[n], k)
  <2>1. CASE Plain(Script(c))
    BY <2>1 DEF OtherwiseOnly, Drawn, Clears, Drops
  <2>2. CASE \E keep \in Keeps : Script(c) = FlushScript(keep)
    BY <2>2, FlushClearsNothing
  <2> QED
    BY <2>1, <2>2, DeviceAssumption
<1> QED
  BY <1>1 DEF Mends

\* Tasks that only draw clear nothing.
LEMMA DrawnClearsNothing ==
  ASSUME Inv, Doing(Drawn)
  PROVE  OneClears
<1> SUFFICES ASSUME NEW t \in Task PROVE ~Clearing(t)
  BY DEF OneClears
<1>1. CASE lock = t
  BY <1>1, HolderClearsNothing
<1>2. CASE lock # t /\ Plain(todo[t])
  BY <1>2 DEF Doing, Drawn, Clearing, Clears, Drops
<1>3. CASE \E keep \in Keeps : todo[t] = FlushScript(keep)
  BY <1>3, FlushClearsNothing DEF Clearing
<1> QED
  BY <1>1, <1>2, <1>3 DEF Inv, LockedFlush, CallShape

\* So cache and panel keep agreeing about what is drawn.
LEMMA AlwaysAsAsked ==
  ASSUME Careful
  PROVE  Spec => []AsAsked
<1>1. OneTask \/ OtherwiseOnly(Silent)
  BY DEF Careful, OtherwiseOnly, Drawn, Silent
<1>2. Spec => []OneClears
  <2>1. ASSUME OneTask PROVE Spec => []OneClears
    <3>1. Inv => OneClears
      BY <2>1 DEF OneClears, OneTask
    <3> QED
      BY <3>1, Invariance, PTL
  <2>2. ASSUME OtherwiseOnly(Drawn) PROVE Spec => []OneClears
    <3>1. Init => Doing(Drawn)
      BY InitDoing
    <3>2. Inv /\ Doing(Drawn) /\ [Next]_vars => Doing(Drawn)'
      BY <2>2, DoingStep
    <3> QED
      BY <3>1, <3>2, DrawnClearsNothing, Invariance, PTL DEF Spec
  <2> QED
    BY <2>1, <2>2 DEF Careful
<1>3. Inv /\ Exclusive /\ InStep /\ OneClears /\ AsAsked /\ [Next]_vars => AsAsked'
  BY CarefulMends, AsAskedStep
<1>4. Spec => []Exclusive
  BY <1>1, AlwaysExclusive
<1>5. Spec => []InStep
  BY <1>1, AlwaysInStep
<1> QED
  BY <1>2, <1>3, <1>4, <1>5, InitAsAsked, Invariance, PTL DEF Spec

\* Between calls the cache and the panel's next frame hold what was last asked for
\* each key: a replaced image is not sent, and one that was cleared by its key or by
\* clear_all_button_images does not come back.  clear_button_image(0xFF) asks for
\* blank keys only where no image waits.
THEOREM CacheAndPanelAgree ==
  ASSUME Careful
  PROVE  Spec => []CacheOrPanel
<1>1. Inv /\ AsAsked => CacheOrPanel
  <2> SUFFICES ASSUME Inv, AsAsked, Undisturbed, Quiet, NEW k \in Key
               PROVE  intent[k] = IF cache[k] # NoImage THEN cache[k] ELSE panel.next[k]
    BY DEF CacheOrPanel
  <2>1. \A t \in Task : todo[t] = <<>> /\ ~(job[t].left > 0)
    BY DEF Quiet, Inv, LockedFlush, CallShape, JobShape, At
  <2>2. intent[k] = Frame[k]
    BY <2>1 DEF AsAsked, Asked
  <2> QED
    BY <2>1, <2>2 DEF Frame
<1> QED
  BY <1>1, AlwaysAsAsked, Invariance, PTL

-----------------------------------------------------------------------------
(* After a flush.                                                          *)

\* A call of flush is one; only its first step comes before the mutex.
Flushes == \A c \in Calls : c.op = "flush" => \E keep \in Keeps : Script(c) = FlushScript(keep)

FlushHolds ==
  \A t \in Task : In(t, "flush") => lock = t \/ \E keep \in Keeps : todo[t] = FlushScript(keep)

\* A flush under way has the mutex, or still has all to do.
LEMMA FlushHoldsStep ==
  ASSUME Inv, [Next]_vars, FlushHolds, Flushes
  PROVE  FlushHolds'
<1> SUFFICES ASSUME NEW t \in Task, In(t, "flush")', lock' # t
             PROVE  \E keep \in Keeps : todo'[t] = FlushScript(keep)
  BY DEF FlushHolds
<1>1. CASE todo'[t] = todo[t] /\ call'[t] = call[t] /\ ((lock' = t) <=> (lock = t))
  BY <1>1 DEF FlushHolds, In
<1>2. CASE \E c \in Calls : todo'[t] = Script(c) /\ call'[t] = c
  BY <1>2 DEF Flushes, In
<1>3. CASE ~At(t, "lock") /\ lock' = lock /\ call'[t] = call[t]
  <2>1. PICK keep \in Keeps : todo[t] = FlushScript(keep)
    BY <1>3 DEF FlushHolds, In
  <2> QED
    BY <1>3, <2>1 DEF FlushScript, At, LOCK
<1>4. CASE call'[t] = Idle
  BY <1>4 DEF In
<1> QED
  BY <1>1, <1>2, <1>3, <1>4, TodoMoves

\* After a flush every key that was last given an image shows it, however many
\* other tasks draw meanwhile.
THEOREM FlushedImagesShow ==
  ASSUME Careful, Flushes
  PROVE  Spec => []FlushShowsImages
<1>1. Inv /\ FlushPublishes /\ AsAsked /\ FlushHolds => FlushShowsImages
  <2> SUFFICES ASSUME Inv, FlushPublishes, AsAsked, FlushHolds, Undisturbed,
                      NEW t \in Task, Succeeding(t), In(t, "flush"),
                      NEW k \in Key, intent[k] \in Image
               PROVE  panel.shown[k] = intent[k]
    BY DEF FlushShowsImages
  <2>1. \A keep \in Keeps : FlushScript(keep) # <<>>
    BY DEF FlushScript
  <2>2. lock = t
    BY <2>1 DEF FlushHolds, Succeeding
  <2>3. fate[k] = "settled"
    BY <2>2 DEF FlushPublishes
  <2> QED
    BY <2>3 DEF AsAsked, Arrived
<1>2. Init => FlushHolds
  BY DEF Init, FlushHolds, In
<1>3. Inv /\ FlushHolds /\ [Next]_vars => FlushHolds'
  BY FlushHoldsStep
<1> QED
  BY <1>1, <1>2, <1>3, AlwaysAsAsked, SuccessfulFlushPublishes, Invariance, PTL DEF Spec

-----------------------------------------------------------------------------
(* After clearing all keys.                                                *)

\* CLE for all keys, then STP where the panel needs one, and the cache; and no
\* step that draws, or ends the call early.
CleAll(s)  == s.do = "write" /\ s.report.op = "CLE" /\ s.report.arg = 255
Commits(s) == s.do = "write" /\ s.report.op = "STP"

ToWipe(script) ==
  \E n \in DOMAIN script :
    /\ CleAll(script[n])
    /\ ProtocolVersion >= 2 => \E m \in DOMAIN script : m > n /\ Commits(script[m])
ToCommit(script) == \E n \in DOMAIN script : Commits(script[n])
ToEmpty(script)  == \E n \in DOMAIN script : script[n].do = "empty"
Sober(script)    == \A n \in DOMAIN script : script[n].do \notin {"insert", "drain", "check"}

Wipes(script) == ToWipe(script) /\ ToEmpty(script) /\ Sober(script)

ClearsAll(t) == In(t, "clear_all_button_images") \/ In(t, "reset")

\* The next frame is dark; so is the one on display.
Dark == \A k \in Key : panel.next[k] = Blank
Off  == \A k \in Key : panel.shown[k] = Blank

Wiping ==
  Undisturbed => \A t \in Task : ClearsAll(t) =>
    /\ \/ ToWipe(todo[t])
       \/ Dark /\ (Off \/ (ProtocolVersion >= 2 /\ ToCommit(todo[t])))
    /\ Cached = {} \/ ToEmpty(todo[t])
    /\ Sober(todo[t])

\* How far a clearing call has come, by what is left of it.
LEMMA WipingTails ==
  ASSUME NEW s \in Seq(Step), s # <<>>
  PROVE  /\ Sober(s) => Sober(Tail(s))
         /\ ToEmpty(s) => ToEmpty(Tail(s)) \/ Head(s).do = "empty"
         /\ ToCommit(s) => ToCommit(Tail(s)) \/ Commits(Head(s))
         /\ ToWipe(s) => \/ ToWipe(Tail(s))
                         \/ CleAll(Head(s)) /\ (ProtocolVersion >= 2 => ToCommit(Tail(s)))
<1>1. ASSUME Sober(s), NEW n \in DOMAIN Tail(s)
      PROVE  Tail(s)[n].do \notin {"insert", "drain", "check"}
  <2>1. n + 1 \in DOMAIN s /\ Tail(s)[n] = s[n + 1]
    BY Rest
  <2> QED
    BY <1>1, <2>1 DEF Sober
<1>2. ASSUME ToEmpty(s), Head(s).do # "empty"
      PROVE  ToEmpty(Tail(s))
  <2>1. PICK n \in DOMAIN s : s[n].do = "empty"
    BY <1>2 DEF ToEmpty
  <2>2. n # 1
    BY <1>2, <2>1, Rest
  <2>3. n - 1 \in DOMAIN Tail(s) /\ Tail(s)[n - 1] = s[n]
    BY <2>2, Rest
  <2> QED
    BY <2>1, <2>3 DEF ToEmpty
<1>3. ToCommit(s) => ToCommit(Tail(s)) \/ Commits(Head(s))
  BY Rest DEF ToCommit
<1>4. ASSUME ToWipe(s)
      PROVE  \/ ToWipe(Tail(s))
             \/ CleAll(Head(s)) /\ (ProtocolVersion >= 2 => ToCommit(Tail(s)))
  <2>1. PICK n \in DOMAIN s : /\ CleAll(s[n])
                              /\ ProtocolVersion >= 2 => \E m \in DOMAIN s : m > n /\ Commits(s[m])
    BY <1>4 DEF ToWipe
  <2>2. ASSUME NEW m \in DOMAIN s, m > n, Commits(s[m])
        PROVE  m - 1 \in DOMAIN Tail(s) /\ Tail(s)[m - 1] = s[m] /\ m - 1 > n - 1
    BY <2>2, Rest
  <2>3. CASE n = 1
    BY <2>1, <2>2, <2>3, Rest DEF ToCommit
  <2>4. CASE n # 1
    <3>1. n - 1 \in DOMAIN Tail(s) /\ Tail(s)[n - 1] = s[n]
      BY <2>4, Rest
    <3>2. ProtocolVersion >= 2 => \E m \in DOMAIN Tail(s) : m > n - 1 /\ Commits(Tail(s)[m])
      BY <2>1, <2>2
    <3> QED
      BY <2>1, <3>1, <3>2 DEF ToWipe
  <2> QED
    BY <2>3, <2>4
<1> QED
  BY <1>1, <1>2, <1>3, <1>4 DEF Sober

\* Each step of a clearing call takes it nearer to a dark panel.
LEMMA WipingStep ==
  ASSUME Inv, OneTask, Exclusive, InStep, Wiping, [Next]_vars,
         \A c \in Calls : c.op \in {"clear_all_button_images", "reset"} => Wipes(Script(c))
  PROVE  Wiping'
<1> SUFFICES ASSUME Undisturbed', NEW t \in Task, ClearsAll(t)'
             PROVE  /\ \/ ToWipe(todo'[t])
                       \/ Dark' /\ (Off' \/ (ProtocolVersion >= 2 /\ ToCommit(todo'[t])))
                    /\ Cached' = {} \/ ToEmpty(todo'[t])
                    /\ Sober(todo'[t])
  BY DEF Wiping
<1>0. /\ Undisturbed /\ \A u \in Task : ~FailWrite(u) /\ ~Cancel(u)
      /\ \A u \in Task : u = t
  BY NoFault DEF OneTask
<1>1. /\ todo \in [Task -> Seq(Step)] /\ call \in [Task -> Calls \cup {Idle}]
      /\ panel \in PanelState /\ ProtocolVersion \in 0..3
  BY StepsAssumption DEF Inv, TypeOK
<1>2. CASE Begin(t)
  <2>1. PICK c \in Calls : call'[t] = c /\ todo'[t] = Script(c)
    BY <1>1, <1>2 DEF Begin
  <2>2. c.op \in {"clear_all_button_images", "reset"}
    BY <2>1 DEF ClearsAll, In
  <2> QED
    BY <2>1, <2>2 DEF Wipes
<1>3. ASSUME call'[t] = call[t]
      PROVE  /\ \/ ToWipe(todo[t])
                \/ Dark /\ (Off \/ (ProtocolVersion >= 2 /\ ToCommit(todo[t])))
             /\ Cached = {} \/ ToEmpty(todo[t])
             /\ Sober(todo[t])
  BY <1>0, <1>3 DEF Wiping, ClearsAll, In
<1>4. ASSUME call' = call, todo[t] # <<>>
      PROVE  Head(todo[t]).do \notin {"insert", "drain", "check"}
  <2>1. 1 \in DOMAIN todo[t] /\ Head(todo[t]) = todo[t][1]
    BY <1>1, <1>4, Rest
  <2> QED
    BY <1>3, <1>4, <2>1 DEF Sober
\* Steps that change no frame.
<1>5. ASSUME call' = call, panel'.next = panel.next, panel'.shown = panel.shown, Cached = {} => Cached' = {},
             \/ todo' = todo
             \/ todo[t] # <<>> /\ Pop(t) /\ Head(todo[t]).do \notin {"write", "empty"}
      PROVE  /\ \/ ToWipe(todo'[t])
                \/ Dark' /\ (Off' \/ (ProtocolVersion >= 2 /\ ToCommit(todo'[t])))
             /\ Cached' = {} \/ ToEmpty(todo'[t])
             /\ Sober(todo'[t])
  <2>1. (Dark => Dark') /\ (Off => Off')
    BY <1>5 DEF Dark, Off
  <2>2. /\ ToWipe(todo[t]) => ToWipe(todo'[t])
        /\ ToCommit(todo[t]) => ToCommit(todo'[t])
        /\ ToEmpty(todo[t]) => ToEmpty(todo'[t])
        /\ Sober(todo[t]) => Sober(todo'[t])
    <3>1. CASE todo' = todo
      BY <3>1
    <3>2. CASE todo[t] # <<>> /\ Pop(t) /\ Head(todo[t]).do \notin {"write", "empty"}
      <4>1. todo'[t] = Tail(todo[t]) /\ todo[t] \in Seq(Step)
        BY <1>1, <3>2 DEF Pop
      <4> QED
        BY <3>2, <4>1, WipingTails DEF CleAll, Commits
    <3> QED
      BY <1>5, <3>1, <3>2
  <2> QED
    BY <1>3, <1>5, <2>1, <2>2
<1>6. CASE \/ InitLoad(t) \/ InitStore(t) \/ InitDis(t) \/ InitLig(t) \/ LockCache(t)
  <2>1. Stutter /\ panel'.next = panel.next
    BY <1>0, <1>6, PlainStutters
  <2>2. InitLig(t) => At(t, "initialize")
    BY DEF InitLig, Inv, LockedFlush, GreetingShape
  <2>3. call' = call /\ Cached' = Cached
    BY <1>6 DEF InitLoad, InitStore, InitDis, InitLig, LockCache, Cached
  <2>4. \/ todo' = todo
        \/ todo[t] # <<>> /\ Pop(t) /\ Head(todo[t]).do \notin {"write", "empty"}
    BY <1>6, <2>2 DEF InitLoad, InitStore, InitDis, InitLig, LockCache, At
  <2> QED
    BY <1>5, <2>1, <2>3, <2>4 DEF Stutter
<1>7. CASE ConvertImage(t) \/ Return(t)
  <2>1. call'[t] # Idle
    BY DEF ClearsAll, In
  <2>2. /\ Pop(t) /\ UNCHANGED <<cache, call, panel>>
        /\ todo[t] # <<>> /\ Head(todo[t]).do \notin {"write", "empty"}
    BY <1>1, <1>7, <2>1 DEF ConvertImage, Return, Abort, Leave, At
  <2> QED
    BY <1>5, <2>2 DEF Cached
<1>8. CASE InsertImage(t) \/ CheckEmpty(t) \/ TakeImage(t) \/ SendImageReport(t) \/ DrainDone(t)
  <2>1. call' = call /\ todo[t] # <<>> /\ Head(todo[t]).do \in {"insert", "drain", "check"}
    BY <1>8 DEF InsertImage, CheckEmpty, TakeImage, SendImageReport, DrainDone, At
  <2> QED
    BY <1>4, <2>1
<1>9. CASE RemoveImage(t)
  <2>1. /\ call' = call /\ panel' = panel /\ todo[t] # <<>> /\ Pop(t)
        /\ Head(todo[t]).do \notin {"write", "empty"}
        /\ \A k \in Key : cache[k] = NoImage => cache'[k] = NoImage
    BY <1>9 DEF RemoveImage, At
  <2>2. Cached = {} => Cached' = {}
    BY <2>1 DEF Cached
  <2> QED
    BY <1>5, <2>1, <2>2
<1>10. CASE ClearCache(t)
  <2>1. /\ call' = call /\ panel' = panel /\ todo[t] # <<>> /\ todo'[t] = Tail(todo[t])
        /\ Head(todo[t]).do = "empty" /\ \A k \in Key : cache'[k] = NoImage
    BY <1>1, <1>10 DEF ClearCache, EmptyCache, At, Pop
  <2>2. Cached' = {} /\ (Dark <=> Dark') /\ (Off <=> Off')
    BY <2>1 DEF Cached, Dark, Off
  <2> QED
    BY <1>1, <1>3, <2>1, <2>2, WipingTails DEF CleAll, Commits
<1>11. CASE WriteReport(t)
  <2>1. /\ call' = call /\ cache' = cache /\ todo[t] # <<>> /\ todo'[t] = Tail(todo[t])
        /\ Head(todo[t]).do = "write" /\ todo[t] \in Seq(Step)
    BY <1>1, <1>11 DEF WriteReport, At, Pop
  <2>2. PICK r \in Command : r = Head(todo[t]).report
    BY <2>1, NextStep, StepFields
  <2>3. panel' = Deliver(panel, r) /\ panel.left = 0
    BY <1>0, <1>11, <2>2, CommandInStep DEF WriteReport
  <2>4. Dark => Dark'
    <3>1. r.op # "CLE" => panel'.next = panel.next
      BY <1>1, <2>3, DeliverCommand
    <3>2. ASSUME r.op = "CLE", NEW k \in Key
          PROVE  panel'.next[k] \in {Blank, panel.next[k]}
      <4>1. CASE r.arg \in {k + 1, 255}
        BY <1>1, <2>3, <3>2, <4>1, DeliverCommand
      <4>2. CASE r.arg \notin {k + 1, 255}
        BY <1>1, <2>3, <3>2, <4>2, DeliverCommand
      <4> QED
        BY <4>1, <4>2
    <3> QED
      BY <3>1, <3>2 DEF Dark
  <2>5. Dark /\ Off => Off'
    <3>1. r.op = "STP" => panel'.shown = panel.next
      BY <1>1, <2>3, DeliverCommand
    <3>2. r.op \notin {"CLE", "STP"} => panel'.shown = panel.shown
      BY <1>1, <2>3, DeliverCommand
    <3>3. ASSUME r.op = "CLE", NEW k \in Key
          PROVE  panel'.shown[k] \in {Blank, panel.shown[k]}
      <4>0. ProtocolVersion < 2 \/ ProtocolVersion >= 2
        BY <1>1
      <4>1. CASE r.arg \in {k + 1, 255} /\ ProtocolVersion < 2
        BY <1>1, <2>3, <3>3, <4>1, DeliverCommand
      <4>2. CASE r.arg \notin {k + 1, 255} \/ ProtocolVersion >= 2
        BY <1>1, <2>3, <3>3, <4>2, DeliverCommand
      <4> QED
        BY <4>0, <4>1, <4>2
    <3> QED
      BY <3>1, <3>2, <3>3 DEF Dark, Off
  <2>6. CleAll(Head(todo[t])) => Dark' /\ (ProtocolVersion < 2 => Off')
    <3>1. CleAll(Head(todo[t])) => r.op = "CLE" /\ r.arg = 255
      BY <2>2 DEF CleAll
    <3>2. r.op = "CLE" /\ r.arg = 255 => \A k \in Key : /\ panel'.next[k] = Blank
                                                        /\ ProtocolVersion < 2 => panel'.shown[k] = Blank
      BY <1>1, <2>3, DeliverCommand
    <3> QED
      BY <3>1, <3>2 DEF Dark, Off
  <2>7. Commits(Head(todo[t])) /\ Dark => Dark' /\ Off'
    <3>1. r.op = "STP" => panel'.shown = panel.next
      BY <1>1, <2>3, DeliverCommand
    <3> QED
      BY <2>2, <2>4, <3>1 DEF Commits, Dark, Off
  <2>8. Cached' = Cached /\ Head(todo[t]).do # "empty"
    BY <2>1 DEF Cached
  <2>9. ProtocolVersion < 2 \/ ProtocolVersion >= 2
    BY <1>1
  <2>10. \/ ToWipe(todo'[t])
         \/ Dark' /\ (Off' \/ (ProtocolVersion >= 2 /\ ToCommit(todo'[t])))
    BY <1>3, <2>1, <2>4, <2>5, <2>6, <2>7, <2>9, WipingTails
  <2> QED
    BY <1>3, <2>1, <2>8, <2>10, WipingTails
<1>12. CASE UNCHANGED vars
  <2>1. UNCHANGED <<call, panel, todo, cache>>
    BY <1>12 DEF vars, code
  <2> QED
    BY <1>5, <2>1 DEF Cached
<1> QED
  BY <1>0, <1>2, <1>6, <1>7, <1>8, <1>9, <1>10, <1>11, <1>12 DEF Next, Acquire, Advance

\* clear_all_button_images and reset leave a dark panel and nothing to flush,
\* without a flush, on every protocol version.
THEOREM ClearingAllDarkens ==
  ASSUME OneTask, \A c \in Calls : c.op \in {"clear_all_button_images", "reset"} => Wipes(Script(c))
  PROVE  Spec => []ClearAllBlanks
<1>1. Wiping => ClearAllBlanks
  <2> SUFFICES ASSUME Wiping, Undisturbed, NEW t \in Task, Succeeding(t), ClearsAll(t), NEW k \in Key
               PROVE  panel.shown[k] = Blank /\ panel.next[k] = Blank /\ cache[k] = NoImage
    BY DEF ClearAllBlanks, ClearsAll
  <2>1. todo[t] = <<>>
    BY DEF Succeeding
  <2>2. ~ToWipe(todo[t]) /\ ~ToCommit(todo[t]) /\ ~ToEmpty(todo[t])
    BY <2>1 DEF ToWipe, ToCommit, ToEmpty
  <2> QED
    BY <2>2 DEF Wiping, Dark, Off, Cached
<1>2. Init => Wiping
  BY DEF Init, Wiping, ClearsAll, In
<1>3. Spec => []Exclusive
  BY AlwaysExclusive
<1>4. Spec => []InStep
  BY AlwaysInStep
<1> QED
  BY <1>1, <1>2, <1>3, <1>4, WipingStep, Invariance, PTL DEF Spec


-----------------------------------------------------------------------------
(* The calls of the two implementations are such calls.                    *)

\* Except for flush the implementations take the same steps.
LEMMA SameSteps ==
  ASSUME NEW c \in ApiCalls, c.op # "flush"
  PROVE  RustScript(c) = GoScript(c)
<1>1. c.op \in {"reset", "set_led_colors", "clear_all_button_images", "sleep", "keep_alive",
                "shutdown", "set_brightness", "set_led_brightness", "set_mode",
                "clear_button_image", "write_image", "set_button_image"}
  BY DEF ApiCalls
<1>2. /\ initialize = Initialize
      /\ \A p : set_brightness(p) = SetBrightness(p) /\ set_led_brightness(p) = SetLEDBrightness(p)
      /\ set_led_colors = SetLEDColors /\ sleep = Sleep /\ keep_alive = KeepAlive
      /\ shutdown = Shutdown
      /\ \A m : set_mode(m) = SetMode(m)
      /\ \A k : clear_button_image(k) = ClearButtonImage(k)
      /\ \A k, i : write_image(k, i) = WriteImage(k, i) /\ set_button_image(k, i) = SetButtonImage(k, i)
  BY DEF initialize, Initialize, set_brightness, SetBrightness, set_led_brightness,
         SetLEDBrightness, set_led_colors, SetLEDColors, sleep, Sleep, keep_alive, KeepAlive,
         shutdown, Shutdown, set_mode, SetMode, clear_button_image, ClearButtonImage,
         write_image, WriteImage, set_button_image, SetButtonImage
<1>3. clear_all_button_images = ClearAllButtonImages
  BY <1>2 DEF clear_all_button_images, ClearAllButtonImages
<1>4. reset = Reset
  BY <1>2, <1>3 DEF reset, Reset
<1> QED
  BY <1>1, <1>2, <1>3, <1>4, Zenon DEF RustScript, GoScript

\* Where the steps of two sequences are when one follows the other.
LEMMA Concatenated ==
  ASSUME NEW s \in Seq(Step), NEW u \in Seq(Step)
  PROVE  /\ s \o u \in Seq(Step) /\ Len(s) \in Nat
         /\ \A n \in DOMAIN s : n \in DOMAIN (s \o u) /\ (s \o u)[n] = s[n]
         /\ \A n \in DOMAIN u : Len(s) + n \in DOMAIN (s \o u) /\ (s \o u)[Len(s) + n] = u[n]
         /\ \A n \in DOMAIN (s \o u) :
              \/ n \in DOMAIN s
              \/ n - Len(s) \in DOMAIN u /\ (s \o u)[n] = u[n - Len(s)]
<1>1. /\ s \o u \in Seq(Step) /\ Len(s) \in Nat /\ Len(u) \in Nat
      /\ DOMAIN s = 1..Len(s) /\ DOMAIN u = 1..Len(u) /\ DOMAIN (s \o u) = 1..Len(s) + Len(u)
      /\ \A i \in 1..Len(s) + Len(u) :
           (s \o u)[i] = IF i <= Len(s) THEN s[i] ELSE u[i - Len(s)]
  BY ConcatProperties
<1>2. ASSUME NEW n \in 1..Len(s) PROVE n \in 1..Len(s) + Len(u) /\ (s \o u)[n] = s[n]
  BY <1>1
<1>3. ASSUME NEW n \in 1..Len(u)
      PROVE  Len(s) + n \in 1..Len(s) + Len(u) /\ (s \o u)[Len(s) + n] = u[n]
  <2>1. Len(s) + n \in 1..Len(s) + Len(u) /\ ~(Len(s) + n <= Len(s)) /\ Len(s) + n - Len(s) = n
    BY <1>1
  <2> QED
    BY <1>1, <2>1
<1>4. ASSUME NEW n \in 1..Len(s) + Len(u), n \notin 1..Len(s)
      PROVE  n - Len(s) \in 1..Len(u) /\ (s \o u)[n] = u[n - Len(s)]
  BY <1>1, <1>4
<1> QED
  BY <1>1, <1>2, <1>3, <1>4

\* A call that does something else first.
LEMMA Preceded ==
  ASSUME NEW s \in Seq(Step), NEW u \in Seq(Step),
         \A n \in DOMAIN s : s[n].do \in {"initialize", "write"},
         \A n \in DOMAIN s : s[n].do = "write" => s[n].report.op = "LIG",
         Greets(s), Mends(u), Wipes(u), Greets(u)
  PROVE  Mends(s \o u) /\ Wipes(s \o u) /\ Greets(s \o u)
<1> DEFINE v == s \o u
           l == Len(s)
<1>1. /\ v \in Seq(Step) /\ l \in Nat
      /\ \A n \in DOMAIN s : n \in DOMAIN v /\ v[n] = s[n]
      /\ \A n \in DOMAIN u : l + n \in DOMAIN v /\ v[l + n] = u[n]
      /\ \A n \in DOMAIN v : n \in DOMAIN s \/ (n - l \in DOMAIN u /\ v[n] = u[n - l])
      /\ \A n \in DOMAIN v : n \in Nat
      /\ \A n \in DOMAIN u : n \in Nat
      /\ \A n \in DOMAIN u : \A m \in 1..(n - 1) : m \in DOMAIN u
      /\ \A n \in DOMAIN s : \A m \in 1..(n - 1) : m \in DOMAIN s
  <2>1. /\ v \in Seq(Step) /\ l \in Nat
        /\ \A n \in DOMAIN s : n \in DOMAIN v /\ v[n] = s[n]
        /\ \A n \in DOMAIN u : l + n \in DOMAIN v /\ v[l + n] = u[n]
        /\ \A n \in DOMAIN v : n \in DOMAIN s \/ (n - l \in DOMAIN u /\ v[n] = u[n - l])
    BY Concatenated
  <2>2. /\ DOMAIN u = 1..Len(u) /\ Len(u) \in Nat
        /\ DOMAIN s = 1..Len(s) /\ Len(s) \in Nat
        /\ DOMAIN v = 1..Len(v) /\ Len(v) \in Nat
    BY <2>1
  <2> HIDE DEF v, l
  <2>3. /\ \A n \in DOMAIN u : \A m \in 1..(n - 1) : m \in DOMAIN u
        /\ \A n \in DOMAIN s : \A m \in 1..(n - 1) : m \in DOMAIN s
    BY <2>2
  <2> QED
    BY <2>1, <2>2, <2>3
<1> HIDE DEF v, l
<1>2. ASSUME NEW n \in DOMAIN s
      PROVE  /\ \A k \in Key : ~Clears(s[n], k) /\ ~Drops(s[n], k)
             /\ s[n].do \notin {"insert", "convert", "drain", "check", "empty"}
  BY DEF Clears, Drops
<1>3. Mends(v)
  <2> SUFFICES ASSUME NEW k \in Key, NEW n \in DOMAIN v
               PROVE  /\ Clears(v[n], k) => \E m \in DOMAIN v : m > n /\ Drops(v[m], k)
                      /\ Drops(v[n], k) =>
                           /\ \E m \in 1..(n - 1) : Readies(v[m], v[n], k)
                           /\ \A m \in DOMAIN v : v[m].do \notin {"insert", "convert"}
    BY DEF Mends
  <2>1. CASE n \in DOMAIN s
    BY <1>1, <1>2, <2>1
  <2>2. CASE n - l \in DOMAIN u /\ v[n] = u[n - l]
    <3>1. ASSUME Clears(v[n], k)
          PROVE  \E m \in DOMAIN v : m > n /\ Drops(v[m], k)
      <4>1. PICK m \in DOMAIN u : m > n - l /\ Drops(u[m], k)
        BY <2>2, <3>1 DEF Mends
      <4>2. l + m \in DOMAIN v /\ v[l + m] = u[m] /\ l + m > n
        BY <1>1, <4>1
      <4> QED
        BY <4>1, <4>2
    <3>2. ASSUME Drops(v[n], k)
          PROVE  \E m \in 1..(n - 1) : Readies(v[m], v[n], k)
      <4>1. PICK m \in 1..(n - l - 1) : Readies(u[m], v[n], k)
        BY <2>2, <3>2 DEF Mends
      <4>2. m \in DOMAIN u
        BY <1>1, <2>2, <4>1
      <4>3. v[l + m] = u[m] /\ l + m \in 1..(n - 1)
        BY <1>1, <4>1, <4>2
      <4> QED
        BY <4>1, <4>3
    <3>3. ASSUME Drops(v[n], k), NEW m \in DOMAIN v
          PROVE  v[m].do \notin {"insert", "convert"}
      <4>1. CASE m \in DOMAIN s
        BY <1>1, <1>2, <4>1
      <4>2. CASE m - l \in DOMAIN u /\ v[m] = u[m - l]
        BY <2>2, <3>3, <4>2 DEF Mends
      <4> QED
        BY <1>1, <4>1, <4>2
    <3> QED
      BY <3>1, <3>2, <3>3
  <2> QED
    BY <1>1, <2>1, <2>2
<1>4. Sober(v)
  <2> SUFFICES ASSUME NEW n \in DOMAIN v PROVE v[n].do \notin {"insert", "drain", "check"}
    BY DEF Sober
  <2>1. CASE n \in DOMAIN s
    BY <1>1, <1>2, <2>1
  <2>2. CASE n - l \in DOMAIN u /\ v[n] = u[n - l]
    BY <2>2 DEF Wipes, Sober
  <2> QED
    BY <1>1, <2>1, <2>2
<1>5. ToEmpty(v)
  <2>1. PICK n \in DOMAIN u : u[n].do = "empty"
    BY DEF Wipes, ToEmpty
  <2> QED
    BY <1>1, <2>1 DEF ToEmpty
<1>6. ToWipe(v)
  <2>1. PICK n \in DOMAIN u : /\ CleAll(u[n])
                              /\ ProtocolVersion >= 2 => \E m \in DOMAIN u : m > n /\ Commits(u[m])
    BY DEF Wipes, ToWipe
  <2>2. l + n \in DOMAIN v /\ CleAll(v[l + n])
    BY <1>1, <2>1
  <2>3. ASSUME NEW m \in DOMAIN u, m > n, Commits(u[m])
        PROVE  l + m \in DOMAIN v /\ l + m > l + n /\ Commits(v[l + m])
    BY <1>1, <2>3
  <2>4. ProtocolVersion >= 2 => \E m \in DOMAIN v : m > l + n /\ Commits(v[m])
    BY <2>1, <2>3
  <2> QED
    BY <2>2, <2>4 DEF ToWipe
<1>7. Greets(v)
  <2> SUFFICES ASSUME NEW n \in DOMAIN v, Needy(v[n])
               PROVE  \E m \in 1..(n - 1) : v[m].do = "initialize"
    BY DEF Greets
  <2>1. CASE n \in DOMAIN s
    <3>1. PICK m \in 1..(n - 1) : s[m].do = "initialize"
      BY <1>1, <2>1 DEF Greets
    <3> QED
      BY <1>1, <2>1, <3>1
  <2>2. CASE n - l \in DOMAIN u /\ v[n] = u[n - l]
    <3>1. PICK m \in 1..(n - l - 1) : u[m].do = "initialize"
      BY <2>2 DEF Greets
    <3>2. m \in DOMAIN u
      BY <1>1, <2>2, <3>1
    <3>3. v[l + m] = u[m] /\ l + m \in 1..(n - 1)
      BY <1>1, <3>1, <3>2
    <3> QED
      BY <3>1, <3>3
  <2> QED
    BY <1>1, <2>1, <2>2
<1> QED
  BY <1>3, <1>4, <1>5, <1>6, <1>7 DEF Wipes, v


\* Every step is in Discreet.
Polite(s) == \A n \in DOMAIN s : s[n] \in Discreet

\* Two ways to tell: it clears and drops nothing; it begins with initialize.
LEMMA Harmless ==
  ASSUME NEW s, \A n \in DOMAIN s : \A k \in Key : ~Clears(s[n], k) /\ ~Drops(s[n], k)
  PROVE  Mends(s)
BY DEF Mends

\* A call that begins with initialize greets first.
LEMMA Led ==
  ASSUME NEW s \in Seq(Step), s # <<>>, s[1].do = "initialize"
  PROVE  Greets(s)
<1> SUFFICES ASSUME NEW n \in DOMAIN s, Needy(s[n])
             PROVE  1 \in 1..(n - 1)
  BY DEF Greets
<1>1. n # 1
  BY DEF Needy
<1>2. n \in Nat \ {0}
  OBVIOUS
<1> QED
  BY <1>1, <1>2

\* Calls that only set, dim or keep alive.
LEMMA SettingCall ==
  ASSUME NEW r \in Command, r.op \notin {"CLE", "DIS"},
         NEW c, c = <<INITIALIZE>> \o <<Write(r)>>
  PROVE  Greets(c) /\ Mends(c) /\ Polite(c)
<1> DEFINE i == INITIALIZE  w == Write(r)  s == <<i, w>>
<1>1. /\ i \in Step /\ w \in Step /\ i.do = "initialize" /\ w.do = "write" /\ w.report = r
  BY StepKinds
<1> HIDE DEF i, w
<1>2. /\ s \in Seq(Step) /\ s # <<>> /\ s[1] = i /\ \A n \in DOMAIN s : s[n] \in {i, w}
  BY <1>1
<1>3. <<i>> \o <<w>> = s
  BY <1>1, OneAndOne
<1> HIDE DEF s
<1>4. Greets(s)
  BY <1>1, <1>2, Led
<1>5. \A x \in {i, w} : \A k \in Key : ~Clears(x, k) /\ ~Drops(x, k)
  BY <1>1 DEF Clears, Drops
<1>6. Mends(s)
  BY <1>2, <1>5, Harmless
<1>7. Polite(s)
  BY <1>1, <1>2 DEF Polite, Discreet
<1> QED
  BY <1>3, <1>4, <1>6, <1>7 DEF i, w

\* shutdown greets, clears nothing of what was drawn, and writes no image.
LEMMA ShuttingCall == Greets(Shutdown) /\ Mends(Shutdown) /\ Polite(Shutdown)
<1> DEFINE i == INITIALIZE  w == Write(Cmd("CLEDC", 0))  h == Write(Cmd("HAN", 0))  s == <<i, w, h>>
<1>1. /\ i \in Step /\ w \in Step /\ h \in Step
      /\ i.do = "initialize" /\ w.do = "write" /\ h.do = "write"
      /\ w.report.op = "CLEDC" /\ h.report.op = "HAN"
  <2>1. Cmd("CLEDC", 0).op = "CLEDC" /\ Cmd("HAN", 0).op = "HAN"
    BY DEF Cmd
  <2> QED
    BY <2>1, StepKinds, Reports
<1>2. Shutdown = <<i>> \o <<w, h>>
  BY DEF Shutdown, Initialize
<1> HIDE DEF i, w, h
<1>3. /\ s \in Seq(Step) /\ s # <<>> /\ s[1] = i /\ \A n \in DOMAIN s : s[n] \in {i, w, h}
  BY <1>1
<1>4. Shutdown = s
  BY <1>1, <1>2, OneAndTwo
<1> HIDE DEF s
<1>5. \A x \in {i, w, h} : \A k \in Key : ~Clears(x, k) /\ ~Drops(x, k)
  BY <1>1 DEF Clears, Drops
<1>6. Polite(s)
  BY <1>1, <1>3 DEF Polite, Discreet
<1> QED
  BY <1>1, <1>3, <1>4, <1>5, <1>6, Led, Harmless

\* Calls that draw one image.
LEMMA DrawingCall ==
  ASSUME NEW k \in Key, NEW img \in Image
  PROVE  /\ Greets(WriteImage(k, img)) /\ Mends(WriteImage(k, img))
         /\ Greets(SetButtonImage(k, img)) /\ Mends(SetButtonImage(k, img))
         /\ Polite(WriteImage(k, img)) /\ Polite(SetButtonImage(k, img))
         /\ \A n \in DOMAIN WriteImage(k, img) : WriteImage(k, img)[n] \in Drawn
<1> DEFINE i == INITIALIZE  c == CONVERT  x == Insert(k, img)  s == <<i, c, x>>
<1>1. /\ i \in Step /\ c \in Step /\ x \in Step
      /\ i.do = "initialize" /\ c.do = "convert" /\ x.do = "insert"
  BY DEF INITIALIZE, CONVERT, Insert, Step
<1>2. SetButtonImage(k, img) = (<<i>> \o <<c>>) \o <<x>> /\ WriteImage(k, img) = <<x>>
  BY DEF SetButtonImage, WriteImage, Initialize
<1> HIDE DEF i, c, x
<1>3. /\ s \in Seq(Step) /\ s # <<>> /\ s[1] = i /\ \A n \in DOMAIN s : s[n] \in {i, c, x}
  BY <1>1
<1>4. SetButtonImage(k, img) = s
  <2>1. <<i>> \o <<c>> = <<i, c>>
    BY <1>1, OneAndOne
  <2>2. <<i, c>> \o <<x>> = <<i, c, x>>
    BY <1>1, TwoAndOne
  <2> QED
    BY <1>2, <2>1, <2>2
<1>5. \A n \in DOMAIN <<x>> : <<x>>[n] = x
  OBVIOUS
<1> HIDE DEF s
<1>6. \A y \in {i, c, x} : \A q \in Key : ~Clears(y, q) /\ ~Drops(y, q) /\ ~Needy(y)
  BY <1>1 DEF Clears, Drops, Needy
<1>7. Greets(SetButtonImage(k, img)) /\ Mends(SetButtonImage(k, img))
  BY <1>1, <1>3, <1>4, <1>6, Led, Harmless
<1>8. Greets(<<x>>)
  BY <1>1, <1>5 DEF Greets, Needy
<1>9. Mends(<<x>>)
  BY <1>5, <1>6, Harmless
<1>10. Polite(<<x>>) /\ Polite(SetButtonImage(k, img))
  BY <1>1, <1>3, <1>4, <1>5 DEF Polite, Discreet
<1> QED
  BY <1>1, <1>2, <1>5, <1>7, <1>8, <1>9, <1>10 DEF Drawn

\* So does set_mode.
LEMMA ModeCall ==
  ASSUME NEW m \in 0..255
  PROVE  Greets(SetMode(m)) /\ Mends(SetMode(m)) /\ Polite(SetMode(m))
<1> DEFINE w == Write(Cmd("MOD", (48 + m) % 256))
<1>1. w \in Step /\ w.do = "write" /\ w.report.op = "MOD" /\ SetMode(m) = <<w>>
  <2>1. (48 + m) % 256 \in 0..255
    OBVIOUS
  <2>2. Cmd("MOD", (48 + m) % 256) \in Command /\ Cmd("MOD", (48 + m) % 256).op = "MOD"
    BY <2>1 DEF Cmd, Command, Opcode
  <2>3. SetMode(m) = <<w>>
    BY DEF SetMode
  <2> QED
    BY <2>2, <2>3, StepKinds
<1> HIDE DEF w
<1>2. \A n \in DOMAIN <<w>> : <<w>>[n] = w
  OBVIOUS
<1>3. ~Needy(w) /\ \A k \in Key : ~Clears(w, k) /\ ~Drops(w, k)
  BY <1>1 DEF Needy, Clears, Drops
<1> QED
  BY <1>1, <1>2, <1>3, Harmless DEF Greets, Polite, Discreet

\* Clearing one key: CLE for it, then its entry.
LEMMA ClearingCall ==
  ASSUME NEW k \in Key
  PROVE  Greets(ClearButtonImage(k)) /\ Mends(ClearButtonImage(k)) /\ Polite(ClearButtonImage(k))
<1> DEFINE i == INITIALIZE  w == Write(Cle(k))  r == Remove(k)  s == <<i, w, r>>
<1>0. k \in 0..253 /\ Key \subseteq 0..253
  BY StepsAssumption
<1>1. /\ i \in Step /\ w \in Step /\ r \in Step
      /\ i.do = "initialize" /\ w.do = "write" /\ r.do = "remove"
      /\ w.report.op = "CLE" /\ w.report.arg = k + 1 /\ r.key = k
  <2>1. Cle(k) \in Command /\ Cle(k).op = "CLE" /\ Cle(k).arg = k + 1
    BY <1>0 DEF Cle, Cmd, AllKeys, Command, Opcode
  <2>2. r \in Step /\ r.do = "remove" /\ r.key = k
    BY <1>0 DEF Remove, Step
  <2> QED
    BY <2>1, <2>2, StepKinds
<1>2. ClearButtonImage(k) = <<i>> \o <<w, r>>
  BY DEF ClearButtonImage, Initialize
<1> HIDE DEF i, w, r
<1>3. /\ s \in Seq(Step) /\ s # <<>> /\ DOMAIN s = 1..3 /\ s[1] = i /\ s[2] = w /\ s[3] = r
  BY <1>1
<1>4. ClearButtonImage(k) = s
  BY <1>1, <1>2, OneAndTwo
<1> HIDE DEF s
<1>5. Greets(s)
  BY <1>1, <1>3, Led
<1>6. Mends(s)
  <2> SUFFICES ASSUME NEW q \in Key, NEW n \in 1..3
               PROVE  /\ Clears(s[n], q) => \E m \in 1..3 : m > n /\ Drops(s[m], q)
                      /\ Drops(s[n], q) =>
                           /\ \E m \in 1..(n - 1) : Readies(s[m], s[n], q)
                           /\ \A m \in 1..3 : s[m].do \notin {"insert", "convert"}
    BY <1>3 DEF Mends
  <2>1. n \in {1, 2, 3} /\ \A m \in 1..3 : m \in {1, 2, 3}
    OBVIOUS
  <2>2. \A m \in 1..3 : s[m].do \notin {"insert", "convert"}
    BY <1>1, <1>3, <2>1
  <2>3. ~Clears(i, q) /\ ~Drops(i, q) /\ ~Clears(r, q) /\ ~Drops(w, q)
    BY <1>1 DEF Clears, Drops
  <2>4. /\ Clears(w, q) <=> q = k
        /\ Drops(r, q) <=> q = k
        /\ q = k => Readies(w, r, q)
    BY <1>0, <1>1 DEF Clears, Readies, Drops
  <2>5. Clears(s[n], q) => \E m \in 1..3 : m > n /\ Drops(s[m], q)
    BY <1>3, <2>1, <2>3, <2>4
  <2>6. Drops(s[n], q) => \E m \in 1..(n - 1) : Readies(s[m], s[n], q)
    BY <1>3, <2>1, <2>3, <2>4
  <2> QED
    BY <2>2, <2>5, <2>6
<1>7. Polite(s)
  BY <1>1, <1>3 DEF Polite, Discreet
<1> QED
  BY <1>4, <1>5, <1>6, <1>7

\* Clearing key 0xFF: CLE for all keys, and no entry of the cache.
LEMMA ClearingEveryKey ==
  /\ Greets(ClearButtonImage(AllKeys)) /\ Mends(ClearButtonImage(AllKeys))
  /\ Polite(ClearButtonImage(AllKeys))
<1> DEFINE i == INITIALIZE  w == Write(Cle(AllKeys))  r == Remove(AllKeys)  s == <<i, w, r>>
<1>0. Key \subseteq 0..253
  BY StepsAssumption
<1>1. /\ i \in Step /\ w \in Step /\ r \in Step
      /\ i.do = "initialize" /\ w.do = "write" /\ r.do = "remove"
      /\ w.report.op = "CLE" /\ w.report.arg = 255 /\ r.key = 255
  <2>1. r.key = 255
    BY DEF Remove, AllKeys
  <2> QED
    BY <2>1, StepKinds, Reports
<1>2. ClearButtonImage(AllKeys) = <<i>> \o <<w, r>>
  BY DEF ClearButtonImage, Initialize
<1> HIDE DEF i, w, r
<1>3. /\ s \in Seq(Step) /\ s # <<>> /\ s[1] = i /\ \A n \in DOMAIN s : s[n] \in {i, w, r}
  BY <1>1
<1>4. ClearButtonImage(AllKeys) = s
  BY <1>1, <1>2, OneAndTwo
<1> HIDE DEF s
<1>5. \A x \in {i, w, r} : \A k \in Key : ~Clears(x, k) /\ ~Drops(x, k)
  BY <1>0, <1>1 DEF Clears, Drops
<1>6. Polite(s)
  BY <1>1, <1>3 DEF Polite, Discreet
<1> QED
  BY <1>1, <1>3, <1>4, <1>5, <1>6, Led, Harmless

\* Clearing all keys: CLE for all, STP where the panel needs it, then the cache.
LEMMA ClearingAllCall ==
  /\ Greets(ClearAllButtonImages) /\ Mends(ClearAllButtonImages)
  /\ Wipes(ClearAllButtonImages) /\ Polite(ClearAllButtonImages)
<1> DEFINE i == INITIALIZE  w == Write(Cle(AllKeys))  r == Remove(AllKeys)  p == Write(STP)
           e == EMPTY
           long  == <<i, i, w, r, p, e>>
           short == <<i, i, w, r, e>>
           c     == ClearAllButtonImages
<1>0. Key \subseteq 0..253 /\ ProtocolVersion \in 0..3
  BY StepsAssumption
<1>1. /\ i \in Step /\ w \in Step /\ r \in Step /\ p \in Step /\ e \in Step
      /\ i.do = "initialize" /\ w.do = "write" /\ r.do = "remove" /\ p.do = "write" /\ e.do = "empty"
      /\ w.report.op = "CLE" /\ w.report.arg = 255 /\ p.report.op = "STP" /\ r.key = 255
  <2>1. r.key = 255
    BY DEF Remove, AllKeys
  <2> QED
    BY <2>1, StepKinds, Reports
<1>2. c = IF ProtocolVersion >= 2 THEN long ELSE short
  BY ClearingSteps
<1> HIDE DEF i, w, r, p, e, c
<1>3. /\ long \in Seq(Step) /\ long # <<>> /\ DOMAIN long = 1..6
      /\ long[1] = i /\ long[2] = i /\ long[3] = w /\ long[4] = r /\ long[5] = p /\ long[6] = e
  BY <1>1
<1>4. /\ short \in Seq(Step) /\ short # <<>> /\ DOMAIN short = 1..5
      /\ short[1] = i /\ short[2] = i /\ short[3] = w /\ short[4] = r /\ short[5] = e
  BY <1>1
<1> HIDE DEF long, short
<1>5. ASSUME NEW q \in Key
      PROVE  /\ ~Clears(i, q) /\ ~Clears(r, q) /\ ~Clears(p, q) /\ ~Clears(e, q) /\ ~Clears(w, q)
             /\ ~Drops(i, q) /\ ~Drops(w, q) /\ ~Drops(r, q) /\ ~Drops(p, q) /\ Readies(w, e, q)
  BY <1>0, <1>1 DEF Clears, ClearsAny, Readies, Drops
<1>6. \A x \in {i, w, r, p, e} : x.do \notin {"insert", "convert", "drain", "check"}
  BY <1>1
<1>7. CleAll(w) /\ Commits(p) /\ e.do = "empty"
  BY <1>1 DEF CleAll, Commits
<1>8. CASE ProtocolVersion >= 2
  <2>1. c = long /\ \A n \in 1..6 : n \in {1, 2, 3, 4, 5, 6}
    BY <1>2, <1>8
  <2>2. \A n \in DOMAIN long : long[n] \in {i, w, r, p, e}
    BY <1>3, <2>1
  <2>3. Greets(long)
    BY <1>1, <1>3, Led
  <2>4. Mends(long)
    <3> SUFFICES ASSUME NEW q \in Key, NEW n \in 1..6
                 PROVE  /\ Clears(long[n], q) => \E m \in 1..6 : m > n /\ Drops(long[m], q)
                        /\ Drops(long[n], q) => \E m \in 1..(n - 1) : Readies(long[m], long[n], q)
      BY <1>3, <1>6, <2>2 DEF Mends
    <3>1. ~Clears(long[n], q)
      BY <1>3, <1>5, <2>1
    <3>2. Drops(long[n], q) => n = 6
      BY <1>3, <1>5, <2>1
    <3>3. Readies(long[3], long[6], q)
      BY <1>3, <1>5
    <3> QED
      BY <3>1, <3>2, <3>3
  <2>5. Sober(long)
    BY <1>6, <2>2 DEF Sober
  <2>6. ToEmpty(long)
    BY <1>3, <1>7 DEF ToEmpty
  <2>7. ToWipe(long)
    <3>1. CleAll(long[3]) /\ Commits(long[5]) /\ 3 \in 1..6 /\ 5 \in 1..6 /\ 5 > 3
      BY <1>3, <1>7
    <3> QED
      BY <1>3, <3>1 DEF ToWipe
  <2>8. Polite(long)
    BY <1>1, <2>2 DEF Polite, Discreet
  <2> QED
    BY <2>1, <2>3, <2>4, <2>5, <2>6, <2>7, <2>8 DEF Wipes, c
<1>9. CASE ~(ProtocolVersion >= 2)
  <2>1. c = short /\ \A n \in 1..5 : n \in {1, 2, 3, 4, 5}
    BY <1>2, <1>9
  <2>2. \A n \in DOMAIN short : short[n] \in {i, w, r, p, e}
    BY <1>4, <2>1
  <2>3. Greets(short)
    BY <1>1, <1>4, Led
  <2>4. Mends(short)
    <3> SUFFICES ASSUME NEW q \in Key, NEW n \in 1..5
                 PROVE  /\ Clears(short[n], q) => \E m \in 1..5 : m > n /\ Drops(short[m], q)
                        /\ Drops(short[n], q) => \E m \in 1..(n - 1) : Readies(short[m], short[n], q)
      BY <1>4, <1>6, <2>2 DEF Mends
    <3>1. ~Clears(short[n], q)
      BY <1>4, <1>5, <2>1
    <3>2. Drops(short[n], q) => n = 5
      BY <1>4, <1>5, <2>1
    <3>3. Readies(short[3], short[5], q)
      BY <1>4, <1>5
    <3> QED
      BY <3>1, <3>2, <3>3
  <2>5. Sober(short)
    BY <1>6, <2>2 DEF Sober
  <2>6. ToEmpty(short)
    BY <1>4, <1>7 DEF ToEmpty
  <2>7. ToWipe(short)
    BY <1>4, <1>7, <1>9 DEF ToWipe
  <2>8. Polite(short)
    BY <1>1, <2>2 DEF Polite, Discreet
  <2> QED
    BY <2>1, <2>3, <2>4, <2>5, <2>6, <2>7, <2>8 DEF Wipes, c
<1> QED
  BY <1>8, <1>9

\* Reset: brightness, then clearing all keys.
LEMMA ResettingCall == Greets(Reset) /\ Mends(Reset) /\ Wipes(Reset) /\ Polite(Reset)
<1> DEFINE i == INITIALIZE  w == Write(Cmd("LIG", 100))  s == <<i, i, w>>
<1>1. /\ i \in Step /\ w \in Step /\ i.do = "initialize" /\ w.do = "write" /\ w.report.op = "LIG"
  <2>1. Cmd("LIG", 100).op = "LIG" /\ Cmd("LIG", 100) \in Command
    BY Reports DEF Cmd
  <2> QED
    BY <2>1, StepKinds
<1>2. Reset = (<<i>> \o (<<i>> \o <<w>>)) \o ClearAllButtonImages
  BY DEF Reset, Initialize, SetBrightness, Clamp100
<1>3. ClearAllButtonImages \in Seq(Step)
  <2> DEFINE r == Remove(AllKeys)  x == Write(Cle(AllKeys))  p == Write(STP)  e == EMPTY
  <2>1. r \in Step /\ x \in Step /\ p \in Step /\ e \in Step
    BY StepKinds, Reports
  <2>2. ClearAllButtonImages = IF ProtocolVersion >= 2 THEN <<i, i, x, r, p, e>> ELSE <<i, i, x, r, e>>
    BY ClearingSteps
  <2> HIDE DEF i, r, x, p, e
  <2>3. <<i, i, x, r, p, e>> \in Seq(Step) /\ <<i, i, x, r, e>> \in Seq(Step)
    BY <1>1, <2>1
  <2> QED
    BY <2>2, <2>3
<1> HIDE DEF i, w
<1>4. s \in Seq(Step) /\ s # <<>> /\ s[1] = i /\ \A n \in DOMAIN s : s[n] \in {i, w}
  BY <1>1
<1>5. <<i>> \o (<<i>> \o <<w>>) = s
  BY <1>1, OneAndOne, OneAndTwo
<1> HIDE DEF s
<1>6. Reset = s \o ClearAllButtonImages
  BY <1>2, <1>5
<1>7. \A n \in DOMAIN s : s[n] \in Discreet
  BY <1>1, <1>4 DEF Discreet
<1>8. Polite(Reset)
  BY <1>3, <1>4, <1>6, <1>7, ClearingAllCall, Concatenated DEF Polite
<1>9. Greets(s)
  BY <1>1, <1>4, Led
<1> QED
  BY <1>1, <1>3, <1>4, <1>6, <1>8, <1>9, ClearingAllCall, Preceded

\* A flush is one, and clears nothing itself.
LEMMA FlushingCall ==
  /\ flush = FlushScript(FALSE) /\ Flush = FlushScript(TRUE)
  /\ \A keep \in BOOLEAN : /\ Greets(FlushScript(keep)) /\ Mends(FlushScript(keep))
                           /\ Polite(FlushScript(keep))
<1> DEFINE l == LOCK  i == INITIALIZE  c == CHECK  p == Write(STP)
<1>1. /\ l \in Step /\ i \in Step /\ c \in Step /\ p \in Step
      /\ l.do = "lock" /\ i.do = "initialize"
      /\ \A keep \in BOOLEAN : Drain(keep) \in Step
  <2>1. p \in Step
    BY StepKinds, Reports
  <2> QED
    BY <2>1 DEF LOCK, INITIALIZE, CHECK, Drain, Step
<1>2. ASSUME NEW keep \in BOOLEAN
      PROVE  /\ (<<l>> \o <<i>>) \o <<c, Drain(keep), p>> = FlushScript(keep)
             /\ Greets(FlushScript(keep)) /\ Mends(FlushScript(keep))
             /\ Polite(FlushScript(keep))
  <2> DEFINE d == Drain(keep)  s == <<l, i, c, d, p>>  u == <<i, c, d, p>>  v == <<c, d, p>>
  <2>1. d \in Step /\ s = FlushScript(keep)
    BY <1>1 DEF FlushScript
  <2> HIDE DEF l, i, c, p, d
  <2>2. /\ v \in Seq(Step) /\ <<l>> \in Seq(Step) /\ <<i>> \in Seq(Step)
        /\ u \in Seq(Step) /\ u # <<>> /\ Head(u) = i /\ Tail(u) = v
        /\ s \in Seq(Step) /\ s # <<>> /\ Head(s) = l /\ Tail(s) = u
        /\ s[1] = l /\ s[2] = i
    BY <1>1, <2>1
  <2> HIDE DEF s, u, v
  <2>3. <<i>> \o v = u /\ <<l>> \o u = s
    BY <2>2, FirstStep
  <2>4. (<<l>> \o <<i>>) \o v = s
    <3> DEFINE ll == <<l>>  ii == <<i>>
    <3>1. ll \in Seq(Step) /\ ii \in Seq(Step) /\ v \in Seq(Step)
      BY <2>2
    <3> HIDE DEF ll, ii
    <3>2. (ll \o ii) \o v = ll \o (ii \o v)
      BY <3>1, ConcatAssociative
    <3> QED
      BY <2>3, <3>2 DEF ll, ii
  <2>5. ASSUME NEW n \in DOMAIN s, Needy(s[n])
        PROVE  2 \in 1..(n - 1)
    <3>1. n \in Nat \ {0} /\ n # 1 /\ n # 2
      BY <1>1, <2>2, <2>5 DEF Needy
    <3> QED
      BY <3>1
  <2>6. Greets(s)
    BY <1>1, <2>2, <2>5 DEF Greets
  <2>7. Mends(s)
    <3>1. \A n \in DOMAIN s : \A k : ~Clears(s[n], k) /\ ~Drops(s[n], k)
      BY <2>1, FlushClearsNothing
    <3> QED
      BY <3>1, Harmless
  <2>8. Polite(s)
    <3>1. \A n \in DOMAIN s : s[n] \in {l, i, c, d, p}
      BY DEF s
    <3>2. d.do = "drain" /\ c.do = "check" /\ p.do = "write" /\ p.report.op = "STP"
      BY StepKinds, Reports DEF d, Drain, c, CHECK, p
    <3> QED
      BY <1>1, <2>1, <3>1, <3>2 DEF Polite, Discreet
  <2> QED
    BY <2>1, <2>4, <2>6, <2>7, <2>8 DEF v, d
<1>3. flush = (<<l>> \o <<i>>) \o <<c, Drain(FALSE), p>>
  BY DEF flush, initialize
<1>4. Flush = (<<l>> \o <<i>>) \o <<c, Drain(TRUE), p>>
  BY DEF Flush, Initialize
<1> QED
  BY <1>2, <1>3, <1>4


\* Whatever the public operations are called with, keys of the device or, for
\* clear_button_image, 0xFF: their steps greet the panel first, take a key that
\* they clear out of the cache too, and take none out that they have not cleared,
\* in both implementations: what the theorems above ask of the calls.
THEOREM ApiIsCareful ==
  ASSUME NEW c \in ApiCalls, NEW s, s \in {RustScript(c), GoScript(c)}
  PROVE  /\ Greets(s) /\ Mends(s)
         /\ Polite(s)
         /\ c.op \in {"clear_all_button_images", "reset"} => Wipes(s)
         /\ c.op = "flush" => \E keep \in BOOLEAN : s = FlushScript(keep)
         /\ c.op = "write_image" => \A n \in DOMAIN s : s[n] \in Drawn
<1>1. CASE c.op = "flush"
  <2>1. RustScript(c) = flush /\ GoScript(c) = Flush
    BY <1>1, Zenon DEF RustScript, GoScript
  <2> QED
    BY <1>1, <2>1, FlushingCall
<1>2. CASE c.op # "flush"
  <2>0. s = GoScript(c)
    BY <1>2, SameSteps
  <2>1. CASE c.op = "clear_all_button_images"
    <3>1. s = ClearAllButtonImages
      BY <2>0, <2>1, Zenon DEF GoScript
    <3> QED
      BY <2>1, <3>1, ClearingAllCall
  <2>2. CASE c.op = "reset"
    <3>1. s = Reset
      BY <2>0, <2>2, Zenon DEF GoScript
    <3> QED
      BY <2>2, <3>1, ResettingCall
  <2>3. CASE c.op = "clear_button_image"
    <3>1. s = ClearButtonImage(c.key) /\ c.key \in Key \cup {AllKeys}
      BY <2>0, <2>3 DEF GoScript, ApiCalls
    <3> QED
      BY <2>3, <3>1, ClearingCall, ClearingEveryKey
  <2>4. CASE c.op \in {"write_image", "set_button_image"}
    <3>1. c.key \in Key /\ c.img \in Image
      BY <2>4 DEF ApiCalls
    <3>2. c.op = "write_image" => s = WriteImage(c.key, c.img)
      BY <2>0, Zenon DEF GoScript
    <3>3. c.op = "set_button_image" => s = SetButtonImage(c.key, c.img)
      BY <2>0, Zenon DEF GoScript
    <3> QED
      BY <2>4, <3>1, <3>2, <3>3, DrawingCall
  <2>5. CASE c.op = "set_mode"
    <3>1. s = SetMode(c.mode) /\ c.mode \in 0..255
      BY <2>0, <2>5 DEF GoScript, ApiCalls
    <3> QED
      BY <2>5, <3>1, ModeCall
  <2>6. CASE c.op = "shutdown"
    <3>1. s = Shutdown
      BY <2>0, <2>6, Zenon DEF GoScript
    <3> QED
      BY <2>6, <3>1, ShuttingCall
  <2>7. CASE c.op \in {"set_led_colors", "sleep", "keep_alive", "set_brightness",
                       "set_led_brightness"}
    <3>1. PICK r \in Command : r.op \notin {"CLE", "DIS"} /\ s = <<INITIALIZE>> \o <<Write(r)>>
      <4>1. /\ c.op = "set_led_colors" => s = <<INITIALIZE>> \o <<Write(Cmd("SETLB", 0))>>
            /\ c.op = "sleep" => s = <<INITIALIZE>> \o <<Write(Cmd("HAN", 0))>>
            /\ c.op = "keep_alive" => s = <<INITIALIZE>> \o <<Write(Cmd("CONNECT", 0))>>
        <5>1. c.op = "set_led_colors" => s = SetLEDColors
          BY <2>0, Zenon DEF GoScript
        <5>2. c.op = "sleep" => s = Sleep
          BY <2>0, Zenon DEF GoScript
        <5>3. c.op = "keep_alive" => s = KeepAlive
          BY <2>0, Zenon DEF GoScript
        <5> QED
          BY <5>1, <5>2, <5>3, Zenon DEF SetLEDColors, Sleep, KeepAlive, Initialize
      <4>2. /\ c.op = "set_brightness" =>
                 s = <<INITIALIZE>> \o <<Write(Cmd("LIG", Clamp100(c.percent)))>>
            /\ c.op = "set_led_brightness" =>
                 s = <<INITIALIZE>> \o <<Write(Cmd("LBLIG", Clamp100(c.percent)))>>
        <5>1. c.op = "set_brightness" => s = SetBrightness(c.percent)
          BY <2>0, Zenon DEF GoScript
        <5>2. c.op = "set_led_brightness" => s = SetLEDBrightness(c.percent)
          BY <2>0, Zenon DEF GoScript
        <5> QED
          BY <5>1, <5>2, Zenon DEF SetBrightness, SetLEDBrightness, Initialize
      <4>3. c.op \in {"set_brightness", "set_led_brightness"} => Clamp100(c.percent) \in 0..255
        BY DEF ApiCalls, Clamp100
      <4>4. ASSUME NEW a \in 0..255, NEW op \in {"SETLB", "HAN", "CONNECT", "LIG", "LBLIG"},
                   s = <<INITIALIZE>> \o <<Write(Cmd(op, a))>>
            PROVE  \E r \in Command : r.op \notin {"CLE", "DIS"} /\ s = <<INITIALIZE>> \o <<Write(r)>>
        <5>1. Cmd(op, a) \in Command /\ Cmd(op, a).op \notin {"CLE", "DIS"}
          BY DEF Cmd, Command, Opcode
        <5> QED
          BY <4>4, <5>1
      <4>5. CASE c.op \in {"set_led_colors", "sleep", "keep_alive"}
        <5>1. 0 \in 0..255
          OBVIOUS
        <5> QED
          BY <4>1, <4>4, <4>5, <5>1
      <4>6. CASE c.op \in {"set_brightness", "set_led_brightness"}
        BY <4>2, <4>3, <4>4, <4>6
      <4> QED
        BY <2>7, <4>5, <4>6
    <3> QED
      BY <2>7, <3>1, SettingCall
  <2> QED
    BY <1>2, <2>1, <2>2, <2>3, <2>4, <2>5, <2>6, <2>7 DEF ApiCalls
<1> QED
  BY <1>1, <1>2

\* A single task that makes public calls finds the panel greeted once, and
\* before anything but set_mode; no command taken for image data; the cache and
\* the panel agreeing between its calls, but for images that were waiting when it
\* cleared key 0xFF, which stay; its images on display after a flush, and the keys
\* dark after clear_all_button_images.
THEOREM AloneAllIsWell ==
  ASSUME OneTask, ThroughTheApi
  PROVE  Spec => [](/\ HandshakeOnce /\ GreetedFirst
                    /\ Undisturbed => CommandsUnderstood
                    /\ CacheOrPanel /\ FlushShowsImages /\ ClearAllBlanks)
<1>1. \A c \in Calls : /\ Greets(Script(c)) /\ Mends(Script(c))
                       /\ c.op \in {"clear_all_button_images", "reset"} => Wipes(Script(c))
                       /\ c.op = "flush" => \E keep \in BOOLEAN : Script(c) = FlushScript(keep)
  BY ApiIsCareful DEF ThroughTheApi
<1>2. Careful
  BY <1>1 DEF Careful
<1>3. Flushes
  BY <1>1 DEF Flushes, Keeps
<1>4. Spec => []GreetedFirst
  BY <1>1, GreetsBeforeAll
<1>5. Spec => []CacheOrPanel
  BY <1>2, CacheAndPanelAgree
<1>6. Spec => []FlushShowsImages
  BY <1>2, <1>3, FlushedImagesShow
<1>7. Spec => []ClearAllBlanks
  BY <1>1, ClearingAllDarkens
<1>8. Spec => []HandshakeOnce
  <2>1. OtherwiseOnly(Discreet)
    BY ApiIsCareful DEF ThroughTheApi, OtherwiseOnly, Polite
  <2> QED
    BY <2>1, WokenOnce
<1>9. Spec => [](Undisturbed => CommandsUnderstood)
  BY NothingIsSwallowed
<1> QED
  BY <1>4, <1>5, <1>6, <1>7, <1>8, <1>9, PTL


\* Any number of tasks that only write images and flush: the panel is greeted
\* once and takes no command for image data, cache and panel agree whenever no
\* call is under way, a flush's images show, and each flush is one step of the
\* double buffer.
THEOREM TogetherTheyDraw ==
  ASSUME ThroughTheApi, \A c \in Calls : c.op \in {"write_image", "flush"}
  PROVE  /\ Spec => [](/\ HandshakeOnce
                       /\ Undisturbed => CommandsUnderstood
                       /\ CacheOrPanel /\ FlushShowsImages)
         /\ Spec /\ []Undisturbed => FlushIsAtomic
<1>1. \A c \in Calls : c.op = "flush" => \E keep \in BOOLEAN : Script(c) = FlushScript(keep)
  BY ApiIsCareful DEF ThroughTheApi
<1>2. OtherwiseOnly(Drawn)
  <2> SUFFICES ASSUME NEW c \in Calls, Plain(Script(c)), NEW n \in DOMAIN Script(c)
               PROVE  Script(c)[n] \in Drawn
    BY DEF OtherwiseOnly
  <2>1. CASE c.op = "write_image"
    BY <2>1, ApiIsCareful DEF ThroughTheApi
  <2>2. CASE c.op = "flush"
    <3>1. PICK keep \in BOOLEAN : Script(c) = FlushScript(keep)
      BY <1>1, <2>2
    <3>2. 1 \in DOMAIN FlushScript(keep) /\ FlushScript(keep)[1] = LOCK
      BY DEF FlushScript
    <3>3. LOCK.do = "lock"
      BY DEF LOCK
    <3>4. Script(c)[1].do \notin {"lock", "check", "drain"}
      BY <3>1, <3>2 DEF Plain
    <3> QED
      BY <3>1, <3>2, <3>3, <3>4
  <2> QED
    BY <2>1, <2>2
<1>3. OtherwiseOnly(Silent) /\ OtherwiseOnly(Ungreeted) /\ OtherwiseOnly(Discreet)
  BY <1>2 DEF OtherwiseOnly, Drawn, Silent, Ungreeted, Discreet
<1>4. Careful /\ Flushes
  BY <1>1, <1>2 DEF Careful, Flushes, Keeps
<1>5. Spec => []HandshakeOnce
  BY <1>3, WokenOnce
<1>6. Spec => [](Undisturbed => CommandsUnderstood)
  BY <1>3, NothingIsSwallowed
<1>7. Spec => []CacheOrPanel
  BY <1>4, CacheAndPanelAgree
<1>8. Spec => []FlushShowsImages
  BY <1>4, FlushedImagesShow
<1>9. Spec /\ []Undisturbed => FlushIsAtomic
  BY <1>2, FlushesAreAtomic
<1> QED
  BY <1>5, <1>6, <1>7, <1>8, <1>9, PTL
=============================================================================
