-------------------------------- MODULE Device --------------------------------
(***************************************************************************)
(* One device handle shared by several tasks (Rust) or goroutines (Go).    *)
(* Each task makes one call at a time; a call is the sequence of steps its *)
(* operation is made of (RustOps, GoOps), and the steps of different tasks *)
(* interleave.  What the tasks share: the `initialized' flag, the image    *)
(* cache behind its mutex, and the wire.                                   *)
(*                                                                         *)
(* A report is written under the writer mutex, which is held for that one  *)
(* report only, so a write is one atomic step here.  A cache operation     *)
(* outside flush holds the cache mutex for that one operation; flush holds *)
(* it from its first line to its last, across every report it sends.       *)
(***************************************************************************)
EXTENDS Panel

CONSTANTS
  Task,         \* tasks or goroutines that use the handle
  Free,         \* "nobody holds the cache mutex"
  Idle,         \* "not in a call"
  Calls,        \* the calls the tasks may make
  Script(_),    \* RustScript or GoScript
  MaxFaults,    \* bound: writes that fail
  MaxCancels    \* bound: calls dropped half way (Rust futures; 0 for Go)

FlushScript(keep) == <<LOCK, INITIALIZE, CHECK, Drain(keep), Write(STP)>>

\* How the flushes among the calls drain the cache.
Keeps == {keep \in BOOLEAN : \E c \in Calls : Script(c) = FlushScript(keep)}

Plain(script) ==
  \A n \in DOMAIN script : script[n].do \notin {"lock", "check", "drain"}

\* The mutex is kept across steps by flush alone, and flush has one shape.
ASSUME DeviceAssumption ==
  /\ Free \notin Task
  /\ Idle \notin Calls
  /\ \A c \in Calls :
       /\ Script(c) \in Seq(Step)
       /\ Plain(Script(c)) \/ \E keep \in Keeps : Script(c) = FlushScript(keep)
  /\ MaxFaults \in Nat
  /\ MaxCancels \in Nat

VARIABLES
  initialized,   \* Device.initialized, the atomic flag
  cache,         \* Device.image_cache: the image waiting for each key
  lock,          \* the flush that holds the cache mutex, or Free
  call,          \* call[t]: the call task t is in
  todo,          \* todo[t]: the steps of that call still to run
  greeting,      \* greeting[t]: how far t is inside initialize
  job,           \* job[t]: the image t's flush is sending
  panel,         \* the device
  faults, cancels,
  \* History, read by no action:
  stream,        \* the last image report on the wire, and its writer
  fate,          \* fate[k]: what became of the last image written for k
  intent,        \* intent[k]: what the application last asked key k to show
  late           \* late[t]: t's call began with the flag already set

code    == <<initialized, cache, lock, call, todo, greeting, job>>
bounds  == <<faults, cancels>>
history == <<stream, fate, intent, late>>
vars    == <<code, panel, bounds, history>>

-----------------------------------------------------------------------------
\* reports of the image still to be written: the header, then the chunks
Job    == [key : 0..255, img : Image \cup {NoImage}, left : Nat]
NoJob  == [key |-> AllKeys, img |-> NoImage, left |-> 0]
Begun(t) == job[t].left > 0 /\ job[t].left <= Chunks[job[t].img]

\* The last image report: who wrote it, for which key and image, how many follow.
Mark        == [by : Task, key : 0..255, img : Image, left : Nat]
NothingSent == [by |-> Free, key |-> AllKeys, img |-> NoImage, left |-> 0]

EmptyCache == [k \in Key |-> NoImage]
Cached     == {k \in Key : cache[k] # NoImage}

\* Types: the shared state of src/device.rs:196-202 (the flag, the cache and its
\* mutex), where each task is in its call, and the history.
TypeOK ==
  /\ initialized \in BOOLEAN
  /\ cache \in [Key -> Image \cup {NoImage}]
  /\ lock \in Task \cup {Free}
  /\ call \in [Task -> Calls \cup {Idle}]
  /\ todo \in [Task -> Seq(Step)]
  /\ greeting \in [Task -> 0..3]
  /\ job \in [Task -> Job]
  /\ panel \in PanelState
  /\ faults \in 0..MaxFaults
  /\ cancels \in 0..MaxCancels
  /\ stream \in Mark \cup {NothingSent}
  /\ fate \in [Key -> {"settled", "queued", "sent"}]
  /\ intent \in [Key -> Face]
  /\ late \in [Task -> BOOLEAN]

Init ==
  /\ initialized = FALSE
  /\ cache = EmptyCache
  /\ lock = Free
  /\ call = [t \in Task |-> Idle]
  /\ todo = [t \in Task |-> <<>>]
  /\ greeting = [t \in Task |-> 0]
  /\ job = [t \in Task |-> NoJob]
  /\ panel = PanelInit
  /\ faults = 0
  /\ cancels = 0
  /\ stream = NothingSent
  /\ fate = [k \in Key |-> "settled"]
  /\ intent = [k \in Key |-> Factory]
  /\ late = [t \in Task |-> FALSE]

-----------------------------------------------------------------------------
At(t, what) == todo[t] # <<>> /\ Head(todo[t]).do = what
Pop(t)      == todo' = [todo EXCEPT ![t] = Tail(@)]

Begin(t) ==
  /\ call[t] = Idle
  /\ \E c \in Calls : /\ call' = [call EXCEPT ![t] = c]
                      /\ todo' = [todo EXCEPT ![t] = Script(c)]
  /\ late' = [late EXCEPT ![t] = initialized]
  /\ UNCHANGED <<initialized, cache, lock, greeting, job, panel, bounds,
                 stream, fate, intent>>

\* Faulty variant of Leave: an early return forgets the mutex.
LeaveLocked(t) ==
  /\ call' = [call EXCEPT ![t] = Idle]
  /\ todo' = [todo EXCEPT ![t] = <<>>]
  /\ greeting' = [greeting EXCEPT ![t] = 0]
  /\ job' = [job EXCEPT ![t] = NoJob]
  /\ lock' = lock

\* The call is over; the mutex guard, if the call has it, is dropped.
Leave(t) ==
  /\ call' = [call EXCEPT ![t] = Idle]
  /\ todo' = [todo EXCEPT ![t] = <<>>]
  /\ greeting' = [greeting EXCEPT ![t] = 0]
  /\ job' = [job EXCEPT ![t] = NoJob]
  /\ lock' = IF lock = t THEN Free ELSE lock

Return(t) ==
  /\ call[t] # Idle
  /\ todo[t] = <<>>
  /\ Leave(t)
  /\ UNCHANGED <<initialized, cache, panel, bounds, history>>

(***************************************************************************)
(* initialize: the flag is loaded, then stored, then the two reports of    *)
(* the handshake are written.                                              *)
(***************************************************************************)
\* Faulty variant of InitLoad: the flag is not looked at.
InitLoadBlind(t) ==
  /\ At(t, "initialize")
  /\ greeting[t] = 0
  /\ greeting' = [greeting EXCEPT ![t] = 1]
  /\ UNCHANGED <<initialized, cache, lock, call, todo, job, panel, bounds, history>>

InitLoad(t) ==
  /\ At(t, "initialize")
  /\ greeting[t] = 0
  /\ IF initialized
     THEN Pop(t) /\ UNCHANGED greeting
     ELSE greeting' = [greeting EXCEPT ![t] = 1] /\ UNCHANGED todo
  /\ UNCHANGED <<initialized, cache, lock, call, job, panel, bounds, history>>

\* Faulty variant of InitStore: the flag is never set.
InitStoreForgotten(t) ==
  /\ greeting[t] = 1
  /\ greeting' = [greeting EXCEPT ![t] = 2]
  /\ UNCHANGED <<initialized, cache, lock, call, todo, job, panel, bounds, history>>

InitStore(t) ==
  /\ greeting[t] = 1
  /\ initialized' = TRUE
  /\ greeting' = [greeting EXCEPT ![t] = 2]
  /\ UNCHANGED <<cache, lock, call, todo, job, panel, bounds, history>>

InitDis(t) ==
  /\ greeting[t] = 2
  /\ panel' = Deliver(panel, Cmd("DIS", 0))
  /\ greeting' = [greeting EXCEPT ![t] = 3]
  /\ UNCHANGED <<initialized, cache, lock, call, todo, job, bounds, history>>

InitLig(t) ==
  /\ greeting[t] = 3
  /\ panel' = Deliver(panel, Cmd("LIG", 0))
  /\ greeting' = [greeting EXCEPT ![t] = 0]
  /\ Pop(t)
  /\ UNCHANGED <<initialized, cache, lock, call, job, bounds, history>>

(***************************************************************************)
(* One command report.  STP commits the images sent so far.  CLE asks for  *)
(* a blank key; for all keys at once, only for those that have no image    *)
(* waiting: such an image stays in the cache, and the next flush shows it. *)
(***************************************************************************)
Blanks(r, k) == r.op = "CLE" /\ (r.arg = k + 1 \/ (r.arg = 255 /\ cache[k] = NoImage))

WriteReport(t) ==
  /\ At(t, "write")
  /\ LET r == Head(todo[t]).report
     IN  /\ panel' = Deliver(panel, r)
         /\ fate' = IF r.op = "STP"
                    THEN [k \in Key |-> IF fate[k] = "sent" THEN "settled"
                                                            ELSE fate[k]]
                    ELSE fate
         /\ intent' = [k \in Key |-> IF Blanks(r, k) THEN Blank ELSE intent[k]]
  /\ Pop(t)
  /\ UNCHANGED <<initialized, cache, lock, call, greeting, job, bounds, stream, late>>

(***************************************************************************)
(* The cache outside flush: take the mutex, change one thing, release it.  *)
(***************************************************************************)
\* Faulty variant of InsertImage: the cache is written without its mutex.
InsertUnlocked(t) ==
  /\ At(t, "insert")
  /\ LET s == Head(todo[t])
     IN  /\ cache'  = [cache  EXCEPT ![s.key] = s.img]
         /\ fate'   = [fate   EXCEPT ![s.key] = "queued"]
         /\ intent' = [intent EXCEPT ![s.key] = s.img]
  /\ Pop(t)
  /\ UNCHANGED <<initialized, lock, call, greeting, job, panel, bounds,
                 stream, late>>

\* Faulty variant of InsertImage: the cache has the key byte of the wire.
InsertAtWireKey(t) ==
  /\ At(t, "insert")
  /\ lock = Free
  /\ LET s == Head(todo[t])
     IN  /\ cache'  = [k \in DOMAIN cache \cup {s.key + 1} |->
                         IF k = s.key + 1 THEN s.img ELSE cache[k]]
         /\ fate'   = [fate   EXCEPT ![s.key] = "queued"]
         /\ intent' = [intent EXCEPT ![s.key] = s.img]
  /\ Pop(t)
  /\ UNCHANGED <<initialized, lock, call, greeting, job, panel, bounds,
                 stream, late>>

InsertImage(t) ==
  /\ At(t, "insert")
  /\ lock = Free
  /\ LET s == Head(todo[t])
     IN  /\ cache'  = [cache  EXCEPT ![s.key] = s.img]
         /\ fate'   = [fate   EXCEPT ![s.key] = "queued"]
         /\ intent' = [intent EXCEPT ![s.key] = s.img]
  /\ Pop(t)
  /\ UNCHANGED <<initialized, lock, call, greeting, job, panel, bounds,
                 stream, late>>

\* Removing AllKeys, an argument of clear_button_image, removes nothing.
RemoveImage(t) ==
  /\ At(t, "remove")
  /\ lock = Free
  /\ LET gone == {Head(todo[t]).key}
     IN  /\ cache'  = [k \in Key |-> IF k \in gone THEN NoImage   ELSE cache[k]]
         /\ fate'   = [k \in Key |-> IF k \in gone THEN "settled" ELSE fate[k]]
  /\ Pop(t)
  /\ UNCHANGED <<initialized, lock, call, greeting, job, panel, bounds,
                 stream, intent, late>>

\* clear_all_button_images asks for blank keys, waiting image or not.
ClearCache(t) ==
  /\ At(t, "empty")
  /\ lock = Free
  /\ cache' = EmptyCache
  /\ fate' = [k \in Key |-> "settled"]
  /\ intent' = [k \in Key |-> Blank]
  /\ Pop(t)
  /\ UNCHANGED <<initialized, lock, call, greeting, job, panel, bounds,
                 stream, late>>

(***************************************************************************)
(* flush.                                                                  *)
(***************************************************************************)
\* Faulty variant of LockCache: two flushes at a time.
LockShared(t) ==
  /\ At(t, "lock")
  /\ lock' = t
  /\ Pop(t)
  /\ UNCHANGED <<initialized, cache, call, greeting, job, panel, bounds, history>>

LockCache(t) ==
  /\ At(t, "lock")
  /\ lock = Free
  /\ lock' = t
  /\ Pop(t)
  /\ UNCHANGED <<initialized, cache, call, greeting, job, panel, bounds, history>>

\* Faulty variant of CheckEmpty: the test is inverted.
CheckFull(t) ==
  /\ At(t, "check")
  /\ IF Cached # {} THEN todo' = [todo EXCEPT ![t] = <<>>] ELSE Pop(t)
  /\ UNCHANGED <<initialized, cache, lock, call, greeting, job, panel, bounds,
                 history>>

CheckEmpty(t) ==
  /\ At(t, "check")
  /\ IF Cached = {} THEN todo' = [todo EXCEPT ![t] = <<>>] ELSE Pop(t)
  /\ UNCHANGED <<initialized, cache, lock, call, greeting, job, panel, bounds,
                 history>>

\* The next entry of the map, in whatever order it iterates.
TakeImage(t) ==
  /\ At(t, "drain")
  /\ job[t].left = 0
  /\ \E k \in Cached :
       /\ job' = [job EXCEPT ![t] = [key |-> k, img |-> cache[k],
                                     left |-> Chunks[cache[k]] + 1]]
       /\ cache' = IF Head(todo[t]).keep THEN cache
                                         ELSE [cache EXCEPT ![k] = NoImage]
  /\ UNCHANGED <<initialized, lock, call, todo, greeting, panel, bounds, history>>

\* send_image: the header announcing the image, then its chunks one by one.
JobReport(t) ==
  IF Begun(t) THEN Data(job[t].img) ELSE Bat(job[t].key, job[t].img)

SendImageReport(t) ==
  /\ At(t, "drain")
  /\ job[t].left > 0
  /\ LET j    == job[t]
         done == j.left = 1
     IN  /\ panel' = Deliver(panel, JobReport(t))
         /\ job' = [job EXCEPT ![t] = IF done THEN NoJob ELSE [j EXCEPT !.left = @ - 1]]
         /\ cache' = IF done /\ Head(todo[t]).keep
                     THEN [cache EXCEPT ![j.key] = NoImage]
                     ELSE cache
         /\ fate' = IF done THEN [fate EXCEPT ![j.key] = "sent"] ELSE fate
         /\ stream' = [by |-> t, key |-> j.key, img |-> j.img, left |-> j.left - 1]
  /\ UNCHANGED <<initialized, lock, call, todo, greeting, bounds, intent, late>>

\* Faulty variant of DrainDone: the loop may stop before the cache is empty.
DrainStops(t) ==
  /\ At(t, "drain")
  /\ job[t].left = 0
  /\ Pop(t)
  /\ UNCHANGED <<initialized, cache, lock, call, greeting, job, panel, bounds,
                 history>>

DrainDone(t) ==
  /\ At(t, "drain")
  /\ job[t].left = 0
  /\ Cached = {}
  /\ Pop(t)
  /\ UNCHANGED <<initialized, cache, lock, call, greeting, job, panel, bounds,
                 history>>

(***************************************************************************)
(* Ways for a call to end early.  The `initialized' flag stays as it is,   *)
(* and so does everything already on the wire.  A Rust flush loses what it *)
(* had still to send: dropping the iterator of cache.drain() empties the   *)
(* map.                                                                    *)
(***************************************************************************)
Abort(t) ==
  /\ Leave(t)
  /\ cache' = IF At(t, "drain") /\ ~Head(todo[t]).keep THEN EmptyCache ELSE cache
  /\ UNCHANGED <<initialized, panel, history>>

AtWrite(t) == greeting[t] \in {2, 3} \/ At(t, "write") \/ job[t].left > 0

\* The encoder reports an error.
ConvertImage(t) ==
  /\ At(t, "convert")
  /\ \/ /\ Pop(t)
        /\ UNCHANGED <<initialized, cache, lock, call, greeting, job, panel, history>>
     \/ Abort(t)
  /\ UNCHANGED bounds

\* The backend reports an error for a report, which is then not sent.
FailWrite(t) ==
  /\ AtWrite(t)
  /\ faults < MaxFaults
  /\ faults' = faults + 1
  /\ Abort(t)
  /\ UNCHANGED cancels

\* A future can be dropped wherever it awaits: a write, or the cache mutex.
Cancel(t) ==
  /\ AtWrite(t) \/ \E what \in {"lock", "insert", "remove", "empty"} : At(t, what)
  /\ cancels < MaxCancels
  /\ cancels' = cancels + 1
  /\ Abort(t)
  /\ UNCHANGED faults

-----------------------------------------------------------------------------
\* Steps that wait for the cache mutex, and steps that wait for nobody.
Acquire(t) == InsertImage(t) \/ RemoveImage(t) \/ ClearCache(t) \/ LockCache(t)

Advance(t) ==
  \/ InitLoad(t) \/ InitStore(t) \/ InitDis(t) \/ InitLig(t)
  \/ WriteReport(t)
  \/ ConvertImage(t)
  \/ CheckEmpty(t) \/ TakeImage(t) \/ SendImageReport(t) \/ DrainDone(t)
  \/ Return(t)

Next ==
  \E t \in Task : Begin(t) \/ Acquire(t) \/ Advance(t) \/ FailWrite(t) \/ Cancel(t)

Spec == Init /\ [][Next]_vars

(***************************************************************************)
(* A task that can run does run, and the backend answers every write.  A   *)
(* task waiting for the cache mutex gets it sooner or later however often  *)
(* others take it first: tokio's mutex is first come, first served, and    *)
(* Go's hands itself over to a waiter that has starved for a millisecond.  *)
(* Nothing makes an application call, a write fail or a future be dropped. *)
(***************************************************************************)
Fairness == \A t \in Task : WF_vars(Advance(t)) /\ SF_vars(Acquire(t))

FairSpec == Spec /\ Fairness
=============================================================================
