--------------------------- MODULE DeviceProperties ---------------------------
(***************************************************************************)
(* What the handle promises, and what its comments say of it.              *)
(***************************************************************************)
EXTENDS Device, RustOps, GoOps

Undisturbed == faults = 0 /\ cancels = 0
Quiet       == \A t \in Task : call[t] = Idle

\* t's call has done everything and is about to return success
Succeeding(t)  == call[t] # Idle /\ todo[t] = <<>>
In(t, op)      == call[t] # Idle /\ call[t].op = op

-----------------------------------------------------------------------------
(* Any number of tasks.                                                    *)

\* Between the header of an image and its last chunk no other image's header
\* or chunk is written: the chunks carry no key, so two flushes may not
\* interleave (src/device.rs:565, goport/internal/mirajazz/device.go:349).
TransferIntact ==
  \A t \in Task : Begun(t) =>
    stream = [by |-> t, key |-> job[t].key, img |-> job[t].img, left |-> job[t].left]

\* A flush that returns success leaves no image behind, in the cache or sent
\* but not committed, unless some call has failed or was dropped before
\* (src/device.rs:563-581, goport/internal/mirajazz/device.go:346-368).
FlushPublishes ==
  Undisturbed => \A t \in Task : lock = t /\ Succeeding(t) =>
                   \A k \in Key : fate[k] = "settled"

\* Go: an image stays in the cache until it has been sent whole, whatever
\* write fails on the way, so that another flush can send it
\* (goport/internal/mirajazz/device.go:359-364).
NothingLost == \A k \in Key : fate[k] = "queued" => cache[k] # NoImage

\* Only calls that were already running when the flag was first set can send
\* a handshake: the damage of the unguarded test-and-set is over with them
\* (src/device.rs:347-351, goport/internal/mirajazz/device.go:165-168).
OnlyRacersGreet == \A t \in Task : greeting[t] # 0 => ~late[t]

\* The panel is woken once: initialize is "the one-time wake-up handshake"
\* (goport/internal/mirajazz/device.go:159).  It is when only calls that hold
\* the cache mutex initialize the device.
HandshakeOnce == panel.greetings <= 1

\* No command is sent while the panel takes reports as image data: with nobody
\* but flush writing, the cache mutex keeps STP and the handshake out of the
\* reports of an image (src/device.rs:565-578).
CommandsUnderstood == ~panel.swallowed

\* Seen from outside, write_image draws on a hidden frame and flush shows it
\* in one step, from whichever task.  A key's hidden face is the image that
\* waits in the cache, or the one being sent, or what the panel was told
\* (src/device.rs:450-459 and 563-581).
Frame ==
  [k \in Key |-> IF cache[k] # NoImage THEN cache[k]
                 ELSE IF \E t \in Task : job[t].left > 0 /\ job[t].key = k
                      THEN job[CHOOSE t \in Task : job[t].left > 0].img
                      ELSE panel.next[k]]

Buffered == INSTANCE DoubleBuffer WITH frame <- Frame, shown <- panel.shown

FlushIsAtomic == Buffered!Spec

\* Every call returns, however often others hold the cache mutex first: flush
\* keeps it across every report it writes (src/device.rs:565).
CallsReturn == \A t \in Task : (call[t] # Idle) ~> (call[t] = Idle)

\* An image that is in the cache when a flush has been called is committed,
\* by that flush or by another (src/device.rs:569-578).
FlushCommits ==
  \A t \in Task, k \in Key :
    (In(t, "flush") /\ fate[k] = "queued") ~> (fate[k] = "settled")

-----------------------------------------------------------------------------
(* Why it holds: the part of the state that the proofs carry along.        *)

\* What may be left to do for the flush that holds the mutex.
FlushRest(keep) ==
  { <<INITIALIZE, CHECK, Drain(keep), Write(STP)>>,
    <<CHECK, Drain(keep), Write(STP)>>,
    <<Drain(keep), Write(STP)>>,
    <<Write(STP)>>,
    <<>> }

\* Whoever holds the mutex is past the first line of flush; nobody else is.
CallShape(t) ==
  /\ IF lock = t
     THEN \E keep \in Keeps : todo[t] \in FlushRest(keep)
     ELSE Plain(todo[t]) \/ \E keep \in Keeps : todo[t] = FlushScript(keep)
  /\ call[t] = Idle => lock # t /\ todo[t] = <<>>

\* The handshake is sent from inside initialize.
GreetingShape(t) == greeting[t] > 0 => At(t, "initialize")

\* Images are sent by the holder of the mutex, from its loop.
JobShape(t) ==
  job[t].left > 0 =>
    /\ lock = t
    /\ At(t, "drain")
    /\ job[t].key \in Key
    /\ job[t].img \in Image
    /\ job[t].left <= Chunks[job[t].img] + 1

\* The mutex is held by a flush that is past its first line and by nobody
\* else, and only its holder sends images: the invariant from which the
\* others follow (src/device.rs:565, goport/internal/mirajazz/device.go:349).
LockedFlush == \A t \in Task : CallShape(t) /\ GreetingShape(t) /\ JobShape(t)

\* A written image is in the cache or under way; what was sent waits for the
\* STP of the flush that sent it; that flush has left nothing in the cache
\* (the loop and the STP under one mutex, src/device.rs:565-578).
Publishing ==
  Undisturbed =>
    /\ \A k \in Key : fate[k] = "queued" =>
         cache[k] # NoImage \/ \E t \in Task : job[t].left > 0 /\ job[t].key = k
    /\ \A k \in Key : fate[k] = "sent" =>
         lock \in Task /\ (At(lock, "drain") \/ At(lock, "write"))
    /\ \A t \in Task : lock = t /\ (todo[t] = <<>> \/ At(t, "write")) => Cached = {}

-----------------------------------------------------------------------------
(* One task at a time.                                                     *)

\* The cache and the panel's next frame together hold what was last asked for
\* each key: a replaced image is not sent, and one that was cleared, by its key
\* or by clear_all_button_images, does not come back.  clear_button_image(0xFF)
\* clears the panel only: an image that is waiting goes on waiting
\* (src/device.rs:452-506; goport/internal/mirajazz/device.go:259-278).
CacheOrPanel ==
  Undisturbed /\ Quiet =>
    \A k \in Key : intent[k] = IF cache[k] # NoImage THEN cache[k] ELSE panel.next[k]

\* After a flush every key that was last given an image shows it, and not its
\* neighbour's (key + 1 on the wire, src/device.rs:440; STP, :578).
FlushShowsImages ==
  Undisturbed => \A t \in Task : Succeeding(t) /\ In(t, "flush") =>
    \A k \in Key : intent[k] \in Image => panel.shown[k] = intent[k]

\* After a flush every key that was last cleared is blank: "Visible after
\* [Device.Flush]" (goport/internal/mirajazz/device.go:257-258).
FlushShowsClears ==
  Undisturbed => \A t \in Task : Succeeding(t) /\ In(t, "flush") =>
    \A k \in Key : intent[k] = Blank => panel.shown[k] = Blank

\* A flush that reports success shows every image written so far, also when
\* an earlier flush failed ("Flushes written images", src/device.rs:563).
RetryShowsImages ==
  \A t \in Task : Succeeding(t) /\ In(t, "flush") =>
    \A k \in Key : intent[k] \in Image => panel.shown[k] = intent[k]

\* clear_all_button_images and reset leave a dark panel and nothing to flush,
\* without a flush, on every protocol version (src/device.rs:489-506).
ClearAllBlanks ==
  Undisturbed => \A t \in Task :
    Succeeding(t) /\ (In(t, "clear_all_button_images") \/ In(t, "reset")) =>
      \A k \in Key : panel.shown[k] = Blank /\ panel.next[k] = Blank /\ cache[k] = NoImage

\* With one task, only set_mode writes to a panel that was not greeted yet: DIS
\* comes first, then LIG, also when that is the brightness asked for, and every
\* operation but set_mode initializes the device first (src/device.rs:364-561).
GreetedFirst == Undisturbed => ~panel.early

-----------------------------------------------------------------------------
(* What the theorems about callers ask of the calls.                       *)

\* The public operations, with arguments of the types they take.
ApiCalls ==
       [op : {"reset", "set_led_colors", "clear_all_button_images", "sleep", "keep_alive",
              "shutdown", "flush"}]
  \cup [op : {"set_brightness", "set_led_brightness"}, percent : 0..255]
  \cup [op : {"set_mode"}, mode : 0..255]
  \cup [op : {"clear_button_image"}, key : Key \cup {AllKeys}]
  \cup [op : {"write_image", "set_button_image"}, key : Key, img : Image]

\* Callers use the handle through its public operations only.
ThroughTheApi ==
  \A c \in Calls : c \in ApiCalls /\ Script(c) \in {RustScript(c), GoScript(c)}
=============================================================================
