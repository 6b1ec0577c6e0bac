# mirajazz, modelled in TLA+

This directory holds a TLA+ model of mirajazz: the Rust crate in `src/` that
drives Mirabox and Ajazz "stream controllers" over USB HID, the Go port of
it in `goport/`, and the daemon built on that. Paths and line numbers below are
relative to the root of the repository.

- [The system](#the-system): its parts, their state, how they interact
- [The modules](#the-modules): which one models what, and how to read them
- [The runs](#the-runs): what TLC checks, on which instance, and why it is enough
- [The proofs](#the-proofs): what TLAPS proves, and along which argument
- [Observations](#observations): where code and comments disagree
- [Not modelled](#not-modelled) and [the plan](#the-plan): what is left

## The system

A panel is a grid of keys with a small picture each, and sometimes a few rotary
encoders. The host talks to it in reports of fixed size. On the way out there
is **no acknowledgement**: all the panel ever sees is the order of the reports,
and an image is a header followed by bare data reports that carry no key, no
index and no marker. On the way in there is one report for each press, release
or turn. Almost everything that can go wrong follows from these two facts.

| part | state | operations | talks to |
|---|---|---|---|
| **Device handle** (Rust `src/device.rs`, Go `goport/internal/mirajazz/device.go`) | `initialized` flag (atomic), `image_cache` (mutex), the write half (mutex, held for one report), protocol version, flags | `set_brightness`, `set_led_*`, `set_mode`, `write_image`, `set_button_image`, `clear_*`, `reset`, `sleep`, `keep_alive`, `shutdown`, `flush` | the panel, by reports; other tasks, by the three shared variables |
| **Image framing** (`send_image`, `write_image_data_reports`) | loop counters | announce a length, cut an image into reports | called by `flush` under the cache mutex |
| **Input reader** (`src/state.rs`, Go `state.go`) | the last snapshot of buttons and encoders (mutex), the shared read half (another mutex) | `read`, with or without a timeout; `input_to_updates` | the panel; the application's `process_input` callback |
| **Connecting** (`connect`; `OpenFirst`, `Connect`) | none that stays | find the device (Go), choose protocol version, serial number, packet size | HID backend |
| **Queries** (`check_device`, `Matches`, `MatchesAny`) | none | does an interface match what the application asks for? | called by all that enumerate |
| **Rust watcher** (`DeviceWatcher`) | `initialized`, `connected`, `id_map` | enumerate once, subscribe, then follow hot-plug events, with a query for each device that comes | async-hid; whoever follows its stream |
| **Go watcher** (`hidapi/watcher.go`) | the interfaces known so far | poll, compare, send each difference on an unbuffered channel, stop when `ctx` is done | hidapi; whoever receives |
| **Daemon** (`goport/cmd/ampligame-daemon`) | an event channel of ten, a reader goroutine, one goroutine per webhook | open, light and clear the panel; `processInput`, event loop, shutdown | handle, reader, signals |
| **Image conversion** (`images.rs`, `images.go`) | none | resize, rotate, mirror, encode | called by `set_button_image` |

What makes each correct:

- *Handle*: what a successful `flush` shows is what was drawn; a cleared or
  replaced image does not come back; image reports of two tasks are never
  mixed; nothing but a mode change precedes the handshake; an image is not lost between cache and
  wire; nobody waits for the cache mutex for ever.
- *Connecting*: version, packet size, serial number and flags fit one another.
- *Framing*: no slice past the end of the image; the reports and the announced
  length agree.
- *Reader*: what listeners hear is what is held down; updates alternate;
  no press is invented, none is dropped; a read with a timeout returns.
- *Watchers*: a listener hears news only (connected and disconnected alternate
  for each interface), nothing that was never true, and once devices rest it
  knows which are there.
- *Daemon*: every press is posted exactly once, however full the channel gets; a
  signal ends the process, and with the panel dark.
- *Image conversion*: the bitmap, decoded by the definition of the format and turned
  the way the key is mounted, shows the picture.

What is hard to test here, and what the models are for (the file
`PROJECT.json` lists each hazard with its line):

- tasks that interleave *between reports*: a mutex covers one report, or a
  whole flush, but most operations are several steps with nothing around them;
- a write that fails, or a Rust future that is dropped, in the middle of a call;
- reports taken off the wire under one mutex, compared under another, and updates
  returned under none;
- a timeout that fires just as a report arrives;
- state that is only as good as the application's callback;
- a mutex held across many waits;
- a bus that changes while it is enumerated, while an event is queued, while the
  device it speaks of is queried, or while nobody receives;
- a channel that is full, and a signal at any moment.

## The modules

```
 DeviceSteps ── RustOps ─┐            Connect ─┐
      │      └─ GoOps ───┤            Images  ─┼─ Sending ── MCFraming
      │          │       │            Framing ─┤      └───── Sending_proofs
      └─ Panel ──┼───────┤                     └─ Framing_proofs ──┘
          │      │       └─ Device
          │      │            └─ DeviceProperties ─ MCDevice     Reader
          │      ├─ Daemon          │   └─ (INSTANCE)              └─ ReaderProperties
          │      │    └─ MCDaemon   │       DoubleBuffer               ├─ MCReader
          └──────┴─ Panel_proofs    │                                  └─ Reader_proofs
                         ├──────── Device_proofs ── Drawing_proofs
                         └─ Daemon_proofs
 Query ── Bus ── RustWatcher ─┐
            └─── GoWatcher ───┴─ Watching ── MCHotPlug
                                  │   └─ (INSTANCE) HotPlug
                                  └─ Watching_proofs
```

**`DeviceSteps`** is the vocabulary. A *report* is its opcode, one argument byte
and the image it belongs to (the other bytes never decide anything). A *step*
is one access to shared state: run the handshake if needed, take the cache
mutex for good, test the cache, encode an image, write a command, insert into,
remove from or empty the cache, send what is cached.

**`RustOps`** and **`GoOps`** give every public operation of the two handles as
the sequence of steps its body performs, nested calls included: `reset` is the
handshake, `set_brightness(100)` and `clear_all_button_images`, each with its
own test of the flag. Names are those of the source. The one difference that
matters is in `flush`: Rust drains the map (`Drain(FALSE)`, an entry is gone
before it is sent, and all of them are if the loop ends early), Go deletes an
entry once it has been sent (`Drain(TRUE)`). Keys count from 0 in the API and
from 1 on the wire, and bytes wrap (`% 256`).

**`Panel`** is the controller, external to the code and inferred from it: within
an announced transfer *every* report is data; a finished image or a `CLE`
changes the frame being prepared; `STP` shows it; below protocol version 2 a
`CLE` is shown at once. It also remembers what a test could not see: whether a
command was swallowed as image data, how often it was greeted, whether
something came `early`: before the handshake was complete, and neither part of it
(`Expected`: `DIS`, and `LIG` after it) nor a mode report. It is lenient in everything the source says
nothing about, so that a violation never rests on a guess about it.

**`Device`** runs calls of any number of tasks step by step, interleaved. State and
code correspond like this:

| variable | code |
|---|---|
| `initialized` | the `AtomicBool` / `atomic.Bool`, loaded by `InitLoad`, stored by `InitStore`: two steps, as in the code |
| `cache`, `lock` | `image_cache` and its mutex. Operations that take it for one access are atomic steps that need it free; `flush` holds it from `LockCache` to `Leave` |
| `call`, `todo`, `greeting`, `job` | where a task is: its call, the steps left, how far into the handshake, which image it is sending and how many reports are left |
| `panel` | `Panel`'s state; the writer mutex covers one report, so a write is one atomic step |
| `faults`, `cancels` | how many writes have failed and how many futures were dropped so far (bounded by `MaxFaults`, `MaxCancels`) |
| `stream`, `fate`, `intent`, `late` | history, read by no action: the last image report; what became of the last image written for a key; what the application last asked to see on a key; whether a call found the flag set when it began |

`FailWrite` ends a call at any report; `Cancel` at any point where a Rust
future waits; `ConvertImage` may fail. All of them release the mutex (a guard,
or a `defer`), keep the flag, and, for Rust, empty the drained cache.

**`DoubleBuffer`** is the abstract promise: drawing changes a hidden frame key by
key, and a flush shows the whole frame in one step. `DeviceProperties!Frame`
is the refinement mapping: the hidden face of a key is the cached image, or the
one being sent, or what the panel was last told.

**`DeviceProperties`** holds the properties, the named conjuncts of the inductive
invariant, so that TLC and TLAPS work on the same formulas, and what the
theorems about callers ask of the calls (`ApiCalls`, `ThroughTheApi`).

**`Framing`** is the chunk loop with real byte positions. The report of one round
is the slice it copies; `announced` is what the two length bytes of the header
say, modulo 65536.

**`Connect`** takes the decisions of `connect` and `Connect` one after another, each
with its error path: the first matching device that opens (`OpenFirst`, Go),
the version check, the lookup (Rust), the firmware read
(an error in Rust, tolerated in Go), the serial number, the version that is
overridden, opening the device (Rust).

**`Images`** is the conversion, pixel by pixel: a picture is a size and, column by
column, what is at each position, and `resizeNearest`, `applyRotation`, `applyMirror` and `encodeBMP` are those of
`images.go`. Rust calls the `image` crate for the first three (external, and it
rounds differently: `Sampled`) and tells the encoder another width and height.
The second half of the module is a bitmap *reader*, written from the
definition of the format and not from the code (`Stride`, `Byte`, `Shows`), and
the definition of a turned picture by quarter turns (`Upright`).

**`Sending`** composes the three: after connecting, a picture is converted for a key
(`ConvertImage`), and its bytes are sent over the handle in packets of the
size that was chosen (`Send`). The encoded size is the `length` that `Framing` cuts.

**`Reader`** is the input side. `held`, `queue`, `Press`, `Release`, `Turn` and
`Noise` are the world outside; `Begin`, `TakeReader`, `ReadReport`, `TimeOut`,
`FailRead`, `Drop`, `UpdateStates` and `UpdateTwist` are `read`. The report is
taken, and its decoder called, under the mutex of the read half, which all
readers of a handle share; the comparison happens later, under the mutex of the
reader, so reports of one reader may be compared in another order than they
were read. That mutex is released before `read` returns (`Return`), so tasks that share a
reader may also hand over `updates` in another order than they were computed in.
`Changes` is the comparison itself; `Decode` the ACK test, the forced
state byte and the callback, which is a CONSTANT operator. The rest is history: `presses`
and `turns` are what happened; `downs`, `turned`, `told` and `repeated` what the updates say of it
in the order of computing; `heard` and `echoed` what a listener makes of them in the order
of returning. `processInput` is the daemon's decoder.

**`Query`** says which interfaces a query selects: exactly those in Rust, with zero as
"any" in Go; no queries select none in either. **`Bus`** is the world of the watchers: devices
come and go with all their interfaces (`PlugOrUnplug`), and the operating system
queues an event for whoever has subscribed by then. `listening` and `view` are
what the application would believe, from the list it starts with and the
events it gets. That list is the one the watcher itself begins with: an application has
its own, from a separate enumeration (`device.rs:96`, `watcher.go:19-21`), and what changes
between the two is not modelled. `since` (the places, "there" or "away", that an interface has
been in since the listener last heard of it) and `missed` (devices that changed in the gap between enumeration and
subscription) are history.

**`RustWatcher`** has the fields of `DeviceWatcher` and, in `stage`, how far `watch` is
(`Watch` sets the flag, `Seed` enumerates, `Subscribe` asks for the events, and
`FailWatch` is the `?` of either) and whether an event is being handled: a
"connected" takes two steps, because the device is queried in between
(`TakeConnected`, `AnswerQuery`) and may be gone by then, or the query may fail (`QueryPanics`: the
result is unwrapped). **`GoWatcher`** is the goroutine of `Watch`, with its select
statements: `Poll` at a tick, `Discover` and `Vanish` for each difference,
`Deliver` or `Close`, whichever the select of `send` picks. **`Watching`** puts one of
them, `code` says which, on a `Bus`. **`HotPlug`** is the abstract promise, and
`Watching!TellsNews` the refinement: the mapping takes `view` and `listening` as
they are, `Attached` for what is present and the matching interfaces for what is
wanted.

**`Daemon`** runs the calls of `GoOps` in the order of `main`, report by report on the
wire to `Panel`:

| variable | code |
|---|---|
| `stage`, `todo` | where `main` is; the steps left of `SetBrightness(50)`, `ClearAllButtonImages` or `Shutdown` |
| `initialized`, `panel` | the flag of the handle; the panel |
| `signal`, `events` | `sigChan`, which holds one signal, and `eventChan` |
| `reader`, `states`, `batch` | where `readDeviceLoop` is; the reader's snapshot; the updates of this read that are not yet forwarded |
| `flying` | goroutines in `dispatchWebhook` |
| `reported`, `pressed`, `posted`, `handled`, `last`, `failedIn` | history: presses as the device reported them, posts started, the last event handled of each button, the last report written, the calls in which a write failed |

`Forward` blocks on a full channel, `HandleEvent` and `TakeSignal` are the two cases
of main's select, `Signal` kills the process until `signal.Notify` was called,
and `Deferred` runs `Close` and `Exit` while the reader may still be anywhere.

Definitions whose comment begins with "Faulty variant" are plausible mistakes
in the definition that follows them. Nothing uses them; they are kept because
putting one in the place of the real definition makes the property named in
`PROJECT.json` fail, which shows that the property says something.

## The runs

Each `.cfg` is one question. TLC answers all of them in a few minutes.

| run | instance | question | properties |
|---|---|---|---|
| `rust_alone` | 1 task, every operation, keys 0 and 1 and 0xFF for clearing all, two images (two reports and none), protocol 3, no failures | does a call do what it says, and do cache and panel tell the same story, whatever calls came before? | `TypeOK` `CacheOrPanel` `FlushShowsImages` `ClearAllBlanks` `GreetedFirst` |
| `rust_tasks` | 2 tasks that draw, clear, clear all, dim and flush; protocol 2; one failing write, one dropped future | who may write what while a flush is under way? | `TransferIntact` `OnlyRacersGreet` `Publishing` |
| `go_tasks` | 2 goroutines, the same calls, protocol 1, one failing write | is an image ever lost, does success mean published? | `FlushPublishes` `NothingLost` |
| `drawing` | 2 Rust tasks that only write images to 2 keys and flush, two images, under fairness | is a flush one atomic step, seen from outside, and does everything end? | `HandshakeOnce` `CommandsUnderstood` `FlushIsAtomic` `CallsReturn` `FlushCommits` |
| `framing` | Rust and Go, versions 0 to 4 asked for, with and without a serial number; small pictures and an empty one for keys of several sizes in every rotation and mirroring; images of 0 and 1 bytes, of the bitmaps' lengths, one off either side of 512 to 2048, 65535 to 65537 | does a handle fit its version, does a bitmap show the picture, and is every image cut into the reports the panel expects? | `InBounds` `Reassembles` `FitsTable` `ShowsThePicture` |
| `reader_loop` | 1 task reading in a loop, 2 buttons and an encoder in both states, one control held at a time, 3 reports, a failed and a dropped read, under fairness | does the listener come to know what is held? | `TypeOK` `HeardIsHeld` `EventuallyHeard` `TimedReadReturns` |
| `reader_shared` | 3 tasks on 2 readers of one handle, a button in both states, an encoder in one, 3 reports, a failed and a dropped read | are updates right when reports are split, and compared and returned out of order? | `Alternates` `ToldIsStored` `NoGhostPress` `NothingMissed` |
| `hotplug` | the Rust or the Go watcher; 2 devices with 5 interfaces, 5 changes, one failing call of the backend, under fairness | what does a listener believe while devices come and go, and once they rest? | `TypeOK` `Settled` `TellsNews` `NoRumours` `EventuallySeen` `CancelCloses` |
| `daemon` | 2 buttons, a channel of 2, 3 reports, two failing calls, under fairness | is every press posted once, and does a signal always end it, in the dark? | `TypeOK` `NoDoubleTrigger` `EveryPressCounts` `StartsClean` `EndsDark` `EveryPressPosted` `SignalEnds` |
| `retried_flush` | 1 Rust task, one key, one failing write | violated: see below | `RetryShowsImages` |
| `lone_clear` | 1 Go task that draws, clears and flushes, protocol 3 | violated: see below | `FlushShowsClears` |
| `chord` | 1 task, 2 buttons held at once, the daemon's decoder | violated: see below | `HeardIsHeld` |

**Why these bounds.** Two keys are the least for which a wrong key byte, or an
image on the neighbour's key, can be told from a right one, and a frame shown
in part from one shown whole; two images the
least for a replaced image; two data reports the least for which something can
come between header and data, and between data and data; an image without a
report is the boundary case of the chunk loop. Two tasks are enough for every
race between two calls, which is all the shared state allows (each race is
about one flag, or one mutex). One fault at any report, and one dropped future at any wait, reach
every early exit of every operation, and what happens in later calls. There
is no bound on the number of calls: the state of the handle is finite, and the
runs cover all of it. `reader_*` bound the reports the device sends
(`MaxEvents`): three are enough for a press, a release and an unrelated
report, in any order, split over any readers. `hotplug`: the first device has one
interface that an exact query selects and one that only a wildcard of Go does,
the second has two that match and one that never does, so the
watchers are seen with one, two and no matching interfaces; five changes let a
device come, go and come back while an event is queued, its query under way
or its event on offer, and the other one change in between. One fault
reaches every call of the backend. `daemon`: a channel of two, instead of ten, is
full after two presses, with a third report half forwarded; two faults let both a
read and a write, or two writes, fail. `framing`: bitmaps of one to four columns
need 1, 2, 3 and 0 bytes of padding, keys wider and higher than the picture
are stretched and shrunk, and every turn and mirroring moves each of
the pixels, whose colour is their position, elsewhere.

**What is left out of a state.** `rust_tasks` and `go_tasks` have the view
`Blindfolded`, without `panel` and `intent`. No action's guard and no other
variable's next value depends on these two, and none of the properties of these
runs mentions them, so two states that differ only in them have the same
futures as far as the properties can tell.

**Fairness.** Only the four runs with liveness properties assume any, and none
assumes that an application calls anything in particular, that writes fail, that
a device comes or goes, that a button is pressed or a signal sent.
*Device*: a task that can run runs (both runtimes are preemptive, or poll every
woken task), and the backend answers every write: weak fairness. A task that
waits for the cache mutex gets it although others may take it first:
strong fairness, because tokio's mutex is first come, first served, and Go's
hands itself to a waiter that has starved for a millisecond.
*Reader*: callers read in a loop, as the daemon and the examples do. The mutex
of the read half is fair for the same reasons. `ReadReport` is strongly fair:
a read looks for a report before it looks at the clock, so a report that is
waiting is not overtaken by timeouts for ever.
*Watching*: the application follows the events (in Go until `ctx` is done), and the
backend answers. `Close` is strongly fair: it is one of the cases of two selects,
Go picks any case that is ready at random, so one that is ready time and
again is taken in the end.
*Daemon*: goroutines that can run do, and the backend answers writes; `HandleEvent`
and `TakeSignal` are cases of one select, and each stays ready until it is taken.

**Deadlock** is checked in all runs of `Device`, where a task can always begin
another call or go on with the one it is in. It is not in those of `Sending`,
where the loop ends; `Reader`, where a read without a timeout rightly waits
once the device has sent its last report; `Watching`, where a watcher that was
closed, refused or has panicked stops; and `Daemon`, whose process ends.

**Assumption on the Go backend.** `types.go:16-17` says that `ReadWithTimeout`
returns zero bytes and no error when the timeout is reached; the model takes
it at its word. In `Daemon`, what a read of a handle that is being closed yields is
up to hidapi; the model lets it be a report or an error.

**Assumption on the application.** Keys are below 254 (`key + 1` would wrap; no
device has so many), and `FullSnapshots` asks that `process_input` returns
a snapshot of *all* controls of the kind. The code compares only as many
controls as both snapshots have (`zip`, `src/state.rs:134`), so a short one hides
the rest. `FaithfulDecoder` says that it reads each report as what happened; what it makes
of a byte of no control is left open (the daemon's says that nothing is down, another
may report an error), unless `IgnoresUnknown` is asked for as well.
`MCReader` asserts all three of the decoder it uses, the daemon's with encoders added and unknown
bytes an error, and `OneByOne` wherever `MaxHeld` is 1; `MCDevice` asserts of each run that its calls are public operations with
arguments of their types (`ThroughTheApi`).

## The proofs

Every safety property that a passing run checks is also a theorem, for every
value of the constants. `tlapm` checks each to its last leaf; nothing is
assumed but the named assumptions on the constants and the hypotheses a theorem
states. TLC evaluates the assumptions in every run, and the hypotheses about decoders and
the API (`FullSnapshots`, `FaithfulDecoder`, `IgnoresUnknown`, `OneByOne`, `ThroughTheApi`) where they are
meant to hold; the others (one task, Go's way of draining, tasks that only write images and
flush) can be read off the `.cfg` files.

**`Panel_proofs`** has no theorem of its own. Its lemmas say what the panel makes of
each report (`DeliverCommand`, `DeliverBat`, `DeliverData`) and what the calls of the Go
handle are, written out as sequences of steps.

**`Device_proofs`**, for any number of tasks, keys and images, any lengths and any
bounds on failures, and any set of operations that are either `flush` or do
without its steps (`DeviceAssumption`, which both `RustScript` and `GoScript`
meet). `TypeOK` is not inductive: that `job[t].left` or the panel's count never
drops below zero depends on who is sending what. `Inv == TypeOK /\ LockedFlush`
is: the task that holds the cache mutex has a rest of `flush` before it, every
other task has an entire `flush` or a call without any of its steps before it,
the handshake runs only inside `initialize`, and an image is sent only by
the holder. Each action keeps it, by one lemma for each. From it follow

- `TypeCorrect`: `Spec => []TypeOK`;
- `FlushHoldsTheCache`: `Spec => []LockedFlush`, for the proofs only: no run checks it
  alone;
- `ImagesDoNotMix`: `Spec => []TransferIntact`. Only the holder sends images, and
  `stream` follows its progress: there cannot be another between two reports;
- `GoLosesNothing`: `Spec => []NothingLost`, under the additional assumption that
  no operation drains before it sends (`FALSE \notin Keeps`), which Go meets
  and Rust does not: `retried_flush` shows what happens without it;
- `NothingIsForgotten`: `Spec => []Publishing`. At each moment between being written
  and being shown, an image is in the cache, being sent, or waiting for the `STP`
  of the flush that sent it, unless something failed;
- `SuccessfulFlushPublishes`: `Spec => []FlushPublishes`, which is not inductive alone
  and follows from `Publishing`;
- `LateCallsDoNotGreet`: `Spec => []OnlyRacersGreet`. The flag is never cleared, so a call
  that found it set when it began (`late`) finds it set whenever it looks again.

**`Drawing_proofs`** is about what the panel shows. Nothing on the wire says whose a
report is, so these theorems cannot hold of callers who do anything at any time
(see the [observations](#observations)). Each states what it asks of them, and no more:

- `NothingIsSwallowed` (`CommandsUnderstood`): one task, or several whose calls write
  nothing outside `flush`. `InStep`: the panel expects exactly the chunks that
  the job under way has left, and none when there is no job. It rests on
  `Exclusive`: who writes holds the mutex, or nobody does.
- `WokenOnce` (`HandshakeOnce`): no call writes `DIS` by itself, and either there is one
  task or only `flush` initializes. `Greeted` counts the greetings the panel
  has had by the flag and by how far the handshake is.
- `FlushesAreAtomic` (`FlushIsAtomic`): tasks that convert and insert images, and flush,
  implement `DoubleBuffer`. Each action is either hidden from it (a report of an image
  moves the image from the cache, through the job, to the panel's next frame,
  and `Frame` stays the same), draws one key, or, for the `STP`, shows the whole frame;
  that one needs `Publishing`: by then nothing is left in the cache.
- `GreetsBeforeAll` (`GreetedFirst`): one task, whose calls initialize before their
  first report other than `set_mode`'s. `Prepared` follows the flag, the panel and what is left of
  the call, the handshake's own two reports included: its `LIG` is early, too, if no `DIS` came.
- `CacheAndPanelAgree` (`CacheOrPanel`) and `FlushedImagesShow` (`FlushShowsImages`): one
  task whose calls, if they clear a key, drop its image afterwards (`Mends`), or any
  number of tasks that only draw and flush. A clear of all keys at once (the key 0xFF) drops no image:
  it asks for blank keys where no image waits, and `intent` says so. `AsAsked`: what was asked for is what
  `Frame` has, but for keys that were cleared and wait to be dropped from the cache;
  what is not on its way any more is shown.
- `ClearingAllDarkens` (`ClearAllBlanks`): one task, and the two calls have a `CLE` for
  all keys, an `STP` after it where the panel needs one, and empty the cache. `Wiping`
  says how much of that is done, by what is left.

That these hypotheses are met is a theorem too: `ApiIsCareful` goes through every
operation of `RustOps` and `GoOps`, with any arguments of their types, 0xFF for
`clear_button_image` included. So `AloneAllIsWell` has only
`OneTask` and `ThroughTheApi` as hypotheses, and `TogetherTheyDraw` only `ThroughTheApi`
and that the operations are `write_image` and `flush`.

**`Framing_proofs`**, for every packet size and every length: the loop invariant
(`Progress`: as long as bytes remain, all reports were full and
`bytes_sent + bytes_remaining = length`), from which the `usize` variables never drop
below zero (`TypeCorrect`), no slice is out of bounds (`NoSliceOutOfBounds`) and
the panel can reassemble the image (`ImageReassembles`).

**`Sending_proofs`**, for any serial numbers: a handle has the parameters that
`README.md` gives for its version (`HandleFitsTable`), because by the time it is made
either version 1 was asked for or the device has a serial number; and the loop
invariant of `Framing` carries over (`SentImagesReassemble`), whatever picture was
converted for whatever format. `PicturesShow` proves `ShowsThePicture` for every picture
and format: the byte that the encoder puts at a position is the one the reader
finds there, for every width and its padding (`EncodedShows`, from `Quotient` and `Place`
on quotients and remainders); turning and mirroring are undone by `Upright` and
the same mirroring (`TurnedBack`, `MirroredBack`); and what either code samples
is part of what the position covers (`SampleCovers`). Rust's quarter turns of keys that
are not square are left out, as in the property: there it is false.

**`Reader_proofs`**, for any tasks, readers and numbers of controls, any flags and
every decoder with `FullSnapshots`: for controls reported in both states, what
the updates computed so far say is what is stored (`ListenersKnowTheState`), and for those
reported in one, nothing is left told down. So no update ever repeats what the updates
before it said (`UpdatesAlternate`), although reports may be compared in another order
than they were read: it matters only that comparing and storing are one step. That is
the order of computing. In the order of returning it is claimed for a reader that one
task uses (`Exclusive`): between computing and returning, that task computes nothing else, so
what its listener has heard is what was told, or one `Return` behind it (`OneBehind`, `HeardInTurn`).
For a shared reader it is false, see the [observations](#observations).
`TypeCorrect` holds whatever the decoder returns.

For a `FaithfulDecoder`, `Bookkeeping` counts: for each control, the presses told and the
reports of a press still in the queue or in the hands of a task are together at
most the presses made; exactly as many, if the control is reported in one
state only and no read was dropped. The same for turns. `NobodyHearsGhosts`
(`NoGhostPress`) and `EverythingIsTold` (`NothingMissed`) follow. The invariant needs no
induction over the queue: each step moves at most one report out of one set
(`Coming`, `Taken`) into another.

`WhatIsHeldIsTold` (`HeardIsHeld`) is for one task, one control held at a time
(`OneByOne`) and a decoder with `IgnoresUnknown`, which the daemon's is not: it makes
"nothing is down" of a byte that is no key. `LastWord`: the last report about each kind of control, be it in the queue,
in the task, or compared already, says what is held. With two held at once it is false,
as `chord` shows; with two tasks as well, since the later report may be compared first.

**`Watching_proofs`**, for any devices, interfaces and queries: `TypeCorrect`, and
`ListenersHearNews`, `Spec => TellsNews`: both watchers implement `HotPlug`. A step of
the mapping needs to know that what the watcher *remembers* is what it has
*told*: only then is a "connected" of an interface that is not in `connected` (Rust)
or `known` (Go) news to the listener. That is `KnownIsTold`, and for Go it
speaks of each phase, since `known` runs ahead of the listener while an event is
on offer. The invariant is `IInv == TypeOK /\ Listening /\ KnownIsTold`, where
`Listening` says in which stages and phases somebody listens at all. Why
the Rust watcher needs no more although it loses track of devices with several
interfaces: `id_map` forgets, `connected` does not, and the test is on
`connected`.

`TellsWhatWas`, `Spec => NoRumours`: whatever the Go watcher has found different, told or on
offer, has been so since the listener last heard of that interface (`Heard`).
`RightWhenSettled`, `Spec => []Settled`: the last event that is queued of a device says
where it is (`LastIsTrue`); when none is queued, the listener is right about the device or
a query is under way that will find it (`Followed`, for devices with one interface
that matches: for those `id_map` and `connected` hold the same).

**`Daemon_proofs`**, for any buttons, capacity of the channel, protocol version and
number of reports and faults: `TypeCorrect`; `EventsAlternate` (`NoDoubleTrigger`), since the
reader holds the last report's button, and the batch is what still separates that from
the last event in the channel (`ReaderShape`); `NoPressIsLost` (`EveryPressCounts`), counting the
presses in the channel as it grows at one end and shrinks at the other.
For the screen, `Calls` says at each step left of main's three calls what they have made of
the panel so far: no image is ever sent, so no command is taken for data;
only the first call shakes hands, so the brightness 0 of that comes before the
50. From this, `ScreenStartsClean` (`StartsClean`) and `ScreenEndsDark` (`EndsDark`).

**Only model-checked**: liveness (`CallsReturn`, `FlushCommits`, `EventuallyHeard`,
`TimedReadReturns`, `EventuallySeen`, `CancelCloses`, `EveryPressPosted`, `SignalEnds`).
Fairness speaks of ENABLED, which the prover does not reason about. `RetryShowsImages` and
`FlushShowsClears`, which are violated, have of course no theorem.

## Observations

Three disagreements between the code and what its comments say have a run, whose
counterexample TLC prints:

1. `retried_flush`. When a write fails in a Rust flush, the dropped `drain()`
   iterator empties the cache (`src/device.rs:573`). A second flush finds nothing to
   do and returns success; the images were never shown, although its comment says
   "Flushes written images" (`:563`). Go keeps them.
2. `lone_clear`. `flush` returns early when the cache is empty (`device.go:352`,
   `src/device.rs:569`), before the `STP` that shows changes at protocol version 2 and
   up. A key cleared with `clear_button_image` leaves the cache empty, so the flush
   its comment asks for (`device.go:257-258`, `src/device.rs:461-462`) shows nothing.
3. `chord`. The daemon's `processInput` makes a snapshot from one report, in which
   no other key can be down: pressing a second key tells the first one up.

Others were met on the way. They are how the models behave, without a run of
their own; a property that would forbid them leaves them out, and says so.

*The handle*

- `clear_button_image(0xFF)`, "every button" by `device.go:257-258`, sends a `CLE` for all
  keys and then removes the entry 0xFF, which is never there, from the cache
  (`device.rs:479-484`, `device.go:263-276`): an image that waits for its flush is shown by
  it, clear or not. The models have this call; `intent` counts such an image as
  still asked for, so that `CacheOrPanel` holds. `clear_all_button_images` empties the cache.
- `writeMu` covers one report, not an image, so a brightness call of another
  goroutine can land between a header and its data, where the panel takes it for
  pixels; `device.go:21-22` promises safety for concurrent use. Rust is the same,
  and `CommandsUnderstood` is checked of tasks that only draw.
- The load and the store of the flag are apart (`device.rs:347-351`,
  `device.go:165-168`), so first calls that race may both send the handshake.
  `OnlyRacersGreet` bounds the damage: no call that began later greets again. A call
  that finds the flag set while another is still greeting writes before the handshake.
- `clear_button_image` writes its report before it drops the cached image
  (`device.rs:482-484`, `device.go:267-276`); a flush of another task in between
  sends that image after the clear, and the key shows it.
- The header has two bytes for a length (`device.rs:438-439`): from 64 KiB on it
  announces the length modulo 65536, and `Reassembles` asks only that such an image
  is cut right.
- `supports_both_keypress_states` decides the state byte of encoders too
  (`state.rs:108`): with it off, and encoder releases on, an encoder's release
  is decoded as a press.
- The timeout of a read does not cover the wait for the read half
  (`state.rs:65-66`, `device.go:449-461`): behind a read without a timeout it may
  never start. `TimedReadReturns` is checked for one task.
- Two tasks that share a reader may return their updates in another order than they were
  computed in, since the mutex is released first (`src/state.rs:184-186`, `state.go:136-138`): a
  listener can get "up" before the "down" it ends. The comments ask for one active reader
  (`state.rs:33-34`, `state.go:50-51`), but `read` takes `&self`. `Alternates` speaks of the order of
  computing for shared readers, and of the listener for the others.

*Image conversion*

- Rust tells the bitmap encoder the width and height of the format, while the pixels
  are those of the turned picture (`src/images.rs:42`): for a key that is not
  square and turned by a quarter the rows are scrambled. Go passes the size of the
  turned picture. `ShowsThePicture` leaves this one case out.

*The watchers*

- Rust enumerates (`src/device.rs:113-120`) before it asks for the events (`:131-132`).
  A device that changes in between is missed until it changes again.
- `id_map` holds one interface for each device id (`:146`). If several match, a
  disconnect tells of one of them; the others stay in `connected`, and when
  the device comes back those are not told.
- The result of the query for a device that has just come is unwrapped (`:139`): if
  the backend does not find it any more, the stream panics.
- A Rust "disconnected" may be older than the last "connected": the device went and
  came while the earlier event was queued, and the query already found it back.
  `NoRumours` asks it of Go only; `Settled` says that the listener is right
  once the queue is empty.
- `initialized` is set before anything can fail (`:110`), so a `watch` that failed
  cannot be tried again on the same watcher.
- Go cannot notice that a device went and came back between two polls.

*The daemon*

- A read that fails is tried again after a second, for ever (`main.go:133-138`): when
  the device is gone, the daemon goes on without it.
- Every press starts a goroutine (`main.go:162`): their number has no limit, and two
  posts may arrive in either order.
- `Close` runs while the reader goroutine may be inside a read of the same handle;
  nothing waits for it.

## Not modelled

- *The bytes of a JPEG and of a bitmap's header.* A JPEG is a number of bytes, or an
  error; of the header, only size, width and height.
- *`ImageRect`, blank images, conversions to and from `image` types*: data without
  state, used by no operation modelled here.
- *Errors, plain types and their accessors, the Rust examples*: values, and programs that
  call what is modelled.
- *The webhook's request*: its body, its answer. That a post ends, by an answer, an
  error or its timeout, is an action.
- *The daemon after it was killed*: what the panel shows then is what it showed.
- *The panel beyond frame, brightness and handshake*: what `sleep`, `keep_alive`,
  `set_mode` and the LED reports do to it is unknown, and no property depends on it.
- *Read and write errors of the operating system* beyond "this call failed":
  a report that failed is taken to be not sent.
- *The timing of timeouts, ticks and pauses*: each may end at any moment.
- *`DeviceStateReader` snapshots shorter than the controls* (see the assumptions).

## The plan

The program's parts are modelled and their safety properties proved. What is left:

1. *Weaker hypotheses.* `ClearingAllDarkens` asks for one task. Several tasks would do if
   nobody draws or flushes while a clear is under way; that has to be said as
   a hypothesis on behaviours, as `Undisturbed` is.
2. *The step from safety to liveness*: that a flush which is not disturbed has fewer steps
   to do after each of its actions, as an action property that can be proved.
