# DroidStream: specifications, model checking and proofs

DroidStream runs Android devices (redroid containers or emulators) on a host
and streams their screens to browsers. A Node.js **control plane** boots and
destroys devices, reads H.264 from a scrcpy server on each and fans it out over
WebSockets; a **web console** decodes it with WebCodecs; **json-bridge**, a
Python sidecar, uses the control plane's API to show JSON documents on a device
and return pictures of them.

This directory holds TLA+ modules translated from that code, TLC configurations
that check them on small instances, and TLAPS proofs of the properties that
matter most for instances of any size. `PROJECT.json` lists the components, the
runs, the source lines of every definition, the hazards and the findings.

Run a check with `tlc -config X.cfg MCModule.tla` and a proof with
`tlapm XProofs.tla`.

## 1. Inventory

Paths are relative to `src/control-plane/src/` unless they say otherwise.

| Component | State it keeps | Operations | What is hard |
|---|---|---|---|
| **Session registry** `sessions.js` | `sessions` Map; per session `state`, ports, `device`, `bridge`, `lastSeenAt`; two `PortPool`s | `create`, `#boot`, `destroy`, `#reapIdle`, `shutdown` | `#boot()` and `destroy()` of one session run concurrently between awaits and both give ports back |
| **Front end** `index.js` | `shuttingDown` | REST routes, `upgrade`, signals, startup | checks a session's state in one turn and uses it in the next |
| **Device backends** `devices/*.js`, `adb.js` | container or child process outside the control plane | `start`, `stop`, `logs`, `reapOrphans`, `connect`, `waitForBoot`, `shell` | the daemon acts later than it is asked, devices die on their own |
| **ScrcpyStream** `stream/scrcpy.js` | server process, forward, two sockets, `closed` | `start`, `#connectWithRetry`, `#readVideo`, `send`, `stop`, `#shutdown` | a sequence of awaits with exits and socket errors between them |
| **StreamReader** `stream/reader.js` | `chunks`, `buffered`, `pending`, `error`; pause state of the socket | `read`, `'data'`, `'end'`, `'error'`, `'close'` | chunk boundaries, back-pressure, end of stream against buffered data |
| **SessionBridge** `stream/bridge.js` | `configPacket`, `gop`, `gopBytes`, `clients`, `encoder` | `#onVideo`, `#sendFrame`, `attach`, `#handleInput`, `close` | a viewer joins a live stream in mid-GOP; slow viewers lose packets |
| **ControlEncoder** `stream/control.js` | the size of the device's screen | encoders of touch, key, scroll and text events | coordinates at the edges and after a rotation |
| **Web console** `src/web/app.js` | tokens, the list, the attachment `active` with its socket, decoder and pointers, `configBytes`, `started` | `refreshSessions`, `startSession`, `stopActive`, `attachTo`, `teardown`, `onBinary`, `configureDecoder`, `bindInput` | answers and socket events that come late; decoder errors; gestures that are cut |
| **json-bridge** `src/gcp/json-bridge/bridge.py` | `_installed`; one thread per request | find or create a session, install, show, screenshot, filmstrip | threads share devices without a lock; sessions vanish under them |
| Configuration, logging, deployment scripts | none that changes | | |

How they interact: the front end calls the registry; the registry awaits device
backends and ScrcpyStream and creates a SessionBridge, which listens to the
stream's `video` and `close` events and owns the session's sockets; the page at
the other end of a socket decodes what the bridge sends. json-bridge is a client
of the REST API and talks to devices through adb behind the registry's back.

What makes each part correct:

* *Registry*: no port is listed twice or lost; two sessions do not share a port;
  every boot settles, every idle session is reaped, every teardown ends and
  leaves no container; viewers are attached only to live sessions; the states a
  client can poll follow the life cycle of `docs/PROTOCOL.md`.
* *StreamReader and #readVideo*: frames come out whole, in order and all of
  them, and a read settles.
* *Process*: a shutdown ends and stops what was running; after a crash the next
  process removes what the last one left.
* *ScrcpyStream*: `start()` settles; both ends agree which connection is which; a
  closed stream leaves no process or socket, and no forward but one that adb failed to
  remove; the bridge hears of the end.
* *SessionBridge and page*: what is cached decodes from its first frame; a viewer
  that lost nothing is never fed anything undecodable and catches up; a decoder
  that failed recovers.
* *Console*: a canvas is shown over a live attachment only, and goes when its
  session is gone.
* *Input*: touches reach the pixel they were meant for, of the device they were
  meant for, and no finger stays down.
* *json-bridge*: every request is answered, and with a picture of its own page.

The full list of hazards, each at its line, is in `PROJECT.json`.

## 2. Modules

| Module | Models | Role |
|---|---|---|
| `SessionLifecycle` | `docs/PROTOCOL.md` as the REST API keeps it | abstract specification of the control plane |
| `SessionManager` | `sessions.js` with the device backends and `index.js` | detailed specification, refines `SessionLifecycle` |
| `ControlPlane` | `index.js`, `shutdown()`, `reapOrphans()` | composes `SessionManager` with the process that hosts it: start, signal, exit, crash, restart |
| `ScrcpyStream` | `scrcpy.js` but for `#readVideo()` and `send()` | composes `start()`, `#shutdown()`, adb and the server on the device |
| `StreamReader` | `reader.js` and `#readVideo()` | composes the reader, its consumer and the socket |
| `SessionBridge` | `bridge.js` and the decoder of `app.js` | composes the encoder, the bridge, the sockets and the pages |
| `Console` | sessions and sockets in `app.js` | its control plane is an instance of `SessionLifecycle` |
| `TouchPath` | pointers in `app.js`, `#handleInput()`, `touch()` of `control.js`, `send()` of `scrcpy.js` | composes the page, its attachment, the bridge, the encoder and the device |
| `JsonBridge` | `bridge.py` | its control plane is an instance of `SessionLifecycle` |
| `MC*` | | instances for TLC, where definitions are needed besides the `.cfg` |
| `*Proofs` | | theorems about the module named |

`SessionLifecycle` sits between them: `SessionManager` implements it, and
`JsonBridge` and `Console` rely on nothing else about the control plane.

Definitions named `...Unchecked`, `...Misordered` and so on, introduced by a
comment *Fault*, are deliberately wrong variants of the definition that follows
them. No specification uses them; each is there to show that some property fails
when the code has that bug.

### SessionManager

One action is one run of JavaScript between two awaits. `boot[s]` says where
`#boot()` is suspended (`run`: in `docker run`; `wait`: connecting adb and waiting
for Android; `stream`: in `stream.start()`), `stop[s]` where `destroy()` is.
`device[s]` is the container or process itself: `pending` once it has been asked
for, which the daemon turns into `running` at a time of its own
(`DeviceComesUp`), even after the client that asked has given up.

* `Create` is `create()` with the part of `#boot()` before its first await: both
  ports are taken in the turn that registers the session. `CreateWithoutPorts` is
  the turn in which `take()` throws, before the `try` block; the handler of
  `create()` then destroys the session in the same turn and an adb port already
  taken is recorded nowhere.
* `Destroy(S)` is the synchronous part of `destroy()`; `DELETE`, the reaper and a
  failing boot share it. `DestroyEnds` is its `finally`.
* `BootFails` is the catch block of `#boot()` and the handler of `create()`,
  which run in one turn: the ports go back, `failed` is assigned and overwritten
  by `stopping`. For that reason `failed` is never seen of a registered session.
* `StreamStarted` does not look at `state`, as the code does not, so a session
  destroyed during `stream.start()` becomes `ready` outside the registry.
* `Reachable(s)` is by port and kind of device: adb knows a device by its serial,
  so a session can be talking to another's container.
* `idle[s]` abstracts the clock: `idleMs` has exceeded the limit.

Abstracted: tokens, images, profiles and displays; the touch of a session
when its sockets close with the stream; the start of the scrcpy server is one
step, whose inside is `ScrcpyStream`.

### ControlPlane

It extends `SessionManager`: every action of the registry is one of this module's
actions, under the condition that the process is in a state to take it, and
`process` says in which. `ListOrphans` and `RemoveOrphans` are the two awaits of
`reapOrphans()`, `Signal` is `shutdown()` up to the await of
`SessionManager.shutdown()`, `Exit` what follows it. A connection that was busy
when the server closed can still create a session, so `Requests` goes on while
the process is closing; the reaper does not. `Forget` is what the end of a
process does, expected or not: the registry, its pools and its timers are gone,
devices and what the daemon has been asked stay (`former`), with their ports.
A container that comes up after the `docker stop`, or the `docker ps`, that was
meant for it has slipped through; `missed` collects those, and docker's failures,
so that `NoContainerForgotten` says that nothing else escapes.

### ScrcpyStream

`pc` says where `start()` is suspended; `trial` is the socket that waits for the
end of its grace window. A connection that adb could not open on the device is
closed within the window; one that the server accepts may be lost at its end, and
is taken for a live one. `Shutdown` is `#shutdown()`, called from five places; it
sees the sockets that are assigned at that moment and no other, and nobody hears
'close' before the bridge exists. A server accepts two connections, the first for
video. `stale` records that a stream was closed already when `start()` resolved:
the session becomes ready with a dead stream and is left to the idle timeout.
`RemoveForward` is `removeForward()`, which keeps every failure, a timeout included,
to itself; `#shutdown()` does not try again, so the forward of a closed stream may
stay (`removal` is `failed` then) until the device goes, which takes its forwards
with it.

Two assumptions. `ProcExits`: `adb shell` ends only with the server on the device or
by the SIGTERM of `#shutdown()`; one that dies by itself while the server goes on is not
modelled. `TrialCloses`: within the grace window a connection closes without an
'error'; one that is reset there has no listener for 'error' (`scrcpy.js:112`
removed it) and ends the process, which `ControlPlane` has as `Crash`.

### StreamReader

Bytes carry the block, header or frame they belong to, so that a wrong cut is
visible. Chunks are cut anywhere, `Data` is the `'data'` handler with `#settle()`
and `#take()`, `Consume` the continuation of `#readVideo()` up to its next
`read()`. Node runs that continuation before the next event, hence `due`; the one
exception, modelled by `InTurn`, is the backlog a socket delivers in one turn when
the first handler is attached. A header is
`HeaderSize` bytes, each of which carries the length as a value. `MaxLength`,
`PauseAbove` and `ResumeBelow` are the limits of 32, 16 and 4 MB.

### SessionBridge

A packet is its kind and its epoch, the number of parameter sets the encoder has
sent. `Attach` is the page's `attachTo()` with the bridge's `attach()`: replay of
the cached parameter sets and of the GOP. A socket's queue stands for the `ws`
buffer, the kernel's and the network together; `Sends` is the test of
`#sendFrame()` on its size. A page's `misfed` records that it gave its decoder a
keyframe under the wrong parameter sets or a delta without the packet before it.
`follows`, `upToDate`, `dropped`, `misfed` and `failed` are history variables: nothing
in the specification depends on them. `DecoderFails` is the decoder's error callback,
which the browser may call at any time, for an undecodable frame, an unsupported codec
or a fault of its own. `OnConfig` either configures the decoder or `configure()` throws,
which leaves the decoder and `started` as they were; `failed` says that since the last
successful `configure()` one has thrown or the decoder has failed. `CaughtUp` allows for that:
a page that lost nothing holds the current parameter sets in any case, and decodes
unless its browser failed it under those very sets; a failure under earlier ones is
mended by the next.
`StreamEnds` closes every socket but keeps the bridge, as the code does: viewers
that come later attach to a bridge without a stream.

Abstracted: header bytes of a message (in the sizes), the texts `meta`, `pong`
and `ended`, input messages (for touches see `TouchPath`).

### Console

One page. `start` says where `startSession()` is suspended; `answers` is the
answer to a refresh on its way, computed from the sessions at one moment and
applied at another. `socket` is that of the present attachment; a socket that the
other end has closed is `severed` until its event is handled, and the close event
of an earlier one is still to come while `closing` holds. `AttachTo` without a
token hides whatever is attached and leaves it attached, as `showFault()` does.
`Apply` is the whole of `refreshSessions()` from the answer on: tokens for an
administrator, the buttons, and the end of an attachment whose session is gone.
A refresh that overlaps another is modelled by the one `startSession()` awaits and
the one of the timer; overlapping answers of the timer's own are not.

### TouchPath

A finger is a pointer id, down on the canvas or not (`fingers`), and known to the
handlers of the present attachment or not (`pointers`). A touch is lost when the
socket is not open, the bridge has no encoder yet, or the device's screen is
turned against the size the encoder keeps; `Touch` is what the device makes of it.
`lossy`, `cut` and `stray` are history variables, per device and finger: it missed
the finger coming down, going up, or saw it move without being down. `ToPixel` is
the arithmetic of `#toPixels()` on a grid of `Grid` parts, rounding included, for the
grid and as far on both sides of it; `NotFinite` stands for a coordinate that is no
number or infinite (a canvas of no width divides by zero and sends `null`, and JSON
has 1e999), which `clamp01()` maps to 0. So order is kept among finite coordinates only.
What the scrcpy server does with a touch (`Accepts`, `Lifts`) is external: it
drops those for a screen of another size, and Android takes an 'up' with pressure
for a hover, as the comment of `control.js` says.

Abstracted: keys, text, wheel, paste and buttons, which keep no state across
messages; several pages on one device.

### JsonBridge

One action is one HTTP call or one subprocess, but for `scroll_to_top()`: its four
swipes, of which any may fail unnoticed, are one action with the `wm size` before them.
Threads interleave between actions.
`pc[r]` names the call request `r` makes next, or the status it was answered
with. The control plane is `SessionLifecycle` with other clients creating, ending
and reaping sessions; a device may stop answering at any time after that, or
before. A screen is the page of some request at some scroll position; `install -r`
ends a running app, `am start` shows a page at its top, swipes move it by one
position. A call may fail before or after it has taken effect. A call to the control
plane that is refused is answered 502, one that times out while it is read 500. `spoilt` is a
history variable: another request acted on the screen while `r` needed it, or a
swipe of `r` failed, which `adb()` does not report.

Abstracted: validation of the request, the theme, the layout of the grid.

## 3. Runs

| Run | Question | Instance |
|---|---|---|
| `SessionManagerSafety` | Do pools, registry and viewers stay consistent under every interleaving of boots, deletions, reaping and faults, and does the registry implement `SessionLifecycle`? | 3 sessions, limit 2, 2 ports, 1 viewer each, both backends; boots and stops may fail |
| `ControlPlane` | Through shutdowns, crashes and a restart, is every container stopped or known to have slipped through, and do boots, idle sessions and shutdowns end? | 2 sessions, 2 ports, containers, 2 starts; stops may fail, devices die |
| `StreamReader` | Are frames intact whatever the chunks, lengths of zero, beyond the pause mark and beyond the limit included, and do reads of fitting frames settle? | 3 frames, headers of 2 bytes, chunks up to 3, limit 8, pause above 4 |
| `BridgeSafety` | Is what is cached and sent decodable through rotations, GOP overflow, drops, joins and leaves? | 1 viewer, 3 epochs, GOP limit 4, drop above 3 |
| `ScrcpyStream` | Whatever goes away between two awaits of `start()`, does it settle, do both ends agree, and does a closed stream leave nothing behind but a forward adb failed to remove? | 4 attempts |
| `Console` | With late answers, late socket events and sessions ended by others, is the canvas shown over a live attachment only, and does a dead one go? | 2 sessions, limit 2 |
| `TouchPath` | Over attachments, losses and rotations in mid-gesture, which fingers may a device see, and which stay down? Is every pixel on the screen? | 2 sessions, 2 fingers, a screen 10 pixels wide for a grid of 7 parts |
| `JsonBridge` | Is every request answered, never without the app, and with the whole of its page if left alone? | 2 requests (either may be a filmstrip), 3 session ids, limit 2 |
| `FailurePolling`, `BridgeRecovery`, `ForeignPicture`, `Rotation` | Does the code keep what its documents and comments say? It does not: section 5. | |

**Bounds.** Three sessions with a limit of two and two ports let one session be
destroyed, another still be booting, and a third take a freed port: the pool
comes round, and the double return of ports of one session overlaps the life of
another. In `ControlPlane` two sessions and two starts let one container survive
the process that started it while the next process boots another on its port. In
`StreamReader` a frame spans several chunks, a chunk spans several frames, and a
header of two bytes is cut in the middle by chunks and by pauses. Viewers do not influence one another or the bridge
in `SessionBridge` (each action reads one viewer's variables and writes one
viewer's variables), so one viewer suffices; the theorems hold for any number.
Three epochs let two rotations be in flight at once; the GOP limit is reached by a
keyframe and three deltas, and a keyframe with two more packets fills a queue
beyond `DropAbove`. Four attempts let each of the two connections of a stream be
refused, be lost and succeed. Two sessions are enough for `Console` and
`TouchPath`: a page has one attachment and what is left of the one before; two
fingers make a gesture of one overlap that of the other. In `JsonBridge` one page
ends before `MAX_SCROLLS` and one after it, and three ids let both requests create
a session besides one by another client.

Ids, frames and epochs run out, so every configuration says
`CHECK_DEADLOCK FALSE`: a behaviour may end where a bound is reached or every
request has been answered. Sessions are a symmetry set only in runs without
liveness properties.

**Fairness.** `ControlPlane`: every await of `#boot()` and `destroy()` is
bounded by a timeout (`execFile`, `Adb.connect`, `waitForBoot`,
`#connectWithRetry`), so a step that waits either happens or fails; the reaper is
an interval timer; the daemon acts on the commands it is given, `docker ps`
included, for which the code has no timeout; idle time passes. Clients are not
fair: nobody need delete a session, attach or detach, nobody need send a signal,
and the process need not crash or be started again. Boots may fail spontaneously
only where the fault is enabled; `ControlPlane` leaves that fault out, so that the
failure a boot needs to settle is the one that the timeouts of the code provide.
`ScrcpyStream`: adb commands have timeouts, a connection closes or outlives its
window, exits are reported; neither the server nor the device need ever fail.
`StreamReader`: the event loop delivers what has arrived and the device ends its
stream at some time. `SessionBridge`: the network delivers and the encoder goes on
sending keyframes; that is what makes `BridgeRecovery` a fair refutation, since
keyframes do not help the page. `Console`: the refresh timer runs, and not every
refresh fails (strong fairness, since a lost answer disables what would have
applied it). `JsonBridge`: threads run, deadlines pass, and a call to a device that
is gone fails within its timeout; no fairness about the control plane or about
other faults. `SessionManager` and `TouchPath` are checked for safety only.

## 4. Proofs

All theorems hold for every value of the constants allowed by the named
assumptions of the modules.

**SessionManagerProofs**

* `TypeCorrect`: `Spec => []TypeOK`.
* `ViewersLive` from `RegistryInv`, which ties the registry to the two program
  counters: a registered session has no teardown in flight, is `starting` while
  its boot runs and `ready` after it, and only registered sessions have viewers.
  `ViewersOnlyOnLiveSessions` is not inductive alone, because a destroyed session
  does become `ready`.
* `PoolsStayDistinct`: `Give` keeps a pool without duplicates, `take` leaves the
  rest of it; this one is inductive given types.
* `SharingNeedsFullCycle` from `CycleInv`: the ports nobody has had so far come
  first in the queue (`FreshFirst`). A stack would not have that property.
* `PortsAreNotLost` assumes that both ranges are of the same width (100 in the
  code's defaults). `InStep` says that then both pools have the same length, that
  the k-th free stream port is the k-th free adb port plus the width, and that a
  session's two ports are related alike, so `take()` of the second pool never
  throws after the first has given. Without the assumption the theorem
  is false: an adb port is lost each time the stream pool alone is empty.
* `ImplementsSessionLifecycle`: every step of the registry is a step of
  `SessionLifecycle` or leaves `phase` and `clients` unchanged, by `RegistryInv`.

**StreamReaderProofs** starts from the operators. `FlattenSeq` and `FoldLeft`, and
`Take` with them, are recursive functions of the community modules, chosen by
`CHOOSE`; the proofs show that such functions exist, that any two agree
(`FlatteningAgrees`, `TakingAgrees`), and so what they do to a sequence with one
element more (`FlattenAppend`, `TakeAppend`). `SetInduction` is induction on a set of
numbers, which needs no operator parameter.

* `TakeSplitsTheBuffer`: whatever the chunks, `#take(need)` returns the first `need`
  bytes and leaves the others, in order.
* `CountIsThatOfTheChunks`: hence `buffered` is always the length of the chunks
  (`TypeOK` says so), though it is kept by additions and subtractions apart from them.
* `FramesComeWhole` and `EndComesLast` from `StreamInv`. It reads the device's stream
  as a list of parts (`Part`: the preamble, then a header and a body for each frame,
  bodies of length zero included) and says that at every moment the bytes unread are
  the parts from some place on, and that the consumer's program counter, the length
  it waits for and the frames it has handed on belong to that place (`OrderInv`,
  `Placed`); whose turn it is (`TurnInv`); and that an end is seen before any of the preamble
  was read, or when every frame has been handed on (`EndInv`). `FramesIntact` is not inductive
  without it: it speaks of the frames that came out and says nothing of the bytes a
  read is waiting for. For all frame lengths, chunk sizes and marks.
* `ReadsAreNotStarved` assumes `ChunksFit`: no single chunk is longer than
  `PauseAbove`, which Node's own buffer size ensures by far. The property is about
  reads that fit below the pause mark; the code accepts frames that do not (section 5).
* `BufferStaysBounded` assumes `MarksOrdered` (4 MB and 16 MB in the code): the buffer
  never exceeds the pause mark by more than a chunk, because the socket flows only
  while it is below the mark (`FlowInv`).

**SessionBridgeProofs**: `TypeCorrect`, `GopAlwaysDecodable`, `OnlyDropsMisfeed`
and `ViewersCatchUp` from `BridgeInv`. Its core is `StreamInv`, for each viewer
from which nothing was withheld: the first message of its queue is one the page is
ready for (`Expected`), each message may follow the one before it (`Joined`), the
last one brings it up to the encoder's present state (`SentToDate`), and if the
bridge holds a GOP, its keyframe is in the queue or behind the page (`KeyAhead`,
`KeyBehind`). A decoder that failed, or was not configured, is part of it: a page that
has not started is ready for any delta under its sets, and discards it (`Joined`,
`Expected`). None of the three safety properties is inductive without it: they
speak of pages, and what reaches a page was decided when it was sent.

`GopAlwaysBounded`: every branch of `#onVideo()` keeps `gopBytes` in step with the
buffer, and within `GopLimit` from the second packet on; this one is inductive given
the types of packets. `QueuesStayBounded`: a send adds to a queue only below
`DropAbove`, so that a queue holds no more than a replay does, or than that mark and one
packet; `QueueBounded` is stated in the proof module and checked by no run.

**ControlPlaneProofs**: `ContainersAccountedFor` and `ShutdownLeavesNone` from
`ProcessInv`. An id an earlier process left a device under has no session and an id
never drawn has no device (`SessionInv`), so that `create()` cannot inherit one;
containers still being created count too (`LeftInv`), since they come up later; a
session of `signalled` is in teardown from the signal on (`ShutdownInv`). For both
backends, any number of sessions and starts, and every choice of faults, although
the run has two sessions and containers only.

The registry's own properties hold in `ProcessSpec` too: `RestartsKeepPoolsDistinct`,
`ProcessViewersLive`, `ProcessSharesAfterCycle`, `ProcessLosesNoPort`. Every step of the
process either touches the ports as a step of the registry does (`PortStep`) or is
`Forget`, which makes new pools (`RegistryStep`); so the lemmas of
`SessionManagerProofs` speak of `PortStep` and of the ids drawn by this process
(`Drawn`), and an id drawn by an earlier one is the exception in `Portless`. What
does not survive a restart is `ReuseOnlyAfterFullCycle` read over all ids: a
container left by a crash keeps its port until the next process has removed it,
while the new pools start with that port. `SharedAfterCycle` says it of the ids of
one process.

`ProcessImplementsLifecycle`: startup, shutdown, the requests that come in during it
and the steps of orphaned devices are steps of `SessionLifecycle` or change nothing a
client sees; the one step that is neither is the end of the process, after which no
id is known (`EndOfProcess`).

**ScrcpyStreamProofs**: `RolesAlwaysAgree` and `ClosedHoldsNoSocket` from
`StreamInv`: the number of connections the server has accepted, with what `start()`
has kept of them, determines which number the next one gets (`RolesInv`); a stream
closed before it opened has lost its server, so that no connection of it is open
(`ClosedInv`). For every number of attempts.

`ClosedForwardsGo`: `#shutdown()` that runs under `adb forward` asks for the removal
of a forward that is made only later and stays until the device goes; TLC shows that
in five steps when one drops `pc = "open"` from `ClosedForwardGoes`. The theorem says
that a stream closed so early never opens (`ForwardInv`: no connection is or will be
accepted), so the bridge never holds one whose forward stays but by a removal that was
tried and failed.

`StartAlwaysAdvances` and `StartGoesOn` are the part of `StartSettles` that needs no
fairness: a measure falls at each step of `start()` and at no other (`StepsLeft`, at
most 4 * `Attempts` + 3), and at each await a step is to come, since a socket on trial
either survives or has been closed (`TrialDecided`).

**ConsoleProofs**: `ViewportAlwaysLive`, `LivePictureAlwaysStays` and
`ConsoleTypeCorrect` from `ConsoleInv`, which is `TypeOK`, with its links between
`active`, `socket` and `mine`, and `ViewportIsLive`. `ConsoleUsesLifecycle`: every step
of the page, of other pages and of the control plane is one of `SessionLifecycle`, for
which it takes that all the page knows of, in tokens, buttons, answers on their way and
DELETEs being sent, has been created at some time (`KnownInv`).

**TouchPathProofs**: `NoFingerEverLeft` and `StrayAlwaysAfterLoss` from `TouchInv`,
which adds two facts: a hidden canvas has had its gestures cut (`HiddenInv`), and a
finger the handlers know is down on the device of the attachment, or its 'down' was
lost, unless the stream is over (`PointerInv`). Neither property is inductive
without them: a gesture is cut when the canvas is hidden and missed when the finger
rises. `EveryCoordinateMeetsAPixel` and `PixelsAlwaysOnScreen` are
arithmetic, for every width, every grid and every integer on either side of it, or none.

**JsonBridgeProofs**: `AppAlwaysThere` from the fact that `_installed` names only
devices that have the app, which no step takes away. `UndisturbedIsWhole` from
`JsonInv`: what an undisturbed request has photographed so far is the beginning of
its own page, and the screen of its device shows the page at the position the next
picture should have. `LeastExists` (by well-founded induction) justifies the
choice of the oldest session; that requests are finitely many makes the bound on
other clients' sessions a number. `RequestsAlwaysAdvance` measures a request by the
calls it can still make (`CallsLeft`): its own steps lower that, nobody else's change
it, and `StripsStayWithinLimit` keeps the measure of the scrolling loop a number. That a
poll ends is the deadline's doing, and so a matter of fairness. `JsonUsesLifecycle` is the counterpart of
`ConsoleUsesLifecycle`. With `ImplementsSessionLifecycle` and
`ProcessImplementsLifecycle` these say that both sides of the HTTP API keep to one
specification. The clients' own models of their environment do less than it allows in
one respect: they end sessions one at a time, where the reaper may end several at once.

**Inductive invariants** were given to TLC before they were proved: `StreamInv`
with the constants of `StreamReader.cfg` (38,697 states), `BridgeInv` and `QueueBounded` with
those of `BridgeSafety.cfg` (266,156), the invariants of the registry across restarts with two
sessions, two starts, crashes and failing boots (116,368); `FlowInv`, `ForwardInv` and
`KnownInv`, and the two properties `CP!Spec`, with the constants of the run of their
module.

**Model-checked only.** Every invariant and every action property of the runs that
pass is the subject of a theorem. Liveness is not, being out of the prover's reach:
`ShutdownEnds`, `BootSettles`, `IdleSessionsAreReaped`, `FittingReadsSettle`,
`RequestsAreAnswered`, `StartSettles`, `ClosedStreamIsGone`, `NothingOutlivesDevice`,
`EndIsHeard`, `DeadCanvasGoes`. No theorem uses the fairness that these assume;
`StartAlwaysAdvances` and `RequestsAlwaysAdvance` prove of `StartSettles` and
`RequestsAreAnswered` what does not depend on it.

## 5. Findings

Each is shown by a run that checks what the repository says and finds it violated.

1. `FailurePolling`: a client told to poll for `failed` and its reason never sees
   either; it gets 404.
2. `BridgeRecovery`: after a decoder error the page waits for parameter sets that
   the encoder sends only when it starts over, however many keyframes it sends meanwhile.
3. `ForeignPicture`: json-bridge answers one request with a picture of another's
   JSON when both use one device.
4. `Rotation`: after a rotation the bridge goes on encoding touches for the size
   of the first meta message, which the device ignores; `setSize()` has no caller.

More divergences were met without a run of their own:

* A deleted, still-booting session returns its ports in `destroy()`
  (`sessions.js:168`) and once more when its boot fails (`:149`), after the pool may
  have handed them to another: two sessions can hold one adb port. What does hold,
  `ReuseOnlyAfterFullCycle`, is checked and proved.
* A session deleted while `docker run` is in flight leaves a running container
  (`redroid.js:114`) that nobody stops before the next start of the control plane;
  `NoContainerForgotten` has it under `missed`.
* A frame longer than 16 MB (`reader.js:23`; `scrcpy.js:176` accepts 32 MB) pauses the
  socket under the read that waits for it, for good; `FittingReadsSettle` excepts it.
* A forward that adb fails to remove stays while the device lives: `removeForward()`
  (`adb.js:69`) treats every failure as "already removed". `ClosedStreamIsGone` excepts it.
* A stream whose server exits while `start()` still connects opens closed
  (`scrcpy.js:208` emits 'close' to nobody), and its session stays `ready` until it is
  idle; `EndIsHeard` excepts it (`stale`).
* With an adb range wider than the stream range, `create()` loses an adb port each time
  the stream pool alone is empty (`sessions.js:17`); `NoPortLost` holds for ranges of
  one width.
* A page that lost packets to a full socket goes on decoding (`bridge.js:78`,
  `app.js:341`); `MisfedOnlyByDrops` excepts it.
* A viewer that attaches after the GOP buffer has overflowed is replayed no frame,
  although `docs/PROTOCOL.md:25-27` promises an immediate picture.
* json-bridge reports a vanished session (404) or a full host (429) as 502, which
  `gcp/README.md:204` keeps for an unreachable control plane.
* A poll that throws (`app.js:190`) leaves the start button disabled; a click on a
  session without a token hides the picture of another that goes on (`app.js:224`).

## 6. Not modelled

* The emulator's own process in `ControlPlane`: its run has containers only. The
  fault model of `SessionManager` has emulators too, for safety.
* Input other than touches; the layout of control messages in bytes
  (`control-plane/test/wire.test.js` checks it), several pages on one device.
* The page's notices, host status, capabilities, meters and signal strip: output.
* `/logs`, `/capabilities`, `/health`: no state.
* json-bridge's validation of requests, theme and grid.
* Arguments of docker and of the emulator, display sizes, the text of adb's answers.
* Viewers that vanish without closing their connection: the bridge sends no pings, so such
  a socket counts as a client until TCP gives it up, and its session is not idle
  meanwhile. `Detach` and `Closed` are the close that comes in the end.
* Configuration, logging, deployment: read once, pure output, or shell scripts
  without state of their own.

## 7. Plan

1. That `ScrcpyStream` implements the steps `StreamStarted`, `BootFails` and
   `StreamCloses` of `SessionManager`, with `stale` mapped to a stream that is open
   to the registry and closed in fact. A stream whose device goes in the last grace
   window opens after the device has gone; `SessionManager` has those two steps in the
   other order, so the mapping has to delay the device.
2. Several pages on one device in `TouchPath`, whose pointer ids collide.
3. The emulator backend in `ControlPlane`, with processes that outlive their parent.
