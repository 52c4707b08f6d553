# Verification of lan-extended-display

TLA+ models of lan-extended-display, a Windows host that adds a virtual display
and streams it to a Linux client over the LAN: the models, the TLC runs that
check them on small instances, and proofs that TLAPS checks for every value of
the constants. Paths are relative to the repository; each module names the
functions it models, and `PROJECT.json` maps every definition to its lines.

## 1. The system

| part | code | state it keeps | operations | talks to |
|---|---|---|---|---|
| display driver | `windows-host/driver/.../driver.cpp` | the monitor, whether it is departing, tick of the last departure, control events, swap-chain pump | control thread (create, destroy, stop), adapter callbacks, unload | tray and host through four named events |
| Windows tray | `windows-host/host-ui/tray_app.cpp` | host process and its generation, expected exit, recovery state, whether the display is installed, devices heard of | start, stop, exit, quality/diagnostics restart, timer, host-exited message, discovery thread | driver (events), host (process, stop event), Linux tray (UDP 17659) |
| host process | `windows-host/host-ui/host_app.cpp` | display lease, client connection, capture loop, encode worker, acknowledgement tracker, input thread | serve one session and exit | driver (events), client (TCP 17660, UDP 17670/17691/17692) |
| capture engine | `windows-host/host-core/src/capture_engine.cpp` | DXGI duplication or GDI, the last frame, its id | start, captureNextFrame, stop | Windows |
| MJPEG transport | `common/src/mjpeg_packet.cpp` | the assembler's one frame | packetize, parse, pushDatagram | UDP 17670 |
| Linux client | `linux-client/client-ui/client_app.cpp` | assembler, decode queue, canvas, acknowledgements | connect, receive loop, decode thread, input | host |
| Linux tray | `linux-client/tray/led_client_tray.py` | the client process, time of the last recovery | answer discovery, start/replace the client | Windows tray |
| session state | `common/src/session_state.cpp` and the two session managers | a state and the last error | apply(event) | its owner |
| input path | `x11_input_capture.cpp`, `input_sender.cpp`, `input_receiver.cpp`, `input_injector.cpp` | X event queue, the motion kept back, pressed buttons and keys of two desktops | capture, send, receive, inject | UDP 17691 |
| H.264 transport | `encoder.cpp`, `video_sender.cpp`, `h264_rtp_*.cpp`, `video_receiver.cpp` | parameter sets, sequence numbers, the NAL unit being put together, loss counters | encode, packetize, send, push, note | UDP 17670 |
| H.264 session | `runServeLiveCaptureMode` (`host_app.cpp`), `runReceiveTestStreamMode` (`client_app.cpp`), `decoder.cpp` | steps taken, two threads, access unit, pipeline, ids to acknowledge | serve, recover, collect, decode, acknowledge, end | TCP 17660, UDP |
| renderer | `linux-client/client-core/src/renderer.cpp` | texture, shared image, window | open, submit a frame or a rectangle, close | X server |
| discovery stub, scripts | | | | |

Hard behaviours: the tray is an event loop that waits for other processes inside
its handlers while messages about them queue up; the driver gives up its lock
between taking a monitor and removing it; UDP loses and reorders and nothing is
sent twice; the picture is put together from rectangles that are sent once; the
capture loop and the worker share a slot for one task; sequence numbers wrap at 2^16;
the client's input thread merges motions; the window is drawn in three ways of which
each may fail for a frame; and every process can end at any point and be started again.

What makes each part correct:

* transport: the decoder gets only pictures that were sent, complete and unmixed;
* driver: one monitor at most, none is lost, none is left when nobody wants it,
  every request is served;
* tray, host, client: no display without an owner, no display removed under a
  running host, Stop removes everything, recovery ends;
* capture pipeline: whatever is dropped, the client's picture becomes the desktop;
* H.264: the decoder gets NAL units as they were encoded, access units of one picture,
  and parameter sets before it needs them; acknowledgements name what was rendered;
* input: Windows' pointer and keys follow the user's, in the order of his actions;
* renderer: a tile shows its last frame, and no older picture comes back, except where
  OpenGL missed that frame and draws again;
* sessions: whatever fails, both programs end and give back what they hold.

## 2. Modules

| module | models | checked by | proofs |
|---|---|---|---|
| `FrameChannel` | what a transport promises | refinement | |
| `MjpegStream` | MJPEG: worker, packetizer, UDP, assembler | `MjpegStream` | `MjpegStreamProofs` |
| `RtpStream` | H.264: encoder, packetizer, UDP, depacketizer, statistics | `RtpStream` | `RtpStreamProofs` |
| `VirtualDisplay` | what the driver promises | refinement | |
| `MonitorDriver` | the driver and the events of its users | `MonitorDriver` | `MonitorDriverProofs` |
| `HostTray` | tray, host process and client over `VirtualDisplay` | `HostTray`, `HostTrayLiveness`, `HostTrayNoClient` | `HostTrayProofs` |
| `CapturePipeline` | capture engine, loop, worker, client picture | `CapturePipeline` | `CapturePipelineProofs` |
| `MjpegSession` | one MJPEG session of host and client: handshake, liveness, queue, stop | `MjpegSession`, `MjpegSessionLiveness` | `MjpegSessionProofs` |
| `LiveSession` | one H.264 session: steps, failures, recovery, threads, access units, decoder | `LiveSession` | `LiveSessionProofs` |
| `InputPath` | X11 capture, datagrams, input thread, injector | `InputPath` | `InputPathProofs` |
| `Renderer` | the client's window and its ways to be drawn | `Renderer` | `MjpegSessionProofs` (its last part) |

`MC*` modules extend these for TLC; the constants are in the `.cfg` files, which have
the names of the runs.

`FrameChannel` and `VirtualDisplay` are the abstract specifications. `MjpegStream` and
`RtpStream` implement the first (`ImplementsChannel`), `MonitorDriver` the second
(`ImplementsDisplay`); `HostTray` does not contain the driver but `VirtualDisplay`,
so that what it shows of the programs rests on a promise the driver is proved to
keep. `CapturePipeline` and `MjpegSession` use a rectangle as a whole, and `LiveSession`
a NAL unit, which is what `FrameChannel` promises: it is lost or arrives as it was sent.
`InputPath` ends with the session that owns its thread, as `LiveSession` does, and
`Renderer` takes the rectangles `CapturePipeline` paints.

## 3. How state and actions correspond to the code

**MjpegStream.** `captured` is `latestFrame_.frameId`; `taskFrame`, `rects`, `rect`,
`count`, `part` are the locals of the encode worker's two loops; the variables with
an underscore are the members of `MjpegFrameAssembler`, and `header_` stands for its
metadata members. `TakeTask` takes a task of one to `MaxRects` rectangles (with or
without the frames the loop skipped before it), `PacketizeRect` gives the next
rectangle its id and datagrams, `SendPart` and `SendFails` are the two outcomes of
`sendTo`, `EncodeFails` ends a task, and `RestartCapture` is `recoverCapture`, with
the worker wherever it is. `Deliver` is a whole call of `pushDatagram` including
`reset`; a datagram may stay in flight after it, which is how UDP repeats one. What
the bytes of a rectangle are is not modelled; which rectangle they come from is, by
a serial number that no id of the code carries.

**MonitorDriver.** The four events are Booleans; `monitor`, `departing`, `cooldown`,
`adapter`, `finished` are fields of `g_state`. Every action of a thread is one
critical section of `g_stateLock`, or one call made without it: `ClaimMonitor`,
`Depart` and `Settle` are the three parts of `DestroyVirtualMonitor`, used by the
control thread and by the unload routine. `ControlCreates` is one turn of
`RetryCreateVirtualMonitor` with its sleep, `Tick` time that passes otherwise. `arrived` is what IddCx knows.
The tray's two calls (the `active` event, then the request) are `TrayAsks` and
`TraySignals`; the host makes only the second, `HostSignals`.

**HostTray.** `tray` holds the globals of `tray_app.cpp`. The window procedure is one
thread: an action of the tray is a handler up to its next wait, and while the tray
is `starting`, `stopping`, `recalling` or `checking` no other handler runs, but the
host, the driver and the client do. `host` is the process that exists, with its stop
event, and `slow`, chosen anew for each process: it does not find the display within the
1.2 s after which the tray calls the client, whether the host listens or not
(`StartCompletes`, `Recall`); `exited` the messages posted by the waiting threads; `Generations` the values
of `g_hostGeneration`. `Ended` is what timer and message share when a host ends
unexpectedly (`beginRecovery`), `Remove` is `removeVirtualDisplayIfInstalled`. The
host's actions are the ways into and out of `runServeMjpegCaptureMode`: every way
out runs the lease, except a crash or `TerminateProcess`.

**CapturePipeline.** One turn of the loop is `SkipCapture`, or `Capture` (with the
engine's whole `captureNextFrame`: `Grab`, the partial copy, the lost duplication,
the fall-back to GDI) followed by one of `SkipIdleDiff`, `NothingDirty`, `TooEarly`
and `Submit`, in the order in which the code tries them. The slot `pending` is
`pendingEncodeTask`; the worker's rectangles of a task are the sets of `Rectangle`,
as `reduceDirtyRects` may merge them. `view` is the client's canvas, `Painted` the
two branches of the decode thread. Time is counted in turns; the two clocks the loop
compares with, of the idle probe and of the submit interval, become due after any of
several numbers of turns (`CaptureProbes`, `SubmitTurns`).

**MjpegSession.** `host.at` and `client.at` say where the two programs are; `toHost`
and `toClient` are the lines on the control connection. `Reason` is the head of the
capture loop: stop, connection, acknowledgements, in this order; the worker's status
is looked at last (`WorkerFails`). `acked` and `age` are what `frameAckTimedOut`
looks at. `ClientTimesOut` is the failed `receiveFrom`, with its three ways out;
`queue` is `latestFrames`. A tick is about ten seconds: a frame arrives or is lost before
it ends, an acknowledgement of a slow client before the next one does. `sent` is the
host's map `sentFrames`: whether an acknowledgement counts depends on its id still being
there (`HostTakesAck`, `Finds`). Ids are given by how far they are behind the newest one
(`behind`); `noteFrameSent` keeps those up to `KeptIds` behind, and one further behind may
be gone or not, as the map is only cleared when it has grown. A render acknowledgement
takes its id off.

**RtpStream.** `EncodeFrame` is `Encoder::encode` with Media Foundation: whatever picture
the transform delivers, and whether its sequence header becomes known with it;
`EncodePlaceholder` is the way without. `PacketizeNal` cuts and numbers a whole NAL unit,
as `packetizeNal` does, before `SendPacket` gives its packets to the socket; a failed
`sendTo` closes the sender for good. A packet is the piece it carries of a NAL unit; all
the fields the code reads (number, time stamp, FU-A bits, marker) follow from that, and
the depacketizer's actions use only these. `allocated` and `Number` count without a wrap,
the code sees `Number % SeqMod`. `Deliver` is one turn of `receiveNal`: `notePacket`, then
`pushPacket`. `mode` says what the network does in a behaviour.

**InputPath.** `LoopTop` is the head of the capture thread's loop, `TakeXEvent` one turn of
its inner loop over `XPending`, `BatchEnds` what follows it; `pendingMotion` is the local
of that name. A send that is refused ends the thread (`ok` is FALSE). `HostChecks`,
`ReceiveTimesOut` and `Receive` are the input thread of either serving mode; `kind` says
which, as only the live loop ends with it. `Applied` is `injectSendInput`, as far as
Windows' pointer, buttons and keys go, and `Code` the tables of both ends in one.

**LiveSession.** `host` is the step `runServeLiveCaptureMode` is at, `hostHeld` what it
would have to give back there; each step's own way out is `FailStep` with `StoppedFirst`,
the way out of the loop `StopAndRelease`; `HostEnds` comes after both joins. `unit` is what
`flushAccessUnit` pushes, `appsrc` the pipeline's source, with room for two and leaky, and
`pendingFrameIds_` what `rememberFrameId` and `takeDecodedFrameId` work on. The ways out of
`runReceiveTestStreamMode` are `PushRefused`, `ReceiveFails`, `StartupTimesOut` and
`LeaveLoop`. `picture` tells two frames with the same id apart; no step reads it.

**Renderer.** A call of `submitRawFrameData` or `submitRawFrameRegion` is one step, under
the mutex: how far OpenGL gets (`Outcomes`), and which way shows the frame after that
(`Ways`). An outcome has two parts, as OpenGL is asked for errors once, after drawing: the
upload (none, failed or done) and the drawing (none, with an error, or done). A failed
upload leaves the old texture, or one without contents, and its size recorded; the window
is drawn with it before the error is seen. `Texture` is the test of the texture's size,
`SharedImage` that of `ensureSharedImage`; `latest`, `missed` (tiles whose last frame the
texture has not got), `hidden` (tiles whose last frame nothing showed) and `covered` (tiles
OpenGL has drawn since their last frame) are history.

## 4. What the runs check

| run | states | checks |
|---|---|---|
| `MjpegStream` | 220,392 | until the capture engine restarts, every frame handed over is one rectangle (`NoTornFrame`) and the transport implements `FrameChannel`; on a network in order what was sent whole arrives |
| `RtpStream` | 201,154 | what is reassembled is one NAL unit, whatever the network does and though numbers wrap (`ImplementsChannel`); parameter sets in front of every IDR picture (`IdrDecodable`); losses counted exactly (`LossIsCounted`); in order everything arrives |
| `MonitorDriver` | 160,420 | one monitor at most, none lost, none left; destroy and create requests are served; the driver implements `VirtualDisplay` |
| `HostTray` | 2,988,662 | no display without an owner, none taken from a running host |
| `HostTrayLiveness` | 354,995 | Stop and Exit remove everything; a recovery ends in a session if the client returns and the display is not slow every time |
| `CapturePipeline` | 557,646 | the buffer follows the desktop, the picture what was submitted, and the client ends up with the desktop, unless idle probes and comparisons resonate |
| `MjpegSession` | 4,880,864 | no side gives the other one up by mistake, a client whose acknowledgements are too late excepted; the newest frame is the one shown |
| `MjpegSessionLiveness` | 307,203 | each side notices when the other is gone; Stop ends the host |
| `LiveSession` | 327,780 | access units of one picture; acknowledgements name what was rendered; a stop event, a failure or a host that is gone ends both programs, and nothing stays held |
| `InputPath` | 219,228 | pointer and keys of Windows follow the user's; a wheel step turns what he points at; what he presses arrives; the session gives the display up |
| `Renderer` | 62,634 | every tile shows the last frame submitted for it, unless nothing could show that frame, or OpenGL missed it (shared memory may have shown it) and has drawn since |
| `HostTrayNoClient` | | finds a violation, see section 6 |

Bounds, and why they are enough:

* `MjpegStream`: three rectangles in flight with up to two parts each, two frames of
  up to two rectangles, and a restart. Mixing needs two rectangles that share an id
  or follow each other, and a third to be interrupted by; a restart makes ids repeat,
  a second one adds nothing to that.
* `MonitorDriver`: four requests (a destroy between two creates and one more), two
  departures that fail as often as the thread tries, a cool-down of two sleeps and
  three tries to create: `CreateAttempts > Cooldown`, as 50 > 20 in the code.
* `HostTray`: four generations, so that a message can be about an older host than
  the previous one; one start, one restart, one recovery attempt in the safety run
  and two in the liveness run; one fault of any kind. In all three runs every start of a
  host may meet a display that takes longer than the 1.2 s.
* `CapturePipeline`: two tiles, so that a dirty rectangle is one of them, is merged with
  the other, or is too large a part and sent as the whole; two contents of a tile, so that
  an older picture is told from a newer one (the proofs are for any number of either); two
  changes and one fault, which may be a lost
  duplication, a failed capture, a lost rectangle or a failed send. The counters keep
  the code's order (warm-up, probe, submit interval, active < idle key frames) at
  small values; `Period` makes their combinations repeat. A probe comes after two or three
  turns (three or four in the code) and comparisons are made at every second idle frame
  (every fourth), so that probes keep in step with comparisons, run against them, or change
  between both, in any order; these values do reach the resonance of section 6.
* `MjpegSession`: two frames in a tick and a queue of two, so that it overflows; one id
  kept behind the newest one (240 in the code), so that an acknowledgement may be found,
  be at the limit, or be too late. The liveness run has one frame in a tick and keeps the
  newest id only: an acknowledgement is late after a single frame. The
  liveness time-out, the start-up limit and the active limit keep their order
  (60 s and 60 s, 300 s in the code); two faults, so that a loss can follow a crash
  or a recovery.
* `RtpStream`: two frames of up to four packets each (parameter sets, and a picture of one or
  three), or of three (the placeholder), and six sequence numbers, so that numbers wrap in
  the middle of the second frame, while half the sequence space is three: a gap of two is
  still told from an overtaken packet. `FrameFits` keeps the packets of one frame within one turn, as in the code, where a frame
  would need tens of megabytes to break it.
* `InputPath`: three actions of the user, so that a motion can lie between a press and its
  release, or two motions be merged in front of a wheel step; two keys that are one key for
  Windows, and a button inject does not know. The network neither loses nor reorders.
* `LiveSession`: three pictures, so that the leaky source drops one; two NAL units in
  flight; one restart; two start-up time-outs for 12; two remembered ids for 240, as many as
  the source holds units.
* `Renderer`: three tiles, so that two rectangles overlap, follow each other or leave a
  tile to neither; four frames: one in the texture, one beside it, one more by the first
  way, and a last one.

Every property has a mutant: a definition with a slip (described next to it in the
modules) that makes the same run find the property violated.

`CHECK_DEADLOCK FALSE`: all of these systems really stop, when the bounded inputs
are used up or the programs have ended.

## 5. Fairness and time

Weak fairness of a thread's step says that the thread runs; the code has no step a
scheduler could refuse. Beyond that:

* `MjpegStream`: datagrams in flight are delivered or, unless the network is in order,
  lost; the worker may stop for ever between two rectangles.
* `MonitorDriver`: none for requests or for unload; the adapter is powered up.
* `HostTray`: the driver, host, client, timers and messages go on; faults, the user and
  a client that stays away do not have to happen. `ReturningSpec` adds a client that
  comes back when it has left, and strong fairness of its connect: the tray calls it
  again and again, and a call that comes when the host listens succeeds some time. It also
  has strong fairness of `QuickRetry`, a recovery attempt that finds the display within
  1.2 s: the client connects once when it is called, and is called once after that time, so
  that a display which takes longer every time is never reconnected.
  `RecoveryReconnects` is about this client and this display only.
* `CapturePipeline`: the loop and the worker run. Nothing is assumed of when probes come
  due; what can come of that is the exception `Resonates` of `Converges`. Nothing says that a rectangle
  arrives, except that losses are bounded.
* `MjpegSession`: `Recovery` ends, as it is a loop of at most 180 tries;
  time goes on; a frame in flight arrives or is lost before the tick ends, an
  acknowledgement before the next one does.
* `RtpStream`: a NAL unit that is cut is sent or refused, and what has arrived is read.
* `InputPath`: both threads and the main thread run; strong fairness of `Receive`, because
  `recvfrom` times out only on an empty socket, while the model may let a time-out come
  between two datagrams. The user and the end of a session are under no fairness.
* `LiveSession`: both programs' main threads and the host's two other threads run. Nothing
  says that a session ends by itself, or that a frame is ever captured, or decoded.
* `Renderer` has no liveness.

Time is never counted in milliseconds. What the lengths imply is in the guards, and is
an assumption of the model:

* `HostTray`: 1.2 s after `CreateProcess` the tray goes on, with the host listening or
  (`slow`) still looking for the display, but before the host has given up looking for the display (5 s) or for a client (10 s); the driver has finished a
  request before the 8 s to the next attempt are over.
* `CapturePipeline` counts turns of 16,666 µs; the probe interval of 50,000 µs is due after
  three or four of them, as three are 2 µs short of it, or fewer when turns are long.
* `MjpegSession`: an idle desktop is sent every 8 s, so that a host that serves sends a
  frame in every tick.

## 6. Where the code and its documents differ

One of these is a run of its own, which TLC refutes.

* `HostTrayNoClient`: recovery is armed 15 s after the start command, client or not;
  every retry clears the pending recovery, and the next one starts to count anew
  (tray_app.cpp:1164, 1185). The condition is that the host is still alive 15 s after the
  command. A host without a client ends after 10 s, so this is the case when it was started
  late or had to wait: the clock starts before `createVirtualMonitor`
  (tray_app.cpp:1279, 1283), which may install the driver first, and the host may look for
  a slow display for up to 5 s. Nobody connects, and the display comes and goes for ever;
  docs/gui-and-autostart.md:47 says it is removed.

Seen while modelling, without a run:

* Both streaming modes start the capture with `forwardPointerEvents`
  and `forwardKeyboardEvents` false (client_app.cpp:548 and 942), so that nothing the user
  does is sent, while README.md:9 and 185 say it is. Only the mode that sends input alone
  (`runX11InputSenderMode`) forwards events; `InputPath` models what it would be with them.
* `startCapture` resets the frame counter (capture_engine.cpp:738), so that ids are used
  again after a recovery; the assembler, which goes by id and part count, may then put parts
  of two pictures together. `NoTornFrame` and the refinement stop at a restart for this
  reason, and `UnitOfOnePicture` of the H.264 session as well.
* "Restarting capture without removing the virtual display" (tray_app.cpp:1325): the host
  ignores `keep-monitor-on-exit` (host_app.cpp:1975), and its lease removes the display.
* On the GDI path an idle desktop is captured every 50 ms (host_app.cpp:1551, 1734) and
  compared only at every fourth idle frame (line 1782); a frame that is not compared is not
  sent either, and the refresh of an idle desktop comes after that test. When all captures
  fall between two comparisons (three or four turns against four at 60 fps, two against two
  at 30), the picture stays as it is. `Resonates` names these histories.
* An acknowledgement whose id has left `sentFrames` counts as unknown and does not set the
  time-out back (host_app.cpp:185, 215). The map is cleared when it has more than 240
  entries, of ids more than 240 behind, which is 15 captures as ids grow by 16 with each
  (half a second at 30 a second; README.md:184 of the repository gives a peak of 790 ms). A
  client whose acknowledgements come after such a clearing all the time, though it receives
  everything, is given up. `NoFalseAlarm` names the case (`late`).
* OpenGL is asked for errors once, after drawing (renderer.cpp:225): when an upload has
  failed, the window has been drawn with the older texture by then. The size is recorded
  even if there was no memory for the texture (lines 262 and 330). A frame that only shared
  memory showed is covered by the older texture when OpenGL draws again.
* The client is called 1.2 s after the host's process is created (tray_app.cpp:1097, 1256,
  1295), listening or not, and a client that is refused does not try again.
* A frame that comes too early for a task is skipped (host_app.cpp:1838), and what the
  duplication reported with it is not reported again: the client shows old tiles until the
  next full frame, up to eight seconds later. `PictureFollows` counts these tiles (`gap`).
* After a capture recovery of more than 60 s the loop finds the acknowledgements too old
  (host_app.cpp:1715), before it has sent anything, and ends a session the client still
  waits for. `NoFalseAlarm` allows it: the host was silent for as long.
* X11 counts buttons left, middle, right; `inject` (input_injector.cpp:138) takes 2 for right
  and 3 for middle, so that the two are exchanged. A side button is an error, and an error
  ends the input thread (host_app.cpp:1480); an MJPEG session then goes on without input.
* The plan (line 267) asks for a reliable channel for clicks, wheel and keys; they travel by
  UDP, and a release that is lost leaves a key down.
* When the access unit flushed at the end of an H.264 session is refused, the client returns
  without joining its input thread (client_app.cpp:696), which ends the process by
  `std::terminate`; after a failed receive (line 624) it leaves the decoder running.
* The live host looks at the TCP connection no more once the client is ready
  (host_app.cpp:1300): it streams to a client that is gone until the stop event.
* A rectangle that neither OpenGL nor shared memory can draw is accepted and not shown
  (renderer.cpp:1064), while a whole frame has a third way.
* A rectangle that comes late is handed over and painted (mjpeg_packet.cpp:164), while
  the plan (line 562) says "过期帧直接丢弃。" (stale frames are discarded).
* A create signalled while a destroy is pending is taken first (driver.cpp:491) and the
  new display is destroyed; `CreateServed` leaves this case out.
* A task that waits for a slow worker is overwritten (host_app.cpp:1853) and its
  rectangles wait for the next full frame.
* A recovery that gives up while a host runs (tray_app.cpp:1221) forgets the display;
  when that host is terminated after Stop, the display stays. `NoOrphanDisplay` and
  `StopRemoves` exclude these histories (`abandoned`).
* The decode thread ends at the first bad JPEG, and the receive loop does not look
  (client_app.cpp:1028): the window keeps the old picture, while the receive
  acknowledgements keep the host satisfied; README.md:25 of the repository says the
  client does not stay on an old picture.

## 7. Proofs

`MjpegStreamProofs`: for any number of frames, parts, rectangles and restarts, from
`StreamAssumption` (the rectangles of a frame fit into `Stride`, as 8 <= 16).

* `TypeCorrect`, `CounterCorrect`, `HandsOverCompleteFrames`, `NoTornFrames`,
  `StreamImplementsChannel`.
* `CompleteFrame` is about the last call only, and so is not inductive. `IInv` adds what
  it rests on: the worker's datagram belongs to a packetized rectangle (`SenderInv`),
  so does every datagram in flight (`NetInv`), and so does every part the assembler
  holds, under its id and count (`AssemblerInv`).
* For `NoTornFrames` a second invariant says that ids grow (`IdsInOrder`), until the
  capture engine restarts: then two rectangles with one id are one, and complete means
  untorn. This is where the argument breaks when ids are used again.

`MonitorDriverProofs`: for every number of tries, cool-down, requests and failures, from
`DriverAssumption`.

* `TypeCorrect`, `AtMostOneMonitor`, `MonitorsAreKept`, `NoneWhenNotActive`, and
  `DriverImplementsDisplay`: each step is one of the display's or a stutter for as long as
  the driver is loaded and departures have failed less often than the thread tries
  (`InService`); after that the driver gives a request up, and `VirtualDisplay` does not.
* `OneMonitor` holds because a monitor is held by `g_state` or by the thread that removes
  it (`HeldInv`), and because that thread's flag keeps everybody else from creating one
  (`RemovalInv`). `GoneWhenNotActive` needs the thread's failed tries counted against
  `failures` (`AttemptInv`) and what `active` says while a create is served (`ActiveInv`).

`RtpStreamProofs`: for every number of frames and packets and every sequence space, from
`RtpAssumption` and `FrameFits`.

* `TypeCorrect`, `IdrsDecodable`, `LossesCounted`, `StreamImplementsChannel`.
* The heart of `StreamImplementsChannel` is that a continuation with the number that is
  waited for *is* the next piece, though numbers wrap (`ContinuationIsNext`). It needs that
  NAL units have disjoint intervals of unwrapped numbers and that those of a frame lie
  within one turn (`SentInv`, `FrameInv`), and it uses that the time stamp is the frame's:
  with the number alone the argument fails across frames.
  `AssemblyInv` says that what is collected is a beginning of one NAL unit.
* `LossesCounted` follows packets in order by their unwrapped numbers (`OrderInv`); the
  signed difference is right while fewer than half the numbers are skipped in a row.

`LiveSessionProofs`: for every value of the constants, from `LiveAssumption`.

* `TypeCorrect`, `UnitsOfOnePicture`, `AcksNameRendered`, `NothingHeld`.
* `NothingHeld` needs what is held at every step of the host, and which threads run there
  (`HeldInv`); `UnitsOfOnePicture` that an id in flight, collected or queued belongs to one
  picture until the capture is started again (`StreamInv`).
* `AckNamesRendered` is about the moment after an acknowledgement. Its invariant follows
  the ids from the network to the pipeline: they grow (`IdsGrow`), and the units in the
  source are among the last ids the client remembers, in the same order, with nothing
  pushed since that is not in it (`AcksMatch`). So the id that is taken for a frame, which
  is the oldest one remembered or the one with its time stamp, is never ahead of the frame.
  The argument needs a list of ids that is at least as long as the source
  (`MaxPendingIds` above 1, and 240 in the code): with one id kept TLC finds an
  acknowledgement of a frame that is still to be rendered.

`HostTrayProofs`, from `TrayAssumption` and whatever `VirtualDisplay` allows:

* `TypeCorrect`, `NoOrphans`, `HostKeepsIt`, `DisplayUsedAsOffered`.
* Both safety properties rest on one fact about the handlers: the host that runs is the
  one the tray holds, and no exit message in the queue is about it (`HostOwned`). It is
  kept because `startHost` finds out first whether a host runs and gives a new one a
  generation nothing else has, and because the message is posted by the end of the process.
  While the tray waits for an old host to end, the generation is already the next one's,
  and `HostOwned` says nothing of it. So whatever makes the tray believe that its host has
  ended (timer or message) is true, and a display it gives up is given up when no host
  runs; from then on it goes away (`DisplayOwned`: the driver is asked to destroy it, or
  nothing wants it). `RestartOwned` says that a restart, which starts a host without asking
  for the display, still knows of one.
* `NoOrphanDisplay` does not have to wait for messages still in the queue: the proof does
  not use that there are none, and the property does not say so.
* `DisplayUsedAsOffered`: every step of the composition is one of `VirtualDisplay`'s or
  leaves the display alone, which is what lets `MonitorDriver` take its place.

`MjpegSessionProofs`, from `SessionAssumption`:

* `TypeCorrect`, `NewestFrameShown`, `AlarmsAreTrue`.
* `NoFalseAlarm` compares two pairs of clocks. As long as nothing is lost, the age of the
  host's last acknowledgement is no more than the longest silence of the host since then
  (`AcksFollow`, `QuietFollows`), and what the client has waited no more than the host's
  silence (`SilenceFollows`), unless the frame, or the acknowledgement, that sets the clock
  back is under way. An acknowledgement under way sets it back only if the map still holds
  its id: `FramesNoted` says that it does, up to `KeptIds` behind, because only a render
  acknowledgement takes an id off and the frame was received before; beyond that it is
  `late`, the case the property names. A reason that was true when the host gave up stays so (`AlarmJustified`).
  The theorem holds for time limits in any relation, where the run has one.
* `LastFrameShown` is about an empty queue; the invariant says of every queue that it has
  the newest frame as long as it has any (`NewestFollowed`): the full queue loses its
  oldest one.

The last part of the module is about the window of the client (`Renderer`), from
`RendererAssumption`: `WindowTypeCorrect` and `ShowsNewest`. A frame that OpenGL
draws brings the whole texture to the window, so that the window is as new as the texture:
the texture has the last frame of every tile but the missed ones (`TextureNewest`), which
are those whose upload did not happen or failed.

`CapturePipelineProofs`, from `PipelineAssumption`: `TypeCorrect`, `BufferIsCurrent`,
`PictureIsCurrent`. A rectangle is right about the tiles it leaves out only because the
captured frame has them as they were submitted (`FrameFollows`), which holds because the
engine's buffer has (`EngineFollows`), and because the loop never compares with a frame it
did not submit (`PreviousSubmitted`). What waits for the worker, and what it is sending, is
of the last submitted frame unless it will be sent again (`TasksFollow`).

`InputPathProofs`, from `InputAssumption`: `TypeCorrect`, `WheelsTurnAtPointer`,
`HostFollowsUser`. `HostFollows` is about the moment when nothing is on its way, and is not
inductive. The invariant says of every moment what Windows will have when all datagrams, the
motion kept back and all X events have been applied, in this order (`PointerInv`, `CodeInv`).
`WheelAtPointer` needs the same of the part of the way in front of each wheel step
(`ScrollInv` in the X queue, `WheelInv` on the network). That a motion is kept back and
replaced is then the lemma that the last value of a sequence does not change (`EndsLast`,
`EndsFirst`).

Only model-checked: liveness, as the provers have neither fairness nor ENABLED
(`SentFramesArrive`, `SentNalsArrive`, `DestroyServed`, `CreateServed`, `StopRemoves`,
`RecoveryReconnects`, `Converges`, `HostNoticesClient`, `ClientNoticesHost`, `StopEndsHost`,
`PressArrives`, `SessionReleases`, `HostEndsWhenItMust`, `HostGoneEndsClient`). Every
invariant, every action property and both refinements of the passing runs are proved.
Nothing here needs induction over data, and no module declares a RECURSIVE operator.

## 8. Not modelled

* The swap-chain pump, mode and EDID callbacks of the driver: the pump drains frames on
  the callbacks of IddCx, whose order the repository does not state. Menus, prompts and
  installation of the tray; message boxes, which let handlers interleave.
* The contents of pictures, JPEG and H.264 coding, statistics of latency; the arithmetic of
  dirty rectangles (they are sets of tiles) and of coordinates (they are places).
* The round-trip times and counters of the acknowledgement tracker (its map is modelled).
* `session_state.cpp` and the two session managers: a table that only a test tool drives.
* The renderer's local cursor, which both callers switch off, frames of another size than
  the window, and the SDL renderer.
* A crash of the tray, discovery on Linux (a stub), installation scripts; the test modes of
  both programs, which use parts of what is modelled.

## 9. What could follow

1. The safe parts of the liveness arguments: that a recovery that is pending is armed, that
   a stop event is never forgotten, what the next retry of a request rests on.
2. `InputPath` over a network that loses: which repair (a list of what is pressed in every
   datagram) would make `HostFollows` hold.
3. `SwapChainPump`: start, stop with its 5 s, and a new swap chain in between.
4. `DirtyRects`: merging and the full-frame limit against the union of the tiles.
5. `ClientTray`: the process it keeps, its throttle and its replacement.
