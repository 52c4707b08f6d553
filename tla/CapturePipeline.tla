-------------------------- MODULE CapturePipeline --------------------------
(***************************************************************************)
(* From the Windows desktop to the picture of the Linux client: the        *)
(* capture engine (capture_engine.cpp), the capture loop and the encode    *)
(* worker of the host (host_app.cpp, runServeMjpegCaptureMode), and the    *)
(* decode thread of the client (client_app.cpp).                           *)
(*                                                                         *)
(* Most frames are not sent whole: the loop works out which tiles have     *)
(* changed and hands them to the worker through a slot for one task, which *)
(* the next task overwrites.  Nothing is asked for again; a picture that   *)
(* has missed a change is repaired by the full frames the loop sends now   *)
(* and then.                                                               *)
(*                                                                         *)
(* A picture is a version number for each tile; 0 is the black of a buffer *)
(* that was only allocated.  Rectangles are sets of tiles.  Time is        *)
(* counted in turns of the loop, which sleeps until its next frame time.   *)
(* MjpegStream has the datagrams: here a rectangle arrives or is lost.     *)
(***************************************************************************)
EXTENDS Naturals, FiniteSets

CONSTANTS
    Tiles,           \* the tiles of the display
    MaxVersion,      \* bound: versions of a tile
    MaxChanges,      \* bound: changes of the desktop
    MaxFaults,       \* bound: failures and losses
    Backends,        \* what capture may start with: "dxgi", "gdi"
    WarmUp,          \* idleDiffWarmupFrames (20)
    DiffProbe,       \* idleDiffProbeInterval (4)
    CaptureProbes,   \* turns there may be between two captures of an idle
                     \* desktop (50 ms: 3 or 4, others when a turn is late)
    SubmitTurns,     \* turns there may be between two submitted tasks
                     \* (33.3 ms: 2 or 3)
    StartupWindow,   \* startupKeyFrameWindow (180)
    StartupInterval, \* startupKeyFrameInterval (12)
    ActiveInterval,  \* activeKeyFrameInterval (300)
    IdleInterval,    \* idleKeyFrameInterval (480)
    Period           \* a common multiple of the last two: capturedFrames is
                     \* counted modulo Period after the start-up window

ASSUME PipelineAssumption ==
    /\ Tiles # {} /\ IsFiniteSet(Tiles)
    /\ MaxVersion \in Nat \ {0} /\ MaxChanges \in Nat /\ MaxFaults \in Nat
    /\ Backends \subseteq {"dxgi", "gdi"} /\ Backends # {}
    /\ WarmUp \in Nat \ {0} /\ DiffProbe \in Nat \ {0}
    /\ CaptureProbes \subseteq Nat \ {0} /\ CaptureProbes # {}
    /\ SubmitTurns \subseteq Nat /\ SubmitTurns # {}
    /\ StartupWindow \in Nat /\ StartupInterval \in Nat \ {0}
    /\ ActiveInterval \in Nat \ {0} /\ IdleInterval \in Nat \ {0}
    /\ WarmUp <= IdleInterval
    /\ Period \in Nat \ {0}
    /\ Period % ActiveInterval = 0 /\ Period % IdleInterval = 0

VARIABLES
    screen,       \* what the desktop shows
    damage,       \* tiles changed since the duplication's last frame
    backend,      \* "dxgi" (dxgiCapture_) or "gdi"
    real,         \* capturedRealFrame_
    latest,       \* latestFrame_.bgra
    pc,           \* the loop is at its "top", has "captured", or is "done"
    frame, known, dirty,
                  \* the captured frame: bgra, dirtyRectsKnown, dirtyRects
    previous,     \* previousFrame, NoPicture when empty
    captured, idle, \* capturedFrames, idleFrames
    force,        \* forceRecoveryFrame
    probeIn, submitIn, \* turns until the next idle capture, the next task
    pending,      \* pendingEncodeTask
    work,         \* what the worker has not sent yet of its task
    asked,        \* encodeRecoveryFrameRequested
    failed,       \* encodeWorkerStatus is an error
    view,         \* what the client shows, NoPicture before a key frame
    changes, faults, \* so far
    submitted,    \* history: the last frame made a task
    gap           \* history: tiles a change of which has been lost

desktopVars == <<screen, changes>>
engineVars == <<damage, backend, real, latest>>
frameVars == <<frame, known, dirty>>
loopVars == <<previous, captured, idle, force, probeIn, submitIn>>
workerVars == <<work, failed>>
vars == <<desktopVars, engineVars, pc, frameVars, loopVars, pending, asked,
          workerVars, view, faults, submitted, gap>>

(***************************************************************************)
(* Values.                                                                 *)
(***************************************************************************)
Pictures == [Tiles -> 0..MaxVersion]
Blank == [t \in Tiles |-> 0]
NoPicture == [t \in {} |-> 0]
NoTask == [todo |-> {}, content |-> Blank]

Init ==
    /\ screen = [t \in Tiles |-> 1] /\ changes = 0
    /\ damage = Tiles /\ backend \in Backends /\ real = FALSE /\ latest = Blank
    /\ pc = "top" /\ frame = Blank /\ known = FALSE /\ dirty = {}
    /\ previous = NoPicture /\ captured = 0 /\ idle = 0 /\ force = FALSE
    /\ probeIn = 0 /\ submitIn = 0
    /\ pending = NoTask /\ work = NoTask /\ asked = FALSE /\ failed = FALSE
    /\ view = NoPicture /\ faults = 0
    /\ submitted = Blank /\ gap = Tiles

Fault == faults < MaxFaults /\ faults' = faults + 1

Change(t) ==
    /\ changes < MaxChanges /\ changes' = changes + 1
    /\ screen[t] < MaxVersion
    /\ screen' = [screen EXCEPT ![t] = @ + 1]
    /\ damage' = damage \cup {t}
    /\ UNCHANGED <<backend, real, latest, pc, frameVars, loopVars, pending, asked,
                   workerVars, view, faults, submitted, gap>>

(***************************************************************************)
(* CaptureEngine::captureNextFrame.                                        *)
(***************************************************************************)
\* captureGdiFrame copies the whole desktop and knows nothing of changes.
Gdi == /\ frame' = screen /\ latest' = screen /\ real' = TRUE
       /\ known' = FALSE /\ dirty' = {}

\* shouldUsePartialDxgiCopy and the copy it chooses, for a frame of the
\* duplication with (k) or without its dirty rectangles.  (The slip: only the
\* rectangles are copied, known or not.)
Small == Cardinality(damage) * 100 <= Cardinality(Tiles) * 35
CopiedAlways(k) == [t \in Tiles |-> IF k /\ t \in damage THEN screen[t] ELSE latest[t]]
Copied(k) == IF real /\ k /\ Small
             THEN [t \in Tiles |-> IF t \in damage THEN screen[t] ELSE latest[t]]
             ELSE screen

\* captureDxgiFrame.  Without a new frame the last one is returned; a
\* duplication that has had none yet is stood in for by GDI.
Dxgi ==
    \/ /\ ~real
       /\ Gdi /\ UNCHANGED <<damage, backend, faults>>
    \/ /\ damage = {} /\ real
       /\ frame' = latest /\ known' = TRUE /\ dirty' = {}
       /\ UNCHANGED <<engineVars, faults>>
    \/ \E k \in BOOLEAN :
       /\ damage # {}
       /\ IF k THEN UNCHANGED faults ELSE Fault
       /\ known' = k /\ dirty' = (IF k THEN damage ELSE {})
       /\ latest' = Copied(k) /\ frame' = latest'
       /\ real' = TRUE /\ damage' = {}
       /\ UNCHANGED backend

\* A duplication has just been created: everything is new to it.  What it
\* returns (or the last frame, if it has nothing yet) is marked dirty.
DxgiAgain ==
    /\ Fault
    /\ backend' = "dxgi" /\ real' = TRUE
    /\ known' = TRUE /\ dirty' = Tiles
    /\ \/ frame' = screen /\ latest' = screen /\ damage' = {}
       \/ frame' = (IF real THEN latest ELSE screen) /\ latest' = frame'
          /\ damage' = Tiles

\* The duplication is lost and cannot be had again, or not read.
DxgiLost ==
    /\ backend = "dxgi" /\ Fault
    /\ Gdi /\ backend' \in {"gdi", "dxgi"} /\ damage' = Tiles

Grab == \/ backend = "gdi" /\ Gdi /\ UNCHANGED <<damage, backend, faults>>
        \/ backend = "dxgi" /\ Dxgi
        \/ DxgiAgain
        \/ DxgiLost

(***************************************************************************)
(* The capture loop, up to the capture.                                    *)
(***************************************************************************)
Down(n) == IF n = 0 THEN 0 ELSE n - 1

\* capturedFrames + 1 and idleFrames + 1; only what they are compared with and
\* their remainders matter.
NextCaptured == IF captured + 1 = StartupWindow + Period
                THEN StartupWindow ELSE captured + 1
NextIdle == IF idle + 1 = IdleInterval + DiffProbe THEN IdleInterval ELSE idle + 1

\* The loop goes on as long as nobody stops it and the worker has not failed.
AtTop == pc = "top" /\ ~failed

Waits == idle >= WarmUp /\ probeIn > 0

SkipCapture ==
    /\ AtTop /\ ~asked /\ Waits
    /\ idle' = NextIdle /\ captured' = NextCaptured
    /\ probeIn' = probeIn - 1 /\ submitIn' = Down(submitIn)
    /\ UNCHANGED <<desktopVars, engineVars, pc, frameVars, previous, force,
                   pending, asked, workerVars, view, faults, submitted, gap>>

\* A send that failed makes the loop forget the previous frame.
Capture ==
    /\ AtTop /\ (asked \/ ~Waits)
    /\ Grab /\ pc' = "captured"
    /\ asked' = FALSE
    /\ previous' = (IF asked THEN NoPicture ELSE previous)
    /\ force' = (force \/ asked)
    /\ idle' = (IF asked THEN 0 ELSE idle)
    /\ probeIn' \in (IF asked THEN {0}
                     ELSE IF idle >= WarmUp THEN CaptureProbes ELSE {probeIn})
    /\ UNCHANGED <<desktopVars, captured, submitIn, pending, workerVars, view,
                   submitted, gap>>

\* The capture fails and recoverCapture starts the engine again.
CaptureFails ==
    /\ AtTop /\ (asked \/ ~Waits)
    /\ Fault
    /\ backend' \in {"dxgi", "gdi"} /\ real' = FALSE /\ latest' = Blank
    /\ damage' = Tiles
    /\ asked' = FALSE
    /\ previous' = NoPicture /\ force' = TRUE /\ idle' = 0
    /\ probeIn' = 0 /\ submitIn' = 0
    /\ UNCHANGED <<desktopVars, pc, frameVars, captured, pending, workerVars, view,
                   submitted, gap>>

(***************************************************************************)
(* The capture loop, from the captured frame to the task.                  *)
(***************************************************************************)
KeyInterval == IF captured < StartupWindow THEN StartupInterval
               ELSE IF idle >= WarmUp THEN IdleInterval ELSE ActiveInterval

ForceKey == force \/ previous = NoPicture \/ captured % KeyInterval = 0

SkipDiff == ~ForceKey /\ ~known /\ idle >= WarmUp /\ idle % DiffProbe # 0

\* computeNativeDirtyRects and computeDirtyRects: too large a part of the frame
\* is sent as the whole.  (The slip: rectangles over the limit are left out.)
RectsFirst(d) == IF d = {} THEN {} ELSE {CHOOSE t \in d : TRUE}
Rects(d) == IF Cardinality(d) * 100 >= Cardinality(Tiles) * 70 THEN Tiles ELSE d

DirtyRects ==
    IF ForceKey THEN Tiles
    ELSE Rects(IF known THEN dirty ELSE {t \in Tiles : frame[t] # previous[t]})

\* An idle desktop is sent whole from time to time.  (The slip: never.)
RefreshNever == FALSE
Refresh == DirtyRects = {} /\ idle + 1 >= IdleInterval

\* A frame that is not made a task: what the duplication has reported in it
\* will not be reported again.
Unsent == IF backend = "dxgi" THEN {t \in Tiles : frame[t] # submitted[t]} ELSE {}

Drop ==
    /\ pc = "captured" /\ pc' = "top"
    /\ captured' = NextCaptured /\ submitIn' = Down(submitIn)
    /\ gap' = gap \cup Unsent
    /\ UNCHANGED <<desktopVars, engineVars, frameVars, force, pending, asked,
                   workerVars, view, faults, submitted>>

SkipIdleDiff ==
    /\ SkipDiff /\ Drop
    /\ idle' = NextIdle /\ probeIn' = Down(probeIn)
    /\ UNCHANGED previous

NothingDirty ==
    /\ ~SkipDiff /\ DirtyRects = {} /\ ~Refresh /\ Drop
    /\ idle' = NextIdle /\ probeIn' = Down(probeIn)
    /\ UNCHANGED previous

\* A frame that comes too early for a task is forgotten.  (The slip: it is the
\* previous frame of the next one all the same.)
ForgottenKept == frame
Forgotten == previous

TooEarly ==
    /\ ~SkipDiff /\ DirtyRects # {} /\ ~ForceKey /\ submitIn > 0 /\ Drop
    /\ idle' = 0 /\ probeIn' = 0
    /\ previous' = Forgotten

\* The task that was waiting is overwritten.
Submit ==
    /\ pc = "captured" /\ pc' = "top"
    /\ ~SkipDiff
    /\ \/ Refresh
       \/ DirtyRects # {} /\ (ForceKey \/ submitIn = 0)
    /\ pending' = [todo |-> IF Refresh THEN Tiles ELSE DirtyRects, content |-> frame]
    /\ previous' = frame /\ submitted' = frame
    /\ gap' = (gap \cup pending.todo) \ pending'.todo
    /\ captured' = NextCaptured /\ idle' = 0 /\ force' = FALSE
    /\ probeIn' = (IF Refresh THEN Down(probeIn) ELSE 0)
    /\ submitIn' \in {Down(n) : n \in SubmitTurns}
    /\ UNCHANGED <<desktopVars, engineVars, frameVars, asked, workerVars, view,
                   faults>>

\* The stop event, a closed connection, acknowledgements that do not come any
\* more, a failed worker, or a display that does not come back.
LoopEnds ==
    /\ pc = "top" /\ pc' = "done"
    /\ pending' = NoTask
    /\ gap' = gap \cup pending.todo
    /\ UNCHANGED <<desktopVars, engineVars, frameVars, loopVars, asked, workerVars,
                   view, faults, submitted>>

(***************************************************************************)
(* The encode worker, the network and the client's decode thread.          *)
(***************************************************************************)
WorkerTakes ==
    /\ work.todo = {} /\ pending.todo # {}
    /\ work' = pending /\ pending' = NoTask
    /\ UNCHANGED <<desktopVars, engineVars, pc, frameVars, loopVars, asked, failed,
                   view, faults, submitted, gap>>

\* A full frame is one rectangle; the client takes it for a key frame, and has
\* no use for others before.  (The slip: it paints what it gets.)
Rectangle(r) == r = Tiles \/ (work.todo # Tiles /\ \E t \in Tiles : r = {t})

PaintedWithoutKey(r) ==
    [t \in DOMAIN view \cup r |-> IF t \in r THEN work.content[t] ELSE view[t]]

Painted(r) ==
    IF r = Tiles THEN work.content
    ELSE [t \in DOMAIN view |-> IF t \in r THEN work.content[t] ELSE view[t]]

Lost(r) == gap' = gap \cup (r \ pending.todo)

Sends(r) ==
    /\ r # {} /\ r \subseteq work.todo /\ Rectangle(r)
    /\ work' = [work EXCEPT !.todo = @ \ r]
    /\ \/ view' = Painted(r) /\ UNCHANGED faults
          /\ IF view' = NoPicture THEN Lost(r) ELSE UNCHANGED gap
       \/ Fault /\ Lost(r) /\ UNCHANGED view
    /\ UNCHANGED <<desktopVars, engineVars, pc, frameVars, loopVars, pending,
                   asked, failed, submitted>>

\* The rest of the task is given up, and a full frame asked for.
SendFails ==
    /\ work.todo # {} /\ Fault
    /\ work' = NoTask /\ asked' = TRUE /\ Lost(work.todo)
    /\ UNCHANGED <<desktopVars, engineVars, pc, frameVars, loopVars, pending, failed,
                   view, submitted>>

EncodeFails ==
    /\ work.todo # {} /\ Fault
    /\ work' = NoTask /\ failed' = TRUE /\ Lost(work.todo)
    /\ UNCHANGED <<desktopVars, engineVars, pc, frameVars, loopVars, pending, asked,
                   view, submitted>>

Loop == \/ SkipCapture \/ Capture \/ SkipIdleDiff \/ NothingDirty \/ TooEarly
        \/ Submit

Worker == WorkerTakes \/ \E r \in SUBSET Tiles : Sends(r)

Next == \/ \E t \in Tiles : Change(t)
        \/ Loop \/ CaptureFails \/ LoopEnds
        \/ Worker \/ SendFails \/ EncodeFails

Spec == Init /\ [][Next]_vars

\* The loop and the worker run; nothing makes the loop end, except a failure.
FairSpec == /\ Spec
            /\ WF_vars(Loop) /\ WF_vars(Worker) /\ WF_vars(failed /\ LoopEnds)
-----------------------------------------------------------------------------
(***************************************************************************)
(* Properties.                                                             *)
(***************************************************************************)
\* Type invariant of the engine, the loop, the worker and the client.
Tasks == [todo : SUBSET Tiles, content : Pictures]
Probing(i) == \E n \in CaptureProbes : i \in 0..n
Submitting(i) == \E n \in SubmitTurns : i \in 0..n
TypeOK ==
    /\ screen \in Pictures /\ changes \in 0..MaxChanges /\ faults \in 0..MaxFaults
    /\ damage \subseteq Tiles /\ backend \in {"dxgi", "gdi"} /\ real \in BOOLEAN
    /\ latest \in Pictures
    /\ pc \in {"top", "captured", "done"}
    /\ frame \in Pictures /\ known \in BOOLEAN /\ dirty \subseteq Tiles
    /\ previous \in Pictures \cup {NoPicture}
    /\ captured \in 0..(StartupWindow + Period - 1)
    /\ idle \in 0..(IdleInterval + DiffProbe - 1) /\ force \in BOOLEAN
    /\ Probing(probeIn) /\ Submitting(submitIn)
    /\ pending \in Tasks /\ work \in Tasks /\ asked \in BOOLEAN /\ failed \in BOOLEAN
    /\ view \in Pictures \cup {NoPicture}
    /\ submitted \in Pictures /\ gap \subseteq Tiles

\* However full copies, partial copies, GDI frames and new duplications follow
\* one another, the engine's frame buffer differs from the desktop only where
\* the duplication will still report a change.
BufferFollowsDesktop ==
    backend = "dxgi" /\ real => \A t \in Tiles \ damage : latest[t] = screen[t]

\* A change of the desktop reaches the client, or is on its way, except where
\* the loop or the worker has dropped a frame, a task or a rectangle: nothing
\* is lost by working out, merging or encoding the rectangles.
PictureFollows ==
    \A t \in Tiles \ gap :
        \/ t \in pending.todo \cup work.todo
        \/ view # NoPicture /\ view[t] = submitted[t]

\* Two intervals that nothing keeps apart: the loop captures an idle desktop when
\* 50 ms are over, and compares what GDI has captured when the number of idle
\* frames is a multiple of DiffProbe.  When every capture falls between two
\* comparisons, the frames are neither compared nor sent, and the refresh of an
\* idle desktop, which is decided after the comparison, does not come either.
Resonates == <>[](backend = "gdi" /\ (pc = "captured" => SkipDiff))

\* Once the desktop keeps still, the client shows it, whatever was lost before -
\* unless the two intervals resonate.
Converges == <>[](view = screen) \/ Resonates \/ <>(pc = "done")
=============================================================================
