----------------------- MODULE CapturePipelineProofs -----------------------
(***************************************************************************)
(* Proofs about the capture pipeline, for any number of tiles, changes and *)
(* faults and for all intervals of the loop.                               *)
(*                                                                         *)
(* PictureFollows is not inductive.  A task of a few tiles is right about  *)
(* the others because those of the captured frame are as they were         *)
(* submitted (FrameFollows); that holds because the engine's buffer is     *)
(* (EngineFollows), and because nothing is compared with a frame that was  *)
(* not submitted (PreviousSubmitted).  What waits for the worker, and in   *)
(* it, is of the last submitted frame unless it will be sent again         *)
(* (TasksFollow).                                                          *)
(***************************************************************************)
EXTENDS CapturePipeline, TLAPS

\* A duplication that has given no frame yet reports everything.
NothingMissed == ~real => damage = Tiles

PreviousSubmitted == previous # NoPicture => previous = submitted

\* The loop goes by the rectangles the duplication reports.
Incremental == ~force /\ previous # NoPicture

EngineFollows ==
    pc = "top" /\ Incremental /\ backend = "dxgi" /\ real =>
        \A t \in Tiles \ gap : latest[t] = submitted[t]

FrameFollows ==
    pc = "captured" /\ Incremental /\ known =>
        \A t \in Tiles \ (gap \cup dirty) : frame[t] = submitted[t]

\* A frame is the engine's buffer until the next capture; GDI knows no rectangles.
FrameIsLatest ==
    pc = "captured" => IF backend = "dxgi" THEN frame = latest ELSE ~known

TasksFollow ==
    /\ pending.todo # {} => pending.content = submitted
    /\ \A t \in work.todo \ (gap \cup pending.todo) : work.content[t] = submitted[t]

Inv == /\ TypeOK
       /\ BufferFollowsDesktop /\ NothingMissed
       /\ PreviousSubmitted /\ EngineFollows /\ FrameFollows /\ FrameIsLatest
       /\ TasksFollow /\ PictureFollows

-----------------------------------------------------------------------------
(***************************************************************************)
(* Values and operators.                                                   *)
(***************************************************************************)
LEMMA Values ==
    /\ Blank \in Pictures
    /\ NoTask \in Tasks
    /\ \A p \in Pictures : p # NoPicture
    /\ DOMAIN NoPicture = {}
<1>1. Blank \in Pictures
  BY PipelineAssumption DEF Blank, Pictures
<1>2. NoTask \in Tasks
  BY <1>1 DEF NoTask, Tasks
<1>3. DOMAIN NoPicture = {}
  BY DEF NoPicture
<1>4. ASSUME NEW p \in Pictures PROVE p # NoPicture
  <2>1. DOMAIN p = Tiles
    BY DEF Pictures
  <2> QED BY <2>1, <1>3, PipelineAssumption
<1> QED BY <1>1, <1>2, <1>3, <1>4

\* The counters stay within their bounds.
LEMMA Counters ==
    ASSUME TypeOK
    PROVE  /\ NextCaptured \in 0..(StartupWindow + Period - 1)
           /\ NextIdle \in 0..(IdleInterval + DiffProbe - 1)
           /\ 0 \in 0..(IdleInterval + DiffProbe - 1)
           /\ Probing(0) /\ Probing(Down(probeIn))
           /\ \A n \in CaptureProbes : Probing(n)
           /\ Submitting(0) /\ Submitting(Down(submitIn))
           /\ \A n \in SubmitTurns : Submitting(Down(n))
           /\ \A n \in 0..MaxFaults : n < MaxFaults => n + 1 \in 0..MaxFaults
<1> USE PipelineAssumption DEF TypeOK
<1>1. NextCaptured \in 0..(StartupWindow + Period - 1)
  BY DEF NextCaptured
<1>2. NextIdle \in 0..(IdleInterval + DiffProbe - 1)
  BY DEF NextIdle
<1>3. Probing(0) /\ Probing(Down(probeIn)) /\ \A n \in CaptureProbes : Probing(n)
  <2>1. \A n \in CaptureProbes : n \in 0..n /\ 0 \in 0..n
    OBVIOUS
  <2>2. PICK n \in CaptureProbes : probeIn \in 0..n
    BY DEF Probing
  <2>3. n \in Nat /\ Down(probeIn) \in 0..n
    BY <2>2 DEF Down
  <2> QED BY <2>1, <2>3 DEF Probing
<1>4. /\ Submitting(0) /\ Submitting(Down(submitIn))
      /\ \A n \in SubmitTurns : Submitting(Down(n))
  <2>1. \A n \in SubmitTurns : Down(n) \in 0..n /\ 0 \in 0..n
    BY DEF Down
  <2>2. PICK n \in SubmitTurns : submitIn \in 0..n
    BY DEF Submitting
  <2>3. n \in Nat /\ Down(submitIn) \in 0..n
    BY <2>2 DEF Down
  <2> QED BY <2>1, <2>3 DEF Submitting
<1> QED BY <1>1, <1>2, <1>3, <1>4

\* A partial copy leaves out only what has not changed.
LEMMA CopiedIsScreen ==
    ASSUME TypeOK, BufferFollowsDesktop, NothingMissed, backend = "dxgi",
           NEW k \in BOOLEAN
    PROVE  Copied(k) = screen
<1>1. CASE real /\ k /\ Small
  <2>1. \A t \in Tiles \ damage : latest[t] = screen[t]
    BY <1>1 DEF BufferFollowsDesktop
  <2>2. screen = [t \in Tiles |-> screen[t]]
    BY DEF TypeOK, Pictures
  <2> QED BY <1>1, <2>1, <2>2 DEF Copied
<1>2. CASE ~(real /\ k /\ Small)
  BY <1>2 DEF Copied
<1> QED BY <1>1, <1>2

\* Only a full rectangle starts a picture.
LEMMA PaintedType ==
    ASSUME TypeOK, NEW r \in SUBSET Tiles
    PROVE  /\ Painted(r) \in Pictures \cup {NoPicture}
           /\ Painted(r) # NoPicture =>
                \A t \in Tiles : Painted(r)[t] = IF t \in r THEN work.content[t]
                                                 ELSE view[t]
           /\ Painted(r) # NoPicture /\ r # Tiles => view # NoPicture
<1>1. work.content \in Pictures
  BY DEF TypeOK, Tasks
<1>2. CASE r = Tiles
  BY <1>1, <1>2 DEF Painted
<1>3. CASE r # Tiles /\ view = NoPicture
  <2>1. Painted(r) = [t \in {} |-> IF t \in r THEN work.content[t] ELSE view[t]]
    BY <1>3, Values DEF Painted
  <2>2. Painted(r) = NoPicture
    BY <2>1 DEF NoPicture
  <2> QED BY <2>2
<1>4. CASE r # Tiles /\ view \in Pictures
  <2>1. DOMAIN view = Tiles
    BY <1>4 DEF Pictures
  <2>2. Painted(r) = [t \in Tiles |-> IF t \in r THEN work.content[t] ELSE view[t]]
    BY <1>4, <2>1 DEF Painted
  <2>3. Painted(r) \in Pictures
    BY <1>1, <1>4, <2>2 DEF Pictures
  <2> QED BY <1>4, <2>2, <2>3, Values
<1> QED BY <1>2, <1>3, <1>4 DEF TypeOK

\* What a capture returns.  Rectangles the duplication reports leave out only
\* tiles that are as in the engine's last frame.
LEMMA GrabReturns ==
    ASSUME TypeOK, BufferFollowsDesktop, NothingMissed, Grab
    PROVE  /\ damage' \in SUBSET Tiles /\ backend' \in {"dxgi", "gdi"} /\ real' = TRUE
           /\ latest' \in Pictures /\ frame' \in Pictures
           /\ known' \in BOOLEAN /\ dirty' \in SUBSET Tiles
           /\ faults' \in 0..MaxFaults
           /\ IF backend' = "dxgi" THEN frame' = latest' ELSE ~known'
           /\ backend' = "dxgi" => \A t \in Tiles \ damage' : latest'[t] = screen[t]
           /\ known' => \/ dirty' = Tiles
                        \/ /\ backend = "dxgi" /\ real
                           /\ \A t \in Tiles \ dirty' : frame'[t] = latest[t]
<1> DEFINE Returns ==
           /\ damage' \in SUBSET Tiles /\ backend' \in {"dxgi", "gdi"} /\ real' = TRUE
           /\ latest' \in Pictures /\ frame' \in Pictures
           /\ known' \in BOOLEAN /\ dirty' \in SUBSET Tiles
           /\ faults' \in 0..MaxFaults
           /\ IF backend' = "dxgi" THEN frame' = latest' ELSE ~known'
           /\ backend' = "dxgi" => \A t \in Tiles \ damage' : latest'[t] = screen[t]
           /\ known' => \/ dirty' = Tiles
                        \/ /\ backend = "dxgi" /\ real
                           /\ \A t \in Tiles \ dirty' : frame'[t] = latest[t]
<1>1. /\ faults \in 0..MaxFaults /\ screen \in Pictures /\ latest \in Pictures
      /\ damage \in SUBSET Tiles /\ backend \in {"dxgi", "gdi"} /\ real \in BOOLEAN
      /\ Fault => faults' \in 0..MaxFaults
  BY Counters DEF TypeOK, Fault
<1>2. CASE backend = "gdi" /\ Gdi /\ UNCHANGED <<damage, backend, faults>>
  BY <1>1, <1>2 DEF Gdi
<1>3. CASE backend = "dxgi" /\ Dxgi
  <2>1. CASE ~real /\ Gdi /\ UNCHANGED <<damage, backend, faults>>
    BY <1>1, <2>1 DEF Gdi
  <2>2. CASE /\ damage = {} /\ real
             /\ frame' = latest /\ known' = TRUE /\ dirty' = {}
             /\ UNCHANGED <<engineVars, faults>>
    BY <1>1, <1>3, <2>2 DEF engineVars, BufferFollowsDesktop
  <2>3. ASSUME NEW k \in BOOLEAN,
               damage # {},
               IF k THEN UNCHANGED faults ELSE Fault,
               known' = k, dirty' = IF k THEN damage ELSE {},
               latest' = Copied(k), frame' = latest',
               real' = TRUE, damage' = {}, UNCHANGED backend
        PROVE  Returns
    <3>1. latest' = screen
      BY <1>3, <2>3, CopiedIsScreen
    <3>2. faults' \in 0..MaxFaults /\ dirty' \in SUBSET Tiles
      BY <1>1, <2>3
    <3>3. k => dirty' = Tiles \/ (real /\ \A t \in Tiles \ dirty' : frame'[t] = latest[t])
      BY <1>3, <2>3, <3>1 DEF NothingMissed, BufferFollowsDesktop
    <3> QED BY <1>1, <1>3, <2>3, <3>1, <3>2, <3>3
  <2> QED BY <1>3, <2>1, <2>2, <2>3 DEF Dxgi
<1>4. CASE DxgiAgain
  BY <1>1, <1>4 DEF DxgiAgain
<1>5. CASE DxgiLost
  BY <1>1, <1>5 DEF DxgiLost, Gdi
<1> QED BY <1>2, <1>3, <1>4, <1>5 DEF Grab

-----------------------------------------------------------------------------
(***************************************************************************)
(* Each step.                                                              *)
(***************************************************************************)
LEMMA InitInv == Init => Inv
<1> SUFFICES ASSUME Init PROVE Inv
  OBVIOUS
<1>1. TypeOK
  <2>1. screen \in Pictures
    BY PipelineAssumption DEF Init, Pictures
  <2>2. captured \in 0..(StartupWindow + Period - 1) /\ changes \in 0..MaxChanges
        /\ faults \in 0..MaxFaults /\ idle \in 0..(IdleInterval + DiffProbe - 1)
    BY PipelineAssumption DEF Init
  <2>3. Probing(probeIn) /\ Submitting(submitIn)
    <3>1. PICK n \in CaptureProbes, m \in SubmitTurns : n \in Nat /\ m \in Nat
      BY PipelineAssumption
    <3>2. 0 \in 0..n /\ 0 \in 0..m
      BY <3>1
    <3> QED BY <3>2 DEF Init, Probing, Submitting
  <2> QED BY <2>1, <2>2, <2>3, Values, PipelineAssumption DEF Init, TypeOK
<1>2. /\ BufferFollowsDesktop /\ NothingMissed
      /\ PreviousSubmitted /\ EngineFollows /\ FrameFollows /\ FrameIsLatest
      /\ TasksFollow /\ PictureFollows
  BY DEF Init, BufferFollowsDesktop, NothingMissed, PreviousSubmitted, EngineFollows,
         FrameFollows, FrameIsLatest, TasksFollow, PictureFollows, NoTask
<1> QED BY <1>1, <1>2 DEF Inv

LEMMA ChangeInv ==
    ASSUME Inv, NEW t \in Tiles, Change(t)
    PROVE  Inv'
<1> USE DEF Inv
<1>1. /\ screen' = [screen EXCEPT ![t] = @ + 1] /\ screen' \in Pictures
      /\ changes' \in 0..MaxChanges
      /\ damage' = damage \cup {t}
  BY PipelineAssumption DEF Change, TypeOK, Pictures
<1>2. UNCHANGED <<backend, real, latest, pc, frameVars, loopVars, pending, asked,
                  workerVars, view, faults, submitted, gap>>
  BY DEF Change
<1>3. TypeOK'
  BY <1>1, <1>2 DEF TypeOK, frameVars, loopVars, workerVars, Tasks, Pictures
<1>4. BufferFollowsDesktop' /\ NothingMissed'
  BY <1>1, <1>2 DEF BufferFollowsDesktop, NothingMissed, TypeOK, Pictures
<1>5. /\ PreviousSubmitted' /\ EngineFollows' /\ FrameFollows' /\ FrameIsLatest'
      /\ TasksFollow' /\ PictureFollows'
  BY <1>2 DEF PreviousSubmitted, EngineFollows, FrameFollows, FrameIsLatest, TasksFollow,
              PictureFollows, Incremental, frameVars, loopVars, workerVars
<1> QED BY <1>3, <1>4, <1>5

LEMMA SkipCaptureInv ==
    ASSUME Inv, SkipCapture
    PROVE  Inv'
<1> USE DEF Inv, SkipCapture, desktopVars, engineVars, frameVars, workerVars
<1>1. TypeOK'
  <2>1. Probing(probeIn')
    BY PipelineAssumption DEF Waits, TypeOK, Probing
  <2> QED BY <2>1, Counters DEF TypeOK, Tasks, Pictures
<1>2. BufferFollowsDesktop' /\ NothingMissed'
  BY DEF BufferFollowsDesktop, NothingMissed
<1>3. /\ PreviousSubmitted' /\ EngineFollows' /\ FrameFollows' /\ FrameIsLatest'
      /\ TasksFollow' /\ PictureFollows'
  BY DEF PreviousSubmitted, EngineFollows, FrameFollows, FrameIsLatest, TasksFollow,
         PictureFollows, Incremental
<1> QED BY <1>1, <1>2, <1>3

LEMMA CaptureInv ==
    ASSUME Inv, Capture
    PROVE  Inv'
<1> USE DEF Inv
<1>1. /\ UNCHANGED <<desktopVars, captured, submitIn, pending, workerVars, view,
                     submitted, gap>>
      /\ pc = "top" /\ pc' = "captured" /\ asked' = FALSE
      /\ previous' = IF asked THEN NoPicture ELSE previous
      /\ force' = (force \/ asked)
  BY DEF Capture, AtTop
<1>2. /\ damage' \in SUBSET Tiles /\ backend' \in {"dxgi", "gdi"} /\ real' = TRUE
      /\ latest' \in Pictures /\ frame' \in Pictures
      /\ known' \in BOOLEAN /\ dirty' \in SUBSET Tiles
      /\ faults' \in 0..MaxFaults
      /\ IF backend' = "dxgi" THEN frame' = latest' ELSE ~known'
      /\ backend' = "dxgi" => \A t \in Tiles \ damage' : latest'[t] = screen[t]
      /\ known' => \/ dirty' = Tiles
                   \/ /\ backend = "dxgi" /\ real
                      /\ \A t \in Tiles \ dirty' : frame'[t] = latest[t]
  BY GrabReturns DEF Capture
<1>3. TypeOK'
  <2>1. /\ idle' \in 0..(IdleInterval + DiffProbe - 1) /\ Probing(probeIn')
        /\ previous' \in Pictures \cup {NoPicture} /\ force' \in BOOLEAN
    BY Counters, <1>1 DEF Capture, TypeOK
  <2> QED BY <1>1, <1>2, <2>1 DEF TypeOK, Tasks, Pictures, desktopVars, workerVars
<1>4. BufferFollowsDesktop' /\ NothingMissed' /\ FrameIsLatest'
  BY <1>1, <1>2 DEF BufferFollowsDesktop, NothingMissed, FrameIsLatest, desktopVars
<1>5. PreviousSubmitted' /\ EngineFollows'
  BY <1>1 DEF PreviousSubmitted, EngineFollows
<1>6. FrameFollows'
  <2> SUFFICES ASSUME Incremental', known', NEW t \in Tiles, t \notin gap', t \notin dirty'
               PROVE  frame'[t] = submitted'[t]
    BY DEF FrameFollows
  <2>1. Incremental
    BY <1>1 DEF Incremental
  <2>2. backend = "dxgi" /\ real /\ frame'[t] = latest[t]
    BY <1>2
  <2>3. latest[t] = submitted[t]
    BY <1>1, <2>1, <2>2 DEF EngineFollows
  <2> QED BY <1>1, <2>2, <2>3
<1>7. TasksFollow' /\ PictureFollows'
  BY <1>1 DEF TasksFollow, PictureFollows, workerVars
<1> QED BY <1>3, <1>4, <1>5, <1>6, <1>7

LEMMA CaptureFailsInv ==
    ASSUME Inv, CaptureFails
    PROVE  Inv'
<1> USE DEF Inv, CaptureFails, desktopVars, frameVars, workerVars
<1>1. TypeOK'
  <2>1. faults' \in 0..MaxFaults
    BY Counters DEF Fault, TypeOK
  <2> QED BY <2>1, Counters, Values DEF TypeOK, Tasks, Pictures
<1>2. BufferFollowsDesktop' /\ NothingMissed'
  BY DEF BufferFollowsDesktop, NothingMissed
<1>3. /\ PreviousSubmitted' /\ EngineFollows' /\ FrameFollows' /\ FrameIsLatest'
      /\ TasksFollow' /\ PictureFollows'
  BY DEF PreviousSubmitted, EngineFollows, FrameFollows, FrameIsLatest, TasksFollow,
         PictureFollows, Incremental, AtTop
<1> QED BY <1>1, <1>2, <1>3

\* The tiles of a dropped frame that differ from what was submitted are lost, the
\* others are as they were submitted.
LEMMA DropInv ==
    ASSUME Inv, Drop,
           previous' = previous,
           idle' \in 0..(IdleInterval + DiffProbe - 1),
           Probing(probeIn')
    PROVE  Inv'
<1> USE DEF Inv, Drop, desktopVars, engineVars, frameVars, workerVars
<1>1. gap' \in SUBSET Tiles
  BY DEF Unsent, TypeOK
<1>2. TypeOK'
  BY <1>1, Counters DEF TypeOK, Tasks, Pictures
<1>3. BufferFollowsDesktop' /\ NothingMissed'
  BY DEF BufferFollowsDesktop, NothingMissed
<1>4. PreviousSubmitted' /\ FrameFollows' /\ FrameIsLatest'
  BY DEF PreviousSubmitted, FrameFollows, FrameIsLatest
<1>5. EngineFollows'
  BY DEF EngineFollows, FrameIsLatest, Unsent
<1>6. TasksFollow' /\ PictureFollows'
  BY DEF TasksFollow, PictureFollows
<1> QED BY <1>2, <1>3, <1>4, <1>5, <1>6

LEMMA SkipsInv ==
    ASSUME Inv, SkipIdleDiff \/ NothingDirty \/ TooEarly
    PROVE  Inv'
<1>1. TypeOK
  BY DEF Inv
<1>2. CASE SkipIdleDiff
  BY <1>1, <1>2, Counters, DropInv DEF SkipIdleDiff
<1>3. CASE NothingDirty
  BY <1>1, <1>3, Counters, DropInv DEF NothingDirty
<1>4. CASE TooEarly
  BY <1>1, <1>4, Counters, DropInv DEF TooEarly, Forgotten
<1> QED BY <1>2, <1>3, <1>4

\* Outside the task, and outside the gap, the frame is the last one submitted.
LEMMA TaskCoversChanges ==
    ASSUME Inv, Submit, NEW t \in Tiles \ gap, t \notin pending'.todo
    PROVE  frame[t] = submitted[t]
<1> USE DEF Inv
<1>1. pc = "captured" /\ pending'.todo = IF Refresh THEN Tiles ELSE DirtyRects
  BY DEF Submit
<1>2. t \notin DirtyRects /\ ~ForceKey
  BY <1>1 DEF DirtyRects
<1>3. Incremental
  BY <1>2 DEF ForceKey, Incremental
<1>4. t \notin IF known THEN dirty ELSE {u \in Tiles : frame[u] # previous[u]}
  BY <1>2 DEF DirtyRects, Rects
<1>5. CASE known
  BY <1>1, <1>3, <1>4, <1>5 DEF FrameFollows
<1>6. CASE ~known
  BY <1>3, <1>4, <1>6 DEF PreviousSubmitted, Incremental
<1> QED BY <1>5, <1>6

LEMMA SubmitInv ==
    ASSUME Inv, Submit
    PROVE  Inv'
<1> USE DEF Inv
<1>1. /\ pc = "captured" /\ pc' = "top"
      /\ pending' = [todo |-> IF Refresh THEN Tiles ELSE DirtyRects, content |-> frame]
      /\ previous' = frame /\ submitted' = frame
      /\ gap' = (gap \cup pending.todo) \ pending'.todo
      /\ UNCHANGED <<desktopVars, engineVars, frameVars, asked, workerVars, view, faults>>
  BY DEF Submit
<1>2. TypeOK'
  <2>1. DirtyRects \in SUBSET Tiles
    BY DEF DirtyRects, Rects, TypeOK
  <2>2. pending' \in Tasks
    BY <1>1, <2>1 DEF Tasks, TypeOK
  <2>3. gap' \in SUBSET Tiles
    BY <1>1 DEF TypeOK, Tasks
  <2>4. /\ captured' \in 0..(StartupWindow + Period - 1) /\ force' = FALSE
        /\ idle' \in 0..(IdleInterval + DiffProbe - 1)
        /\ Probing(probeIn') /\ Submitting(submitIn')
    BY Counters DEF Submit
  <2> QED BY <1>1, <2>2, <2>3, <2>4
          DEF TypeOK, desktopVars, engineVars, frameVars, workerVars
<1>3. BufferFollowsDesktop' /\ NothingMissed'
  BY <1>1 DEF BufferFollowsDesktop, NothingMissed, desktopVars, engineVars
<1>4. PreviousSubmitted' /\ FrameFollows' /\ FrameIsLatest'
  BY <1>1 DEF PreviousSubmitted, FrameFollows, FrameIsLatest
<1>5. EngineFollows'
  BY <1>1 DEF EngineFollows, FrameIsLatest, engineVars
<1>6. ASSUME NEW t \in Tiles, t \notin gap', t \notin pending'.todo
      PROVE  /\ submitted'[t] = submitted[t]
             /\ t \notin gap /\ t \notin pending.todo
  BY <1>1, <1>6, TaskCoversChanges
<1>7. TasksFollow'
  <2>1. work.todo \in SUBSET Tiles
    BY DEF TypeOK, Tasks
  <2> QED BY <1>1, <1>6, <2>1 DEF TasksFollow, workerVars
<1>8. PictureFollows'
  BY <1>1, <1>6 DEF PictureFollows, workerVars
<1> QED BY <1>2, <1>3, <1>4, <1>5, <1>7, <1>8

\* A waiting task that is dropped is lost; the worker goes on with its own.
LEMMA LoopEndsInv ==
    ASSUME Inv, LoopEnds
    PROVE  Inv'
<1> USE DEF Inv, LoopEnds, desktopVars, engineVars, frameVars, loopVars, workerVars
<1>1. TypeOK'
  BY Values DEF TypeOK, Tasks
<1>2. BufferFollowsDesktop' /\ NothingMissed'
  BY DEF BufferFollowsDesktop, NothingMissed
<1>3. PreviousSubmitted' /\ EngineFollows' /\ FrameFollows' /\ FrameIsLatest'
  BY DEF PreviousSubmitted, EngineFollows, FrameFollows, FrameIsLatest
<1>4. TasksFollow' /\ PictureFollows'
  BY DEF TasksFollow, PictureFollows, NoTask
<1> QED BY <1>1, <1>2, <1>3, <1>4

-----------------------------------------------------------------------------
LEMMA WorkerTakesInv ==
    ASSUME Inv, WorkerTakes
    PROVE  Inv'
<1> USE DEF Inv, WorkerTakes, desktopVars, engineVars, frameVars, loopVars
<1>1. TypeOK'
  BY Values DEF TypeOK, Tasks
<1>2. BufferFollowsDesktop' /\ NothingMissed'
  BY DEF BufferFollowsDesktop, NothingMissed
<1>3. PreviousSubmitted' /\ EngineFollows' /\ FrameFollows' /\ FrameIsLatest'
  BY DEF PreviousSubmitted, EngineFollows, FrameFollows, FrameIsLatest, Incremental
<1>4. TasksFollow' /\ PictureFollows'
  BY DEF TasksFollow, PictureFollows, NoTask
<1> QED BY <1>1, <1>2, <1>3, <1>4

\* What the worker does leaves engine and loop alone, and a gap only grows.
LEMMA WorkerInv ==
    ASSUME Inv,
           UNCHANGED <<desktopVars, engineVars, pc, frameVars, loopVars, pending,
                       submitted>>,
           gap \subseteq gap'
    PROVE  /\ BufferFollowsDesktop' /\ NothingMissed'
           /\ PreviousSubmitted' /\ EngineFollows' /\ FrameFollows' /\ FrameIsLatest'
<1> USE DEF Inv, desktopVars, engineVars, frameVars, loopVars
<1>1. BufferFollowsDesktop' /\ NothingMissed'
  BY DEF BufferFollowsDesktop, NothingMissed
<1>2. PreviousSubmitted' /\ EngineFollows' /\ FrameFollows' /\ FrameIsLatest'
  BY DEF PreviousSubmitted, EngineFollows, FrameFollows, FrameIsLatest, Incremental
<1> QED BY <1>1, <1>2

LEMMA SendsInv ==
    ASSUME Inv, NEW r \in SUBSET Tiles, Sends(r)
    PROVE  Inv'
<1>1. TypeOK /\ TasksFollow /\ PictureFollows
  BY DEF Inv
<1>2. /\ r \subseteq work.todo
      /\ work' = [work EXCEPT !.todo = @ \ r]
      /\ UNCHANGED <<desktopVars, engineVars, pc, frameVars, loopVars, pending, asked,
                     failed, submitted>>
      /\ gap' = gap \/ Lost(r)
  BY DEF Sends
<1>3. work'.todo = work.todo \ r /\ work'.content = work.content /\ work' \in Tasks
  BY <1>1, <1>2 DEF TypeOK, Tasks
<1>4. gap \subseteq gap' /\ gap' \in SUBSET Tiles
  BY <1>1, <1>2 DEF Lost, TypeOK
<1>5. view' \in Pictures \cup {NoPicture} /\ faults' \in 0..MaxFaults
  BY <1>1, PaintedType, Counters DEF Sends, Fault, TypeOK
<1>6. TypeOK'
  BY <1>1, <1>2, <1>3, <1>4, <1>5
     DEF TypeOK, desktopVars, engineVars, frameVars, loopVars
<1>7. TasksFollow'
  BY <1>1, <1>2, <1>3, <1>4 DEF TasksFollow
<1>8. PictureFollows'
  <2> SUFFICES ASSUME NEW t \in Tiles, t \notin gap',
                      t \notin pending.todo, t \notin work.todo \ r
               PROVE  view' # NoPicture /\ view'[t] = submitted[t]
    BY <1>2, <1>3 DEF PictureFollows
  <2>1. CASE view' = Painted(r) /\ view' # NoPicture
    <3>1. view'[t] = IF t \in r THEN work.content[t] ELSE view[t]
      BY <1>1, <2>1, PaintedType
    <3>2. CASE t \in r
      BY <1>1, <1>2, <1>4, <2>1, <3>1, <3>2 DEF TasksFollow
    <3>3. CASE t \notin r
      BY <1>1, <1>4, <2>1, <3>1, <3>3 DEF PictureFollows
    <3> QED BY <3>2, <3>3
  <2>2. CASE Lost(r) /\ (view' = view \/ (view' = Painted(r) /\ view' = NoPicture))
    <3>1. t \notin r
      BY <2>2 DEF Lost
    <3>2. view # NoPicture /\ view[t] = submitted[t]
      BY <1>1, <1>4, <3>1 DEF PictureFollows
    <3>3. Painted(r) # NoPicture
      <4>1. CASE r = Tiles
        BY <3>1, <4>1
      <4>2. CASE r # Tiles
        <5>1. view \in Pictures /\ DOMAIN view = Tiles
          BY <1>1, <3>2 DEF TypeOK, Pictures
        <5>2. DOMAIN Painted(r) = Tiles
          BY <4>2, <5>1 DEF Painted
        <5> QED BY <5>2, Values
      <4> QED BY <4>1, <4>2
    <3> QED BY <2>2, <3>2, <3>3
  <2> QED BY <2>1, <2>2 DEF Sends
<1>9. /\ BufferFollowsDesktop' /\ NothingMissed'
      /\ PreviousSubmitted' /\ EngineFollows' /\ FrameFollows' /\ FrameIsLatest'
  BY <1>2, <1>4, WorkerInv
<1> QED BY <1>6, <1>7, <1>8, <1>9 DEF Inv

LEMMA GivesUpInv ==
    ASSUME Inv, SendFails \/ EncodeFails
    PROVE  Inv'
<1>1. TypeOK /\ TasksFollow /\ PictureFollows
  BY DEF Inv
<1>2. /\ UNCHANGED <<desktopVars, engineVars, pc, frameVars, loopVars, pending, view,
                     submitted>>
      /\ Fault /\ work' = NoTask /\ Lost(work.todo)
      /\ asked' \in BOOLEAN /\ failed' \in BOOLEAN
  BY <1>1 DEF SendFails, EncodeFails, TypeOK
<1>3. gap \subseteq gap' /\ gap' \in SUBSET Tiles
  BY <1>1, <1>2 DEF Lost, TypeOK, Tasks
<1>4. TypeOK'
  <2>1. faults' \in 0..MaxFaults
    BY <1>1, <1>2, Counters DEF Fault, TypeOK
  <2> QED BY <1>1, <1>2, <1>3, <2>1, Values
          DEF TypeOK, desktopVars, engineVars, frameVars, loopVars
<1>5. TasksFollow' /\ PictureFollows'
  BY <1>1, <1>2 DEF TasksFollow, PictureFollows, NoTask, Lost
<1>6. /\ BufferFollowsDesktop' /\ NothingMissed'
      /\ PreviousSubmitted' /\ EngineFollows' /\ FrameFollows' /\ FrameIsLatest'
  BY <1>2, <1>3, WorkerInv
<1> QED BY <1>4, <1>5, <1>6 DEF Inv

LEMMA NextInv ==
    ASSUME Inv, [Next]_vars
    PROVE  Inv'
<1>1. CASE UNCHANGED vars
  BY <1>1 DEF vars, desktopVars, engineVars, frameVars, loopVars, workerVars, Inv,
     TypeOK, BufferFollowsDesktop, NothingMissed, PreviousSubmitted, EngineFollows,
     FrameFollows, FrameIsLatest, TasksFollow, PictureFollows, Incremental
<1>2. CASE \E t \in Tiles : Change(t)
  BY <1>2, ChangeInv
<1>3. CASE Loop
  BY <1>3, SkipCaptureInv, CaptureInv, SkipsInv, SubmitInv DEF Loop
<1>4. CASE CaptureFails
  BY <1>4, CaptureFailsInv
<1>5. CASE LoopEnds
  BY <1>5, LoopEndsInv
<1>6. CASE Worker
  BY <1>6, WorkerTakesInv, SendsInv DEF Worker
<1>7. CASE SendFails \/ EncodeFails
  BY <1>7, GivesUpInv
<1> QED BY <1>1, <1>2, <1>3, <1>4, <1>5, <1>6, <1>7 DEF Next

-----------------------------------------------------------------------------
\* Every state has what the steps rely on.
THEOREM Invariance == Spec => []Inv
<1>1. Inv /\ [Next]_vars => Inv'
  BY NextInv
<1> QED BY InitInv, <1>1, PTL DEF Spec

\* The engine, the loop, the worker and the client keep their types, and the counters
\* their bounds, for every interval (runServeMjpegCaptureMode).
THEOREM TypeCorrect == Spec => []TypeOK
<1>1. Inv => TypeOK
  BY DEF Inv
<1> QED BY <1>1, Invariance, PTL

\* Whatever copies and fall-backs captureNextFrame has made, the engine's buffer differs
\* from the desktop only where a change is still to be reported.
THEOREM BufferIsCurrent == Spec => []BufferFollowsDesktop
<1>1. Inv => BufferFollowsDesktop
  BY DEF Inv
<1> QED BY <1>1, Invariance, PTL

\* For any tiles, rectangles and faults: what is neither in the gap nor on its way is on
\* the client's window as it was last submitted.
THEOREM PictureIsCurrent == Spec => []PictureFollows
<1>1. Inv => PictureFollows
  BY DEF Inv
<1> QED BY <1>1, Invariance, PTL
=============================================================================
