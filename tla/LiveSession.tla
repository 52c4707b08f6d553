----------------------------- MODULE LiveSession -----------------------------
(***************************************************************************)
(* An H.264 session: the Windows host serving it                           *)
(* (runServeLiveCaptureMode in host_app.cpp) and the Linux client          *)
(* (runReceiveTestStreamMode in client_app.cpp) with its access units and  *)
(* its decoder (decoder.cpp), from the display to the end of both          *)
(* processes.                                                              *)
(*                                                                         *)
(* The host takes one client and never looks at its TCP connection again;  *)
(* a session ends by a stop event, a failure, or an idle stream.           *)
(* RtpStream shows that the transport is a channel of whole NAL units;     *)
(* here it is that channel.  A NAL unit stands for the frame it is of.     *)
(***************************************************************************)
EXTENDS Integers, FiniteSets, Sequences

CONSTANTS
    MaxPictures,       \* bound: frames captured
    MaxRestarts,       \* bound: times the capture is started again
    Capacity,          \* bound: NAL units in flight
    StartupTimeouts,   \* kStartupIdleTimeouts (12)
    MaxPendingIds,     \* frame ids the decoder keeps (240)
    Nothing            \* nothing shown

ASSUME LiveAssumption ==
    /\ MaxPictures \in Nat /\ MaxRestarts \in Nat /\ Capacity \in Nat
    /\ StartupTimeouts \in Nat \ {0}
    \* No fewer ids than the pipeline's source holds units.
    /\ MaxPendingIds \in Nat \ {0, 1}

VARIABLES
    host,              \* the step the host's main thread is at
    hostHeld,          \* what it has to give back
    inputThread, ackThread,  \* the host's threads run
    stopInput, stopEvent,
    latestFrame_,      \* frame id of the last capture
    pictures,          \* frames captured
    restarts,          \* times the capture was started again
    net, ordered,      \* NAL units in flight; FALSE: they overtake each other
    client,            \* the step the client is at
    clientHeld,        \* what it has to give back
    receivedFrames,    \* TRUE: a NAL unit has come
    idleTimeouts,
    unit,              \* the access unit that is collected
    appsrc,            \* access units pushed into the pipeline
    pendingFrameIds_, lastQueuedFrameId_,
    ptsKept,           \* the pipeline hands a frame out with its own time stamp
    rendered,          \* the last frame rendered, and the id acknowledged for it
    refused            \* the pipeline refused the unit flushed on the way out

threadVars == <<inputThread, ackThread, stopInput, stopEvent>>
captureVars == <<latestFrame_, pictures, restarts>>
hostVars == <<host, hostHeld, threadVars, captureVars>>
decoderVars == <<appsrc, pendingFrameIds_, lastQueuedFrameId_>>
clientVars == <<client, clientHeld, receivedFrames, idleTimeouts, unit,
                decoderVars, rendered, refused>>
fixedVars == <<ordered, ptsKept>>
vars == <<hostVars, net, clientVars, fixedVars>>

(***************************************************************************)
(* Values.                                                                 *)
(***************************************************************************)
HostSteps == {"display", "inputSocket", "accept", "capture", "encoder", "sender",
              "serving", "recovering", "rebinding", "closing", "ended"}
HostResources == {"display", "inputSocket", "capture", "encoder", "sender"}
ClientResources == {"renderer", "decoder", "receiver", "inputThread"}

\* frameId is what travels; picture tells two frames with the same id apart.
NalUnits == [frameId : Nat \ {0}, picture : Nat \ {0}, endOfFrame : BOOLEAN]

FrameNals == 1..2

Init ==
    /\ host = "display" /\ hostHeld = {}
    /\ inputThread = FALSE /\ ackThread = FALSE
    /\ stopInput = FALSE /\ stopEvent = FALSE
    /\ latestFrame_ = 0 /\ pictures = 0 /\ restarts = 0
    /\ net = << >> /\ ordered \in BOOLEAN
    /\ client = "out" /\ clientHeld = {} /\ receivedFrames = FALSE
    /\ idleTimeouts = 0 /\ unit = << >>
    /\ appsrc = << >> /\ pendingFrameIds_ = << >> /\ lastQueuedFrameId_ = 0
    /\ ptsKept \in BOOLEAN /\ rendered = Nothing /\ refused = FALSE

(***************************************************************************)
(* Host: the steps before the main loop, and their failures.               *)
(***************************************************************************)
NextStep == [s \in {"display", "inputSocket", "accept", "capture", "encoder"} |->
                CASE s = "display" -> "inputSocket"
                  [] s = "inputSocket" -> "accept"
                  [] s = "accept" -> "capture"
                  [] s = "capture" -> "encoder"
                  [] OTHER -> "sender"]

\* createVirtualDisplay, bind and startRegion, and configuring and starting the
\* encoder.  The input thread runs from the moment its socket is bound.
StepSucceeds ==
    /\ host \in {"display", "inputSocket", "capture", "encoder"}
    /\ host' = NextStep[host]
    /\ hostHeld' = hostHeld \cup {host}
    /\ inputThread' = (inputThread \/ host = "inputSocket")
    /\ UNCHANGED <<ackThread, stopInput, stopEvent, captureVars, net, clientVars,
                   fixedVars>>

\* VideoSender::open, then the thread for the acknowledgements.  (One that cannot bind its
\* port is over at once, which only saves the join its wait.)
SenderOpens ==
    /\ host = "sender"
    /\ host' = "serving"
    /\ hostHeld' = hostHeld \cup {"sender"} /\ ackThread' = TRUE
    /\ UNCHANGED <<inputThread, stopInput, stopEvent, captureVars, net,
                   clientVars, fixedVars>>

\* What the path of a step that fails stops before it joins the input thread.  (The
\* slip: the path of the sender leaves the encoder.)
StoppedFirstButEncoder(step) ==
    IF step \in {"encoder", "sender"} THEN {"capture"} ELSE {}
StoppedFirst(step) == CASE step = "encoder" -> {"capture"}
                        [] step = "sender" -> {"encoder", "capture"}
                        [] OTHER -> {}

FailStep ==
    /\ host' = "closing"
    /\ hostHeld' = hostHeld \ StoppedFirst(host)
    /\ stopInput' = TRUE
    /\ UNCHANGED <<inputThread, ackThread, stopEvent, captureVars, net, clientVars,
                   fixedVars>>

StepFails ==
    /\ host \in {"display", "inputSocket", "capture", "encoder", "sender"}
    /\ FailStep

\* Nobody connects for 10 s, or the client does not get ready.
AcceptFails ==
    /\ host = "accept" /\ client # "offered"
    /\ FailStep

\* The client is ready: acceptReadyClient returns.
AcceptSucceeds ==
    /\ host = "accept" /\ client = "receiving"
    /\ host' = "capture"
    /\ UNCHANGED <<hostHeld, threadVars, captureVars, net, clientVars, fixedVars>>

(***************************************************************************)
(* Host: the main loop, its recovery and its end.                          *)
(***************************************************************************)
GoesOn == ~stopInput /\ ~stopEvent

\* captureNextFrame, encode and sendFrame: a frame of k NAL units.  The host sends
\* on when nobody listens any more.
SendFrame(k) ==
    /\ host = "serving" /\ GoesOn /\ pictures < MaxPictures
    /\ Len(net) + k <= Capacity
    /\ latestFrame_' = latestFrame_ + 1 /\ pictures' = pictures + 1
    /\ net' = IF "receiver" \notin clientHeld THEN net
              ELSE net \o [i \in 1..k |-> [frameId |-> latestFrame_ + 1,
                                        picture |-> pictures + 1,
                                        endOfFrame |-> i = k]]
    /\ UNCHANGED <<host, hostHeld, threadVars, restarts, clientVars, fixedVars>>

\* captureNextFrame fails; or the capture has run on GDI for 2 s and the loop tries to
\* get it back to the virtual display.
CaptureFails ==
    /\ host = "serving" /\ GoesOn /\ restarts < MaxRestarts
    /\ host' \in {"recovering", "rebinding"}
    /\ hostHeld' = hostHeld \ {"capture"}
    /\ UNCHANGED <<threadVars, captureVars, net, clientVars, fixedVars>>

\* recoverCapture: the display is asked for and the capture started again, which
\* counts frames from zero.
Recovers ==
    /\ host \in {"recovering", "rebinding"} /\ GoesOn
    /\ host' = "serving" /\ hostHeld' = hostHeld \cup {"capture"}
    /\ latestFrame_' = 0 /\ restarts' = restarts + 1
    /\ UNCHANGED <<threadVars, pictures, net, clientVars, fixedVars>>

\* 80 attempts are over or a flag ends them.  On GDI the capture is then started as
\* it was.
StopAndRelease ==
    /\ host' = "closing"
    /\ hostHeld' = hostHeld \ {"sender", "encoder", "capture"}
    /\ stopInput' = TRUE
    /\ UNCHANGED <<inputThread, ackThread, stopEvent, net, clientVars, fixedVars>>

RecoveryEnds ==
    \/ /\ host \in {"recovering", "rebinding"}
       /\ StopAndRelease /\ UNCHANGED captureVars
    \/ /\ host = "rebinding"
       /\ host' = "serving" /\ hostHeld' = hostHeld \cup {"capture"}
       /\ latestFrame_' = 0 /\ restarts' = restarts + 1
       /\ UNCHANGED <<threadVars, pictures, net, clientVars, fixedVars>>

\* The loop ends on a flag, after its last frame, or because the socket fails.
LoopEnds ==
    /\ host = "serving"
    /\ StopAndRelease /\ UNCHANGED captureVars

\* The input thread ends on either flag, or with an event it cannot inject; the
\* other thread ends on stopInput alone.  (The slip: it waits for the stop event.)
AckThreadMayEndOnEvent == stopEvent
AckThreadMayEnd == stopInput

InputThreadEnds ==
    /\ inputThread /\ ~GoesOn
    /\ inputThread' = FALSE
    /\ UNCHANGED <<host, hostHeld, ackThread, stopInput, stopEvent, captureVars, net,
                   clientVars, fixedVars>>

InputThreadFails ==
    /\ inputThread /\ GoesOn
    /\ inputThread' = FALSE /\ stopInput' = TRUE
    /\ UNCHANGED <<host, hostHeld, ackThread, stopEvent, captureVars, net,
                   clientVars, fixedVars>>

AckThreadEnds ==
    /\ ackThread /\ AckThreadMayEnd
    /\ ackThread' = FALSE
    /\ UNCHANGED <<host, hostHeld, inputThread, stopInput, stopEvent, captureVars,
                   net, clientVars, fixedVars>>

\* Both joins return; what is left is given back.
HostEnds ==
    /\ host = "closing" /\ ~inputThread /\ ~ackThread
    /\ host' = "ended"
    /\ hostHeld' = hostHeld \ {"inputSocket", "display"}
    /\ UNCHANGED <<threadVars, captureVars, net, clientVars, fixedVars>>

RequestStop ==
    /\ ~stopEvent
    /\ stopEvent' = TRUE
    /\ UNCHANGED <<host, hostHeld, inputThread, ackThread, stopInput, captureVars,
                   net, clientVars, fixedVars>>

(***************************************************************************)
(* Client: the start.                                                      *)
(***************************************************************************)
\* connectAndReceiveOffer; until the host listens, the user's service tries again.
Connect ==
    /\ client = "out" /\ host = "accept"
    /\ client' = "offered"
    /\ UNCHANGED <<hostVars, net, clientHeld, receivedFrames, idleTimeouts, unit,
                   decoderVars, rendered, refused, fixedVars>>

\* The renderer opens, the decoder starts, the receiver is bound and CLIENT_READY
\* sent, the input thread starts.
GetReady ==
    /\ client = "offered"
    /\ client' = "receiving" /\ clientHeld' = ClientResources
    /\ UNCHANGED <<hostVars, net, receivedFrames, idleTimeouts, unit, decoderVars,
                   rendered, refused, fixedVars>>

\* One of them fails: each path closes what is open.
GetReadyFails ==
    /\ client = "offered"
    /\ client' = "ended"
    /\ UNCHANGED <<hostVars, net, clientHeld, receivedFrames, idleTimeouts, unit,
                   decoderVars, rendered, refused, fixedVars>>

(***************************************************************************)
(* Client: access units and the decoder.                                   *)
(***************************************************************************)
Decoder == [queue |-> appsrc, pending |-> pendingFrameIds_,
            last |-> lastQueuedFrameId_]

\* rememberFrameId: an id is kept once in a row, and so many of them.  (The slip:
\* however many.)
RememberAll(d, id) ==
    IF d.last = id THEN d
    ELSE [d EXCEPT !.last = id, !.pending = Append(@, id)]
Remember(d, id) ==
    IF d.last = id THEN d
    ELSE LET ids == Append(d.pending, id)
         IN  [d EXCEPT !.last = id,
                       !.pending = IF Len(ids) > MaxPendingIds THEN Tail(ids) ELSE ids]

\* pushAccessUnitWithFrameId: the pipeline's source holds two, and lets the oldest
\* go for a third.
PushUnit(d, u) ==
    LET queue == Append(d.queue, u)
    IN  [Remember(d, u[1].frameId)
            EXCEPT !.queue = IF Len(queue) > 2 THEN Tail(queue) ELSE queue]

PushUnits(d, units) ==
    CASE Len(units) = 0 -> d
      [] Len(units) = 1 -> PushUnit(d, units[1])
      [] OTHER -> PushUnit(PushUnit(d, units[1]), units[2])

SetDecoder(d) == /\ appsrc' = d.queue
                 /\ pendingFrameIds_' = d.pending
                 /\ lastQueuedFrameId_' = d.last

\* A NAL unit of another frame closes the access unit.  (The slip: it does not, only
\* the marker does.)
NeverAnotherFrame(n) == FALSE
OfAnotherFrame(n) == unit # << >> /\ unit[1].frameId # n.frameId

Collected(n) == IF OfAnotherFrame(n) THEN <<n>> ELSE Append(unit, n)

UnitsClosedBy(n) ==
    (IF OfAnotherFrame(n) THEN <<unit>> ELSE << >>)
        \o (IF n.endOfFrame THEN <<Collected(n)>> ELSE << >>)

\* receiveNal returns a NAL unit, and the loop handles it.
ReceiveNal(k) ==
    LET n == net[k]
    IN  /\ client = "receiving" /\ (ordered => k = 1)
        /\ net' = SubSeq(net, 1, k - 1) \o SubSeq(net, k + 1, Len(net))
        /\ unit' = IF n.endOfFrame THEN << >> ELSE Collected(n)
        /\ SetDecoder(PushUnits(Decoder, UnitsClosedBy(n)))
        /\ receivedFrames' = TRUE /\ idleTimeouts' = 0
        /\ UNCHANGED <<hostVars, client, clientHeld, rendered, refused, fixedVars>>

LoseNal(k) ==
    /\ net' = SubSeq(net, 1, k - 1) \o SubSeq(net, k + 1, Len(net))
    /\ UNCHANGED <<hostVars, clientVars, fixedVars>>

\* The ids in front that are not newer are taken off.
DropUpTo(ids, id) ==
    LET old == {i \in DOMAIN ids : \A j \in 1..i : ids[j] <= id}
    IN  SubSeq(ids, Cardinality(old) + 1, Len(ids))

\* takeDecodedFrameId: the id that the frame's time stamp is, if it was pushed, or
\* the oldest that was not taken.
ByTimestamp(u) == ptsKept /\ u[1].frameId <= lastQueuedFrameId_

\* (The slip: the oldest, whatever the time stamp says.)
TakenOldest(u) == IF pendingFrameIds_ = << >> THEN 0 ELSE Head(pendingFrameIds_)
TakenFrameId(u) ==
    CASE ByTimestamp(u) -> u[1].frameId
      [] ~ByTimestamp(u) /\ pendingFrameIds_ # << >> -> Head(pendingFrameIds_)
      [] OTHER -> 0

LeftFrameIds(u) ==
    CASE ByTimestamp(u) -> DropUpTo(pendingFrameIds_, u[1].frameId)
      [] ~ByTimestamp(u) /\ pendingFrameIds_ # << >> -> Tail(pendingFrameIds_)
      [] OTHER -> << >>

\* The pipeline decodes the oldest access unit: noteDecodedFrameData renders the
\* frame and acknowledges it.  Or the unit gives no frame (a reference is missing).
DecodeUnit ==
    LET u == Head(appsrc)
    IN  /\ "decoder" \in clientHeld /\ appsrc # << >>
        /\ appsrc' = Tail(appsrc)
        /\ \/ /\ rendered' = [frameId |-> u[1].frameId, acked |-> TakenFrameId(u)]
              /\ pendingFrameIds_' = LeftFrameIds(u)
           \/ UNCHANGED <<rendered, pendingFrameIds_>>
        /\ UNCHANGED <<hostVars, net, client, clientHeld, receivedFrames,
                       idleTimeouts, unit, lastQueuedFrameId_, refused, fixedVars>>

(***************************************************************************)
(* Client: the ways out.                                                   *)
(***************************************************************************)
\* The process ends; what is on its way to it is lost.
EndsHolding(held, wasRefused) ==
    /\ client' = "ended" /\ clientHeld' = held
    /\ refused' = wasRefused
    /\ net' = << >> /\ unit' = << >>
    /\ SetDecoder([queue |-> << >>, pending |-> << >>, last |-> 0])
    /\ receivedFrames' = FALSE /\ idleTimeouts' = 0 /\ rendered' = Nothing
    /\ UNCHANGED <<hostVars, fixedVars>>

\* A pushed unit is refused in the loop: everything is closed.
PushRefused ==
    /\ client = "receiving" /\ net # << >>
    /\ EndsHolding({}, FALSE)

\* The receiver fails, or no packet ever came: the rest of the unit is flushed first,
\* and if that is refused nothing more is closed.
ReceiveFails ==
    /\ client = "receiving"
    /\ \/ EndsHolding({}, FALSE)
       \/ unit # << >> /\ EndsHolding({"decoder", "renderer"}, TRUE)

\* No packet for 5 s before the first: the client waits on, so often.  (The slip: it
\* does not count.)
TimeoutsUncounted == idleTimeouts
TimeoutsSoFar == idleTimeouts + 1

StartupTimesOut ==
    /\ client = "receiving" /\ net = << >> /\ ~receivedFrames
    /\ IF TimeoutsSoFar < StartupTimeouts
       THEN /\ idleTimeouts' = TimeoutsSoFar
            /\ UNCHANGED <<hostVars, net, client, clientHeld, receivedFrames, unit,
                           decoderVars, rendered, refused, fixedVars>>
       ELSE EndsHolding({}, FALSE)

\* The session is over when no packet comes for a second, or all frames asked for
\* have come: what is left is flushed and drained.
Drain ==
    /\ client' = "draining" /\ clientHeld' = clientHeld \ {"receiver"}
    /\ unit' = << >> /\ net' = << >>
    /\ SetDecoder(IF unit = << >> THEN Decoder ELSE PushUnit(Decoder, unit))
    /\ UNCHANGED <<hostVars, receivedFrames, idleTimeouts, rendered, refused,
                   fixedVars>>

\* The last flush is refused: the input thread is not joined, which ends the process.
LeaveLoop == \/ Drain
             \/ unit # << >> /\ EndsHolding({"inputThread"}, TRUE)

ActiveTimesOut ==
    /\ client = "receiving" /\ net = << >> /\ receivedFrames
    /\ LeaveLoop

EnoughReceived ==
    /\ client = "receiving" /\ receivedFrames
    /\ LeaveLoop

\* drainForMs, then the input thread, the decoder and the renderer.
ClientEnds ==
    /\ client = "draining"
    /\ EndsHolding({}, FALSE)

Host == \/ StepSucceeds \/ SenderOpens \/ StepFails
        \/ AcceptFails \/ AcceptSucceeds
        \/ \E k \in FrameNals : SendFrame(k)
        \/ CaptureFails \/ Recovers \/ RecoveryEnds \/ LoopEnds \/ HostEnds
        \/ InputThreadEnds \/ InputThreadFails \/ AckThreadEnds

Client == \/ Connect \/ GetReady \/ GetReadyFails
          \/ \E k \in DOMAIN net : ReceiveNal(k)
          \/ DecodeUnit
          \/ PushRefused \/ ReceiveFails \/ StartupTimesOut \/ ActiveTimesOut
          \/ EnoughReceived \/ ClientEnds

Next == Host \/ RequestStop \/ Client \/ \E k \in DOMAIN net : LoseNal(k)

Spec == Init /\ [][Next]_vars

\* What the host's main thread does next.  (It captures for as long as nothing ends the
\* session; it does not have to end one.)
HostMain == \/ StepSucceeds \/ SenderOpens \/ StepFails
            \/ AcceptFails \/ AcceptSucceeds
            \/ ~GoesOn /\ (LoopEnds \/ RecoveryEnds)
            \/ HostEnds

ClientMain == \/ GetReady \/ GetReadyFails
              \/ \E k \in DOMAIN net : ReceiveNal(k)
              \/ StartupTimesOut \/ ActiveTimesOut \/ ClientEnds

\* The threads run; every wait of theirs has a timeout.
FairSpec == /\ Spec
            /\ WF_vars(HostMain) /\ WF_vars(ClientMain)
            /\ WF_vars(InputThreadEnds) /\ WF_vars(AckThreadEnds)
-----------------------------------------------------------------------------
(***************************************************************************)
(* Properties.                                                             *)
(***************************************************************************)
\* Type invariant of the host, the client and the decoder.
TypeOK ==
    /\ host \in HostSteps /\ hostHeld \subseteq HostResources
    /\ {inputThread, ackThread, stopInput, stopEvent} \subseteq BOOLEAN
    /\ latestFrame_ \in 0..pictures /\ pictures \in 0..MaxPictures
    /\ restarts \in 0..MaxRestarts
    /\ net \in Seq(NalUnits) /\ Len(net) <= Capacity
    /\ client \in {"out", "offered", "receiving", "draining", "ended"}
    /\ clientHeld \subseteq ClientResources
    /\ receivedFrames \in BOOLEAN /\ idleTimeouts \in 0..(StartupTimeouts - 1)
    /\ unit \in Seq(NalUnits) /\ appsrc \in Seq(Seq(NalUnits))
    /\ Len(appsrc) <= 2 /\ Len(pendingFrameIds_) <= MaxPendingIds
    /\ lastQueuedFrameId_ \in Nat
    /\ {ordered, ptsKept, refused} \subseteq BOOLEAN

Units == {appsrc[i] : i \in DOMAIN appsrc} \cup {unit}

\* Although markers get lost and NAL units overtake each other, the decoder is never
\* given parts of two pictures as one access unit, while the capture was not started
\* again (frame ids are then used a second time).
UnitOfOnePicture ==
    restarts = 0 =>
        \A u \in Units : \A i, j \in DOMAIN u : u[i].picture = u[j].picture

\* Although access units are dropped and some give no frame, no acknowledgement names
\* a frame that is newer than what was rendered; with the pipeline keeping time stamps
\* it names that very frame.  (NAL units in order, and no second use of ids.)
AckNamesRendered ==
    ordered /\ restarts = 0 /\ rendered # Nothing =>
        /\ rendered.acked <= rendered.frameId
        /\ ptsKept => rendered.acked = rendered.frameId

\* Whichever step fails and whatever ends the session, the host ends with both
\* threads joined and everything given back; and so does the client, unless the
\* pipeline refuses the unit it flushes on the way out.
EndsWithNothingHeld ==
    /\ host = "ended" => hostHeld = {} /\ ~inputThread /\ ~ackThread
    /\ client = "ended" /\ ~refused => clientHeld = {}

\* A stop event ends the host, wherever it is: in its steps, waiting for a client,
\* serving or recovering.  So does a failure: the joins of both threads return.
HostEndsWhenItMust == (stopEvent \/ host = "closing") ~> host = "ended"

\* The client does not stay with the last picture of a host that is gone.
HostGoneEndsClient == host = "ended" ~> client \in {"out", "ended"}
=============================================================================
