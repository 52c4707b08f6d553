----------------------------- MODULE MjpegStream -----------------------------
(***************************************************************************)
(* The MJPEG video path from the encode worker of the Windows host         *)
(* (host_app.cpp, runServeMjpegCaptureMode) over UDP to the frame          *)
(* assembler of the Linux client (mjpeg_packet.cpp).                       *)
(*                                                                         *)
(* A captured frame is sent as one or more dirty rectangles.  Each one is  *)
(* a JPEG of its own, cut into datagrams that carry the id                 *)
(* frameId * kSubFrameIdStride + rectIndex, the part index and the part    *)
(* count.  What a datagram carries besides (pixels, time stamp, key flag,  *)
(* rectangle) is the serial number of the rectangle it was cut from: two   *)
(* datagrams have the same content metadata iff they have the same serial. *)
(*                                                                         *)
(* The capture engine counts frames from zero again whenever it is         *)
(* restarted (capture_engine.cpp, startCapture), so an id may be used      *)
(* twice in one session: serials are unique, ids are not.                  *)
(***************************************************************************)
EXTENDS Naturals, FiniteSets

CONSTANTS
    MaxSerial,     \* bound: rectangles sent in a behaviour
    MaxFrameId,    \* bound: frames captured between two restarts
    MaxParts,      \* datagrams a rectangle may need (65535 in the code)
    MaxRects,      \* dirty rectangles of a frame (8 in the code)
    Stride,        \* kSubFrameIdStride (16 in the code)
    MaxRecoveries  \* bound: restarts of the capture engine

ASSUME StreamAssumption ==
    /\ MaxSerial \in Nat
    /\ MaxFrameId \in Nat
    /\ MaxParts \in Nat \ {0}
    /\ MaxRects \in Nat \ {0}
    /\ Stride \in Nat
    /\ MaxRects <= Stride
    /\ MaxRecoveries \in Nat

VARIABLES
    captured,      \* latestFrame_.frameId of the capture engine
    recoveries,    \* restarts so far
    taskFrame,     \* frame id of the task the encode worker holds
    rects, rect,   \* its number of dirty rectangles, the next one to send
    count, part,   \* datagrams of the current rectangle, the next one; 0: none
    serial,        \* serial of the last rectangle packetized
    sent,          \* every rectangle packetized so far
    whole,         \* serials whose datagrams have all been given to the socket
    net,           \* datagrams in flight
    inOrder,       \* TRUE: the network neither loses nor reorders nor repeats
    frameId_, partCount_, receivedParts_, received_, parts_, header_,
                   \* the assembler; header_ stands for the metadata fields
    out            \* what the last pushDatagram returned in its out parameter

senderVars == <<captured, recoveries, taskFrame, rects, rect, count, part,
                serial, sent, whole>>
assemblerVars == <<frameId_, partCount_, receivedParts_, received_, parts_,
                   header_>>
vars == <<senderVars, net, inOrder, assemblerVars, out>>

(***************************************************************************)
(* Values.                                                                 *)
(***************************************************************************)
Serials == 1..MaxSerial
Rectangles == [id : Nat, count : 1..MaxParts, serial : Serials]
Datagrams == [id : Nat, count : 1..MaxParts, part : Nat, serial : Serials]

NoParts == [p \in {} |-> 0]

\* A ReassembledMjpegFrame that was only initialised (jpegBytes is empty).
NoFrame == [id |-> 0, count |-> 0, header |-> 0, parts |-> NoParts]

\* The id of a rectangle of a captured frame.  (The slip: no stride between
\* the ids of two frames.)
PacketFrameIdNoStride(frame, r) == frame + r
PacketFrameId(frame, r) == frame * Stride + r

\* The datagram that carries part p of rectangle s.
PartOf(s, p) == [id |-> s.id, count |-> s.count, part |-> p,
                 serial |-> s.serial]

Current == [id |-> PacketFrameId(taskFrame, rect), count |-> count,
            serial |-> serial]

WorkerIdle == rect = rects

(***************************************************************************)
(* Host: capture engine and encode worker.                                 *)
(***************************************************************************)
Init ==
    /\ captured = 0 /\ recoveries = 0
    /\ taskFrame = 0 /\ rects = 0 /\ rect = 0 /\ count = 0 /\ part = 0
    /\ serial = 0 /\ sent = {} /\ whole = {}
    /\ net = {} /\ inOrder \in BOOLEAN
    /\ frameId_ = 0 /\ partCount_ = 0 /\ receivedParts_ = 0
    /\ received_ = {} /\ parts_ = NoParts /\ header_ = 0
    /\ out = NoFrame

\* A frame is captured and the worker takes it with n dirty rectangles.  Frames
\* captured and not sent only advance the counter: skipped is how many.
TakeTask(n, skipped) ==
    /\ WorkerIdle
    /\ serial < MaxSerial /\ captured + 1 + skipped <= MaxFrameId
    /\ captured' = captured + 1 + skipped
    /\ taskFrame' = captured'
    /\ rects' = n /\ rect' = 0
    /\ out' = NoFrame
    /\ UNCHANGED <<recoveries, count, part, serial, sent, whole, net,
                   inOrder, assemblerVars>>

\* The next rectangle is encoded and cut into c datagrams.
PacketizeRect(c) ==
    /\ ~WorkerIdle /\ count = 0
    /\ serial < MaxSerial
    /\ serial' = serial + 1
    /\ count' = c /\ part' = 0
    /\ sent' = sent \cup {[id |-> PacketFrameId(taskFrame, rect), count |-> c,
                           serial |-> serial + 1]}
    /\ out' = NoFrame
    /\ UNCHANGED <<captured, recoveries, taskFrame, rects, rect, whole, net,
                   inOrder, assemblerVars>>

\* The encoder fails or the JPEG needs more datagrams than 16 bits count: the
\* worker gives up the rest of the task.
EncodeFails ==
    /\ ~WorkerIdle /\ count = 0
    /\ rect' = rects
    /\ out' = NoFrame
    /\ UNCHANGED <<captured, recoveries, taskFrame, rects, count, part, serial,
                   sent, whole, net, inOrder, assemblerVars>>

\* One datagram is given to the socket; the last one completes the rectangle.
SendPart ==
    /\ count # 0
    /\ net' = net \cup {PartOf(Current, part)}
    /\ IF part + 1 = count
       THEN /\ whole' = whole \cup {serial}
            /\ count' = 0 /\ part' = 0 /\ rect' = rect + 1
       ELSE /\ part' = part + 1
            /\ UNCHANGED <<whole, count, rect>>
    /\ out' = NoFrame
    /\ UNCHANGED <<captured, recoveries, taskFrame, rects, serial, sent,
                   inOrder, assemblerVars>>

\* sendTo fails: the rest of this rectangle and of the task is not sent.
SendFails ==
    /\ count # 0
    /\ count' = 0 /\ part' = 0 /\ rect' = rects
    /\ out' = NoFrame
    /\ UNCHANGED <<captured, recoveries, taskFrame, rects, serial, sent, whole,
                   net, inOrder, assemblerVars>>

\* The main loop restarts the capture engine after a capture failure, while
\* the worker may still be sending: the frame counter starts again.
RestartCapture ==
    /\ recoveries < MaxRecoveries
    /\ recoveries' = recoveries + 1
    /\ captured' = 0
    /\ out' = NoFrame
    /\ UNCHANGED <<taskFrame, rects, rect, count, part, serial, sent, whole,
                   net, inOrder, assemblerVars>>

(***************************************************************************)
(* The network.                                                            *)
(***************************************************************************)
Oldest(d) ==
    \A e \in net : \/ d.serial < e.serial
                   \/ d.serial = e.serial /\ d.part <= e.part

Lose(d) ==
    /\ ~inOrder
    /\ net' = net \ {d}
    /\ out' = NoFrame
    /\ UNCHANGED <<senderVars, inOrder, assemblerVars>>

(***************************************************************************)
(* Client: MjpegFrameAssembler::pushDatagram.                              *)
(***************************************************************************)
\* The datagram opens a new assembly: another frame id, or another part count.
\* (The slip: only the part count is compared.)
OpensByCount(d) == partCount_ # d.count
Opens(d) == frameId_ # d.id \/ partCount_ # d.count

PartsBefore(d) == IF Opens(d) THEN {} ELSE received_

\* (The slip: the counter survives the reset.)
CountBeforeKept(d) == receivedParts_
CountBefore(d) == IF Opens(d) THEN 0 ELSE receivedParts_

PartsAfter(d) == PartsBefore(d) \cup {d.part}

CountAfter(d) == IF d.part \in PartsBefore(d)
                 THEN CountBefore(d) ELSE CountBefore(d) + 1
ContentAfter(d) == [p \in PartsAfter(d) |->
                       IF p \in PartsBefore(d) THEN parts_[p] ELSE d.serial]
HeaderAfter(d) == IF Opens(d) THEN d.serial ELSE header_

Reset ==
    /\ frameId_' = 0 /\ partCount_' = 0 /\ receivedParts_' = 0
    /\ received_' = {} /\ parts_' = NoParts /\ header_' = 0

PushDatagram(d) ==
    IF CountAfter(d) = d.count
    THEN /\ out' = [id |-> d.id, count |-> d.count, header |-> HeaderAfter(d),
                    parts |-> ContentAfter(d)]
         /\ Reset
    ELSE /\ out' = NoFrame
         /\ frameId_' = d.id /\ partCount_' = d.count
         /\ receivedParts_' = CountAfter(d)
         /\ received_' = PartsAfter(d) /\ parts_' = ContentAfter(d)
         /\ header_' = HeaderAfter(d)

\* A datagram arrives; unless the network is in order, a copy may remain.
Deliver(d) ==
    /\ \/ net' = net \ {d} /\ (inOrder => Oldest(d))
       \/ net' = net /\ ~inOrder
    /\ PushDatagram(d)
    /\ UNCHANGED <<senderVars, inOrder>>

Host == \/ \E n \in 1..MaxRects, skipped \in 0..1 : TakeTask(n, skipped)
        \/ \E c \in 1..MaxParts : PacketizeRect(c)
        \/ EncodeFails
        \/ SendPart
        \/ SendFails
        \/ RestartCapture

Network == \E d \in net : Lose(d) \/ Deliver(d)

Next == Host \/ Network

Spec == Init /\ [][Next]_vars

\* The worker keeps sending what it has packetized unless the socket fails,
\* and the receive loop keeps reading.
FairSpec == Spec /\ WF_vars(SendPart \/ SendFails)
                 /\ WF_vars(\E d \in net : Deliver(d))
-----------------------------------------------------------------------------
(***************************************************************************)
(* Properties.                                                             *)
(***************************************************************************)
\* Type invariant of the sender, the network and the assembler.
TypeOK ==
    /\ captured \in Nat /\ recoveries \in Nat /\ taskFrame \in Nat
    /\ rects \in 0..MaxRects /\ rect \in 0..rects
    /\ count \in 0..MaxParts /\ part \in Nat
    /\ serial \in 0..MaxSerial
    /\ sent \subseteq Rectangles /\ whole \subseteq Serials
    /\ net \subseteq Datagrams /\ inOrder \in BOOLEAN
    /\ frameId_ \in Nat /\ partCount_ \in 0..MaxParts
    /\ receivedParts_ \in Nat /\ received_ \subseteq 0..(MaxParts - 1)
    /\ parts_ \in [received_ -> Serials]
    /\ header_ \in 0..MaxSerial

\* The assembler's own bookkeeping (receivedParts_ is kept beside received_,
\* and a frame leaves by comparing it with partCount_): the counter is the
\* number of parts held, and a frame with every part is never kept back.
AssemblyIncomplete ==
    /\ receivedParts_ = Cardinality(received_)
    /\ received_ # {} => /\ receivedParts_ < partCount_
                         /\ received_ \subseteq 0..(partCount_ - 1)

\* Whatever the network does and however often the capture engine restarts, a
\* frame handed to the decoder has every part, each one from a rectangle that
\* was sent under the id and the part count the frame carries.
CompleteFrame ==
    out # NoFrame =>
        /\ DOMAIN out.parts = 0..(out.count - 1)
        /\ \A p \in DOMAIN out.parts :
              [id |-> out.id, count |-> out.count, serial |-> out.parts[p]]
                 \in sent

\* The frame is one rectangle as it was captured: all its parts, its key flag
\* and its dirty rectangle come from one that was sent under its id.
Untorn(f) ==
    /\ DOMAIN f.parts = 0..(f.count - 1)
    /\ \A p \in DOMAIN f.parts : f.parts[p] = f.header
    /\ [id |-> f.id, count |-> f.count, serial |-> f.header] \in sent

\* As long as the capture engine has not been restarted, a frame handed to the
\* decoder is one rectangle as it was captured, so that its JPEG decodes to what
\* was on the screen.
NoTornFrame == recoveries = 0 /\ out # NoFrame => Untorn(out)

\* The frame the abstract channel hands over: the rectangle, if it is whole.
Picture(f) ==
    IF f = NoFrame THEN NoFrame
    ELSE IF Untorn(f)
         THEN [id |-> f.id, count |-> f.count, serial |-> f.header]
         ELSE [torn |-> f]

HandedOver(s) == out # NoFrame /\ Untorn(out) /\ out.header = s

\* On a network that loses and reorders nothing, and while the capture engine is
\* not restarted, every rectangle whose datagrams were all sent reaches the
\* decoder, also behind rectangles that were given up half way after a failed
\* sendTo.
SentFramesArrive ==
    [](inOrder /\ recoveries = 0) =>
        \A s \in Serials : <>(s \in whole) => <>HandedOver(s)

Channel == INSTANCE FrameChannel WITH
               Frames <- Rectangles,
               NoFrame <- NoFrame,
               submitted <- sent,
               handed <- IF recoveries = 0 THEN Picture(out) ELSE NoFrame

\* As long as ids are not used twice, the transport is a channel that loses,
\* repeats and reorders pictures but alters none.
ImplementsChannel == Channel!ChannelSpec
=============================================================================
