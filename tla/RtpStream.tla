------------------------------ MODULE RtpStream ------------------------------
(***************************************************************************)
(* The H.264 video path: the encoder of the Windows host (encoder.cpp),    *)
(* the sender and its packetizer (video_sender.cpp,                        *)
(* h264_rtp_packetizer.cpp), the network, and on the Linux client the      *)
(* depacketizer (h264_rtp_depacketizer.cpp) and the receiver with its      *)
(* statistics (video_receiver.cpp).                                        *)
(*                                                                         *)
(* A frame is encoded into NAL units.  One that fits goes into a packet as *)
(* it is, a larger one is cut into FU-A fragments; the packets carry       *)
(* consecutive 16-bit sequence numbers, the time stamp of the frame, and   *)
(* the marker on the last packet of the frame.  Nothing is sent again:     *)
(* the depacketizer gives up a NAL unit that has a gap.                    *)
(*                                                                         *)
(* The bytes of a NAL unit are not modelled: a packet stands for the piece *)
(* it carries, and a reassembled NAL unit is the sequence of the pieces    *)
(* that were appended.                                                     *)
(***************************************************************************)
EXTENDS Integers, FiniteSets, Sequences

CONSTANTS
    MaxFrames,     \* bound: frames encoded in a behaviour
    FragCounts,    \* packets a picture's NAL unit may need
    PlaceholderFrags, \* packets of 3000 bytes (3)
    SeqMod,        \* sequence numbers (2^16 in the code)
    KeyPeriod,     \* frames between two that are flagged as key frames (60)
    Capacity,      \* bound: packets in flight
    MaxRepeats,    \* bound: gaps and overtaken packets while copies remain
    Unset          \* no NAL unit

ASSUME RtpAssumption ==
    /\ MaxFrames \in Nat
    /\ FragCounts \subseteq Nat \ {0}
    /\ PlaceholderFrags \in Nat \ {0}
    /\ SeqMod \in Nat \ {0, 1}
    /\ KeyPeriod \in Nat \ {0}
    /\ Capacity \in Nat
    /\ MaxRepeats \in Nat

\* A frame needs no more packets than there are sequence numbers: at most the packet of
\* its parameter sets and those of a picture, or those of the placeholder.
ASSUME FrameFits ==
    /\ \A c \in FragCounts : c + 1 <= SeqMod
    /\ PlaceholderFrags <= SeqMod

VARIABLES
    frame,             \* frame id of the last captured frame
    mediaFoundation,   \* mediaFoundationStarted_
    parameterSets_,    \* TRUE: the encoder knows the stream's parameter sets
    nalUnits, index,   \* NAL units of the encoded frame, the next one to send
    frags, frag,       \* packets of the current NAL unit (0: none), the next one
    allocated,         \* sequence numbers given out, before they wrap
    open_,             \* FALSE after the socket has refused a packet
    sent, whole,       \* NAL units packetized; those given to the socket whole
    net,               \* packets in flight
    mode,              \* what the network may do, see Lose and Deliver
    assemblingFuA_, currentTimestamp_, expectedSequence_, currentNal_,
                       \* the depacketizer
    hasExpected, expectedNumber, sequenceGaps, lostPackets, outOfOrder,
                       \* the receiver's statistics
    newest,            \* history: number of the last packet taken, or -1
    missed, burst,     \* history: packets missing in front of it, longest run
    out                \* the NAL unit the last packet completed, or Unset

encoderVars == <<frame, mediaFoundation, parameterSets_>>
senderVars == <<nalUnits, index, frags, frag, allocated, open_, sent, whole>>
depacketizerVars == <<assemblingFuA_, currentTimestamp_, expectedSequence_,
                      currentNal_>>
statsVars == <<hasExpected, expectedNumber, sequenceGaps, lostPackets,
               outOfOrder, newest, missed, burst>>
vars == <<encoderVars, senderVars, net, mode, depacketizerVars, statsVars, out>>

(***************************************************************************)
(* Values.                                                                 *)
(***************************************************************************)
Kinds == {"params", "idr", "slice", "placeholder"}

\* first is the number of the NAL unit's first packet, before it wraps.
NalUnits == [frame : Nat, index : Nat \ {0}, kind : Kinds, first : Nat,
             frags : Nat \ {0}, last : BOOLEAN]
Packets == [nal : NalUnits, piece : Nat \ {0}]

NoAssembly == << >>

\* The fields of a packet.
Number(p) == p.nal.first + p.piece - 1
SequenceNumber(p) == Number(p) % SeqMod
Timestamp(p) == p.nal.frame
SingleNal(p) == p.nal.frags = 1
Starts(p) == p.piece = 1
Ends(p) == p.piece = p.nal.frags

\* nextSequence: a 16-bit increment.  (The slip: it does not wrap.)
NextSequenceWide(s) == s + 1
NextSequence(s) == (s + 1) % SeqMod

\* sequenceDelta: the difference read as a signed 16-bit number.
SequenceDelta(actual, expected) ==
    LET d == (actual - expected) % SeqMod
    IN  IF 2 * d < SeqMod THEN d ELSE d - SeqMod

(***************************************************************************)
(* Host: Encoder::encode.  The transform answers a frame with any of these *)
(* (it may keep a picture back), and it decides by its own count which     *)
(* pictures are IDR; encode guesses from the frame id.                     *)
(***************************************************************************)
Pictures == {<< >>, <<"slice">>, <<"idr">>, <<"params", "idr">>}

MaxUnits == 2

Has(units, kind) == \E i \in DOMAIN units : units[i] = kind

KeyFrame(f) == f <= 1 \/ f % KeyPeriod = 0

\* Parameter sets go in front of an IDR picture that brings none.  (The slip:
\* only the guessed key frames are looked after.)
WithParametersIfGuessed(units, f, known) ==
    IF KeyFrame(f) /\ ~Has(units, "params") /\ known
    THEN <<"params">> \o units ELSE units
WithParameters(units, f, known) ==
    IF (KeyFrame(f) \/ Has(units, "idr")) /\ ~Has(units, "params") /\ known
    THEN <<"params">> \o units ELSE units

Idle == index > Len(nalUnits)

Init ==
    /\ frame = 0 /\ mediaFoundation \in BOOLEAN /\ parameterSets_ = FALSE
    /\ nalUnits = << >> /\ index = 1 /\ frags = 0 /\ frag = 1
    /\ allocated = 0 /\ open_ = TRUE /\ sent = {} /\ whole = {}
    /\ net = {} /\ mode \in {"clean", "lossy", "any"}
    /\ assemblingFuA_ = FALSE /\ currentTimestamp_ = 0
    /\ expectedSequence_ = 0 /\ currentNal_ = NoAssembly
    /\ hasExpected = FALSE /\ expectedNumber = 0 /\ sequenceGaps = 0
    /\ lostPackets = 0 /\ outOfOrder = 0 /\ newest = -1 /\ missed = 0 /\ burst = 0
    /\ out = Unset

NextFrame(units) ==
    /\ open_ /\ Idle /\ frame < MaxFrames
    /\ frame' = frame + 1
    /\ nalUnits' = units /\ index' = 1
    /\ out' = Unset
    /\ UNCHANGED <<mediaFoundation, frags, frag, allocated, open_, sent, whole,
                   net, mode, depacketizerVars, statsVars>>

\* The transform delivers a picture; with it the sequence header may become
\* known.  A picture that starts a sequence brings its parameter sets or has
\* them in that header.
EncodeFrame(picture, header) ==
    /\ mediaFoundation
    /\ header => picture # << >>
    /\ Has(picture, "idr") /\ ~Has(picture, "params")
          => parameterSets_ \/ header
    /\ parameterSets_' = (parameterSets_ \/ header)
    /\ NextFrame(WithParameters(picture, frame + 1, parameterSets_'))

\* Without Media Foundation, or when a call before ProcessOutput fails, encode
\* answers with 3000 bytes that are no picture.
EncodePlaceholder ==
    /\ NextFrame(<<"placeholder">>)
    /\ UNCHANGED parameterSets_

(***************************************************************************)
(* Host: VideoSender::sendFrame, sendNal and the packetizer.               *)
(***************************************************************************)
CurrentNal(c) ==
    [frame |-> frame, index |-> index, kind |-> nalUnits[index],
     first |-> allocated, frags |-> c, last |-> index = Len(nalUnits)]

PacketsOf(kind) == CASE kind = "params" -> {1}
                     [] kind = "placeholder" -> {PlaceholderFrags}
                     [] OTHER -> FragCounts

\* All packets of a NAL unit are cut, and numbered, before the first is sent.
PacketizeNal(c) ==
    /\ open_ /\ ~Idle /\ frags = 0
    /\ c \in PacketsOf(nalUnits[index])
    /\ frags' = c /\ frag' = 1
    /\ sent' = sent \cup {CurrentNal(c)}
    /\ allocated' = allocated + c
    /\ out' = Unset
    /\ UNCHANGED <<encoderVars, nalUnits, index, open_, whole, net, mode,
                   depacketizerVars, statsVars>>

\* The NAL unit that is being sent.
Outgoing == [frame |-> frame, index |-> index, kind |-> nalUnits[index],
             first |-> allocated - frags, frags |-> frags,
             last |-> index = Len(nalUnits)]

SendPacket ==
    /\ frags # 0 /\ Cardinality(net) < Capacity
    /\ net' = net \cup {[nal |-> Outgoing, piece |-> frag]}
    /\ IF frag = frags
       THEN /\ whole' = whole \cup {Outgoing}
            /\ frags' = 0 /\ frag' = 1 /\ index' = index + 1
       ELSE /\ frag' = frag + 1
            /\ UNCHANGED <<whole, frags, index>>
    /\ out' = Unset
    /\ UNCHANGED <<encoderVars, nalUnits, allocated, open_, sent, mode,
                   depacketizerVars, statsVars>>

\* sendTo fails: every caller closes the sender and ends.
SendFails ==
    /\ frags # 0
    /\ open_' = FALSE /\ frags' = 0 /\ frag' = 1
    /\ out' = Unset
    /\ UNCHANGED <<encoderVars, nalUnits, index, allocated, sent, whole, net,
                   mode, depacketizerVars, statsVars>>

(***************************************************************************)
(* The network: "clean" neither loses, reorders nor repeats packets,       *)
(* "lossy" only loses some, "any" does everything UDP may do.              *)
(***************************************************************************)
Oldest(p) == \A q \in net : Number(p) <= Number(q)

Lose(p) ==
    /\ mode # "clean"
    /\ net' = net \ {p}
    /\ out' = Unset
    /\ UNCHANGED <<encoderVars, senderVars, mode, depacketizerVars, statsVars>>

(***************************************************************************)
(* Client: H264RtpDepacketizer::pushPacket.                                *)
(***************************************************************************)
Reset ==
    /\ assemblingFuA_' = FALSE /\ currentTimestamp_' = 0
    /\ expectedSequence_' = 0 /\ currentNal_' = NoAssembly

\* A continuation belongs to the NAL unit that is being put together.  (The
\* slip: its number is not looked at.)
ContinuesAnyNumber(p) == Timestamp(p) = currentTimestamp_
Continues(p) == /\ Timestamp(p) = currentTimestamp_
                /\ SequenceNumber(p) = expectedSequence_

Pieces(p) == IF Starts(p) THEN <<p>> ELSE Append(currentNal_, p)

\* The sequence number a continuation must have.
ExpectedAfter(p) == NextSequence(SequenceNumber(p))

PushSingleNal(p) ==
    /\ Reset
    /\ out' = [pieces |-> <<p>>]

PushFuA(p) ==
    CASE ~Starts(p) /\ ~assemblingFuA_ ->
            /\ UNCHANGED depacketizerVars
            /\ out' = Unset
      [] ~Starts(p) /\ assemblingFuA_ /\ ~Continues(p) ->
            /\ Reset
            /\ out' = Unset
      [] (Starts(p) \/ (assemblingFuA_ /\ Continues(p))) /\ ~Ends(p) ->
            /\ assemblingFuA_' = TRUE
            /\ currentTimestamp_' = Timestamp(p)
            /\ expectedSequence_' = ExpectedAfter(p)
            /\ currentNal_' = Pieces(p)
            /\ out' = Unset
      [] OTHER ->
            /\ Reset
            /\ out' = [pieces |-> Pieces(p)]

PushPacket(p) == IF SingleNal(p) THEN PushSingleNal(p) ELSE PushFuA(p)

(***************************************************************************)
(* Client: VideoReceiver::notePacket.                                      *)
(***************************************************************************)
\* How many packets a gap of d stands for.  (The slip: one, however many.)
LostByOne(d) == 1
LostBy(d) == d

\* History, kept while packets stay in order: those missing between the last
\* one taken and this one.
Skipped(p) == IF newest = -1 THEN 0 ELSE Number(p) - newest - 1

NoteHistory(p) ==
    IF mode = "any"
    THEN UNCHANGED <<newest, missed, burst>>
    ELSE /\ newest' = Number(p)
         /\ missed' = missed + Skipped(p)
         /\ burst' = IF Skipped(p) > burst THEN Skipped(p) ELSE burst

NotePacket(p) ==
    LET delta == SequenceDelta(SequenceNumber(p), expectedNumber)
        ahead == hasExpected /\ delta > 0
        behind == hasExpected /\ delta < 0
    IN  /\ hasExpected' = TRUE
        /\ expectedNumber' = IF behind THEN expectedNumber
                             ELSE NextSequence(SequenceNumber(p))
        /\ sequenceGaps' = IF ahead THEN sequenceGaps + 1 ELSE sequenceGaps
        /\ lostPackets' = IF ahead THEN lostPackets + LostBy(delta)
                          ELSE lostPackets
        /\ outOfOrder' = IF behind THEN outOfOrder + 1 ELSE outOfOrder
        /\ NoteHistory(p)

\* receiveNal takes a packet; it returns when one completes a NAL unit.
Deliver(p) ==
    /\ \/ net' = net \ {p} /\ (mode # "any" => Oldest(p))
       \/ net' = net /\ mode = "any" /\ sequenceGaps + outOfOrder < MaxRepeats
    /\ NotePacket(p)
    /\ PushPacket(p)
    /\ UNCHANGED <<encoderVars, senderVars, mode>>

Host == \/ \E picture \in Pictures, header \in BOOLEAN :
              EncodeFrame(picture, header)
        \/ EncodePlaceholder
        \/ \E c \in FragCounts \cup {1, PlaceholderFrags} : PacketizeNal(c)
        \/ SendPacket
        \/ SendFails

Network == \E p \in net : Lose(p) \/ Deliver(p)

Next == Host \/ Network

Spec == Init /\ [][Next]_vars

\* The main loop keeps sending what it has packetized unless the socket fails,
\* and receiveNal keeps reading.
FairSpec == Spec /\ WF_vars(SendPacket \/ SendFails)
                 /\ WF_vars(\E p \in net : Deliver(p))
-----------------------------------------------------------------------------
(***************************************************************************)
(* Properties.                                                             *)
(***************************************************************************)
\* Type invariant of the encoder, the sender, the depacketizer and the receiver.
TypeOK ==
    /\ frame \in Nat /\ mediaFoundation \in BOOLEAN
    /\ parameterSets_ \in BOOLEAN
    /\ nalUnits \in Seq(Kinds) /\ index \in Nat \ {0}
    /\ frags \in Nat /\ frag \in Nat \ {0} /\ allocated \in Nat
    /\ frags # 0 => frag <= frags /\ ~Idle /\ frags <= allocated
    /\ open_ \in BOOLEAN /\ sent \subseteq NalUnits /\ whole \subseteq NalUnits
    /\ net \subseteq Packets /\ mode \in {"clean", "lossy", "any"}
    /\ assemblingFuA_ \in BOOLEAN /\ currentTimestamp_ \in Nat
    /\ expectedSequence_ \in 0..(SeqMod - 1) /\ currentNal_ \in Seq(Packets)
    /\ hasExpected \in BOOLEAN /\ expectedNumber \in 0..(SeqMod - 1)
    /\ sequenceGaps \in Nat /\ lostPackets \in Nat /\ outOfOrder \in Nat
    /\ newest \in Nat \cup {-1} /\ missed \in Nat /\ burst \in Nat
    /\ out # Unset => out = [pieces |-> out.pieces]
                      /\ out.pieces \in Seq(Packets)

\* The NAL unit a sequence of pieces is: all its pieces, once each, in order.
IsWhole(s) == /\ s # << >>
              /\ Len(s) = s[1].nal.frags
              /\ \A k \in DOMAIN s : s[k] = [nal |-> s[1].nal, piece |-> k]

Reassembled == IF out = Unset THEN Unset
               ELSE IF IsWhole(out.pieces) THEN out.pieces[1].nal ELSE out

Channel == INSTANCE FrameChannel WITH
               Frames <- NalUnits,
               NoFrame <- Unset,
               submitted <- sent,
               handed <- Reassembled

\* Whatever the network does, and although sequence numbers wrap, the transport
\* is a channel that loses, repeats and reorders NAL units but alters none: what
\* receiveNal returns is one NAL unit as it was encoded.
ImplementsChannel == Channel!ChannelSpec

\* A decoder that joins at an IDR picture can start: its parameter sets travel in
\* front of it in the same frame, although encode guesses key frames from frame
\* ids and the transform decides by itself.
IdrDecodable ==
    \A u \in sent : u.kind = "idr" =>
        \E v \in sent : /\ v.kind = "params" /\ v.frame = u.frame
                        /\ v.first < u.first

\* On a network that only loses packets, and never half the sequence space in a
\* row, the receiver's statistics are exact across the wrap of the sequence
\* numbers: every packet missing behind the first one is counted, and none is
\* taken for an overtaken one.
LossIsCounted ==
    mode # "any" /\ 2 * (burst + 1) <= SeqMod
        => lostPackets = missed /\ outOfOrder = 0

Is(u, f, i) == u.frame = f /\ u.index = i

\* On a network that neither loses nor reorders, every NAL unit whose packets were
\* all given to the socket is handed to the decoder.
SentNalsArrive ==
    mode = "clean" =>
        \A f \in 1..MaxFrames, i \in 1..MaxUnits :
            <>(\E u \in whole : Is(u, f, i)) =>
            <>(Reassembled # Unset /\ Is(Reassembled, f, i))
=============================================================================
