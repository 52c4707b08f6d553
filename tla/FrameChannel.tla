---------------------------- MODULE FrameChannel ----------------------------
(***************************************************************************)
(* What a video transport promises to the Linux client, without a word     *)
(* about datagrams: the receive loop is handed pictures (of the MJPEG      *)
(* stream) or NAL units (of the H.264 stream), each one exactly as it was  *)
(* submitted.  They may be lost, repeated or overtaken (both transports    *)
(* are UDP and ask for nothing again), but never altered.                  *)
(***************************************************************************)
CONSTANTS Frames,    \* every picture the host could submit
          NoFrame    \* "nothing was handed over by the last step": no picture

VARIABLES submitted, \* the pictures the host has started to send
          handed     \* the picture the last step handed over, or NoFrame

channelVars == <<submitted, handed>>

ChannelInit ==
    /\ submitted = {}
    /\ handed = NoFrame

Submit ==
    /\ submitted \subseteq submitted'
    /\ submitted' \subseteq Frames
    /\ handed' = NoFrame

HandOver ==
    /\ handed' \in submitted
    /\ UNCHANGED submitted

ChannelNext == Submit \/ HandOver

ChannelSpec == ChannelInit /\ [][ChannelNext]_channelVars
=============================================================================
