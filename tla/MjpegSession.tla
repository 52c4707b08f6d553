---------------------------- MODULE MjpegSession ----------------------------
(***************************************************************************)
(* One MJPEG session between the Windows host (host_app.cpp,               *)
(* runServeMjpegCaptureMode) and the Linux client (client_app.cpp,         *)
(* runReceiveMjpegStreamMode): the handshake over TCP, frames and their    *)
(* acknowledgements over UDP, the client's decode thread, and how each     *)
(* side finds out that the other one is gone.                              *)
(*                                                                         *)
(* A frame is a whole rectangle (MjpegStream shows that the transport      *)
(* loses them but alters none), numbered within its tick.  Its id grows    *)
(* with every capture; what the host's tracker needs of it is how many ids *)
(* the newest one is ahead (behind).  That a restarted capture begins with *)
(* the ids anew is left to MjpegStream.                                    *)
(*                                                                         *)
(* A tick is ten seconds or so.  While it serves, the host sends a key     *)
(* frame in every tick (an idle desktop is sent every eight seconds), and  *)
(* it looks at the connection and the acknowledgements before each frame.  *)
(* A frame arrives or is lost before the tick ends, an acknowledgement, of *)
(* a client that is slow, before the next one ends.                        *)
(***************************************************************************)
EXTENDS Naturals, Sequences, FiniteSets

CONSTANTS
    MaxBurst,    \* bound: frames in a tick
    QueueLimit,  \* kMaxQueuedMjpegFrames (32)
    AckTimeout,  \* clientLivenessTimeout, in ticks
    StartupIdle, \* client: ticks until it gives up waiting for the first frame
    ActiveIdle,  \* client: ticks until it gives up waiting for another frame
    KeptIds,     \* how far back noteFrameSent keeps every id (240)
    MaxFaults    \* bound: losses, failures, crashes

ASSUME SessionAssumption ==
    /\ MaxBurst \in Nat \ {0} /\ QueueLimit \in Nat \ {0}
    /\ AckTimeout \in Nat \ {0} /\ StartupIdle \in Nat \ {0}
    /\ ActiveIdle \in Nat \ {0} /\ MaxFaults \in Nat /\ KeptIds \in Nat

VARIABLES
    host,    \* at: where the host is; why: the reason it ended; stop: the stop
             \* event; turn: frames it has sent in this tick; silent: ticks
             \* since the last frame; force: the next one is a key frame
    acked,   \* receiveStats.acks or renderStats.acks is not 0
    age,     \* ticks since the later one of lastReceiveAck and lastRenderAck
    sent,    \* sentFrames: how far behind its ids are, as far as KeptIds reaches
    late,    \* history: since the last acknowledgement that counted, one of a
             \* received frame has come too late to count
    quiet,   \* history: the longest the host has sent nothing since then
    client,  \* at, why; frames: it has received a frame; idle: idleTimeouts;
             \* due: receiveFrom has timed out; got: a frame came in this tick
    decoder, \* the decode thread: "running", or "dead" after an error
    keyed,   \* receivedKeyFrame
    queue,   \* latestFrames
    newest,  \* history: what has become of the frame received last: "queued",
             \* "shown", "skipped" or "dropped"
    toHost, toClient,
             \* the lines under way on the control connection
    net,     \* frames under way
    acks,    \* acknowledgements under way; old: since the tick before
    faults,  \* losses, failures and crashes so far
    lost     \* history: a datagram has been lost or a machine has vanished

trackerVars == <<acked, age, sent, late, quiet>>
clientVars == <<client, decoder, keyed, queue, newest>>
wires == <<toHost, toClient, net, acks>>
vars == <<host, trackerVars, clientVars, wires, faults, lost>>

HostOver == host.at \in {"ended", "vanished"}
ClientOver == client.at \in {"ended", "vanished"}
Connected == client.at # "starting"

Init ==
    /\ host = [at |-> "accepting", why |-> "none", stop |-> FALSE,
               turn |-> 0, silent |-> 0, force |-> TRUE]
    /\ acked = FALSE /\ age = 0 /\ sent = {} /\ late = FALSE /\ quiet = 0
    /\ client = [at |-> "starting", why |-> "none", frames |-> FALSE, idle |-> 0,
                 due |-> FALSE, got |-> FALSE]
    /\ decoder = "running" /\ keyed = FALSE /\ queue = <<>>
    /\ newest = "none"
    /\ toHost = <<>> /\ toClient = <<>> /\ net = {} /\ acks = {}
    /\ faults = 0 /\ lost = FALSE

Fault == faults < MaxFaults /\ faults' = faults + 1

(***************************************************************************)
(* The handshake.                                                          *)
(***************************************************************************)
\* connectAndReceiveOffer: connect and CLIENT_HELLO.
ClientConnects ==
    /\ client.at = "starting" /\ host.at = "accepting"
    /\ client' = [client EXCEPT !.at = "awaiting"]
    /\ toHost' = <<"hello">>
    /\ UNCHANGED <<host, trackerVars, decoder, keyed, queue, newest,
                   toClient, net, acks, faults, lost>>

HostEndsWith(why) ==
    /\ host' = [host EXCEPT !.at = "ended", !.why = why, !.turn = 0]
    /\ UNCHANGED <<trackerVars, clientVars, wires, lost>>

\* Nobody has connected for ten seconds.
AcceptTimesOut ==
    /\ host.at = "accepting" /\ ~Connected
    /\ HostEndsWith("handshake") /\ UNCHANGED faults

HostAccepts ==
    /\ host.at = "accepting" /\ Connected
    /\ host' = [host EXCEPT !.at = "readingHello"]
    /\ UNCHANGED <<trackerVars, clientVars, wires, faults, lost>>

\* readLine, which waits without a time limit, and what follows it.
HostReads(line, next) ==
    /\ toHost # <<>> /\ Head(toHost) = line
    /\ toHost' = Tail(toHost)
    /\ host' = [host EXCEPT !.at = next]
    /\ UNCHANGED <<trackerVars, clientVars, net, acks, faults, lost>>

HostReadsHello ==
    /\ host.at = "readingHello" /\ HostReads("hello", "readingReady")
    /\ toClient' = <<"offer">>

HostReadsReady ==
    /\ host.at = "readingReady" /\ HostReads("ready", "serving")
    /\ UNCHANGED toClient

\* readLine finds the connection closed; or the capture, a socket or a thread
\* cannot be started when READY has come.
HandshakeFails ==
    /\ host.at \in {"readingHello", "readingReady"}
    /\ \/ toHost = <<>> /\ client.at = "ended" /\ UNCHANGED faults
       \/ host.at = "readingReady" /\ toHost # <<>> /\ Fault
    /\ HostEndsWith("handshake")

ClientEndsWith(why) ==
    /\ client' = [client EXCEPT !.at = "leaving", !.why = why, !.due = FALSE,
                                !.got = FALSE]
    /\ UNCHANGED <<host, trackerVars, decoder, keyed, queue, newest, wires,
                   lost>>

\* SESSION_OFFER: the client binds its video port, answers CLIENT_READY, opens
\* its window and waits for frames.
ClientReadsOffer ==
    /\ client.at = "awaiting" /\ toClient # <<>>
    /\ toClient' = <<>>
    /\ toHost' = Append(toHost, "ready")
    /\ client' = [client EXCEPT !.at = "receiving"]
    /\ UNCHANGED <<host, trackerVars, decoder, keyed, queue, newest, net,
                   acks, faults, lost>>

\* connect or readLine fails; the port or the window cannot be opened.
ClientFails ==
    /\ \/ client.at = "starting" /\ host.at # "accepting" /\ UNCHANGED faults
       \/ client.at = "awaiting" /\ toClient = <<>> /\ host.at = "ended"
          /\ UNCHANGED faults
       \/ client.at = "awaiting" /\ toClient # <<>> /\ Fault
    /\ ClientEndsWith("handshake")

(***************************************************************************)
(* The host's loop, its tracker and its ack listener.                      *)
(***************************************************************************)
\* frameAckTimedOut.  (The slip: a client that has stopped is not noticed.)
AckTimedOutNever == FALSE
AckTimedOut == acked /\ age > AckTimeout

\* Why the loop ends, in the order in which it looks.  (The slip: it looks at
\* the connection only.)
ReasonWithoutStop == IF client.at = "ended" THEN "closed"
                     ELSE IF AckTimedOut THEN "acks" ELSE "none"
Reason == CASE host.stop -> "stop"
            [] ~host.stop /\ client.at = "ended" -> "closed"
            [] ~host.stop /\ client.at # "ended" /\ AckTimedOut -> "acks"
            [] OTHER -> "none"

Serves == host.at = "serving" /\ Reason = "none"

HostLeaves ==
    /\ host.at = "serving" /\ Reason # "none"
    /\ HostEndsWith(Reason) /\ UNCHANGED faults

\* The worker could not encode or packetize.
WorkerFails ==
    /\ Serves /\ Fault
    /\ HostEndsWith("worker")

\* An id after step more of them: what is further behind than KeptIds is the same.
Older(behind, step) ==
    IF behind + step <= KeptIds THEN behind + step ELSE KeptIds + 1
Aged(frame, step) == [frame EXCEPT !.behind = Older(@, step)]

\* noteFrameSent: the ids the map certainly holds.  It may hold older ones too,
\* since it is looked through only when it has grown.  (The slip: every id below
\* the new one is taken off.)
NoteFrameSentOnly(step) == sent' = {0}
NoteFrameSent(step) ==
    sent' = {b \in 0..KeptIds : b = 0 \/ \E s \in sent : b = s + step}

\* A frame is captured, encoded, noted and sent; step is how far its id is ahead
\* of the one before.  A failed sendTo loses it and asks for a key frame.
HostSends(fails, step) ==
    /\ Serves /\ host.turn < MaxBurst
    /\ host' = [host EXCEPT !.turn = @ + 1, !.silent = 0, !.force = fails]
    /\ NoteFrameSent(step)
    /\ LET before == {Aged(f, step) : f \in net}
           new == [number |-> host.turn + 1, key |-> host.force \/ host.turn = 0,
                   behind |-> 0]
       IN  IF fails THEN Fault /\ lost' = TRUE /\ net' = before
           ELSE net' = before \cup {new} /\ UNCHANGED <<faults, lost>>
    /\ acks' = {Aged(a, step) : a \in acks}
    /\ queue' = [i \in 1..Len(queue) |-> Aged(queue[i], step)]
    /\ UNCHANGED <<acked, age, late, quiet, client, decoder, keyed, newest, toHost,
                   toClient>>

CaptureFails ==
    /\ Serves /\ Fault
    /\ host' = [host EXCEPT !.at = "recovering"]
    /\ UNCHANGED <<trackerVars, clientVars, wires, lost>>

\* recoverCapture: between two attempts it looks at the stop event, and at
\* nothing else.
HostRecovers ==
    /\ host.at = "recovering"
    /\ host' = [host EXCEPT !.at = "serving", !.force = TRUE]
    /\ UNCHANGED <<trackerVars, clientVars, wires, faults, lost>>

RecoveryFails ==
    /\ host.at = "recovering"
    /\ IF host.stop THEN UNCHANGED faults ELSE Fault
    /\ HostEndsWith("capture")

\* noteFrameAck: whether the map holds the id; it may have forgotten one that is
\* further behind than KeptIds.
Finds(a) == IF a.behind > KeptIds THEN BOOLEAN ELSE {a.behind \in sent}

\* How long a silence of the host matters.
Silence(ticks) == IF ticks < AckTimeout THEN ticks ELSE AckTimeout

\* An ack of either kind shows that the client is alive, if its id is found.  A
\* frame that has been rendered is taken off the map.
HostTakesAck(a, found) ==
    /\ a \in acks /\ found \in Finds(a)
    /\ acks' = acks \ {a}
    /\ IF host.at \notin {"serving", "recovering"} THEN UNCHANGED trackerVars
       ELSE IF found
       THEN /\ acked' = TRUE /\ age' = 0 /\ late' = FALSE
            /\ quiet' = Silence(host.silent)
            /\ sent' = IF a.stage = "render" THEN sent \ {a.behind} ELSE sent
       ELSE /\ late' = (late \/ (a.stage = "receive" /\ a.behind > KeptIds))
            /\ UNCHANGED <<acked, age, sent, quiet>>
    /\ UNCHANGED <<host, clientVars, toHost, toClient, net, faults, lost>>

\* The tray sets the stop event; only the capture loop and the recovery look.
TrayStops ==
    /\ ~host.stop /\ ~HostOver
    /\ host' = [host EXCEPT !.stop = TRUE]
    /\ UNCHANGED <<trackerVars, clientVars, wires, faults, lost>>

\* The process crashes (its connection is closed) or its machine vanishes.
HostCrashes ==
    /\ ~HostOver /\ Fault
    /\ HostEndsWith("crash")

HostVanishes ==
    /\ ~HostOver /\ Fault
    /\ host' = [host EXCEPT !.at = "vanished", !.turn = 0]
    /\ lost' = TRUE
    /\ UNCHANGED <<trackerVars, clientVars, wires>>

(***************************************************************************)
(* The client's receive loop and its decode thread.                        *)
(***************************************************************************)
\* A full queue loses its oldest frame.  (The slips: there is no limit; the new
\* one is not taken.)
Queued(f) == [key |-> f.key, behind |-> f.behind]
PushWithoutLimit(f) == newest' = "queued" /\ queue' = Append(queue, Queued(f))
PushUnlessFull(f) ==
    IF Len(queue) >= QueueLimit
    THEN newest' = "dropped" /\ UNCHANGED queue
    ELSE newest' = "queued" /\ queue' = Append(queue, Queued(f))
Push(f) ==
    /\ newest' = "queued"
    /\ queue' = Append(IF Len(queue) >= QueueLimit THEN Tail(queue) ELSE queue,
                       Queued(f))

Ack(stage, f) == [stage |-> stage, behind |-> f.behind, old |-> FALSE]

ClientReceives(f) ==
    /\ client.at = "receiving" /\ f \in net
    /\ net' = net \ {f}
    /\ acks' = acks \cup {Ack("receive", f)}
    /\ client' = [client EXCEPT !.frames = TRUE, !.idle = 0, !.due = FALSE,
                                !.got = TRUE]
    /\ Push(f)
    /\ UNCHANGED <<host, trackerVars, decoder, keyed, toHost, toClient, faults,
                   lost>>

\* The idle timeouts after which the client gives up.
IdleLimit == IF client.frames THEN ActiveIdle ELSE StartupIdle

\* receiveFrom times out.  A client that has had a frame looks whether the host
\* has closed the connection.  (The slip: an idle time-out is not counted.)
IdleAfterTimeoutKept == client.idle
IdleAfterTimeout == client.idle + 1

ClientTimesOut ==
    /\ client.at = "receiving" /\ client.due /\ net = {}
    /\ UNCHANGED faults
    /\ IF client.frames /\ host.at = "ended" THEN ClientEndsWith("closed")
       ELSE IF IdleAfterTimeout >= IdleLimit THEN ClientEndsWith("idle")
       ELSE /\ client' = [client EXCEPT !.idle = IdleAfterTimeout, !.due = FALSE]
            /\ UNCHANGED <<host, trackerVars, decoder, keyed, queue, newest,
                           wires, lost>>

\* The decode thread takes a frame: one that is no key frame is skipped until
\* a key frame has been shown.
DecodeTurn == /\ decoder = "running" /\ queue # <<>>
              /\ client.at \in {"receiving", "leaving"}
              /\ queue' = Tail(queue)

\* What becomes of the newest frame when the front of the queue is taken.
NewestAfter(fate) == IF newest = "queued" /\ Len(queue) = 1 THEN fate ELSE newest

DecoderSkips ==
    /\ DecodeTurn /\ ~Head(queue).key /\ ~keyed
    /\ newest' = NewestAfter("skipped")
    /\ UNCHANGED <<host, trackerVars, client, decoder, keyed, wires, faults, lost>>

DecoderShows ==
    /\ DecodeTurn /\ (Head(queue).key \/ keyed)
    /\ keyed' = TRUE /\ newest' = NewestAfter("shown")
    /\ acks' = acks \cup {Ack("render", Head(queue))}
    /\ UNCHANGED <<host, trackerVars, client, decoder, toHost, toClient, net,
                   faults, lost>>

\* The JPEG or its size is wrong, or the window fails: the thread ends, and the
\* receive loop does not look.
DecoderFails ==
    /\ DecodeTurn /\ (Head(queue).key \/ keyed) /\ Fault
    /\ decoder' = "dead" /\ newest' = NewestAfter("skipped")
    /\ UNCHANGED <<host, trackerVars, client, keyed, wires, lost>>

\* The decode thread is told to stop, empties the queue and is joined; the end
\* of the process closes the connection.
ClientEnds ==
    /\ client.at = "leaving" /\ (queue = <<>> \/ decoder = "dead")
    /\ client' = [client EXCEPT !.at = "ended"]
    /\ UNCHANGED <<host, trackerVars, decoder, keyed, queue, newest, wires,
                   faults, lost>>

\* The client's tray ends the process, or its machine vanishes.
ClientKilled ==
    /\ ~ClientOver /\ Connected
    /\ client' = [client EXCEPT !.at = "ended", !.why = "killed", !.due = FALSE]
    /\ UNCHANGED <<host, trackerVars, decoder, keyed, queue, newest, wires,
                   faults, lost>>

ClientVanishes ==
    /\ ~ClientOver /\ Connected /\ Fault
    /\ client' = [client EXCEPT !.at = "vanished", !.due = FALSE]
    /\ lost' = TRUE
    /\ UNCHANGED <<host, trackerVars, decoder, keyed, queue, newest, wires>>

(***************************************************************************)
(* The network and time.                                                   *)
(***************************************************************************)
\* A frame nobody waits for.
FrameIgnored(f) ==
    /\ f \in net /\ client.at # "receiving"
    /\ net' = net \ {f}
    /\ UNCHANGED <<host, trackerVars, clientVars, toHost, toClient, acks, faults,
                   lost>>

FrameLost(f) ==
    /\ f \in net /\ Fault /\ lost' = TRUE
    /\ net' = net \ {f}
    /\ UNCHANGED <<host, trackerVars, clientVars, toHost, toClient, acks>>

AckLost(a) ==
    /\ a \in acks /\ Fault /\ lost' = TRUE
    /\ acks' = acks \ {a}
    /\ UNCHANGED <<host, trackerVars, clientVars, toHost, toClient, net>>

Capped(n, top) == IF n < top THEN n + 1 ELSE top

\* A silence nobody puts up with: longer ones are not told apart.
Longer(m, n) == IF m > n THEN m ELSE n
MaxSilence == Longer(AckTimeout, Longer(StartupIdle, ActiveIdle))

\* What has to happen before the tick ends.
Waiting == \/ net # {} \/ (\E a \in acks : a.old) \/ client.due
           \/ host.at = "serving" /\ host.turn = 0
           \/ host.at = "accepting" /\ Connected
           \/ host.at \in {"readingHello", "readingReady"} /\ toHost # <<>>
           \/ client.at = "awaiting" /\ toClient # <<>>

Tick ==
    /\ ~Waiting
    /\ host' = [host EXCEPT !.turn = 0,
                            !.silent = Capped(@, MaxSilence)]
    /\ age' = IF acked THEN Capped(age, AckTimeout + 1) ELSE 0
    /\ quiet' = IF acked /\ quiet < Silence(host.silent + 1)
                THEN Silence(host.silent + 1) ELSE quiet
    /\ acks' = {[a EXCEPT !.old = TRUE] : a \in acks}
    /\ client' = [client EXCEPT !.got = FALSE,
                     !.due = client.at = "receiving" /\ ~client.got]
    /\ UNCHANGED <<acked, sent, late, decoder, keyed, queue, newest, toHost,
                   toClient, net, faults, lost>>

Handshake == \/ ClientConnects \/ AcceptTimesOut \/ HostAccepts \/ HostReadsHello
             \/ HostReadsReady \/ HandshakeFails \/ ClientReadsOffer \/ ClientFails

HostLoop == \/ HostLeaves
            \/ \E fails \in BOOLEAN, step \in 1..(KeptIds + 1) :
                  HostSends(fails, step)

Recovery == HostRecovers \/ RecoveryFails

Receive == \/ \E f \in net : ClientReceives(f) \/ FrameIgnored(f)
           \/ ClientTimesOut \/ ClientEnds

Decode == DecoderSkips \/ DecoderShows \/ DecoderFails

Acks == \E a \in acks, found \in BOOLEAN : HostTakesAck(a, found)

Losses == \/ \E f \in net : FrameLost(f)
          \/ \E a \in acks : AckLost(a)

Next == \/ Handshake \/ HostLoop \/ WorkerFails \/ CaptureFails \/ Recovery
        \/ TrayStops \/ HostCrashes \/ HostVanishes
        \/ Receive \/ Decode \/ ClientKilled \/ ClientVanishes
        \/ Acks \/ Losses \/ Tick

Spec == Init /\ [][Next]_vars

\* Threads run, messages arrive or are lost, time passes, and a recovery ends
\* (after 180 attempts in the code).
FairSpec ==
    /\ Spec
    /\ WF_vars(Handshake) /\ WF_vars(HostLoop) /\ WF_vars(Recovery)
    /\ WF_vars(Receive) /\ WF_vars(Decode) /\ WF_vars(Acks) /\ WF_vars(Tick)
-----------------------------------------------------------------------------
(***************************************************************************)
(* Properties.                                                             *)
(***************************************************************************)
\* Type invariant of the two programs and the network.
TypeOK ==
    /\ host \in [at : {"accepting", "readingHello", "readingReady", "serving",
                       "recovering", "ended", "vanished"},
                 why : {"none", "handshake", "stop", "closed", "acks", "worker",
                        "capture", "crash"},
                 stop : BOOLEAN, turn : 0..MaxBurst,
                 silent : 0..MaxSilence, force : BOOLEAN]
    /\ acked \in BOOLEAN /\ age \in 0..(AckTimeout + 1)
    /\ sent \subseteq 0..KeptIds /\ late \in BOOLEAN /\ quiet \in 0..AckTimeout
    /\ client \in [at : {"starting", "awaiting", "receiving", "leaving", "ended",
                         "vanished"},
                   why : {"none", "handshake", "closed", "idle", "killed"},
                   frames : BOOLEAN, idle : Nat, due : BOOLEAN, got : BOOLEAN]
    /\ client.idle < IdleLimit
    /\ decoder \in {"running", "dead"} /\ keyed \in BOOLEAN
    /\ queue \in Seq([key : BOOLEAN, behind : 0..(KeptIds + 1)])
    /\ Len(queue) <= QueueLimit
    /\ newest \in {"none", "queued", "shown", "skipped", "dropped"}
    /\ toHost \in Seq({"hello", "ready"}) /\ toClient \in Seq({"offer"})
    /\ net \subseteq [number : 1..MaxBurst, key : BOOLEAN, behind : 0..(KeptIds + 1)]
    /\ acks \subseteq [stage : {"receive", "render"}, behind : 0..(KeptIds + 1),
                       old : BOOLEAN]
    /\ faults \in 0..MaxFaults /\ lost \in BOOLEAN

\* Neither side gives the other one up by mistake.  The host ends a session for
\* missing acknowledgements only after a loss, when the client no longer
\* receives, when the host itself has been silent for as long (a capture was
\* being recovered), or when an acknowledgement has come after more than KeptIds
\* newer ids and none has counted since: the code does give up a client that is
\* slow all the time.  The client ends it for missing frames only after a loss,
\* or when the host has been silent for as long or has ended.
NoFalseAlarm ==
    [][/\ host'.why = "acks" =>
              lost \/ late \/ quiet = AckTimeout \/ client.at # "receiving"
       /\ client.why # "idle" /\ client'.why = "idle" =>
              lost \/ HostOver \/ host.silent >= IdleLimit]_vars

\* The picture follows the stream, across two threads and a queue that drops
\* frames: when the decode thread has nothing to do, the frame it showed last
\* is the one received last.
LastFrameShown ==
    keyed /\ decoder = "running" /\ queue = <<>> => newest = "shown"

\* A client that has ended makes the host end its session, and so does one that
\* has vanished, once the host has had an acknowledgement from it.
HostNoticesClient ==
    client.at = "ended" \/ (client.at = "vanished" /\ acked) ~> HostOver

\* "The Linux client does not stay on an old picture for long when the stream
\* breaks off": when the host has ended or vanished, the client leaves, before
\* and after its first frame.
ClientNoticesHost ==
    HostOver /\ client.at = "receiving" ~> ClientOver

\* The stop event ends a host that is in a session, and one that waits for a
\* client; only a client that vanishes within the handshake can hold it.
StopEndsHost ==
    host.stop /\ (host.at \in {"serving", "recovering"} \/ client.at # "vanished")
        ~> HostOver \/ (client.at = "vanished" /\ ~acked)
=============================================================================
