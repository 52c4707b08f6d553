------------------------- MODULE MjpegSessionProofs -------------------------
(***************************************************************************)
(* Proofs about an MJPEG session, for any queue, any time limits and any   *)
(* number of frames, losses and failures, and about the window that shows  *)
(* its frames, for any tiles and any number of frames.                     *)
(*                                                                         *)
(* The argument for the session: as long as nothing is lost or late, two   *)
(* clocks run together.  The host's acknowledgements are no older than its *)
(* last frame (AcksFollow), so that their age stays within its longest     *)
(* silence (QuietFollows), and the client has waited no longer than the    *)
(* host has been silent (SilenceFollows), except while the frame or the    *)
(* acknowledgement that sets the clock right is under way.  An             *)
(* acknowledgement on which this rests counts when it arrives: the host    *)
(* still has its id, or has had the frame's other one meanwhile.           *)
(***************************************************************************)
EXTENDS MjpegSession, Renderer, TLAPS

(***************************************************************************)
(* The invariant.                                                          *)
(***************************************************************************)
Hosts == [at : {"accepting", "readingHello", "readingReady", "serving", "recovering",
                "ended", "vanished"},
          why : {"none", "handshake", "stop", "closed", "acks", "worker", "capture",
                 "crash"},
          stop : BOOLEAN, turn : 0..MaxBurst, silent : 0..MaxSilence, force : BOOLEAN]

Clients == [at : {"starting", "awaiting", "receiving", "leaving", "ended", "vanished"},
            why : {"none", "handshake", "closed", "idle", "killed"},
            frames : BOOLEAN, idle : Nat, due : BOOLEAN, got : BOOLEAN]

HostTypes ==
    /\ host \in Hosts /\ acked \in BOOLEAN /\ age \in 0..(AckTimeout + 1)
    /\ sent \subseteq 0..KeptIds /\ late \in BOOLEAN /\ quiet \in 0..AckTimeout

Behind == 0..(KeptIds + 1)
Frames == [number : 1..MaxBurst, key : BOOLEAN, behind : Behind]
QueuedFrames == [key : BOOLEAN, behind : Behind]
AckRecords == [stage : {"receive", "render"}, behind : Behind, old : BOOLEAN]

ClientTypes == client \in Clients /\ client.idle < IdleLimit

DecoderTypes ==
    /\ decoder \in {"running", "dead"} /\ keyed \in BOOLEAN
    /\ queue \in Seq(QueuedFrames) /\ Len(queue) <= QueueLimit
    /\ newest \in {"none", "queued", "shown", "skipped", "dropped"}

LineTypes == toHost \in Seq({"hello", "ready"}) /\ toClient \in Seq({"offer"})

WireTypes ==
    /\ net \subseteq Frames /\ acks \subseteq AckRecords
    /\ faults \in 0..MaxFaults /\ lost \in BOOLEAN

Types == HostTypes /\ ClientTypes /\ DecoderTypes /\ LineTypes /\ WireTypes

\* What the decode thread has left to do: the newest frame is in the queue as long as
\* anything is, and once a key frame has been shown none is skipped.
NewestFollowed ==
    decoder = "running" =>
        /\ queue # <<>> <=> newest = "queued"
        /\ keyed => newest \in {"queued", "shown"}

\* Nothing is received or acknowledged before both sides have shaken hands.
HandshakeFirst ==
    /\ client.at \in {"starting", "awaiting"} =>
          acked = FALSE /\ acks = {} /\ client.idle = 0
    /\ host.at \in {"accepting", "readingHello", "readingReady"} => acked = FALSE
    /\ client.due = TRUE => client.at = "receiving"

\* A host in a session with a client that receives, nothing lost, late or silent.
Hearing ==
    /\ lost = FALSE /\ late = FALSE /\ acked = TRUE /\ quiet # AckTimeout
    /\ client.at = "receiving" /\ host.at \in {"serving", "recovering"}

\* An acknowledgement under way that will count, or be found late.
Counts(a) == a.stage = "receive" /\ (a.behind > KeptIds \/ a.behind \in sent)

\* The last acknowledgement is older than the last frame only while that frame or the
\* acknowledgement of it is under way.
AcksFollow ==
    Hearing => \/ age <= host.silent
               \/ net # {} \/ \E a \in acks : Counts(a)

\* It is no older than the longest silence, but for one that is on its way since the
\* tick before.
QuietFollows ==
    Hearing => \/ age <= quiet
               \/ age <= quiet + 1 /\ \E a \in acks : Counts(a) /\ a.old = TRUE

\* The host has the id of a frame under way on its map, or has just had an
\* acknowledgement.
FramesNoted ==
    \A f \in net : f.behind > KeptIds \/ f.behind \in sent \/ age = 0

AckInv == AcksFollow /\ QuietFollows /\ FramesNoted

\* The client waits no longer than the host has been silent, unless a frame is under way.
SilenceFollows ==
    lost = FALSE /\ ~HostOver /\ client.at = "receiving" =>
        \/ net # {}
        \/ client.due = FALSE /\ client.idle <= host.silent
        \/ client.idle + 1 <= host.silent

\* What was true when the host gave the client up stays true.
AlarmJustified ==
    host.why = "acks" =>
        /\ acked = TRUE /\ host.at = "ended"
        /\ lost = TRUE \/ late = TRUE \/ quiet = AckTimeout \/ client.at # "receiving"

Inv == /\ Types /\ NewestFollowed /\ HandshakeFirst /\ AckInv /\ SilenceFollows
       /\ AlarmJustified

\* What NoFalseAlarm says of a step.
Justified ==
    /\ host'.why = "acks" =>
          lost \/ late \/ quiet = AckTimeout \/ client.at # "receiving"
    /\ client.why # "idle" /\ client'.why = "idle" =>
          lost \/ HostOver \/ host.silent >= IdleLimit

LEMMA Lengths ==
    /\ MaxSilence \in Nat /\ AckTimeout <= MaxSilence
    /\ StartupIdle <= MaxSilence /\ ActiveIdle <= MaxSilence
    /\ 0 \in 0..MaxBurst /\ 0 \in 0..MaxSilence /\ 0 \in 0..MaxFaults
BY SessionAssumption DEF MaxSilence, Longer

LEMMA InitInv == Init => Inv
<1> SUFFICES ASSUME Init PROVE Inv
  OBVIOUS
<1>1. HostTypes
  <2>1. host \in Hosts
    BY Lengths DEF Init, Hosts
  <2>2. acked = FALSE /\ age = 0 /\ sent = {} /\ late = FALSE /\ quiet = 0
    BY DEF Init
  <2>3. 0 \in 0..(AckTimeout + 1) /\ 0 \in 0..AckTimeout
    BY SessionAssumption
  <2> QED BY <2>1, <2>2, <2>3 DEF HostTypes
<1>2. ClientTypes
  BY SessionAssumption DEF Init, Clients, ClientTypes, IdleLimit
<1>3. DecoderTypes
  <2>1. <<>> \in Seq(QueuedFrames) /\ Len(<<>>) <= QueueLimit
    BY SessionAssumption
  <2> QED BY <2>1 DEF Init, DecoderTypes
<1>4. LineTypes
  BY DEF Init, LineTypes
<1>5. WireTypes
  <2>1. net = {} /\ acks = {} /\ faults \in 0..MaxFaults /\ lost = FALSE
    BY Lengths DEF Init
  <2> QED BY <2>1 DEF WireTypes
<1>6. NewestFollowed /\ HandshakeFirst /\ AckInv /\ SilenceFollows /\ AlarmJustified
  BY DEF Init, NewestFollowed, HandshakeFirst, AckInv, AcksFollow, QuietFollows,
         FramesNoted, Hearing, SilenceFollows, AlarmJustified
<1> QED BY <1>1, <1>2, <1>3, <1>4, <1>5, <1>6 DEF Inv, Types

(***************************************************************************)
(* Steps of one side that leave the frames and acknowledgements alone.     *)
(***************************************************************************)
\* A failure is counted.
LEMMA Faulty ==
    ASSUME Inv, Fault \/ UNCHANGED faults
    PROVE  faults' \in 0..MaxFaults
<1>1. faults \in 0..MaxFaults
  BY DEF Inv, Types, WireTypes
<1>2. CASE Fault
  BY <1>1, <1>2, SessionAssumption DEF Fault
<1> QED BY <1>1, <1>2

\* A step that leaves the frames, the acknowledgements and the tracker alone, and after
\* which the host hears the client only if it did before.
LEMMA AckKept ==
    ASSUME Inv, UNCHANGED <<trackerVars, net, acks>>, Hearing' => Hearing,
           host'.silent = host.silent
    PROVE  AckInv'
<1>1. UNCHANGED <<acked, age, sent, late, quiet>>
  BY DEF trackerVars
<1>2. AckInv
  BY DEF Inv
<1>3. FramesNoted'
  BY <1>1, <1>2 DEF AckInv, FramesNoted
<1>4. \A a \in acks : Counts(a)' <=> Counts(a)
  BY <1>1 DEF Counts
<1>5. AcksFollow'
  BY <1>1, <1>2, <1>4 DEF AckInv, AcksFollow
<1>6. QuietFollows'
  BY <1>1, <1>2, <1>4 DEF AckInv, QuietFollows
<1> QED BY <1>3, <1>5, <1>6 DEF AckInv

\* The host ends or vanishes; for missing acknowledgements only if none has come.
LEMMA HostIsOver ==
    ASSUME Inv, NEW h \in Hosts, host' = h, h.at \in {"ended", "vanished"},
           h.silent = host.silent,
           h.why = "acks" => /\ host.at = "serving" /\ h.at = "ended"
                             /\ acked = TRUE /\ age > AckTimeout,
           UNCHANGED <<trackerVars, clientVars, wires>>,
           faults' \in 0..MaxFaults, lost' \in BOOLEAN, lost = TRUE => lost' = TRUE
    PROVE  Inv' /\ Justified
<1>1. UNCHANGED <<acked, age, sent, late, quiet, client, decoder, keyed, queue, newest,
                  toHost, toClient, net, acks>>
  BY DEF trackerVars, clientVars, wires
<1>2. Types'
  BY <1>1 DEF Inv, Types, HostTypes, ClientTypes, IdleLimit, DecoderTypes, LineTypes,
              WireTypes
<1>3. h.why = "acks" =>
          lost = TRUE \/ late = TRUE \/ quiet = AckTimeout \/ client.at # "receiving"
  <2>1. quiet \in 0..AckTimeout /\ late \in BOOLEAN /\ lost \in BOOLEAN /\ age \in Nat
    BY SessionAssumption DEF Inv, Types, HostTypes, WireTypes
  <2>2. Hearing => age <= quiet + 1
    BY <2>1 DEF Inv, AckInv, QuietFollows
  <2> QED BY <2>1, <2>2, SessionAssumption DEF Hearing
<1>4. NewestFollowed' /\ HandshakeFirst'
  BY <1>1 DEF Inv, NewestFollowed, HandshakeFirst
<1>5. AckInv' /\ SilenceFollows'
  <2>1. Hearing' => Hearing
    BY <1>1 DEF Hearing
  <2>2. AckInv'
    BY <2>1, <1>1, AckKept
  <2> QED BY <2>2, <1>1 DEF SilenceFollows, HostOver
<1>6. AlarmJustified'
  BY <1>1, <1>3 DEF AlarmJustified
<1>7. Justified
  BY <1>1, <1>3 DEF Justified
<1> QED BY <1>2, <1>4, <1>5, <1>6, <1>7 DEF Inv

\* The host goes on, in the handshake or in its recovery.
LEMMA HostGoesOn ==
    ASSUME Inv, ~HostOver, NEW h \in Hosts, host' = h, h.silent = host.silent,
           h.why = host.why, h.at \notin {"ended", "vanished"},
           h.at \in {"serving", "recovering"} =>
               host.at \in {"serving", "recovering", "readingReady"},
           h.at \in {"accepting", "readingHello", "readingReady"} =>
               host.at \in {"accepting", "readingHello", "readingReady"},
           UNCHANGED <<trackerVars, clientVars, net, acks, lost>>,
           LineTypes', faults' \in 0..MaxFaults
    PROVE  Inv' /\ Justified
<1>1. UNCHANGED <<acked, age, sent, late, quiet, client, decoder, keyed, queue, newest,
                  net, acks, lost>>
  BY DEF trackerVars, clientVars
<1>2. Types'
  BY <1>1 DEF Inv, Types, HostTypes, ClientTypes, IdleLimit, DecoderTypes, WireTypes
<1>3. NewestFollowed' /\ HandshakeFirst'
  BY <1>1 DEF Inv, NewestFollowed, HandshakeFirst
<1>4. AckInv'
  <2>1. Hearing' => Hearing
    BY <1>1 DEF Inv, Hearing, HandshakeFirst
  <2> QED BY <2>1, AckKept
<1>5. SilenceFollows'
  BY <1>1 DEF Inv, SilenceFollows, HostOver
<1>6. AlarmJustified' /\ Justified
  BY <1>1 DEF Inv, AlarmJustified, Justified, HostOver
<1> QED BY <1>2, <1>3, <1>4, <1>5, <1>6 DEF Inv

\* The client goes on in the handshake, or leaves; for want of frames only after as long
\* a silence.
LEMMA ClientMoves ==
    ASSUME Inv, NEW c \in Clients, client' = c, c.frames = client.frames,
           c.idle = client.idle, c.due = FALSE, c.at # "starting",
           c.at \in {"awaiting", "receiving"} => client.at \in {"starting", "awaiting"},
           client.why # "idle" /\ c.why = "idle" =>
               lost \/ HostOver \/ host.silent >= IdleLimit,
           UNCHANGED <<host, trackerVars, decoder, keyed, queue, newest, net, acks>>,
           LineTypes', faults' \in 0..MaxFaults, lost' \in BOOLEAN,
           lost = TRUE => lost' = TRUE
    PROVE  Inv' /\ Justified
<1>1. UNCHANGED <<acked, age, sent, late, quiet>>
  BY DEF trackerVars
<1>2. Types'
  BY <1>1 DEF Inv, Types, HostTypes, ClientTypes, IdleLimit, DecoderTypes, WireTypes
<1>3. NewestFollowed' /\ HandshakeFirst'
  BY <1>1 DEF Inv, NewestFollowed, HandshakeFirst
<1>4. AckInv'
  <2>1. Hearing' => Hearing
    BY <1>1 DEF Inv, Hearing, HandshakeFirst
  <2> QED BY <2>1, AckKept
<1>5. SilenceFollows'
  BY <1>1 DEF Inv, Types, HostTypes, Hosts, SilenceFollows, HandshakeFirst, HostOver
<1>6. AlarmJustified' /\ Justified
  BY <1>1 DEF Inv, AlarmJustified, Justified, HandshakeFirst
<1> QED BY <1>2, <1>3, <1>4, <1>5, <1>6 DEF Inv

(***************************************************************************)
(* The handshake, and how each side leaves.                                *)
(***************************************************************************)
LEMMA HostEndsInv ==
    ASSUME Inv,
           AcceptTimesOut \/ HandshakeFails \/ HostLeaves \/ WorkerFails \/ RecoveryFails
               \/ HostCrashes \/ HostVanishes
    PROVE  Inv' /\ Justified
<1>1. /\ UNCHANGED <<trackerVars, clientVars, wires>>
      /\ Fault \/ UNCHANGED faults
      /\ lost' \in BOOLEAN /\ (lost = TRUE => lost' = TRUE)
  BY DEF Inv, Types, WireTypes, AcceptTimesOut, HandshakeFails, HostLeaves, WorkerFails,
         RecoveryFails, HostCrashes, HostVanishes, HostEndsWith
<1>2. CASE HostVanishes
  <2> DEFINE h == [host EXCEPT !.at = "vanished", !.turn = 0]
  <2>1. host' = h /\ host.at # "ended"
    BY <1>2 DEF HostVanishes, HostOver
  <2>2. h \in Hosts /\ h.at = "vanished" /\ h.silent = host.silent /\ h.why = host.why
    BY Lengths DEF Inv, Types, HostTypes, Hosts
  <2>3. h.why # "acks"
    BY <2>1, <2>2 DEF Inv, AlarmJustified
  <2> HIDE DEF h
  <2> QED BY <1>1, <2>1, <2>2, <2>3, Faulty, HostIsOver
<1>3. CASE ~HostVanishes
  <2>1. PICK why \in {"handshake", "stop", "closed", "acks", "worker", "capture",
                      "crash"} :
          /\ host' = [host EXCEPT !.at = "ended", !.why = why, !.turn = 0]
          /\ why = "acks" => host.at = "serving" /\ acked = TRUE /\ age > AckTimeout
    <3>1. CASE HostLeaves
      <4>1. host.at = "serving" /\ Reason # "none" /\ HostEndsWith(Reason)
        BY <3>1 DEF HostLeaves
      <4>2. /\ Reason \in {"stop", "closed", "acks", "none"}
            /\ Reason = "acks" => acked = TRUE /\ age > AckTimeout
        BY DEF Reason, AckTimedOut, Inv, Types, HostTypes
      <4> QED BY <4>1, <4>2 DEF HostEndsWith
    <3>2. CASE ~HostLeaves
      BY <1>3, <3>2 DEF AcceptTimesOut, HandshakeFails, WorkerFails, RecoveryFails,
                        HostCrashes, HostEndsWith
    <3> QED BY <3>1, <3>2
  <2> DEFINE h == [host EXCEPT !.at = "ended", !.why = why, !.turn = 0]
  <2>2. h \in Hosts /\ h.at = "ended" /\ h.silent = host.silent /\ h.why = why
    BY Lengths DEF Inv, Types, HostTypes, Hosts
  <2>3. host' = h
    BY <2>1
  <2> HIDE DEF h
  <2> QED BY <1>1, <2>1, <2>2, <2>3, Faulty, HostIsOver
<1> QED BY <1>2, <1>3

\* What a line leaves on the connection.
LEMMA Lines ==
    ASSUME LineTypes
    PROVE  /\ toHost # <<>> => Tail(toHost) \in Seq({"hello", "ready"})
           /\ Append(toHost, "ready") \in Seq({"hello", "ready"})
           /\ <<"hello">> \in Seq({"hello", "ready"})
           /\ <<"offer">> \in Seq({"offer"}) /\ <<>> \in Seq({"offer"})
BY DEF LineTypes

LEMMA HostGoesOnInv ==
    ASSUME Inv,
           HostAccepts \/ HostReadsHello \/ HostReadsReady \/ CaptureFails \/ HostRecovers
               \/ TrayStops
    PROVE  Inv' /\ Justified
<1>1. /\ UNCHANGED <<trackerVars, clientVars, net, acks, lost>>
      /\ Fault \/ UNCHANGED faults
  BY DEF HostAccepts, HostReadsHello, HostReadsReady, HostReads, CaptureFails,
         HostRecovers, TrayStops, wires
<1>2. LineTypes'
  <2>1. \/ toHost' = toHost \/ (toHost # <<>> /\ toHost' = Tail(toHost))
    BY DEF HostAccepts, HostReadsHello, HostReadsReady, HostReads, CaptureFails,
           HostRecovers, TrayStops, wires
  <2>2. toClient' = toClient \/ toClient' = <<"offer">>
    BY DEF HostAccepts, HostReadsHello, HostReadsReady, CaptureFails, HostRecovers,
           TrayStops, wires
  <2>3. LineTypes
    BY DEF Inv, Types
  <2> QED BY <2>1, <2>2, <2>3, Lines DEF LineTypes
<1>3. \/ \E to \in {"readingHello", "readingReady", "serving", "recovering"} :
            /\ host' \in {[host EXCEPT !.at = to],
                          [host EXCEPT !.at = to, !.force = TRUE]}
            /\ to \in {"serving", "recovering"} =>
                  host.at \in {"serving", "recovering", "readingReady"}
            /\ to \in {"readingHello", "readingReady"} =>
                  host.at \in {"accepting", "readingHello"}
            /\ host.at \in {"accepting", "readingHello", "readingReady", "serving",
                            "recovering"}
      \/ host' = [host EXCEPT !.stop = TRUE] /\ ~HostOver
  <2> DEFINE Goes(from, to) ==
          /\ host.at = from
          /\ \/ host' = [host EXCEPT !.at = to]
             \/ host' = [host EXCEPT !.at = to, !.force = TRUE]
  <2>1. \/ Goes("accepting", "readingHello") \/ Goes("readingHello", "readingReady")
        \/ Goes("readingReady", "serving") \/ Goes("serving", "recovering")
        \/ Goes("recovering", "serving")
        \/ host' = [host EXCEPT !.stop = TRUE] /\ ~HostOver
    BY DEF HostAccepts, HostReadsHello, HostReadsReady, HostReads, CaptureFails,
           HostRecovers, TrayStops, Serves
  <2> QED BY <2>1
<1>4. /\ host' \in Hosts /\ host'.silent = host.silent /\ host'.why = host.why
      /\ ~HostOver /\ host'.at \notin {"ended", "vanished"}
      /\ host'.at \in {"serving", "recovering"} =>
               host.at \in {"serving", "recovering", "readingReady"}
      /\ host'.at \in {"accepting", "readingHello", "readingReady"} =>
               host.at \in {"accepting", "readingHello", "readingReady"}
  BY <1>3 DEF Inv, Types, HostTypes, Hosts, HostOver
<1> QED BY <1>1, <1>2, <1>4, Faulty, HostGoesOn

LEMMA ClientMovesInv ==
    ASSUME Inv,
           ClientConnects \/ ClientReadsOffer \/ ClientFails \/ ClientEnds \/ ClientKilled
               \/ ClientVanishes
    PROVE  Inv' /\ Justified
<1>1. /\ UNCHANGED <<host, trackerVars, decoder, keyed, queue, newest, net, acks>>
      /\ Fault \/ UNCHANGED faults
      /\ lost' \in BOOLEAN /\ (lost = TRUE => lost' = TRUE)
  BY DEF Inv, Types, WireTypes, ClientConnects, ClientReadsOffer, ClientFails, ClientEnds,
         ClientKilled, ClientVanishes, ClientEndsWith, wires
<1>2. LineTypes'
  <2>1. toHost' \in {toHost, <<"hello">>, Append(toHost, "ready")}
    BY DEF ClientConnects, ClientReadsOffer, ClientFails, ClientEnds, ClientKilled,
           ClientVanishes, ClientEndsWith, wires
  <2>2. toClient' = toClient \/ toClient' = <<>>
    BY DEF ClientConnects, ClientReadsOffer, ClientFails, ClientEnds, ClientKilled,
           ClientVanishes, ClientEndsWith, wires
  <2>3. LineTypes
    BY DEF Inv, Types
  <2> QED BY <2>1, <2>2, <2>3, Lines DEF LineTypes
<1>3. /\ client' \in Clients /\ client'.frames = client.frames
      /\ client'.idle = client.idle /\ client'.due = FALSE /\ client'.at # "starting"
      /\ client'.at \in {"awaiting", "receiving"} =>
            client.at \in {"starting", "awaiting"}
      /\ client'.why = client.why \/ client'.why # "idle"
  BY DEF Inv, Types, ClientTypes, Clients, HandshakeFirst, ClientConnects,
         ClientReadsOffer, ClientFails, ClientEnds, ClientKilled, ClientVanishes,
         ClientEndsWith
<1> QED BY <1>1, <1>2, <1>3, Faulty, ClientMoves

\* A time-out of the client: counted, or the last one.
LEMMA TimeOutInv ==
    ASSUME Inv, ClientTimesOut
    PROVE  Inv' /\ Justified
<1>1. /\ client.at = "receiving" /\ client.due = TRUE /\ net = {}
      /\ client \in Clients /\ faults' \in 0..MaxFaults /\ host \in Hosts
  BY Faulty DEF ClientTimesOut, Inv, Types, ClientTypes, Clients, HostTypes
<1>2. lost = TRUE \/ HostOver \/ client.idle + 1 <= host.silent
  BY <1>1 DEF Inv, Types, WireTypes, SilenceFollows
<1>3. ASSUME NEW why \in {"closed", "idle"}, ClientEndsWith(why),
             why = "idle" => client.idle + 1 >= IdleLimit
      PROVE  Inv' /\ Justified
  <2> DEFINE c == [client EXCEPT !.at = "leaving", !.why = why, !.due = FALSE,
                                 !.got = FALSE]
  <2>1. /\ client' = c
        /\ UNCHANGED <<host, trackerVars, decoder, keyed, queue, newest, net, acks, lost,
                       toHost, toClient>>
    BY <1>3 DEF ClientEndsWith, wires
  <2>2. /\ c \in Clients /\ c.at = "leaving" /\ c.frames = client.frames
        /\ c.idle = client.idle /\ c.due = FALSE /\ c.why = why
    BY <1>1 DEF Clients
  <2> HIDE DEF c
  <2>3. LineTypes' /\ lost' \in BOOLEAN
    BY <2>1 DEF Inv, Types, LineTypes, WireTypes
  <2>4. why = "idle" => lost \/ HostOver \/ host.silent >= IdleLimit
    <3>1. IdleLimit \in Nat /\ client.idle \in Nat /\ host.silent \in Nat
      BY <1>1, Lengths, SessionAssumption DEF IdleLimit, Clients, Hosts
    <3> QED BY <1>2, <1>3, <3>1
  <2> QED BY <1>1, <2>1, <2>2, <2>3, <2>4, ClientMoves
<1>4. CASE /\ client' = [client EXCEPT !.idle = client.idle + 1, !.due = FALSE]
           /\ client.idle + 1 < IdleLimit
           /\ UNCHANGED <<host, trackerVars, decoder, keyed, queue, newest, wires, lost>>
  <2>1. /\ client' \in Clients /\ client'.at = "receiving" /\ client'.due = FALSE
        /\ client'.idle = client.idle + 1 /\ client'.frames = client.frames
        /\ client'.why = client.why
    <3>1. client.idle + 1 \in Nat
      BY <1>1 DEF Clients
    <3> QED BY <1>1, <1>4, <3>1 DEF Clients
  <2>2. UNCHANGED <<host, acked, age, sent, late, quiet, decoder, keyed, queue, newest, toHost, toClient,
                    net, acks, lost>>
    BY <1>4 DEF trackerVars, wires
  <2>3. Types'
    BY <1>1, <1>4, <2>1, <2>2
       DEF Inv, Types, HostTypes, ClientTypes, IdleLimit, DecoderTypes, LineTypes,
           WireTypes
  <2>4. NewestFollowed' /\ HandshakeFirst' /\ AlarmJustified' /\ Justified
    BY <1>1, <2>1, <2>2
       DEF Inv, NewestFollowed, HandshakeFirst, AlarmJustified, Justified
  <2>6. AckInv'
    <3>1. Hearing' => Hearing
      BY <1>1, <2>1, <2>2 DEF Hearing
    <3>2. UNCHANGED trackerVars
      BY <2>2 DEF trackerVars
    <3> QED BY <3>1, <3>2, <2>2, AckKept
  <2>5. SilenceFollows'
    BY <1>1, <1>2, <2>1, <2>2 DEF SilenceFollows, HostOver
  <2> QED BY <2>3, <2>4, <2>5, <2>6 DEF Inv
<1>5. \/ ClientEndsWith("closed")
      \/ ClientEndsWith("idle") /\ client.idle + 1 >= IdleLimit
      \/ /\ client' = [client EXCEPT !.idle = client.idle + 1, !.due = FALSE]
         /\ client.idle + 1 < IdleLimit
         /\ UNCHANGED <<host, trackerVars, decoder, keyed, queue, newest, wires, lost>>
  <2>1. IdleLimit \in Nat
    BY SessionAssumption DEF IdleLimit
  <2> QED BY <1>1, <2>1 DEF ClientTimesOut, IdleAfterTimeout, Clients
<1> QED BY <1>3, <1>4, <1>5

(***************************************************************************)
(* Frames and acknowledgements.                                            *)
(***************************************************************************)
\* What becomes of an id when step more have been used.
LEMMA Ageing ==
    ASSUME NEW step \in 1..(KeptIds + 1), NEW b \in Behind
    PROVE  /\ Older(b, step) \in Behind
           /\ b > KeptIds => Older(b, step) > KeptIds
           /\ b <= KeptIds => Older(b, step) = b + step \/ Older(b, step) > KeptIds
BY SessionAssumption DEF Older, Behind

LEMMA AgedRecords ==
    ASSUME NEW step \in 1..(KeptIds + 1)
    PROVE  /\ \A f \in Frames : Aged(f, step) \in Frames
           /\ \A f \in QueuedFrames : Aged(f, step) \in QueuedFrames
           /\ \A a \in AckRecords : /\ Aged(a, step) \in AckRecords
                                    /\ Aged(a, step).stage = a.stage
                                    /\ Aged(a, step).old = a.old
           /\ \A x \in Frames \cup AckRecords : Aged(x, step).behind = Older(x.behind, step)
<1>1. \A b \in Behind : Older(b, step) \in Behind
  BY Ageing
<1> QED BY <1>1 DEF Aged, Frames, QueuedFrames, AckRecords

\* The map keeps its ids as far as KeptIds reaches.
LEMMA Noted ==
    ASSUME Inv, NEW step \in 1..(KeptIds + 1), NoteFrameSent(step)
    PROVE  /\ sent' \subseteq 0..KeptIds /\ 0 \in sent'
           /\ \A b \in Behind : b > KeptIds \/ b \in sent =>
                 Older(b, step) > KeptIds \/ Older(b, step) \in sent'
<1>1. sent' \subseteq 0..KeptIds /\ 0 \in sent'
  BY SessionAssumption DEF NoteFrameSent
<1>2. ASSUME NEW b \in Behind, b > KeptIds \/ b \in sent
      PROVE  Older(b, step) > KeptIds \/ Older(b, step) \in sent'
  <2>1. CASE b > KeptIds
    BY <2>1, Ageing
  <2>2. CASE b \in sent /\ b <= KeptIds
    <3>1. Older(b, step) = b + step \/ Older(b, step) > KeptIds
      BY <2>2, Ageing
    <3>2. Older(b, step) \in Behind
      BY Ageing
    <3> QED BY <2>2, <3>1, <3>2, SessionAssumption DEF NoteFrameSent, Behind
  <2> QED BY <1>2, <2>1, <2>2, SessionAssumption DEF Behind
<1> QED BY <1>1, <1>2

\* A frame that is sent is noted first, and is under way or lost; an acknowledgement was
\* never older than the host puts up with.
LEMMA SendInv ==
    ASSUME Inv, NEW fails \in BOOLEAN, NEW step \in 1..(KeptIds + 1),
           HostSends(fails, step)
    PROVE  Inv' /\ Justified
<1> DEFINE h == [host EXCEPT !.turn = @ + 1, !.silent = 0, !.force = fails]
           before == {Aged(f, step) : f \in net}
<1>1. /\ host.at = "serving" /\ host.turn < MaxBurst /\ host' = h
      /\ UNCHANGED <<acked, age, late, quiet, client, decoder, keyed, newest, toHost,
                     toClient>>
      /\ acks' = {Aged(a, step) : a \in acks} /\ NoteFrameSent(step)
      /\ queue' = [i \in 1..Len(queue) |-> Aged(queue[i], step)]
      /\ Fault \/ UNCHANGED faults
  BY DEF HostSends, Serves
<1>2. /\ h \in Hosts /\ h.at = "serving" /\ h.why = host.why /\ h.silent = 0
      /\ host.turn + 1 \in 1..MaxBurst
  <2>1. host \in Hosts /\ MaxBurst \in Nat /\ host.turn \in 0..MaxBurst
    BY SessionAssumption DEF Inv, Types, HostTypes, Hosts
  <2>2. host.turn + 1 \in 1..MaxBurst /\ host.turn + 1 \in 0..MaxBurst
    BY <1>1, <2>1
  <2> QED BY <1>1, <2>1, <2>2, Lengths DEF Hosts
<1> HIDE DEF h
<1>3. net \subseteq Frames /\ acks \subseteq AckRecords /\ before \subseteq Frames
  BY AgedRecords DEF Inv, Types, WireTypes
<1>4. \/ lost' = TRUE /\ net' = before
      \/ /\ lost' = lost /\ net' # {}
         /\ \E f \in Frames : f.behind = 0 /\ net' = before \cup {f}
  <2>1. CASE fails
    BY <2>1 DEF HostSends
  <2>2. CASE ~fails
    <3> DEFINE key == host.force \/ host.turn = 0
               f == [number |-> host.turn + 1, key |-> key, behind |-> 0]
    <3>1. key \in BOOLEAN
      BY DEF Inv, Types, HostTypes, Hosts
    <3>2. net' = before \cup {f} /\ lost' = lost
      BY <2>2 DEF HostSends
    <3> HIDE DEF key
    <3>3. f \in Frames /\ f.behind = 0
      BY <1>2, <3>1, SessionAssumption DEF Frames, Behind
    <3> HIDE DEF f
    <3> QED BY <3>2, <3>3
  <2> QED BY <2>1, <2>2
<1>5. Types'
  <2>1. faults' \in 0..MaxFaults
    BY <1>1, Faulty
  <2>2. HostTypes' /\ ClientTypes' /\ LineTypes'
    BY <1>1, <1>2, Noted
       DEF Inv, Types, HostTypes, ClientTypes, IdleLimit, LineTypes
  <2>3. acks' \subseteq AckRecords
    BY <1>1, <1>3, AgedRecords
  <2>4. WireTypes'
    BY <1>3, <1>4, <2>1, <2>3 DEF Inv, Types, WireTypes
  <2>5. queue' \in Seq(QueuedFrames) /\ Len(queue') = Len(queue)
    <3>1. queue \in Seq(QueuedFrames)
      BY DEF Inv, Types, DecoderTypes
    <3>2. \A i \in 1..Len(queue) : Aged(queue[i], step) \in QueuedFrames
      BY <3>1, AgedRecords
    <3> QED BY <1>1, <3>1, <3>2
  <2>6. DecoderTypes'
    BY <1>1, <2>5 DEF Inv, Types, DecoderTypes
  <2> QED BY <2>2, <2>4, <2>6 DEF Types
<1>6. NewestFollowed' /\ HandshakeFirst' /\ AlarmJustified' /\ Justified
  <2>1. queue' = <<>> <=> queue = <<>>
    <3>1. queue \in Seq(QueuedFrames) /\ Len(queue) \in Nat
      BY DEF Inv, Types, DecoderTypes
    <3>2. queue' \in Seq(QueuedFrames) /\ Len(queue') = Len(queue)
      <4>1. \A i \in 1..Len(queue) : Aged(queue[i], step) \in QueuedFrames
        BY <3>1, AgedRecords
      <4> QED BY <1>1, <3>1, <4>1
    <3>3. \A q \in Seq(QueuedFrames) : q = <<>> <=> Len(q) = 0
      OBVIOUS
    <3> QED BY <3>1, <3>2, <3>3
  <2>2. acks = {} => acks' = {}
    BY <1>1
  <2> QED BY <1>1, <1>2, <2>1, <2>2
          DEF Inv, NewestFollowed, HandshakeFirst, AlarmJustified, Justified
<1>7. \A a \in acks : Counts(a) => Counts(Aged(a, step))'
  <2> TAKE a \in acks
  <2>1. a.behind \in Behind /\ Aged(a, step).behind = Older(a.behind, step)
        /\ Aged(a, step).stage = a.stage
    BY <1>3, AgedRecords DEF AckRecords
  <2> QED BY <1>1, <2>1, Noted DEF Counts
<1>8. FramesNoted'
  <2>1. \A f \in net : \/ Aged(f, step).behind > KeptIds
                       \/ Aged(f, step).behind \in sent' \/ age' = 0
    <3> TAKE f \in net
    <3>1. f.behind \in Behind /\ Aged(f, step).behind = Older(f.behind, step)
      BY <1>3, AgedRecords DEF Frames
    <3> QED BY <1>1, <3>1, Noted DEF Inv, AckInv, FramesNoted
  <2>2. 0 \in sent'
    BY <1>1, Noted
  <2> QED BY <1>4, <2>1, <2>2 DEF FramesNoted
<1>9. QuietFollows'
  <2>1. SUFFICES ASSUME Hearing' PROVE \/ age <= quiet
                                       \/ /\ age <= quiet + 1
                                          /\ \E a \in acks' : Counts(a)' /\ a.old = TRUE
    BY <1>1 DEF QuietFollows
  <2>2. Hearing
    BY <1>1, <1>4, <2>1 DEF Hearing, Inv, Types, WireTypes
  <2>3. \A a \in acks : Aged(a, step) \in acks' /\ Aged(a, step).old = a.old
    BY <1>1, <1>3, AgedRecords
  <2> QED BY <1>7, <2>2, <2>3 DEF Inv, AckInv, QuietFollows
<1>10. AcksFollow' /\ SilenceFollows'
  BY <1>1, <1>2, <1>4 DEF AcksFollow, Hearing, SilenceFollows
<1> QED BY <1>5, <1>6, <1>8, <1>9, <1>10 DEF Inv, AckInv

\* An acknowledgement that is found sets the clock right; one that is not does not count.
LEMMA TakeAckInv ==
    ASSUME Inv, NEW a \in acks, NEW found \in BOOLEAN, HostTakesAck(a, found)
    PROVE  Inv' /\ Justified
<1>1. /\ acks' = acks \ {a}
      /\ UNCHANGED <<host, client, decoder, keyed, queue, newest, toHost, toClient, net,
                     faults, lost>>
      /\ a.stage \in {"receive", "render"} /\ found \in Finds(a)
      /\ a.behind \in Behind
  BY DEF HostTakesAck, clientVars, Inv, Types, WireTypes, AckRecords
<1>2. host.silent \in Nat /\ AckTimeout \in Nat \ {0} /\ sent \subseteq 0..KeptIds
  BY Lengths, SessionAssumption DEF Inv, Types, HostTypes, Hosts
<1>3. \/ /\ host.at \notin {"serving", "recovering"}
         /\ UNCHANGED <<acked, age, sent, late, quiet>>
      \/ /\ host.at \in {"serving", "recovering"}
         /\ acked' = TRUE /\ age' = 0 /\ late' = FALSE /\ quiet' = Silence(host.silent)
         /\ sent' \subseteq sent
      \/ /\ host.at \in {"serving", "recovering"} /\ ~found
         /\ late' = (late \/ (a.stage = "receive" /\ a.behind > KeptIds))
         /\ UNCHANGED <<acked, age, sent, quiet>>
  BY <1>1 DEF HostTakesAck, trackerVars
<1>4. Silence(host.silent) \in 0..AckTimeout /\ 0 \in 0..(AckTimeout + 1)
  BY <1>2 DEF Silence
<1>5. Types'
  BY <1>1, <1>3, <1>4 DEF Inv, Types, HostTypes, ClientTypes, IdleLimit, DecoderTypes,
                          LineTypes, WireTypes
<1>6. /\ NewestFollowed' /\ HandshakeFirst' /\ SilenceFollows' /\ AlarmJustified'
      /\ Justified
  BY <1>1, <1>3 DEF Inv, NewestFollowed, HandshakeFirst, SilenceFollows, AlarmJustified,
                    Justified, HostOver
<1>7. AckInv'
  <2>1. CASE age' = 0 /\ quiet' \in Nat
    <3>1. age' <= host'.silent /\ age' <= quiet'
      BY <1>1, <1>2, <2>1
    <3> QED BY <2>1, <3>1 DEF AckInv, AcksFollow, QuietFollows, FramesNoted
  <2>2. CASE UNCHANGED <<acked, age, sent, late, quiet>> /\ ~Hearing
    BY <1>1, <2>2 DEF Inv, AckInv, AcksFollow, QuietFollows, FramesNoted, Hearing
  <2>3. CASE /\ ~found /\ UNCHANGED <<acked, age, sent, quiet>>
             /\ late' = (late \/ (a.stage = "receive" /\ a.behind > KeptIds))
    <3>1. FramesNoted'
      BY <1>1, <2>3 DEF Inv, AckInv, FramesNoted
    <3>2. ASSUME Hearing' PROVE Hearing /\ ~Counts(a)
      <4>1. late = FALSE /\ ~(a.stage = "receive" /\ a.behind > KeptIds)
        BY <2>3, <3>2 DEF Hearing, Inv, Types, HostTypes
      <4>2. Hearing
        BY <1>1, <2>3, <3>2, <4>1 DEF Hearing
      <4>3. CASE a.behind > KeptIds
        BY <4>1, <4>2, <4>3 DEF Counts
      <4>4. CASE ~(a.behind > KeptIds)
        <5>1. a.behind \notin sent
          BY <1>1, <2>3, <4>4 DEF Finds
        <5> QED BY <4>2, <4>4, <5>1 DEF Counts
      <4> QED BY <4>3, <4>4
    <3>3. \A c \in acks : Counts(c)' <=> Counts(c)
      BY <2>3 DEF Counts
    <3>4. Hearing' => \A c \in acks : Counts(c) => c \in acks' /\ Counts(c)'
      BY <1>1, <3>2, <3>3
    <3>5. AcksFollow'
      BY <1>1, <2>3, <3>2, <3>4 DEF Inv, AckInv, AcksFollow
    <3>6. QuietFollows'
      BY <1>1, <2>3, <3>2, <3>4 DEF Inv, AckInv, QuietFollows
    <3> QED BY <3>1, <3>5, <3>6 DEF AckInv
  <2>4. quiet' = Silence(host.silent) => quiet' \in Nat
    BY <1>2, <1>4
  <2>5. host.at \notin {"serving", "recovering"} => ~Hearing
    BY DEF Hearing
  <2> QED BY <1>3, <2>1, <2>2, <2>3, <2>4, <2>5
<1> QED BY <1>5, <1>6, <1>7 DEF Inv

\* A full queue loses its oldest frame and never the new one.
LEMMA Pushed ==
    ASSUME Inv, NEW f \in Frames, Push(f)
    PROVE  queue' \in Seq(QueuedFrames) /\ Len(queue') <= QueueLimit /\ queue' # <<>>
<1>1. /\ queue \in Seq(QueuedFrames) /\ Len(queue) <= QueueLimit
      /\ QueueLimit \in Nat \ {0} /\ Queued(f) \in QueuedFrames
  BY SessionAssumption DEF Inv, Types, DecoderTypes, Queued, Frames, QueuedFrames
<1> DEFINE q == IF Len(queue) >= QueueLimit THEN Tail(queue) ELSE queue
<1>2. q \in Seq(QueuedFrames) /\ Len(q) + 1 <= QueueLimit
  <2>1. CASE Len(queue) >= QueueLimit
    <3>1. queue # <<>>
      BY <1>1, <2>1
    <3> QED BY <1>1, <2>1, <3>1
  <2>2. CASE ~(Len(queue) >= QueueLimit)
    BY <1>1, <2>2
  <2> QED BY <2>1, <2>2
<1>3. queue' = Append(q, Queued(f))
  BY DEF Push
<1>4. q \in Seq(QueuedFrames) => /\ Append(q, Queued(f)) \in Seq(QueuedFrames)
                               /\ Len(Append(q, Queued(f))) = Len(q) + 1
                               /\ Append(q, Queued(f)) # <<>>
  <2> HIDE DEF q
  <2> QED BY <1>1
<1> HIDE DEF q
<1> QED BY <1>2, <1>3, <1>4

LEMMA ReceiveInv ==
    ASSUME Inv, NEW f \in net, ClientReceives(f)
    PROVE  Inv' /\ Justified
<1>1. /\ client.at = "receiving" /\ net' = net \ {f} /\ acks' = acks \cup {Ack("receive", f)}
      /\ client' = [client EXCEPT !.frames = TRUE, !.idle = 0, !.due = FALSE,
                                  !.got = TRUE]
      /\ newest' = "queued"
      /\ UNCHANGED <<host, acked, age, sent, late, quiet, decoder, keyed, toHost, toClient,
                     faults, lost>>
  BY DEF ClientReceives, Push, trackerVars
<1>2. queue' \in Seq(QueuedFrames) /\ Len(queue') <= QueueLimit /\ queue' # <<>>
  <2>1. f \in Frames /\ Push(f)
    BY DEF Inv, Types, WireTypes, ClientReceives
  <2> QED BY <2>1, Pushed
<1>3. /\ client' \in Clients /\ client'.at = "receiving" /\ client'.why = client.why
      /\ client'.idle = 0 /\ client'.due = FALSE /\ client'.frames = TRUE
  BY <1>1 DEF Inv, Types, ClientTypes, Clients
<1>4. Types'
  <2>4. Ack("receive", f) \in AckRecords
    BY DEF Inv, Types, WireTypes, Frames, Ack, AckRecords
  <2>1. HostTypes' /\ LineTypes' /\ WireTypes'
    BY <1>1, <2>4 DEF Inv, Types, HostTypes, LineTypes, WireTypes
  <2>2. ClientTypes'
    BY <1>3, SessionAssumption DEF ClientTypes, IdleLimit
  <2>3. DecoderTypes'
    BY <1>1, <1>2 DEF Inv, Types, DecoderTypes
  <2> QED BY <2>1, <2>2, <2>3 DEF Types
<1>5. NewestFollowed' /\ HandshakeFirst' /\ AlarmJustified' /\ Justified
  BY <1>1, <1>2, <1>3 DEF Inv, NewestFollowed, HandshakeFirst, AlarmJustified, Justified
<1>6. AckInv'
  <2>1. Hearing' => Hearing
    BY <1>1 DEF Hearing
  <2>2. \A a \in acks : a \in acks' /\ (Counts(a)' <=> Counts(a))
    BY <1>1 DEF Counts
  <2>3. Counts(Ack("receive", f))' \/ age = 0
    BY <1>1 DEF Inv, AckInv, FramesNoted, Counts, Ack
  <2>4. AcksFollow'
    <3>1. host.silent \in Nat
      BY Lengths DEF Inv, Types, HostTypes, Hosts
    <3> QED BY <1>1, <2>3, <3>1 DEF AcksFollow
  <2>5. QuietFollows'
    BY <1>1, <2>1, <2>2 DEF Inv, AckInv, QuietFollows
  <2>6. FramesNoted'
    BY <1>1 DEF Inv, AckInv, FramesNoted
  <2> QED BY <2>4, <2>5, <2>6 DEF AckInv
<1>7. SilenceFollows'
  <2>1. host.silent \in Nat /\ client'.idle <= host.silent
    BY <1>3, Lengths DEF Inv, Types, HostTypes, Hosts
  <2> QED BY <1>1, <1>3, <2>1 DEF SilenceFollows
<1> QED BY <1>4, <1>5, <1>6, <1>7 DEF Inv

LEMMA DecodeInv ==
    ASSUME Inv, Decode
    PROVE  Inv' /\ Justified
<1>1. /\ UNCHANGED <<host, trackerVars, client, toHost, toClient, net, lost>>
      /\ acks' \in {acks, acks \cup {Ack("render", Head(queue))}} /\ (Fault \/ UNCHANGED faults)
      /\ client.at \in {"receiving", "leaving"} /\ decoder = "running"
      /\ queue # <<>> /\ queue' = Tail(queue)
  BY DEF Decode, DecoderSkips, DecoderShows, DecoderFails, DecodeTurn, wires
<1>2. \/ decoder' = "dead" /\ keyed' = keyed /\ newest' \in {newest, "skipped"}
      \/ /\ decoder' = "running" /\ keyed' = keyed /\ keyed = FALSE
         /\ newest' = NewestAfter("skipped")
      \/ decoder' = "running" /\ keyed' = TRUE /\ newest' = NewestAfter("shown")
  BY <1>1 DEF Decode, DecoderSkips, DecoderShows, DecoderFails, NewestAfter, DecodeTurn,
              Inv, Types, DecoderTypes
<1>3. queue \in Seq(QueuedFrames) /\ Len(queue) <= QueueLimit
  BY DEF Inv, Types, DecoderTypes
<1>4. /\ queue' \in Seq(QueuedFrames) /\ Len(queue') <= QueueLimit
      /\ queue' = <<>> <=> Len(queue) = 1
  <2> DEFINE rest == Tail(queue)
  <2>1. /\ rest \in Seq(QueuedFrames) /\ Len(rest) = Len(queue) - 1
        /\ Len(queue) \in Nat /\ QueueLimit \in Nat
    BY <1>1, <1>3, SessionAssumption
  <2>2. queue' = rest
    BY <1>1
  <2> HIDE DEF rest
  <2>3. \A q \in Seq(QueuedFrames) : q = <<>> <=> Len(q) = 0
    OBVIOUS
  <2>4. rest = <<>> <=> Len(rest) = 0
    BY <2>1, <2>3, Zenon
  <2> QED BY <1>3, <2>1, <2>2, <2>4
<1>5. Types'
  <2>3. Ack("render", Head(queue)) \in AckRecords
    <3>1. Head(queue) \in QueuedFrames
      BY <1>1, <1>3
    <3> QED BY <3>1 DEF QueuedFrames, Ack, AckRecords
  <2>1. HostTypes' /\ ClientTypes' /\ LineTypes' /\ WireTypes'
    BY <1>1, <2>3, Faulty
       DEF trackerVars, Inv, Types, HostTypes, ClientTypes, IdleLimit, LineTypes, WireTypes
  <2>2. DecoderTypes'
    BY <1>2, <1>4 DEF Inv, Types, DecoderTypes, NewestAfter
  <2> QED BY <2>1, <2>2 DEF Types
<1>6. NewestFollowed'
  BY <1>1, <1>2, <1>4 DEF Inv, NewestFollowed, NewestAfter
<1>7. HandshakeFirst' /\ SilenceFollows' /\ AlarmJustified' /\ Justified
  BY <1>1 DEF Inv, HandshakeFirst, SilenceFollows, AlarmJustified, Justified, HostOver,
              trackerVars
<1>8. AckInv'
  <2>1. UNCHANGED <<acked, age, sent, late, quiet>>
    BY <1>1 DEF trackerVars
  <2>2. \A a \in acks : a \in acks' /\ (Counts(a)' <=> Counts(a))
    BY <1>1, <2>1 DEF Counts
  <2>3. AcksFollow'
    BY <1>1, <2>1, <2>2 DEF Inv, AckInv, AcksFollow, Hearing
  <2>4. QuietFollows'
    BY <1>1, <2>1, <2>2 DEF Inv, AckInv, QuietFollows, Hearing
  <2>5. FramesNoted'
    BY <1>1, <2>1 DEF Inv, AckInv, FramesNoted
  <2> QED BY <2>3, <2>4, <2>5 DEF AckInv
<1> QED BY <1>5, <1>6, <1>7, <1>8 DEF Inv

\* A frame nobody waits for; a frame or an acknowledgement that is lost.
LEMMA NetworkInv ==
    ASSUME Inv,
           \/ \E f \in net : FrameIgnored(f) \/ FrameLost(f)
           \/ \E a \in acks : AckLost(a)
    PROVE  Inv' /\ Justified
<1>1. /\ UNCHANGED <<host, acked, age, sent, late, quiet, client, decoder, keyed, queue,
                     newest, toHost, toClient>>
      /\ net' \subseteq net /\ acks' \subseteq acks /\ (Fault \/ UNCHANGED faults)
      /\ lost' = TRUE \/ (lost' = lost /\ client.at # "receiving")
  BY DEF FrameIgnored, FrameLost, AckLost, trackerVars, clientVars
<1>2. Types'
  BY <1>1, Faulty DEF Inv, Types, HostTypes, ClientTypes, IdleLimit, DecoderTypes,
                      LineTypes, WireTypes
<1>3. NewestFollowed' /\ HandshakeFirst' /\ AckInv' /\ SilenceFollows'
  BY <1>1 DEF Inv, NewestFollowed, HandshakeFirst, AckInv, AcksFollow, QuietFollows,
              FramesNoted, Hearing, SilenceFollows
<1>4. AlarmJustified' /\ Justified
  BY <1>1 DEF Inv, AlarmJustified, Justified
<1> QED BY <1>2, <1>3, <1>4 DEF Inv

(***************************************************************************)
(* Time.                                                                   *)
(***************************************************************************)
LEMMA CappedBy ==
    ASSUME NEW top \in Nat, NEW n \in 0..top
    PROVE  Capped(n, top) \in 0..top /\ Capped(n, top) = IF n < top THEN n + 1 ELSE top
BY DEF Capped

\* A tick ends when nothing is under way: both clocks go on together.
LEMMA TickInv ==
    ASSUME Inv, Tick
    PROVE  Inv' /\ Justified
<1> DEFINE silent == Capped(host.silent, MaxSilence)
           hush == Silence(host.silent + 1)
           due == client.at = "receiving" /\ ~client.got
<1>1. /\ net = {} /\ (\A a \in acks : a.old = FALSE) /\ client.due = FALSE
      /\ host' = [host EXCEPT !.turn = 0, !.silent = silent]
      /\ client' = [client EXCEPT !.got = FALSE, !.due = due]
      /\ age' = IF acked THEN Capped(age, AckTimeout + 1) ELSE 0
      /\ quiet' = IF acked /\ quiet < hush THEN hush ELSE quiet
      /\ acks' = {[a EXCEPT !.old = TRUE] : a \in acks}
      /\ UNCHANGED <<acked, sent, late, decoder, keyed, queue, newest, toHost, toClient,
                     net, faults, lost>>
  BY DEF Tick, Waiting, Inv, Types, ClientTypes, Clients, WireTypes, AckRecords
<1>2. /\ silent \in 0..MaxSilence /\ due \in BOOLEAN /\ (due => client.at = "receiving")
      /\ silent = IF host.silent < MaxSilence THEN host.silent + 1 ELSE MaxSilence
      /\ host.silent \in 0..MaxSilence
  BY Lengths, CappedBy DEF Inv, Types, HostTypes, Hosts, ClientTypes, Clients
<1>3. /\ age' \in 0..(AckTimeout + 1) /\ age \in 0..(AckTimeout + 1)
      /\ acked = TRUE => age' = IF age < AckTimeout + 1 THEN age + 1 ELSE AckTimeout + 1
  <2>1. AckTimeout + 1 \in Nat /\ age \in 0..(AckTimeout + 1) /\ 0 \in 0..(AckTimeout + 1)
    BY SessionAssumption DEF Inv, Types, HostTypes
  <2> QED BY <1>1, <2>1, CappedBy
<1>11. /\ hush \in 0..AckTimeout /\ hush >= 1
       /\ hush = AckTimeout \/ (hush = host.silent + 1 /\ hush < AckTimeout)
       /\ quiet \in 0..AckTimeout /\ quiet' \in 0..AckTimeout /\ quiet <= quiet'
       /\ acked = TRUE => hush <= quiet'
  <2>1. quiet \in 0..AckTimeout /\ acked \in BOOLEAN
    BY DEF Inv, Types, HostTypes
  <2>2. hush \in 0..AckTimeout /\ hush >= 1
        /\ (hush = AckTimeout \/ (hush = host.silent + 1 /\ hush < AckTimeout))
    BY <1>2, Lengths, SessionAssumption DEF Silence
  <2> HIDE DEF hush
  <2> QED BY <1>1, <2>1, <2>2, SessionAssumption
<1> HIDE DEF silent, due, hush
<1>4. /\ host' \in Hosts /\ host'.at = host.at /\ host'.why = host.why
      /\ host'.silent = silent
  BY <1>1, <1>2, Lengths DEF Inv, Types, HostTypes, Hosts
<1>5. /\ client' \in Clients /\ client'.at = client.at /\ client'.why = client.why
      /\ client'.frames = client.frames /\ client'.idle = client.idle
      /\ client'.due = due
  BY <1>1, <1>2 DEF Inv, Types, ClientTypes, Clients
<1> DEFINE aged(a) == [a EXCEPT !.old = TRUE]
<1>12. ASSUME NEW a \in acks
       PROVE  /\ aged(a) \in AckRecords /\ aged(a).old = TRUE
              /\ Counts(a) => Counts(aged(a))'
  <2>1. a \in AckRecords
    BY DEF Inv, Types, WireTypes
  <2>2. /\ aged(a) \in AckRecords /\ aged(a).old = TRUE
        /\ aged(a).stage = a.stage /\ aged(a).behind = a.behind
    BY <2>1 DEF AckRecords
  <2> HIDE DEF aged
  <2> QED BY <1>1, <2>2 DEF Counts
<1>6. Types'
  <2>1. acks' \subseteq AckRecords
    BY <1>1, <1>12
  <2>2. HostTypes' /\ WireTypes'
    BY <1>1, <1>3, <1>4, <1>11, <2>1 DEF Inv, Types, HostTypes, WireTypes
  <2>3. ClientTypes' /\ DecoderTypes' /\ LineTypes'
    BY <1>1, <1>5 DEF Inv, Types, ClientTypes, IdleLimit, DecoderTypes, LineTypes
  <2> QED BY <2>2, <2>3 DEF Types
<1>7. NewestFollowed' /\ HandshakeFirst'
  <2>1. acks = {} => acks' = {}
    BY <1>1
  <2> QED BY <1>1, <1>2, <1>4, <1>5, <2>1 DEF Inv, NewestFollowed, HandshakeFirst
<1>8. AckInv'
  <2>1. ASSUME Hearing'
        PROVE  /\ Hearing /\ age' = age + 1 /\ quiet' < AckTimeout
               /\ silent = host.silent + 1 /\ silent <= quiet'
               /\ age <= quiet
    <3>1. Hearing
      <4>1. quiet # AckTimeout
        BY <1>11, <2>1, SessionAssumption DEF Hearing
      <4> QED BY <1>1, <1>4, <1>5, <2>1, <4>1 DEF Hearing
    <3>2. age <= quiet
      BY <1>1, <3>1 DEF Inv, AckInv, QuietFollows
    <3>3. acked = TRUE /\ quiet' < AckTimeout /\ quiet < AckTimeout
      BY <1>11, <2>1, <3>1, SessionAssumption DEF Hearing
    <3>4. hush = host.silent + 1 /\ host.silent < MaxSilence
      BY <1>2, <1>11, <3>3, Lengths, SessionAssumption
    <3> QED BY <1>2, <1>3, <1>11, <3>1, <3>2, <3>3, <3>4, SessionAssumption
  <2>2. Hearing' => age <= host.silent \/ \E a \in acks : Counts(a)
    BY <1>1, <2>1 DEF Inv, AckInv, AcksFollow
  <2>3. \A a \in acks : Counts(a) => \E c \in acks' : Counts(c)' /\ c.old = TRUE
    BY <1>1, <1>12
  <2>4. AcksFollow'
    BY <1>2, <1>3, <1>4, <2>1, <2>2, <2>3 DEF AcksFollow
  <2>5. QuietFollows'
    <3>1. SUFFICES ASSUME Hearing'
                   PROVE \/ age' <= quiet'
                         \/ /\ age' <= quiet' + 1
                            /\ \E a \in acks' : Counts(a)' /\ a.old = TRUE
      BY DEF QuietFollows
    <3>2. /\ age' = age + 1 /\ age <= quiet /\ quiet <= quiet'
          /\ host.silent + 1 <= quiet'
      BY <1>11, <2>1, <3>1
    <3>3. /\ age \in Nat /\ quiet \in Nat /\ quiet' \in Nat /\ host.silent \in Nat
      BY <1>2, <1>3, <1>11, Lengths, SessionAssumption
    <3>4. \A m, n, q \in Nat : m <= n /\ n <= q => m + 1 <= q + 1
      OBVIOUS
    <3>7. \A m, n, q \in Nat : m <= n /\ n + 1 <= q => m + 1 <= q
      OBVIOUS
    <3>5. age' <= quiet' + 1
      BY <3>2, <3>3, <3>4
    <3>6. age <= host.silent => age' <= quiet'
      BY <3>2, <3>3, <3>7
    <3> QED BY <2>2, <2>3, <3>1, <3>5, <3>6
  <2>6. FramesNoted'
    BY <1>1 DEF FramesNoted
  <2> QED BY <2>4, <2>5, <2>6 DEF AckInv
<1>9. SilenceFollows'
  <2>1. lost = FALSE /\ ~HostOver /\ client.at = "receiving" => client.idle <= host.silent
    BY <1>1 DEF Inv, Types, ClientTypes, Clients, SilenceFollows, Hosts, HostTypes
  <2>2. client.idle \in Nat /\ client.idle + 1 <= MaxSilence
    BY Lengths, SessionAssumption DEF Inv, Types, ClientTypes, Clients, IdleLimit
  <2>3. client.idle <= host.silent => client.idle + 1 <= silent
    BY <1>2, <2>2, Lengths
  <2> QED BY <1>1, <1>2, <1>4, <1>5, <2>1, <2>2, <2>3, Lengths
          DEF SilenceFollows, HostOver
<1>10. AlarmJustified' /\ Justified
  <2>1. quiet = AckTimeout => quiet' = AckTimeout
    BY <1>11, SessionAssumption
  <2> QED BY <1>1, <1>4, <1>5, <2>1 DEF Inv, AlarmJustified, Justified
<1> QED BY <1>6, <1>7, <1>8, <1>9, <1>10 DEF Inv

(***************************************************************************)
(* The theorems.                                                           *)
(***************************************************************************)
LEMMA InvNext == Inv /\ [Next]_vars => Inv' /\ Justified
<1> SUFFICES ASSUME Inv, [Next]_vars PROVE Inv' /\ Justified
  OBVIOUS
<1>1. CASE AcceptTimesOut \/ HandshakeFails \/ HostLeaves \/ WorkerFails \/ RecoveryFails
           \/ HostCrashes \/ HostVanishes
  BY <1>1, HostEndsInv
<1>2. CASE HostAccepts \/ HostReadsHello \/ HostReadsReady \/ CaptureFails \/ HostRecovers
           \/ TrayStops
  BY <1>2, HostGoesOnInv
<1>3. CASE ClientConnects \/ ClientReadsOffer \/ ClientFails \/ ClientEnds \/ ClientKilled
           \/ ClientVanishes
  BY <1>3, ClientMovesInv
<1>4. CASE ClientTimesOut
  BY <1>4, TimeOutInv
<1>5. CASE \E fails \in BOOLEAN, step \in 1..(KeptIds + 1) : HostSends(fails, step)
  BY <1>5, SendInv
<1>6. CASE Acks
  BY <1>6, TakeAckInv DEF Acks
<1>7. CASE \E f \in net : ClientReceives(f)
  BY <1>7, ReceiveInv
<1>8. CASE Decode
  BY <1>8, DecodeInv
<1>9. CASE \/ \E f \in net : FrameIgnored(f) \/ FrameLost(f)
           \/ \E a \in acks : AckLost(a)
  BY <1>9, NetworkInv
<1>10. CASE Tick
  BY <1>10, TickInv
<1>11. CASE UNCHANGED vars
  <2>1. UNCHANGED <<host, acked, age, sent, late, quiet, client, decoder, keyed, queue,
                    newest, toHost, toClient, net, acks, faults, lost>>
    BY <1>11 DEF vars, trackerVars, clientVars, wires
  <2>2. Types'
    BY <2>1 DEF Inv, Types, HostTypes, ClientTypes, IdleLimit, DecoderTypes, LineTypes,
                WireTypes
  <2>3. NewestFollowed' /\ HandshakeFirst' /\ SilenceFollows'
    BY <2>1 DEF Inv, NewestFollowed, HandshakeFirst, SilenceFollows, HostOver
  <2>5. AckInv'
    BY <2>1, AckKept DEF Hearing, trackerVars
  <2>4. AlarmJustified' /\ Justified
    BY <2>1 DEF Inv, AlarmJustified, Justified
  <2> QED BY <2>2, <2>3, <2>4, <2>5 DEF Inv
<1> QED BY <1>1, <1>2, <1>3, <1>4, <1>5, <1>6, <1>7, <1>8, <1>9, <1>10, <1>11
        DEF Next, Handshake, HostLoop, Recovery, Receive, Losses

LEMMA InvAlways == Spec => []Inv
<1>1. Inv /\ [Next]_vars => Inv'
  BY InvNext
<1> QED BY <1>1, InitInv, PTL DEF Spec

\* The two programs and the network keep their types: the queue never holds more than
\* kMaxQueuedMjpegFrames, and a client that still waits has not used its time-outs up.
THEOREM TypeCorrect == Spec => []TypeOK
<1>1. Inv => TypeOK
  BY DEF Inv, Types, HostTypes, Hosts, ClientTypes, Clients, DecoderTypes, LineTypes,
         WireTypes, Behind, Frames, QueuedFrames, AckRecords, TypeOK
<1> QED BY <1>1, InvAlways, PTL

\* An idle decode thread has shown the frame received last, however many frames the full
\* queue has dropped.
THEOREM NewestFrameShown == Spec => []LastFrameShown
<1>1. Inv => LastFrameShown
  BY DEF Inv, Types, DecoderTypes, NewestFollowed, LastFrameShown
<1> QED BY <1>1, InvAlways, PTL

\* Neither side gives the other one up by mistake, whatever the time limits are and
\* however many ids the host keeps: only after a loss, when the other one has been silent
\* for as long, or, the host, when an acknowledgement has come after more than KeptIds
\* newer ids and none has counted since.
THEOREM AlarmsAreTrue == Spec => NoFalseAlarm
<1>1. Inv /\ [Next]_vars =>
        [/\ host'.why = "acks" =>
              lost \/ late \/ quiet = AckTimeout \/ client.at # "receiving"
         /\ client.why # "idle" /\ client'.why = "idle" =>
              lost \/ HostOver \/ host.silent >= IdleLimit]_vars
  BY InvNext DEF Justified
<1> QED BY <1>1, InvAlways, PTL DEF Spec, NoFalseAlarm

(***************************************************************************)
(* The window (Renderer, whose variables have nothing to do with those of  *)
(* the session: the two specifications are proved about side by side).     *)
(*                                                                         *)
(* NewestShown is not inductive: a frame that OpenGL draws brings the      *)
(* whole texture to the window, so the texture has to have the last frame  *)
(* of every tile that was not missed (TextureNewest), whether or not it    *)
(* is drawn.  And the window is opened with nothing in either              *)
(* (ClosedBlank).                                                          *)
(***************************************************************************)
\* The texture could be drawn at any time: it has every frame it was given.
TextureNewest ==
    \A t \in Tiles : t \notin missed => glTexture_[t] = latest[t]

\* Nothing is left of an earlier window.
ClosedBlank ==
    ~fullscreen_ =>
        /\ ~glAvailable_ /\ glTexture_ = Empty
        /\ screen = Empty /\ latest = Empty

\* What is invariant of the window.
WindowInv == WindowTypeOK /\ NewestShown /\ TextureNewest /\ ClosedBlank

LEMMA EmptyType == Empty \in Contents
BY DEF Empty, Contents

LEMMA PaintedType ==
    ASSUME NEW picture \in Contents, NEW rect \in SUBSET Tiles, NEW n \in Nat
    PROVE  Painted(picture, rect, n) \in Contents
BY DEF Painted, Contents

\* The texture that is painted on is the one that was there, of the right size or
\* made anew: one of the wrong size is empty.
LEMMA TextureKept ==
    ASSUME WindowTypeOK, NEW rect
    PROVE  Texture(rect) = glTexture_
BY DEF WindowTypeOK, Texture

LEMMA WindowInvInit == WindowInit => WindowInv
<1> SUFFICES ASSUME WindowInit PROVE WindowInv
  OBVIOUS
<1>1. WindowTypeOK
  BY EmptyType DEF WindowInit, WindowTypeOK
<1>2. NewestShown
  BY DEF WindowInit, NewestShown
<1>3. TextureNewest /\ ClosedBlank
  BY DEF WindowInit, TextureNewest, ClosedBlank
<1> QED BY <1>1, <1>2, <1>3 DEF WindowInv

LEMMA OpenInv ==
    ASSUME WindowInv, NEW gl \in BOOLEAN, NEW shm \in BOOLEAN, OpenFullscreen(gl, shm)
    PROVE  WindowInv'
BY DEF OpenFullscreen, textureVars, pictureVars, historyVars, WindowInv, WindowTypeOK,
       NewestShown, TextureNewest, ClosedBlank

LEMMA CloseInv ==
    ASSUME WindowInv, Close
    PROVE  WindowInv'
BY RendererAssumption, EmptyType
   DEF Close, WindowInv, WindowTypeOK, NewestShown, TextureNewest, ClosedBlank,
       Empty

\* What a frame leaves in the texture: it has the rectangle only if the upload was
\* successful, and keeps the rest, unless planes are left half new.
LEMMA UploadPaints ==
    ASSUME WindowTypeOK, NEW rect \in SUBSET Tiles, NEW gl \in Outcomes,
           Upload(rect, gl)
    PROVE  /\ gl.upload = "ok" => glTexture_' = Painted(glTexture_, rect, frames + 1)
           /\ gl.upload # "ok" /\ (format = "BGRx" \/ gl.upload = "none") =>
                  glTexture_' = glTexture_
           /\ glTexture_' \in Contents
           /\ glTextureSized' \in BOOLEAN /\ glStorage' \in BOOLEAN
           /\ glTextureSized' \/ glTexture_' = Empty
<1>1. /\ Texture(rect) = glTexture_ /\ glTexture_ \in Contents
      /\ Painted(glTexture_, rect, frames + 1) \in Contents
  BY TextureKept, PaintedType DEF WindowTypeOK
<1>2. gl.upload \in {"none", "failed", "ok"}
  BY DEF Outcomes
<1>3. /\ glTextureSized' = (glTextureSized \/ gl.upload # "none")
      /\ glStorage' \in BOOLEAN
  BY DEF Upload, WindowTypeOK
<1>4. CASE gl.upload = "none"
  BY <1>1, <1>3, <1>4 DEF Upload, WindowTypeOK
<1>5. CASE gl.upload = "failed"
  <2>1. glTexture_' \in Leaves(rect)
    BY <1>5 DEF Upload
  <2> QED BY <1>1, <1>3, <1>5, <2>1, EmptyType DEF Leaves, WindowTypeOK
<1>6. CASE gl.upload = "ok"
  <2>1. glTexture_' = Painted(Texture(rect), rect, frames + 1)
    BY <1>6 DEF Upload
  <2> QED BY <1>1, <1>3, <1>6, <2>1 DEF WindowTypeOK
<1> QED BY <1>2, <1>4, <1>5, <1>6

\* What a frame leaves in the history.
LEMMA SubmittedKeeps ==
    ASSUME WindowTypeOK, NEW rect \in SUBSET Tiles, NEW gl, NEW x, Submitted(rect, gl, x)
    PROVE  /\ frames' \in Nat /\ latest' \in Contents
           /\ missed' \subseteq Tiles /\ hidden' \subseteq Tiles /\ covered' \subseteq Tiles
<1>1. frames + 1 \in Nat
  BY DEF WindowTypeOK
<1> QED BY <1>1, PaintedType DEF Submitted, WindowTypeOK

LEMMA BgrxInv ==
    ASSUME WindowInv, NEW rect \in SUBSET Tiles, NEW gl \in Outcomes,
           NEW x \in Ways, SubmitBgrx(rect, gl, x)
    PROVE  WindowInv'
<1> USE DEF WindowInv
<1>1. /\ frames + 1 \in Nat
      /\ gl.upload = "ok" => glTexture_' = Painted(glTexture_, rect, frames + 1)
      /\ gl.upload # "ok" => glTexture_' = glTexture_
      /\ glTexture_' \in Contents
      /\ glTextureSized' \in BOOLEAN /\ glStorage' \in BOOLEAN
      /\ glTextureSized' \/ glTexture_' = Empty
  BY UploadPaints DEF SubmitBgrx, WindowTypeOK
<1>2. Drawn(gl) \in Contents
  BY <1>1 DEF Drawn, WindowTypeOK
<1>3. /\ screen' = IF gl.draw = "done" \/ x = "none" THEN Drawn(gl)
                   ELSE Painted(Drawn(gl), rect, frames + 1)
      /\ xShmImage_' \in Contents \cup {Blank}
  <2>1. SharedImage \in Contents
    BY EmptyType DEF SharedImage, WindowTypeOK
  <2> QED BY <2>1, <1>1, PaintedType DEF SubmitBgrx, DrawBesideGl, WindowTypeOK
<1>4. Submitted(rect, gl, x)
  BY DEF SubmitBgrx
<1>5. WindowTypeOK'
  <2>1. screen' \in Contents
    BY <1>1, <1>2, <1>3, PaintedType
  <2> QED BY <1>1, <1>3, <1>4, <2>1, SubmittedKeeps
          DEF SubmitBgrx, pathVars, WindowTypeOK
<1>6. ASSUME NEW t \in Tiles
      PROVE  /\ t \notin missed' => glTexture_'[t] = latest'[t]
             /\ (IF t \in covered' THEN t \notin missed' ELSE t \notin hidden')
                    => screen'[t] = latest'[t]
  <2>1. /\ latest'[t] = IF t \in rect THEN frames + 1 ELSE latest[t]
        /\ glTexture_'[t] = IF gl.upload = "ok" /\ t \in rect THEN frames + 1
                            ELSE glTexture_[t]
        /\ screen'[t] = IF gl.draw # "done" /\ x # "none" /\ t \in rect THEN frames + 1
                        ELSE Drawn(gl)[t]
    BY <1>1, <1>3, <1>4 DEF Painted, Submitted
  <2>2. Drawn(gl)[t] = IF gl.draw # "none" THEN glTexture_'[t] ELSE screen[t]
    BY DEF Drawn
  <2>3. gl.draw = "done" => gl.upload = "ok"
    BY DEF SubmitBgrx, Possible, Outcomes
  <2>4. /\ (IF t \in covered THEN t \notin missed ELSE t \notin hidden)
               => screen[t] = latest[t]
        /\ t \notin missed => glTexture_[t] = latest[t]
    BY DEF NewestShown, TextureNewest
  <2>5. /\ t \in missed' <=> IF t \in rect THEN gl.upload # "ok" ELSE t \in missed
        /\ t \in hidden' <=> IF t \in rect THEN ~Shown(gl, x) ELSE t \in hidden
        /\ t \in covered' <=> t \notin rect /\ (gl.draw # "none" \/ t \in covered)
    <3>1. rect \subseteq Tiles /\ missed \subseteq Tiles /\ hidden \subseteq Tiles
      BY DEF WindowTypeOK
    <3> HIDE DEF Shown, WindowInv
    <3> QED BY <1>4, <3>1 DEF Submitted
  <2>6. CASE t \in rect
    BY <2>1, <2>2, <2>3, <2>5, <2>6 DEF Shown
  <2>7. CASE t \notin rect
    BY <2>1, <2>2, <2>4, <2>5, <2>7
  <2> QED BY <2>6, <2>7
<1>7. NewestShown' /\ TextureNewest'
  BY <1>6 DEF NewestShown, TextureNewest
<1>8. ClosedBlank'
  BY DEF ClosedBlank, SubmitBgrx, pathVars
<1> QED BY <1>5, <1>7, <1>8

LEMMA YuvInv ==
    ASSUME WindowInv, NEW gl \in Outcomes, SubmitYuv(gl)
    PROVE  WindowInv'
<1> USE DEF WindowInv
<1>1. /\ Upload(Tiles, gl) /\ Submitted(Tiles, gl, "none") /\ screen' = Drawn(gl)
      /\ UNCHANGED <<pathVars, xShmImage_>>
  BY DEF SubmitYuv
<1>2. /\ gl.upload = "ok" => glTexture_' = Painted(glTexture_, Tiles, frames + 1)
      /\ glTexture_' \in Contents
      /\ glTextureSized' \in BOOLEAN /\ glStorage' \in BOOLEAN
      /\ glTextureSized' \/ glTexture_' = Empty
  BY <1>1, UploadPaints
<1>3. WindowTypeOK'
  <2>1. screen' \in Contents
    BY <1>1, <1>2 DEF Drawn, WindowTypeOK
  <2> QED BY <1>1, <1>2, <2>1, SubmittedKeeps DEF pathVars, WindowTypeOK
<1>4. ASSUME NEW t \in Tiles
      PROVE  /\ t \notin missed' => glTexture_'[t] = latest'[t]
             /\ t \notin hidden' => screen'[t] = latest'[t]
             /\ t \notin covered'
  <2>1. t \notin missed' => gl.upload = "ok"
    BY <1>1 DEF Submitted
  <2>2. t \notin hidden' => gl.upload = "ok" /\ gl.draw # "none"
    BY <1>1 DEF Submitted, Shown
  <2>3. t \notin covered' /\ latest'[t] = frames + 1
    BY <1>1 DEF Submitted, Painted
  <2>4. gl.upload = "ok" => glTexture_'[t] = frames + 1
    BY <1>2 DEF Painted
  <2>5. gl.draw # "none" => screen' = glTexture_'
    BY <1>1 DEF Drawn
  <2> QED BY <2>1, <2>2, <2>3, <2>4, <2>5
<1>5. NewestShown' /\ TextureNewest'
  BY <1>4 DEF NewestShown, TextureNewest
<1>6. ClosedBlank'
  BY DEF SubmitYuv, ClosedBlank, pathVars
<1> QED BY <1>3, <1>5, <1>6

LEMMA WindowInvariant == WindowSpec => []WindowInv
<1>1. WindowInv /\ [WindowNext]_windowVars => WindowInv'
  <2>1. ASSUME WindowInv, UNCHANGED windowVars
        PROVE  WindowInv'
    BY <2>1 DEF windowVars, pathVars, textureVars, pictureVars, historyVars, WindowInv, WindowTypeOK,
                NewestShown, TextureNewest, ClosedBlank
  <2> QED BY <2>1, OpenInv, CloseInv, BgrxInv, YuvInv DEF WindowNext
<1> QED BY WindowInvInit, <1>1, PTL DEF WindowSpec

\* The window, its images and the history keep their types.
THEOREM WindowTypeCorrect == WindowSpec => []WindowTypeOK
BY WindowInvariant, PTL DEF WindowInv

\* The window shows what was submitted last, whatever ways there are and whichever
\* fail, with two exceptions: a frame nothing could show at the time, until OpenGL
\* draws again, and a frame OpenGL has not taken into its texture, once it has drawn
\* again.
THEOREM ShowsNewest == WindowSpec => []NewestShown
BY WindowInvariant, PTL DEF WindowInv
=============================================================================
