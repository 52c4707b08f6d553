-------------------------- MODULE LiveSessionProofs --------------------------
(***************************************************************************)
(* Proofs about an H.264 session, for any number of frames, restarts of    *)
(* the capture and NAL units in flight.                                    *)
(***************************************************************************)
EXTENDS LiveSession, SequenceTheorems,
        FiniteSetTheorems, TLAPS

(***************************************************************************)
(* What the two processes hold.  The ways out of the host differ in what   *)
(* they have to give back: HostHolds says what is held at every step, so   *)
(* that what each way gives back can be seen to be all of it.              *)
(***************************************************************************)
HeldAt == [s \in HostSteps |->
    CASE s = "display" -> {{}}
      [] s = "inputSocket" -> {{"display"}}
      [] s \in {"accept", "capture"} -> {{"display", "inputSocket"}}
      [] s = "encoder" -> {{"display", "inputSocket", "capture"}}
      [] s = "sender" -> {{"display", "inputSocket", "capture", "encoder"}}
      [] s = "serving" -> {HostResources}
      [] s \in {"recovering", "rebinding"} -> {HostResources \ {"capture"}}
      [] s = "closing" -> SUBSET {"display", "inputSocket"}
      [] OTHER -> {{}}]

HostHolds == host \in HostSteps /\ hostHeld \in HeldAt[host]

\* The threads run only between the step that starts them and the joins.
ThreadsRun ==
    /\ inputThread \in BOOLEAN /\ ackThread \in BOOLEAN
    /\ host \in {"display", "inputSocket", "ended"} => inputThread = FALSE
    /\ host \in {"display", "inputSocket", "accept", "capture", "encoder", "sender",
                 "ended"} => ackThread = FALSE

ClientHolds ==
    /\ client \in {"out", "offered", "receiving", "draining", "ended"}
    /\ client \in {"out", "offered"} => clientHeld = {}
    /\ client = "ended" => clientHeld = {} \/ refused = TRUE
    /\ refused \in BOOLEAN

HeldInv == HostHolds /\ ThreadsRun /\ ClientHolds

LEMMA HeldInit == Init => HeldInv
BY DEF Init, HeldInv, HostHolds, HeldAt, HostSteps, ThreadsRun, ClientHolds

\* The host's steps.
LEMMA HostKeepsHeld ==
    ASSUME HeldInv, Host
    PROVE  HostHolds' /\ ThreadsRun'
<1> USE DEF HeldInv, HostHolds, HeldAt, HostSteps, ThreadsRun, HostResources
<1>1. CASE StepSucceeds
  BY <1>1 DEF StepSucceeds, NextStep
<1>2. CASE SenderOpens
  BY <1>2 DEF SenderOpens
<1>3. CASE StepFails
  BY <1>3 DEF StepFails, FailStep, StoppedFirst
<1>4. CASE AcceptFails
  BY <1>4 DEF AcceptFails, FailStep, StoppedFirst
<1>5. CASE AcceptSucceeds
  BY <1>5 DEF AcceptSucceeds, threadVars
<1>6. CASE \E k \in FrameNals : SendFrame(k)
  BY <1>6 DEF SendFrame, threadVars
<1>7. CASE CaptureFails
  BY <1>7 DEF CaptureFails, threadVars
<1>8. CASE Recovers
  BY <1>8 DEF Recovers, threadVars
<1>9. CASE RecoveryEnds
  BY <1>9 DEF RecoveryEnds, StopAndRelease, threadVars
<1>10. CASE LoopEnds
  BY <1>10 DEF LoopEnds, StopAndRelease
<1>11. CASE HostEnds
  BY <1>11 DEF HostEnds, threadVars
<1>12. CASE InputThreadEnds \/ InputThreadFails \/ AckThreadEnds
  BY <1>12 DEF InputThreadEnds, InputThreadFails, AckThreadEnds
<1> QED BY <1>1, <1>2, <1>3, <1>4, <1>5, <1>6, <1>7, <1>8, <1>9, <1>10, <1>11,
           <1>12 DEF Host

LEMMA HostLeavesClient ==
    ASSUME Host
    PROVE  UNCHANGED clientVars
BY DEF Host, StepSucceeds, SenderOpens, StepFails, AcceptFails, FailStep,
       AcceptSucceeds, SendFrame, CaptureFails, Recovers, RecoveryEnds, LoopEnds,
       StopAndRelease, HostEnds, InputThreadEnds, InputThreadFails, AckThreadEnds

\* The client's steps.
LEMMA ClientKeepsHeld ==
    ASSUME HeldInv, Client
    PROVE  ClientHolds'
<1> USE DEF HeldInv, ClientHolds
<1>1. CASE Connect \/ GetReady \/ GetReadyFails
  BY <1>1 DEF Connect, GetReady, GetReadyFails
<1>2. CASE \E k \in DOMAIN net : ReceiveNal(k)
  BY <1>2 DEF ReceiveNal
<1>3. CASE DecodeUnit
  BY <1>3 DEF DecodeUnit
<1>4. ASSUME NEW held, NEW wasRefused \in BOOLEAN, EndsHolding(held, wasRefused),
             held = {} \/ wasRefused = TRUE
      PROVE  ClientHolds'
  BY <1>4 DEF EndsHolding
<1>5. CASE PushRefused \/ ReceiveFails \/ ClientEnds
  BY <1>4, <1>5 DEF PushRefused, ReceiveFails, ClientEnds
<1>6. ASSUME client = "receiving", LeaveLoop
      PROVE  ClientHolds'
  <2>1. CASE Drain
    BY <1>6, <2>1 DEF Drain
  <2> QED BY <1>4, <1>6, <2>1 DEF LeaveLoop
<1>7. CASE StartupTimesOut
  BY <1>4, <1>7 DEF StartupTimesOut
<1>8. CASE ActiveTimesOut \/ EnoughReceived
  BY <1>6, <1>8 DEF ActiveTimesOut, EnoughReceived
<1> QED BY <1>1, <1>2, <1>3, <1>5, <1>7, <1>8 DEF Client

LEMMA ClientLeavesHost ==
    ASSUME Client
    PROVE  UNCHANGED hostVars
BY DEF Client, Connect, GetReady, GetReadyFails, ReceiveNal, DecodeUnit, PushRefused,
       ReceiveFails, StartupTimesOut, ActiveTimesOut, EnoughReceived, ClientEnds,
       EndsHolding, LeaveLoop, Drain

LEMMA HeldNext == HeldInv /\ [Next]_vars => HeldInv'
<1> SUFFICES ASSUME HeldInv, [Next]_vars PROVE HeldInv'
  OBVIOUS
<1>1. CASE Host
  BY <1>1, HostKeepsHeld, HostLeavesClient DEF HeldInv, ClientHolds, clientVars
<1>2. CASE Client
  BY <1>2, ClientKeepsHeld, ClientLeavesHost
     DEF HeldInv, HostHolds, ThreadsRun, hostVars, threadVars
<1>3. CASE RequestStop
  BY <1>3 DEF RequestStop, HeldInv, HostHolds, ThreadsRun, ClientHolds, clientVars
<1>4. CASE \E k \in DOMAIN net : LoseNal(k)
  BY <1>4 DEF LoseNal, HeldInv, HostHolds, ThreadsRun, ClientHolds, hostVars,
              threadVars, clientVars
<1>5. CASE UNCHANGED vars
  BY <1>5 DEF vars, HeldInv, HostHolds, ThreadsRun, ClientHolds, hostVars, threadVars,
              clientVars
<1> QED BY <1>1, <1>2, <1>3, <1>4, <1>5 DEF Next

\* Whichever step fails and whatever ends the session, host and client give back all
\* they held, and the host's threads are joined.
THEOREM NothingHeld == Spec => []EndsWithNothingHeld
<1>1. HeldInv => EndsWithNothingHeld
  BY DEF HeldInv, HostHolds, HeldAt, HostSteps, ThreadsRun, ClientHolds,
         EndsWithNothingHeld
<1> QED BY HeldInit, HeldNext, <1>1, PTL DEF Spec

(***************************************************************************)
(* What is on the way: until the capture is started again a NAL unit's     *)
(* frame id tells its picture, and every access unit, collected or pushed, *)
(* has one frame id.                                                       *)
(***************************************************************************)
GoodNals == {n \in NalUnits : restarts = 0 => n.frameId = n.picture}

GoodUnits == {u \in Seq(GoodNals) :
                 u # << >> /\ \A i, j \in DOMAIN u : u[i].frameId = u[j].frameId}

Decoders == [queue : Seq(GoodUnits), pending : Seq(Nat), last : Nat]

DecoderOK(d) ==
    d \in Decoders /\ Len(d.queue) <= 2 /\ Len(d.pending) <= MaxPendingIds

StreamInv ==
    /\ net \in Seq(GoodNals) /\ Len(net) <= Capacity
    /\ unit \in GoodUnits \cup {<< >>}
    /\ DecoderOK(Decoder)

CountInv ==
    /\ pictures \in 0..MaxPictures /\ latestFrame_ \in 0..pictures
    /\ restarts \in 0..MaxRestarts
    /\ restarts = 0 => latestFrame_ = pictures
    /\ host \in {"recovering", "rebinding"} => restarts < MaxRestarts

\* Units are sequences that are not empty, of NAL units with one frame id.
LEMMA UnitType ==
    ASSUME NEW u \in GoodUnits
    PROVE  /\ u \in Seq(GoodNals) /\ Len(u) \in Nat \ {0}
           /\ u[1] \in GoodNals /\ u[1].frameId \in Nat
           /\ \A i \in 1..Len(u) : u[i] \in GoodNals /\ u[i].frameId = u[1].frameId
<1>1. u \in Seq(GoodNals) /\ Len(u) \in Nat \ {0} /\ DOMAIN u = 1..Len(u)
  BY EmptySeq, LenProperties DEF GoodUnits
<1>2. \A i \in 1..Len(u) : u[i] \in GoodNals
  BY <1>1, ElementOfSeq
<1>3. 1 \in 1..Len(u)
  BY <1>1
<1>4. \A i \in 1..Len(u) : u[i].frameId = u[1].frameId
  BY <1>1, <1>3 DEF GoodUnits
<1> QED BY <1>1, <1>2, <1>3, <1>4 DEF GoodNals, NalUnits

LEMMA SingleUnit ==
    ASSUME NEW n \in GoodNals
    PROVE  <<n>> \in GoodUnits
<1>1. /\ <<n>> \in Seq(GoodNals) /\ <<n>> # << >>
      /\ DOMAIN <<n>> = {1} /\ <<n>>[1] = n
  OBVIOUS
<1> QED BY <1>1 DEF GoodUnits

LEMMA LongerUnit ==
    ASSUME NEW u \in GoodUnits, NEW n \in GoodNals, n.frameId = u[1].frameId
    PROVE  Append(u, n) \in GoodUnits
<1> DEFINE v == Append(u, n)
<1>1. /\ v \in Seq(GoodNals) /\ v # << >> /\ Len(v) = Len(u) + 1
      /\ \A i \in 1..Len(u) : v[i] = u[i]
      /\ v[Len(u) + 1] = n
  BY UnitType, AppendProperties
<1> HIDE DEF v
<1>2. DOMAIN v = 1..(Len(u) + 1)
  <2>1. DOMAIN v = 1..Len(v)
    BY <1>1, LenProperties
  <2> QED BY <2>1, <1>1
<1>3. ASSUME NEW i \in DOMAIN v
      PROVE  v[i].frameId = u[1].frameId
  <2>1. i \in 1..Len(u) \/ i = Len(u) + 1
    BY <1>2, UnitType
  <2> QED BY <2>1, <1>1, UnitType
<1>4. \A i, j \in DOMAIN v : v[i].frameId = v[j].frameId
  BY <1>3
<1>5. v \in GoodUnits
  BY <1>1, <1>4 DEF GoodUnits
<1> QED BY <1>5 DEF v

\* The pipeline's source and the list of ids keep their bounds.
LEMMA PushedUnit ==
    ASSUME NEW d, DecoderOK(d), NEW u \in GoodUnits
    PROVE  DecoderOK(PushUnit(d, u))
<1> DEFINE id == u[1].frameId  ids == Append(d.pending, id)
           queue == Append(d.queue, u)
<1>1. /\ d \in Decoders /\ Len(d.queue) <= 2 /\ Len(d.pending) <= MaxPendingIds
      /\ id \in Nat /\ MaxPendingIds \in Nat \ {0}
  BY UnitType, LiveAssumption DEF DecoderOK
<1>2. /\ d.queue \in Seq(GoodUnits) /\ d.pending \in Seq(Nat) /\ d.last \in Nat
      /\ Len(d.queue) \in Nat /\ Len(d.pending) \in Nat
  BY <1>1, LenProperties DEF Decoders
<1>3a. ids \in Seq(Nat) /\ ids # << >> /\ Len(ids) = Len(d.pending) + 1
  <2> DEFINE q == d.pending
  <2>1. q \in Seq(Nat) /\ id \in Nat
    BY <1>1, <1>2
  <2> HIDE DEF q, id
  <2>2. Append(q, id) \in Seq(Nat) /\ Append(q, id) # << >>
        /\ Len(Append(q, id)) = Len(q) + 1
    BY <2>1, AppendProperties
  <2> QED BY <2>2 DEF q
<1>4a. queue \in Seq(GoodUnits) /\ queue # << >> /\ Len(queue) = Len(d.queue) + 1
  <2> DEFINE q == d.queue
  <2>1. q \in Seq(GoodUnits)
    BY <1>2
  <2> HIDE DEF q
  <2>2. Append(q, u) \in Seq(GoodUnits) /\ Append(q, u) # << >>
        /\ Len(Append(q, u)) = Len(q) + 1
    BY <2>1, AppendProperties
  <2> QED BY <2>2 DEF q
<1> HIDE DEF id, ids, queue
<1>3. /\ ids \in Seq(Nat) /\ Len(ids) = Len(d.pending) + 1
      /\ Tail(ids) \in Seq(Nat) /\ Len(Tail(ids)) = Len(d.pending)
  BY <1>2, <1>3a, HeadTailProperties
<1>4. /\ queue \in Seq(GoodUnits) /\ Len(queue) = Len(d.queue) + 1
      /\ Tail(queue) \in Seq(GoodUnits) /\ Len(Tail(queue)) = Len(d.queue)
  BY <1>2, <1>4a, HeadTailProperties
<1>5. Remember(d, id) = IF d.last = id THEN d
                        ELSE [d EXCEPT !.last = id,
                                       !.pending = IF Len(ids) > MaxPendingIds
                                                   THEN Tail(ids) ELSE ids]
  BY DEF Remember, ids
<1>6. /\ Remember(d, id) \in Decoders /\ Remember(d, id).queue = d.queue
      /\ Len(Remember(d, id).pending) <= MaxPendingIds
  <2>1. CASE d.last = id
    BY <1>1, <1>5, <2>1
  <2>2. CASE d.last # id /\ Len(ids) > MaxPendingIds
    BY <1>1, <1>2, <1>3, <1>5, <2>2 DEF Decoders
  <2>3. CASE d.last # id /\ ~(Len(ids) > MaxPendingIds)
    <3>1. Len(ids) <= MaxPendingIds
      BY <1>1, <1>2, <1>3, <2>3
    <3>2. Remember(d, id) = [d EXCEPT !.last = id, !.pending = ids]
      BY <1>5, <2>3
    <3> QED BY <1>1, <1>3, <3>1, <3>2 DEF Decoders
  <2> QED BY <2>1, <2>2, <2>3
<1>7. PushUnit(d, u) = [Remember(d, id) EXCEPT !.queue = IF Len(queue) > 2
                                                         THEN Tail(queue) ELSE queue]
  BY DEF PushUnit, id, queue
<1>8. CASE Len(queue) > 2
  BY <1>1, <1>2, <1>4, <1>6, <1>7, <1>8 DEF Decoders, DecoderOK
<1>9. CASE ~(Len(queue) > 2)
  <2>1. Len(queue) <= 2
    BY <1>2, <1>4, <1>9
  <2>2. PushUnit(d, u) = [Remember(d, id) EXCEPT !.queue = queue]
    BY <1>7, <1>9
  <2> QED BY <1>4, <1>6, <2>1, <2>2 DEF Decoders, DecoderOK
<1> QED BY <1>8, <1>9

LEMMA TwoUnits ==
    ASSUME NEW a, NEW b
    PROVE  <<a>> \o <<b>> = <<a, b>>
<1> DEFINE S == {a, b}
<1>1. <<a>> \in Seq(S) /\ <<b>> \in Seq(S) /\ <<a, b>> \in Seq(S)
  OBVIOUS
<1>2. /\ Len(<<a>>) = 1 /\ Len(<<b>>) = 1 /\ Len(<<a, b>>) = 2
      /\ <<a>>[1] = a /\ <<b>>[1] = b /\ <<a, b>>[1] = a /\ <<a, b>>[2] = b
  OBVIOUS
<1>3. /\ <<a>> \o <<b>> \in Seq(S) /\ Len(<<a>> \o <<b>>) = 2
      /\ (<<a>> \o <<b>>)[1] = a /\ (<<a>> \o <<b>>)[2] = b
  BY <1>1, <1>2, ConcatProperties
<1> DEFINE s == <<a>> \o <<b>>  t == <<a, b>>
<1>4. /\ s \in Seq(S) /\ t \in Seq(S) /\ Len(s) = 2 /\ Len(t) = 2
      /\ s[1] = t[1] /\ s[2] = t[2]
  BY <1>1, <1>2, <1>3
<1>5. s = t
  <2> HIDE DEF s, t, S
  <2>1. Len(s) = Len(t) /\ \A i \in 1..Len(s) : s[i] = t[i]
    BY <1>4
  <2> QED BY <1>4, <2>1, SeqEqual
<1> QED BY <1>5

\* What a NAL unit closes is pushed in this order.
LEMMA ClosedBy ==
    ASSUME NEW n, NEW d
    PROVE  /\ OfAnotherFrame(n) /\ n.endOfFrame =>
                 PushUnits(d, UnitsClosedBy(n))
                    = PushUnit(PushUnit(d, unit), Collected(n))
           /\ OfAnotherFrame(n) /\ ~n.endOfFrame =>
                 PushUnits(d, UnitsClosedBy(n)) = PushUnit(d, unit)
           /\ ~OfAnotherFrame(n) /\ n.endOfFrame =>
                 PushUnits(d, UnitsClosedBy(n)) = PushUnit(d, Collected(n))
           /\ ~OfAnotherFrame(n) /\ ~n.endOfFrame => PushUnits(d, UnitsClosedBy(n)) = d
<1> DEFINE c == Collected(n)
<1>1. ASSUME OfAnotherFrame(n), n.endOfFrame
      PROVE  PushUnits(d, UnitsClosedBy(n)) = PushUnit(PushUnit(d, unit), c)
  <2>1. UnitsClosedBy(n) = <<unit>> \o <<c>>
    BY <1>1 DEF UnitsClosedBy
  <2>2. <<unit>> \o <<c>> = <<unit, c>>
    BY TwoUnits
  <2> HIDE DEF c
  <2> QED BY <2>1, <2>2 DEF PushUnits
<1>2. ASSUME OfAnotherFrame(n), ~n.endOfFrame
      PROVE  PushUnits(d, UnitsClosedBy(n)) = PushUnit(d, unit)
  <2>1. UnitsClosedBy(n) = <<unit>> \o << >>
    BY <1>2 DEF UnitsClosedBy
  <2>2. <<unit>> \o << >> = <<unit>>
    <3>1. <<unit>> \in Seq({unit})
      OBVIOUS
    <3> QED BY <3>1, ConcatEmptySeq
  <2> QED BY <2>1, <2>2 DEF PushUnits
<1>3. ASSUME ~OfAnotherFrame(n), n.endOfFrame
      PROVE  PushUnits(d, UnitsClosedBy(n)) = PushUnit(d, c)
  <2>1. UnitsClosedBy(n) = <<c>>
    BY <1>3 DEF UnitsClosedBy
  <2> QED BY <2>1 DEF PushUnits
<1>4. ASSUME ~OfAnotherFrame(n), ~n.endOfFrame
      PROVE  PushUnits(d, UnitsClosedBy(n)) = d
  <2>1. UnitsClosedBy(n) = << >>
    BY <1>4 DEF UnitsClosedBy
  <2> QED BY <2>1 DEF PushUnits
<1> QED BY <1>1, <1>2, <1>3, <1>4

\* A NAL unit closes at most two units, and leaves one or none.
LEMMA ReceivedNal ==
    ASSUME NEW n \in GoodNals, unit \in GoodUnits \cup {<< >>}
    PROVE  /\ Collected(n) \in GoodUnits
           /\ \A d : DecoderOK(d) => DecoderOK(PushUnits(d, UnitsClosedBy(n)))
<1>1. Collected(n) \in GoodUnits
  <2>1. CASE unit = << >>
    <3>1. Append(unit, n) = <<n>>
      BY <2>1
    <3> QED BY <3>1, <2>1, SingleUnit DEF Collected, OfAnotherFrame
  <2>2. CASE unit # << >> /\ unit[1].frameId = n.frameId
    BY <2>2, LongerUnit DEF Collected, OfAnotherFrame
  <2>3. CASE unit # << >> /\ unit[1].frameId # n.frameId
    BY <2>3, SingleUnit DEF Collected, OfAnotherFrame
  <2> QED BY <2>1, <2>2, <2>3
<1>2. OfAnotherFrame(n) => unit \in GoodUnits
  BY DEF OfAnotherFrame
<1>3. ASSUME NEW d, DecoderOK(d)
      PROVE  DecoderOK(PushUnits(d, UnitsClosedBy(n)))
  <2>1. CASE OfAnotherFrame(n)
    <3>1. DecoderOK(PushUnit(d, unit))
      BY <1>2, <1>3, <2>1, PushedUnit
    <3>2. DecoderOK(PushUnit(PushUnit(d, unit), Collected(n)))
      BY <1>1, <3>1, PushedUnit
    <3> QED BY <2>1, <3>1, <3>2, ClosedBy
  <2>2. CASE ~OfAnotherFrame(n)
    <3>1. DecoderOK(PushUnit(d, Collected(n)))
      BY <1>1, <1>3, PushedUnit
    <3> QED BY <1>3, <2>2, <3>1, ClosedBy
  <2> QED BY <2>1, <2>2
<1> QED BY <1>1, <1>3

\* A sequence without one of its elements.
LEMMA Without ==
    ASSUME NEW S, NEW s \in Seq(S), NEW k \in DOMAIN s
    PROVE  /\ SubSeq(s, 1, k - 1) \o SubSeq(s, k + 1, Len(s)) \in Seq(S)
           /\ Len(SubSeq(s, 1, k - 1) \o SubSeq(s, k + 1, Len(s))) <= Len(s)
<1>1. Len(s) \in Nat /\ k \in 1..Len(s) /\ \A i \in 1..Len(s) : s[i] \in S
  BY LenProperties, ElementOfSeq
<1>2. /\ SubSeq(s, 1, k - 1) \in Seq(S)
      /\ Len(SubSeq(s, 1, k - 1)) = IF 1 <= k - 1 THEN k - 1 ELSE 0
  BY <1>1, SubSeqProperties
<1>3. /\ SubSeq(s, k + 1, Len(s)) \in Seq(S)
      /\ Len(SubSeq(s, k + 1, Len(s))) = IF k + 1 <= Len(s) THEN Len(s) - k ELSE 0
  BY <1>1, SubSeqProperties
<1> QED BY <1>1, <1>2, <1>3, ConcatProperties

\* The ids that are left after a frame was rendered.
LEMMA LeftIds ==
    ASSUME pendingFrameIds_ \in Seq(Nat), NEW u
    PROVE  /\ LeftFrameIds(u) \in Seq(Nat)
           /\ Len(LeftFrameIds(u)) <= Len(pendingFrameIds_)
<1> DEFINE ids == pendingFrameIds_
           old == {i \in DOMAIN ids : \A j \in 1..i : ids[j] <= u[1].frameId}
<1>1. Len(ids) \in Nat /\ DOMAIN ids = 1..Len(ids) /\ \A i \in 1..Len(ids) : ids[i] \in Nat
  BY LenProperties, ElementOfSeq
<1>2. << >> \in Seq(Nat) /\ Len(<< >>) = 0
  BY EmptySeq
<1>3. Cardinality(old) \in Nat
  <2>1. IsFiniteSet(1..Len(ids))
    BY <1>1, FS_Interval
  <2>2. old \subseteq 1..Len(ids)
    BY <1>1
  <2> HIDE DEF old
  <2>3. IsFiniteSet(old)
    BY <2>1, <2>2, FS_Subset
  <2> QED BY <2>3, FS_CardinalityType
<1>4. CASE ByTimestamp(u)
  <2>1. LeftFrameIds(u) = SubSeq(ids, Cardinality(old) + 1, Len(ids))
    BY <1>4 DEF LeftFrameIds, DropUpTo
  <2> HIDE DEF old
  <2>2. \A i \in (Cardinality(old) + 1)..Len(ids) : ids[i] \in Nat
    BY <1>1, <1>3
  <2>3. /\ SubSeq(ids, Cardinality(old) + 1, Len(ids)) \in Seq(Nat)
        /\ Len(SubSeq(ids, Cardinality(old) + 1, Len(ids)))
              = IF Cardinality(old) + 1 <= Len(ids) THEN Len(ids) - Cardinality(old)
                ELSE 0
    BY <1>1, <1>3, <2>2, SubSeqProperties
  <2> QED BY <2>1, <2>3, <1>1, <1>3
<1>5. CASE ~ByTimestamp(u) /\ ids # << >>
  <2>1. LeftFrameIds(u) = Tail(ids)
    BY <1>5 DEF LeftFrameIds
  <2> QED BY <2>1, <1>1, <1>5, HeadTailProperties
<1>6. CASE ~ByTimestamp(u) /\ ids = << >>
  <2>1. LeftFrameIds(u) = << >>
    BY <1>6 DEF LeftFrameIds
  <2> QED BY <2>1, <1>1, <1>2
<1> QED BY <1>4, <1>5, <1>6
(***************************************************************************)
(* The steps.                                                              *)
(***************************************************************************)
FlagInv ==
    /\ stopInput \in BOOLEAN /\ stopEvent \in BOOLEAN /\ receivedFrames \in BOOLEAN
    /\ ordered \in BOOLEAN /\ ptsKept \in BOOLEAN
    /\ clientHeld \subseteq ClientResources
    /\ idleTimeouts \in 0..(StartupTimeouts - 1)

\* Frame ids are told from pictures until the capture is started again, and then no
\* more: nothing that is on the way gets worse.
LEMMA Regrown ==
    ASSUME restarts' = restarts \/ restarts' # 0
    PROVE  /\ GoodNals \subseteq GoodNals'
           /\ Seq(GoodNals) \subseteq Seq(GoodNals')
           /\ GoodUnits \subseteq GoodUnits'
           /\ \A d : DecoderOK(d) => DecoderOK(d)'
<1>1. GoodNals \subseteq GoodNals'
  BY DEF GoodNals
<1>2. Seq(GoodNals) \subseteq Seq(GoodNals')
  BY <1>1, SeqMonotonic
<1>3. GoodUnits \subseteq GoodUnits'
  BY <1>2 DEF GoodUnits
<1>4. Seq(GoodUnits) \subseteq Seq(GoodUnits')
  BY <1>3, SeqMonotonic
<1>5. ASSUME NEW d, DecoderOK(d)
      PROVE  DecoderOK(d)'
  <2>1. d \in [queue : Seq(GoodUnits), pending : Seq(Nat), last : Nat]
    BY <1>5 DEF DecoderOK, Decoders
  <2>2. d \in [queue : Seq(GoodUnits'), pending : Seq(Nat), last : Nat]
    BY <1>4, <2>1
  <2> QED BY <1>5, <2>2 DEF DecoderOK, Decoders
<1> QED BY <1>1, <1>2, <1>3, <1>5

\* A step that leaves the client's part.
LEMMA StreamKept ==
    ASSUME StreamInv, restarts' = restarts \/ restarts' # 0,
           UNCHANGED <<unit, decoderVars>>,
           net' \in Seq(GoodNals), Len(net') <= Capacity
    PROVE  StreamInv'
<1>1. Decoder' = Decoder
  BY DEF Decoder, decoderVars
<1>2. DecoderOK(Decoder)'
  BY <1>1, Regrown DEF StreamInv
<1>3. net' \in Seq(GoodNals') /\ unit' \in GoodUnits' \cup {<< >>}
  BY Regrown DEF StreamInv
<1> QED BY <1>2, <1>3 DEF StreamInv

\* What SetDecoder sets.
LEMMA DecoderSet ==
    ASSUME NEW d, DecoderOK(d), restarts' = restarts,
           SetDecoder(d), net' \in Seq(GoodNals), Len(net') <= Capacity,
           unit' \in GoodUnits \cup {<< >>}
    PROVE  StreamInv'
<1>1. d = [queue |-> d.queue, pending |-> d.pending, last |-> d.last]
  BY DEF DecoderOK, Decoders
<1>2. Decoder' = d
  BY <1>1 DEF Decoder, SetDecoder
<1>3. DecoderOK(d)' /\ Seq(GoodNals) \subseteq Seq(GoodNals')
      /\ GoodUnits \subseteq GoodUnits'
  BY Regrown
<1>4. DecoderOK(Decoder)'
  BY <1>2, <1>3
<1> QED BY <1>3, <1>4 DEF StreamInv

\* A range has one upper bound.
LEMMA SameBound ==
    ASSUME NEW m \in Nat, NEW n \in Nat, m >= 1, 1..m = 1..n
    PROVE  m = n
<1>1. m \in 1..n
  <2>1. m \in 1..m
    OBVIOUS
  <2> QED BY <2>1
<1>2. n \in 1..m
  <2>1. n \in 1..n
    BY <1>1
  <2> QED BY <2>1
<1> QED BY <1>1, <1>2

\* The NAL units of a frame, and what is in flight with them.
LEMMA SentNals ==
    ASSUME CountInv, StreamInv, NEW k \in FrameNals, Len(net) + k <= Capacity
    PROVE  LET sentNals == [i \in 1..k |-> [frameId |-> latestFrame_ + 1,
                                            picture |-> pictures + 1,
                                            endOfFrame |-> i = k]]
           IN  /\ net \o sentNals \in Seq(GoodNals)
               /\ Len(net \o sentNals) <= Capacity
<1> DEFINE nal(i) == [frameId |-> latestFrame_ + 1, picture |-> pictures + 1,
                      endOfFrame |-> i = k]
           sentNals == [i \in 1..k |-> nal(i)]
<1>1. k \in Nat /\ Len(net) \in Nat /\ net \in Seq(GoodNals) /\ Capacity \in Nat
  BY LenProperties, LiveAssumption DEF FrameNals, StreamInv
<1>2. \A i \in 1..k : nal(i) \in GoodNals
  BY LiveAssumption DEF CountInv, GoodNals, NalUnits
<1>3. sentNals \in Seq(GoodNals) /\ Len(sentNals) = k
  <2> HIDE DEF nal
  <2>1. sentNals \in [1..k -> GoodNals]
    BY <1>2
  <2>2. sentNals \in Seq(GoodNals)
    BY <1>1, <2>1, SeqDef
  <2>3. DOMAIN sentNals = 1..k
    OBVIOUS
  <2> HIDE DEF sentNals
  <2>4. DOMAIN sentNals = 1..Len(sentNals) /\ Len(sentNals) \in Nat
    BY <2>2, LenProperties
  <2>5. Len(sentNals) = k
    <3>1. 1..k = 1..Len(sentNals)
      BY <2>3, <2>4
    <3>2. k >= 1
      BY DEF FrameNals
    <3> QED BY <1>1, <2>4, <3>1, <3>2, SameBound, Zenon
  <2> QED BY <2>2, <2>5
<1>4. net \o sentNals \in Seq(GoodNals) /\ Len(net \o sentNals) = Len(net) + k
  <2> HIDE DEF sentNals
  <2> QED BY <1>1, <1>3, ConcatProperties
<1> QED BY <1>1, <1>4

\* The host's steps.
LEMMA HostKeepsCounts ==
    ASSUME CountInv, Host
    PROVE  CountInv' /\ (restarts' = restarts \/ restarts' # 0)
<1> USE LiveAssumption DEF CountInv
<1>1. CASE StepSucceeds
  BY <1>1 DEF StepSucceeds, captureVars, NextStep
<1>2. CASE SenderOpens \/ StepFails \/ AcceptFails \/ AcceptSucceeds
  BY <1>2 DEF SenderOpens, StepFails, AcceptFails, FailStep, AcceptSucceeds,
              captureVars
<1>3. CASE \E k \in FrameNals : SendFrame(k)
  BY <1>3 DEF SendFrame
<1>4. CASE CaptureFails
  BY <1>4 DEF CaptureFails, captureVars
<1>5. CASE Recovers
  BY <1>5 DEF Recovers
<1>6. CASE RecoveryEnds
  BY <1>6 DEF RecoveryEnds, StopAndRelease, captureVars
<1>7. CASE LoopEnds \/ HostEnds
  BY <1>7 DEF LoopEnds, StopAndRelease, HostEnds, captureVars
<1>8. CASE InputThreadEnds \/ InputThreadFails \/ AckThreadEnds
  BY <1>8 DEF InputThreadEnds, InputThreadFails, AckThreadEnds, captureVars
<1> QED BY <1>1, <1>2, <1>3, <1>4, <1>5, <1>6, <1>7, <1>8 DEF Host

LEMMA HostKeepsStream ==
    ASSUME CountInv, StreamInv, Host
    PROVE  StreamInv'
<1>1. UNCHANGED <<unit, decoderVars>>
  BY HostLeavesClient DEF clientVars
<1>2. net' \in Seq(GoodNals) /\ Len(net') <= Capacity
  <2>1. ASSUME NEW k \in FrameNals, SendFrame(k)
        PROVE  net' \in Seq(GoodNals) /\ Len(net') <= Capacity
    <3>1. CASE "receiver" \notin clientHeld
      BY <2>1, <3>1 DEF SendFrame, StreamInv
    <3>2. CASE "receiver" \in clientHeld
      BY <2>1, <3>2, SentNals DEF SendFrame
    <3> QED BY <3>1, <3>2
  <2>2. (\E k \in FrameNals : SendFrame(k)) \/ net' = net
    BY DEF Host, StepSucceeds, SenderOpens, StepFails, AcceptFails, FailStep,
           AcceptSucceeds, CaptureFails, Recovers, RecoveryEnds, LoopEnds,
           StopAndRelease, HostEnds, InputThreadEnds, InputThreadFails, AckThreadEnds
  <2> QED BY <2>1, <2>2 DEF StreamInv
<1> QED BY <1>1, <1>2, HostKeepsCounts, StreamKept

LEMMA HostKeepsFlags ==
    ASSUME FlagInv, Host
    PROVE  FlagInv'
<1>1. UNCHANGED clientVars
  BY HostLeavesClient
<1>2. UNCHANGED fixedVars /\ stopEvent' = stopEvent
      /\ (stopInput' = stopInput \/ stopInput' = TRUE)
  BY DEF Host, StepSucceeds, SenderOpens, StepFails, AcceptFails, FailStep,
         AcceptSucceeds, SendFrame, CaptureFails, Recovers, RecoveryEnds, LoopEnds,
         StopAndRelease, HostEnds, InputThreadEnds, InputThreadFails, AckThreadEnds,
         threadVars
<1> QED BY <1>1, <1>2 DEF FlagInv, clientVars, fixedVars

\* The client's steps.
LEMMA EndKeepsStream ==
    ASSUME StreamInv, NEW held, NEW wasRefused, EndsHolding(held, wasRefused)
    PROVE  StreamInv'
<1> DEFINE d == [queue |-> << >>, pending |-> << >>, last |-> 0]
<1>1. << >> \in Seq(GoodNals) /\ << >> \in Seq(GoodUnits) /\ << >> \in Seq(Nat)
      /\ Len(<< >>) = 0
  BY EmptySeq
<1>2. DecoderOK(d)
  BY <1>1, LiveAssumption DEF DecoderOK, Decoders
<1>3. SetDecoder(d) /\ net' = << >> /\ unit' = << >> /\ restarts' = restarts
  BY DEF EndsHolding, hostVars, captureVars
<1> HIDE DEF d
<1> QED BY <1>1, <1>2, <1>3, DecoderSet, LiveAssumption

LEMMA ReceiveKeepsStream ==
    ASSUME StreamInv, NEW k \in DOMAIN net, ReceiveNal(k)
    PROVE  StreamInv'
<1> DEFINE n == net[k]  d == PushUnits(Decoder, UnitsClosedBy(n))
<1>1. n \in GoodNals
  <2>1. net \in Seq(GoodNals) /\ DOMAIN net = 1..Len(net)
    BY LenProperties DEF StreamInv
  <2> QED BY <2>1, ElementOfSeq
<1>2. Collected(n) \in GoodUnits /\ DecoderOK(d)
  <2> HIDE DEF n
  <2> QED BY <1>1, ReceivedNal DEF StreamInv
<1>3. net' \in Seq(GoodNals) /\ Len(net') <= Capacity
  <2>1. net \in Seq(GoodNals) /\ Len(net) <= Capacity /\ Len(net) \in Nat
    BY LenProperties DEF StreamInv
  <2>2. net' \in Seq(GoodNals) /\ Len(net') <= Len(net)
    BY <2>1, Without DEF ReceiveNal
  <2>3. Len(net') \in Nat
    BY <2>2, LenProperties
  <2> QED BY <2>1, <2>2, <2>3, LiveAssumption
<1>4. /\ SetDecoder(d) /\ restarts' = restarts
      /\ unit' = IF n.endOfFrame THEN << >> ELSE Collected(n)
  BY DEF ReceiveNal, hostVars, captureVars
<1> HIDE DEF n, d
<1> QED BY <1>2, <1>3, <1>4, DecoderSet

LEMMA DecodeKeepsStream ==
    ASSUME StreamInv, DecodeUnit
    PROVE  StreamInv'
<1> DEFINE u == Head(appsrc)
           d == [queue |-> appsrc', pending |-> pendingFrameIds_',
                 last |-> lastQueuedFrameId_']
<1>1. /\ appsrc \in Seq(GoodUnits) /\ Len(appsrc) <= 2 /\ Len(appsrc) \in Nat
      /\ pendingFrameIds_ \in Seq(Nat) /\ Len(pendingFrameIds_) <= MaxPendingIds
      /\ lastQueuedFrameId_ \in Nat
  BY LenProperties DEF StreamInv, DecoderOK, Decoders, Decoder
<1>2. appsrc' \in Seq(GoodUnits) /\ Len(appsrc') <= 2
  <2>1. appsrc # << >> /\ appsrc' = Tail(appsrc)
    BY DEF DecodeUnit
  <2>2. Tail(appsrc) \in Seq(GoodUnits) /\ Len(Tail(appsrc)) = Len(appsrc) - 1
    BY <1>1, <2>1, HeadTailProperties
  <2> QED BY <1>1, <2>1, <2>2
<1>3. pendingFrameIds_' \in Seq(Nat) /\ Len(pendingFrameIds_') <= MaxPendingIds
  <2>1. CASE pendingFrameIds_' = LeftFrameIds(u)
    <3>1. LeftFrameIds(u) \in Seq(Nat)
          /\ Len(LeftFrameIds(u)) <= Len(pendingFrameIds_)
      BY <1>1, LeftIds
    <3>2. Len(LeftFrameIds(u)) \in Nat /\ Len(pendingFrameIds_) \in Nat
      BY <1>1, <3>1, LenProperties
    <3> QED BY <1>1, <2>1, <3>1, <3>2, LiveAssumption
  <2>2. CASE pendingFrameIds_' = pendingFrameIds_
    BY <1>1, <2>2
  <2> QED BY <2>1, <2>2 DEF DecodeUnit
<1>4. lastQueuedFrameId_' = lastQueuedFrameId_ /\ restarts' = restarts
      /\ net' = net /\ unit' = unit
  BY DEF DecodeUnit, hostVars, captureVars
<1>5. DecoderOK(d)
  BY <1>1, <1>2, <1>3, <1>4 DEF DecoderOK, Decoders
<1>6. SetDecoder(d)
  BY DEF SetDecoder
<1> HIDE DEF d
<1> QED BY <1>4, <1>5, <1>6, DecoderSet DEF StreamInv

LEMMA DrainKeepsStream ==
    ASSUME StreamInv, Drain
    PROVE  StreamInv'
<1> DEFINE d == IF unit = << >> THEN Decoder ELSE PushUnit(Decoder, unit)
<1>1. << >> \in Seq(GoodNals) /\ Len(<< >>) = 0
  BY EmptySeq
<1>2. DecoderOK(d)
  <2>1. CASE unit = << >>
    BY <2>1 DEF StreamInv
  <2>2. CASE unit # << >>
    BY <2>2, PushedUnit DEF StreamInv
  <2> QED BY <2>1, <2>2
<1>3. SetDecoder(d) /\ net' = << >> /\ unit' = << >> /\ restarts' = restarts
  BY DEF Drain, hostVars, captureVars
<1> HIDE DEF d
<1> QED BY <1>1, <1>2, <1>3, DecoderSet, LiveAssumption

LEMMA ClientKeepsStream ==
    ASSUME StreamInv, Client
    PROVE  StreamInv'
<1>1. restarts' = restarts
  BY ClientLeavesHost DEF hostVars, captureVars
<1>2. CASE net' = net /\ UNCHANGED <<unit, decoderVars>>
  BY <1>1, <1>2, StreamKept DEF StreamInv
<1>3. CASE Connect \/ GetReady \/ GetReadyFails
  BY <1>2, <1>3 DEF Connect, GetReady, GetReadyFails
<1>4. CASE \E k \in DOMAIN net : ReceiveNal(k)
  BY <1>4, ReceiveKeepsStream
<1>5. CASE DecodeUnit
  BY <1>5, DecodeKeepsStream
<1>6. CASE PushRefused \/ ReceiveFails \/ ClientEnds
  BY <1>6, EndKeepsStream DEF PushRefused, ReceiveFails, ClientEnds
<1>7. CASE StartupTimesOut
  BY <1>2, <1>7, EndKeepsStream DEF StartupTimesOut
<1>8. CASE ActiveTimesOut \/ EnoughReceived
  BY <1>8, EndKeepsStream, DrainKeepsStream
     DEF ActiveTimesOut, EnoughReceived, LeaveLoop
<1> QED BY <1>3, <1>4, <1>5, <1>6, <1>7, <1>8 DEF Client

LEMMA ClientKeepsFlags ==
    ASSUME FlagInv, Client
    PROVE  FlagInv'
<1> USE LiveAssumption DEF FlagInv, ClientResources
<1>1. stopInput' = stopInput /\ stopEvent' = stopEvent
  BY ClientLeavesHost DEF hostVars, threadVars
<1>2. UNCHANGED fixedVars
  BY DEF Client, Connect, GetReady, GetReadyFails, ReceiveNal, DecodeUnit, PushRefused,
         ReceiveFails, StartupTimesOut, ActiveTimesOut, EnoughReceived, ClientEnds,
         EndsHolding, LeaveLoop, Drain
<1>3. CASE Connect \/ GetReady \/ GetReadyFails
  BY <1>1, <1>2, <1>3 DEF Connect, GetReady, GetReadyFails, fixedVars
<1>4. CASE \E k \in DOMAIN net : ReceiveNal(k)
  BY <1>1, <1>2, <1>4 DEF ReceiveNal, fixedVars
<1>5. CASE DecodeUnit
  BY <1>1, <1>2, <1>5 DEF DecodeUnit, fixedVars
<1>6. ASSUME NEW held \in SUBSET ClientResources, NEW wasRefused,
             EndsHolding(held, wasRefused)
      PROVE  FlagInv'
  <2>1. receivedFrames' = FALSE /\ idleTimeouts' = 0 /\ clientHeld' = held
    BY <1>6 DEF EndsHolding
  <2>2. 0 \in 0..(StartupTimeouts - 1)
    OBVIOUS
  <2>3. held \subseteq ClientResources
    BY <1>6
  <2> QED BY <1>1, <1>2, <2>1, <2>2, <2>3 DEF fixedVars
<1>7. CASE PushRefused \/ ReceiveFails \/ ClientEnds
  BY <1>6, <1>7 DEF PushRefused, ReceiveFails, ClientEnds
<1>8. CASE StartupTimesOut
  <2>1. CASE EndsHolding({}, FALSE)
    BY <1>6, <2>1
  <2>2. CASE idleTimeouts' = idleTimeouts + 1 /\ idleTimeouts + 1 < StartupTimeouts
             /\ clientHeld' = clientHeld /\ receivedFrames' = receivedFrames
    BY <1>1, <1>2, <2>2 DEF fixedVars
  <2> QED BY <1>8, <2>1, <2>2 DEF StartupTimesOut, TimeoutsSoFar
<1>9. CASE ActiveTimesOut \/ EnoughReceived
  <2>1. CASE Drain
    BY <1>1, <1>2, <2>1 DEF Drain, fixedVars
  <2> QED BY <1>6, <1>9, <2>1 DEF ActiveTimesOut, EnoughReceived, LeaveLoop
<1> QED BY <1>3, <1>4, <1>5, <1>7, <1>8, <1>9 DEF Client

(***************************************************************************)
(* The invariant and what follows from it.                                 *)
(***************************************************************************)
LiveInv == HeldInv /\ CountInv /\ StreamInv /\ FlagInv

LEMMA LiveInit == Init => LiveInv
<1> SUFFICES ASSUME Init PROVE LiveInv
  OBVIOUS
<1> USE LiveAssumption DEF Init
<1>1. CountInv
  BY DEF CountInv
<1>2. FlagInv
  <2>1. 0 \in 0..(StartupTimeouts - 1) /\ {} \subseteq ClientResources
    OBVIOUS
  <2> QED BY <2>1 DEF FlagInv
<1>3. << >> \in Seq(GoodNals) /\ << >> \in Seq(GoodUnits) /\ << >> \in Seq(Nat)
      /\ Len(<< >>) = 0
  BY EmptySeq
<1>4. StreamInv
  BY <1>3 DEF StreamInv, DecoderOK, Decoders, Decoder
<1> QED BY <1>1, <1>2, <1>4, HeldInit DEF LiveInv

LEMMA LiveNext == LiveInv /\ [Next]_vars => LiveInv'
<1> SUFFICES ASSUME LiveInv, [Next]_vars
             PROVE  CountInv' /\ StreamInv' /\ FlagInv'
  BY HeldNext DEF LiveInv
<1> USE DEF LiveInv
<1>1. CASE Host
  BY <1>1, HostKeepsCounts, HostKeepsStream, HostKeepsFlags
<1>2. CASE Client
  <2>1. CountInv'
    BY <1>2, ClientLeavesHost DEF hostVars, captureVars, CountInv
  <2> QED BY <1>2, <2>1, ClientKeepsStream, ClientKeepsFlags
<1>3. CASE \E k \in DOMAIN net : LoseNal(k)
  <2> PICK k \in DOMAIN net : LoseNal(k)
    BY <1>3
  <2>1. CountInv' /\ FlagInv'
    BY DEF LoseNal, CountInv, FlagInv, hostVars, captureVars, threadVars, clientVars,
           fixedVars
  <2>2. net \in Seq(GoodNals) /\ Len(net) <= Capacity /\ Len(net) \in Nat
    BY LenProperties DEF StreamInv
  <2>3. net' \in Seq(GoodNals) /\ Len(net') <= Len(net)
    BY <2>2, Without DEF LoseNal
  <2>4. Len(net') \in Nat
    BY <2>3, LenProperties
  <2>5. Len(net') <= Capacity
    BY <2>2, <2>3, <2>4, LiveAssumption
  <2>6. UNCHANGED <<unit, decoderVars, restarts>>
    BY DEF LoseNal, clientVars, hostVars, captureVars
  <2> QED BY <2>1, <2>3, <2>5, <2>6, StreamKept
<1>4. CASE RequestStop \/ UNCHANGED vars
  <2>1. UNCHANGED <<captureVars, host, net, clientVars, fixedVars, stopInput>>
        /\ (stopEvent' = TRUE \/ stopEvent' = stopEvent)
    BY <1>4 DEF RequestStop, vars, hostVars, threadVars
  <2>2. CountInv' /\ FlagInv'
    BY <2>1 DEF CountInv, FlagInv, captureVars, clientVars, fixedVars
  <2>3. UNCHANGED <<unit, decoderVars, restarts, net>>
    BY <2>1 DEF captureVars, clientVars
  <2> QED BY <2>2, <2>3, StreamKept DEF StreamInv
<1> QED BY <1>1, <1>2, <1>3, <1>4 DEF Next

LEMMA LiveInvariance == Spec => []LiveInv
BY LiveInit, LiveNext, PTL DEF Spec

\* Every variable of the host, the client and the decoder keeps its type: the queue
\* of the pipeline and the list of frame ids their bounds, the sequence of NAL units
\* on the way its own.
THEOREM TypeCorrect == Spec => []TypeOK
<1>1. LiveInv => TypeOK
  <2> SUFFICES ASSUME LiveInv PROVE TypeOK
    OBVIOUS
  <2>1. /\ host \in HostSteps /\ hostHeld \subseteq HostResources
        /\ {inputThread, ackThread, stopInput, stopEvent} \subseteq BOOLEAN
    BY DEF LiveInv, HeldInv, HostHolds, HeldAt, HostSteps, HostResources, ThreadsRun,
           FlagInv
  <2>2. /\ client \in {"out", "offered", "receiving", "draining", "ended"}
        /\ clientHeld \subseteq ClientResources
        /\ receivedFrames \in BOOLEAN /\ idleTimeouts \in 0..(StartupTimeouts - 1)
        /\ {ordered, ptsKept, refused} \subseteq BOOLEAN
    BY DEF LiveInv, HeldInv, ClientHolds, FlagInv
  <2>3. GoodNals \subseteq NalUnits
    BY DEF GoodNals
  <2>4. Seq(GoodNals) \subseteq Seq(NalUnits)
    BY <2>3, SeqMonotonic
  <2>5. GoodUnits \subseteq Seq(NalUnits)
    BY <2>4 DEF GoodUnits
  <2>6. Seq(GoodUnits) \subseteq Seq(Seq(NalUnits))
    BY <2>5, SeqMonotonic
  <2>7. << >> \in Seq(NalUnits)
    BY EmptySeq
  <2>8. net \in Seq(NalUnits) /\ Len(net) <= Capacity /\ unit \in Seq(NalUnits)
    BY <2>4, <2>5, <2>7 DEF LiveInv, StreamInv
  <2>9. /\ appsrc \in Seq(Seq(NalUnits)) /\ Len(appsrc) <= 2
        /\ Len(pendingFrameIds_) <= MaxPendingIds /\ lastQueuedFrameId_ \in Nat
    BY <2>6 DEF LiveInv, StreamInv, DecoderOK, Decoders, Decoder
  <2> QED BY <2>1, <2>2, <2>8, <2>9 DEF LiveInv, CountInv, TypeOK
<1> QED BY <1>1, LiveInvariance, PTL

\* However NAL units are lost or overtake each other, an access unit never holds
\* parts of two pictures, until the capture is started again.
THEOREM UnitsOfOnePicture == Spec => []UnitOfOnePicture
<1>1. LiveInv => UnitOfOnePicture
  <2> SUFFICES ASSUME LiveInv, restarts = 0,
                      NEW u \in Units, NEW i \in DOMAIN u, NEW j \in DOMAIN u
               PROVE  u[i].picture = u[j].picture
    BY DEF UnitOfOnePicture
  <2>1. \A v \in GoodUnits \cup {<< >>} : \A x, y \in DOMAIN v :
            v[x].picture = v[y].picture
    <3>1. ASSUME NEW v \in GoodUnits, NEW x \in DOMAIN v, NEW y \in DOMAIN v
          PROVE  v[x].picture = v[y].picture
      <4>1. v \in Seq(GoodNals) /\ v[x].frameId = v[y].frameId
        BY <3>1 DEF GoodUnits
      <4>2. x \in 1..Len(v) /\ y \in 1..Len(v)
        BY <4>1, LenProperties
      <4>3. v[x] \in GoodNals /\ v[y] \in GoodNals
        BY <4>1, <4>2, ElementOfSeq
      <4> QED BY <4>1, <4>3 DEF GoodNals
    <3> QED BY <3>1
  <2>2. u \in GoodUnits \cup {<< >>}
    <3>1. appsrc \in Seq(GoodUnits) /\ unit \in GoodUnits \cup {<< >>}
      BY DEF LiveInv, StreamInv, DecoderOK, Decoders, Decoder
    <3>2. DOMAIN appsrc = 1..Len(appsrc)
      BY <3>1, LenProperties
    <3>3. \A k \in DOMAIN appsrc : appsrc[k] \in GoodUnits
      BY <3>1, <3>2, ElementOfSeq
    <3> QED BY <3>1, <3>3 DEF Units
  <2> QED BY <2>1, <2>2
<1> QED BY <1>1, LiveInvariance, PTL

(***************************************************************************)
(* Acknowledgements.  While NAL units come in order and frame ids are not  *)
(* used twice, ids grow along the way of a frame: what the pipeline holds, *)
(* what was pushed last, the unit that is collected, what is in flight.    *)
(* Where the pipeline does not keep time stamps the acknowledgement is the *)
(* oldest id that was not taken; it is not newer than the frame because    *)
(* the ids that were pushed last are those of the units in the pipeline,   *)
(* as long as more ids are kept than units.                                *)
(***************************************************************************)
AcksMatch(queue, pending, last) ==
    /\ \A i \in 1..Len(queue) : queue[i][1].frameId <= last
    /\ ~ptsKept =>
        /\ Len(queue) <= Len(pending)
        /\ \A i \in 1..Len(queue) :
              pending[Len(pending) - Len(queue) + i] = queue[i][1].frameId
        /\ \A i, j \in 1..Len(pending) : i < j => pending[i] < pending[j]
        /\ \A i \in 1..Len(pending) : pending[i] <= last

NalsAhead(nals, last, latest) ==
    /\ \A i \in 1..Len(nals) : last < nals[i].frameId /\ nals[i].frameId <= latest
    /\ \A i, j \in 1..Len(nals) :
          i < j => \/ nals[i].frameId < nals[j].frameId
                   \/ nals[i].frameId = nals[j].frameId /\ ~nals[i].endOfFrame

UnitBetween(u, nals, last, latest) ==
    u # << >> =>
        /\ last < u[1].frameId /\ u[1].frameId <= latest
        /\ \A i \in 1..Len(nals) : u[1].frameId <= nals[i].frameId

IdsGrow ==
    /\ lastQueuedFrameId_ <= latestFrame_
    /\ NalsAhead(net, lastQueuedFrameId_, latestFrame_)
    /\ UnitBetween(unit, net, lastQueuedFrameId_, latestFrame_)
    /\ AcksMatch(appsrc, pendingFrameIds_, lastQueuedFrameId_)

AckInv == AckNamesRendered /\ (ordered /\ restarts = 0 => IdsGrow)

\* An element at the end, and the first one gone.
LEMMA AppendedAt ==
    ASSUME NEW S, NEW s \in Seq(S), NEW x \in S
    PROVE  /\ Append(s, x) \in Seq(S) /\ Append(s, x) # << >>
           /\ Len(s) \in Nat /\ Len(Append(s, x)) = Len(s) + 1
           /\ \A i \in 1..Len(s) : Append(s, x)[i] = s[i]
           /\ Append(s, x)[Len(s) + 1] = x
BY AppendProperties, LenProperties

LEMMA TailAt ==
    ASSUME NEW S, NEW s \in Seq(S), s # << >>
    PROVE  /\ Tail(s) \in Seq(S) /\ Len(s) \in Nat \ {0} /\ Len(Tail(s)) = Len(s) - 1
           /\ \A i \in 1..Len(Tail(s)) : Tail(s)[i] = s[i + 1]
           /\ Head(s) = s[1]
<1>1. Len(s) \in Nat \ {0}
  BY LenProperties, EmptySeq
<1> QED BY <1>1, HeadTailProperties

\* A sequence without one of its elements, element by element.
LEMMA WithoutAt ==
    ASSUME NEW S, NEW s \in Seq(S), NEW k \in DOMAIN s
    PROVE  LET t == SubSeq(s, 1, k - 1) \o SubSeq(s, k + 1, Len(s))
           IN  /\ Len(s) \in Nat \ {0} /\ k \in 1..Len(s) /\ Len(t) = Len(s) - 1
               /\ \A i \in 1..Len(t) : t[i] = IF i < k THEN s[i] ELSE s[i + 1]
<1> DEFINE a == SubSeq(s, 1, k - 1)  b == SubSeq(s, k + 1, Len(s))
<1>1. Len(s) \in Nat \ {0} /\ k \in 1..Len(s) /\ \A i \in 1..Len(s) : s[i] \in S
  BY LenProperties, ElementOfSeq
<1>2. /\ a \in Seq(S) /\ Len(a) = k - 1 /\ \A i \in 1..Len(a) : a[i] = s[i]
  <2>1. /\ a \in Seq(S) /\ Len(a) = IF 1 <= k - 1 THEN k - 1 - 1 + 1 ELSE 0
        /\ \A i \in 1..(k - 1 - 1 + 1) : a[i] = s[1 + i - 1]
    BY <1>1, SubSeqProperties
  <2> HIDE DEF a
  <2> QED BY <1>1, <2>1
<1>3. /\ b \in Seq(S) /\ Len(b) = Len(s) - k
      /\ \A i \in 1..Len(b) : b[i] = s[k + i]
  <2>1. /\ b \in Seq(S)
        /\ Len(b) = IF k + 1 <= Len(s) THEN Len(s) - (k + 1) + 1 ELSE 0
        /\ \A i \in 1..(Len(s) - (k + 1) + 1) : b[i] = s[k + 1 + i - 1]
    BY <1>1, SubSeqProperties
  <2> HIDE DEF b
  <2> QED BY <1>1, <2>1
<1> HIDE DEF a, b
<1>4. /\ Len(a \o b) = Len(a) + Len(b)
      /\ \A i \in 1..(Len(a) + Len(b)) :
            (a \o b)[i] = IF i <= Len(a) THEN a[i] ELSE b[i - Len(a)]
  BY <1>2, <1>3, ConcatProperties
<1>5. ASSUME NEW i \in 1..(Len(s) - 1)
      PROVE  (a \o b)[i] = IF i < k THEN s[i] ELSE s[i + 1]
  <2>1. CASE i < k
    <3>1. i \in 1..Len(a) /\ i <= Len(a) /\ i \in 1..(Len(a) + Len(b))
      BY <1>1, <1>2, <1>3, <2>1
    <3>2. (a \o b)[i] = a[i]
      BY <1>4, <3>1
    <3> QED BY <1>2, <2>1, <3>1, <3>2
  <2>2. CASE ~(i < k)
    <3>1. (a \o b)[i] = b[i - (k - 1)]
      <4>1. ~(i <= Len(a)) /\ i \in 1..(Len(a) + Len(b))
        BY <1>1, <1>2, <1>3, <2>2
      <4> QED BY <1>2, <1>4, <4>1
    <3>2. i - (k - 1) \in 1..Len(b) /\ k + (i - (k - 1)) = i + 1
      BY <1>1, <1>3, <2>2
    <3> QED BY <1>3, <2>2, <3>1, <3>2
  <2> QED BY <2>1, <2>2
<1>6. Len(a \o b) = Len(s) - 1
  BY <1>1, <1>2, <1>3, <1>4
<1> QED BY <1>1, <1>5, <1>6 DEF a, b

\* What is left when the oldest units and the oldest ids are let go still matches,
\* when enough ids are left.
LEMMA AcksTrimmed ==
    ASSUME NEW queue, NEW ids, NEW last, AcksMatch(queue, ids, last),
           NEW a \in Nat, NEW b \in Nat, NEW newQueue, NEW newIds,
           Len(queue) \in Nat, Len(ids) \in Nat,
           Len(newIds) \in Nat, Len(newIds) = Len(ids) - a,
           \A i \in 1..Len(newIds) : newIds[i] = ids[i + a],
           Len(newQueue) \in Nat, Len(newQueue) = Len(queue) - b,
           \A i \in 1..Len(newQueue) : newQueue[i] = queue[i + b],
           ~ptsKept => Len(newQueue) <= Len(newIds)
    PROVE  AcksMatch(newQueue, newIds, last)
<1>1. ASSUME NEW i \in 1..Len(newQueue)
      PROVE  newQueue[i][1].frameId <= last
  <2>1. i + b \in 1..Len(queue) /\ newQueue[i] = queue[i + b]
    OBVIOUS
  <2>2. queue[i + b][1].frameId <= last
    BY <2>1 DEF AcksMatch
  <2> QED BY <2>1, <2>2
<1>2. ASSUME ~ptsKept
      PROVE  /\ Len(newQueue) <= Len(newIds)
             /\ \A i \in 1..Len(newQueue) :
                   newIds[Len(newIds) - Len(newQueue) + i] = newQueue[i][1].frameId
             /\ \A i, j \in 1..Len(newIds) : i < j => newIds[i] < newIds[j]
             /\ \A i \in 1..Len(newIds) : newIds[i] <= last
  <2>1. /\ Len(queue) <= Len(ids)
        /\ \A i \in 1..Len(queue) :
              ids[Len(ids) - Len(queue) + i] = queue[i][1].frameId
        /\ \A i, j \in 1..Len(ids) : i < j => ids[i] < ids[j]
        /\ \A i \in 1..Len(ids) : ids[i] <= last
    BY <1>2 DEF AcksMatch
  <2>2. ASSUME NEW i \in 1..Len(newQueue)
        PROVE  newIds[Len(newIds) - Len(newQueue) + i] = newQueue[i][1].frameId
    <3> DEFINE at == Len(newIds) - Len(newQueue) + i
    <3>1. /\ at \in 1..Len(newIds) /\ i + b \in 1..Len(queue)
          /\ at + a = Len(ids) - Len(queue) + (i + b)
      BY <1>2
    <3>2. newIds[at] = ids[at + a] /\ newQueue[i] = queue[i + b]
      <4> HIDE DEF at
      <4> QED BY <3>1
    <3>3. ids[Len(ids) - Len(queue) + (i + b)] = queue[i + b][1].frameId
      BY <2>1, <3>1
    <3> QED BY <3>1, <3>2, <3>3
  <2>3. ASSUME NEW i \in 1..Len(newIds), NEW j \in 1..Len(newIds), i < j
        PROVE  newIds[i] < newIds[j]
    <3>1. i + a \in 1..Len(ids) /\ j + a \in 1..Len(ids) /\ i + a < j + a
      BY <2>3
    <3> QED BY <2>1, <3>1
  <2>4. ASSUME NEW i \in 1..Len(newIds)
        PROVE  newIds[i] <= last
    <3>1. i + a \in 1..Len(ids)
      OBVIOUS
    <3> QED BY <2>1, <3>1
  <2> QED BY <1>2, <2>2, <2>3, <2>4
<1> QED BY <1>1, <1>2 DEF AcksMatch

\* A unit with a newer id, and its id.
LEMMA AcksAppended ==
    ASSUME NEW queue \in Seq(GoodUnits), NEW ids \in Seq(Nat), NEW last \in Nat,
           AcksMatch(queue, ids, last),
           NEW u \in GoodUnits, NEW id \in Nat, id = u[1].frameId, last < id
    PROVE  AcksMatch(Append(queue, u), Append(ids, id), id)
<1> DEFINE newQueue == Append(queue, u)  newIds == Append(ids, id)
           n == Len(queue)  m == Len(ids)
<1>1. /\ n \in Nat /\ Len(newQueue) = n + 1 /\ newQueue[n + 1] = u
      /\ \A i \in 1..n : newQueue[i] = queue[i] /\ queue[i] \in GoodUnits
  BY AppendedAt, ElementOfSeq
<1>2. /\ m \in Nat /\ Len(newIds) = m + 1 /\ newIds[m + 1] = id
      /\ \A i \in 1..m : newIds[i] = ids[i] /\ ids[i] \in Nat
  BY AppendedAt, ElementOfSeq
<1> HIDE DEF newQueue, newIds
<1>3. ASSUME NEW i \in 1..Len(newQueue)
      PROVE  newQueue[i][1].frameId <= id
  <2>1. CASE i \in 1..n
    <3>1. newQueue[i] = queue[i] /\ queue[i] \in GoodUnits
      BY <1>1, <2>1
    <3>2. queue[i][1].frameId \in Nat
      BY <3>1, UnitType
    <3>3. queue[i][1].frameId <= last
      BY <2>1 DEF AcksMatch
    <3> QED BY <3>1, <3>2, <3>3
  <2>2. CASE i = n + 1
    BY <1>1, <2>2
  <2> QED BY <1>1, <2>1, <2>2
<1>4. ASSUME ~ptsKept
      PROVE  /\ Len(newQueue) <= Len(newIds)
             /\ \A i \in 1..Len(newQueue) :
                   newIds[Len(newIds) - Len(newQueue) + i] = newQueue[i][1].frameId
             /\ \A i, j \in 1..Len(newIds) : i < j => newIds[i] < newIds[j]
             /\ \A i \in 1..Len(newIds) : newIds[i] <= id
  <2>1. /\ n <= m
        /\ \A i \in 1..n : ids[m - n + i] = queue[i][1].frameId
        /\ \A i, j \in 1..m : i < j => ids[i] < ids[j]
        /\ \A i \in 1..m : ids[i] <= last
    BY <1>4 DEF AcksMatch
  <2>2. \A i \in 1..m : newIds[i] = ids[i] /\ newIds[i] \in Nat /\ newIds[i] < id
    BY <1>2, <2>1
  <2> HIDE DEF n, m
  <2>3. ASSUME NEW i \in 1..(n + 1)
        PROVE  newIds[m - n + i] = newQueue[i][1].frameId
    <3>1. CASE i \in 1..n
      <4>1. m - n + i \in 1..m
        BY <1>1, <1>2, <2>1, <3>1
      <4>2. newIds[m - n + i] = ids[m - n + i]
        BY <2>2, <4>1
      <4> QED BY <1>1, <2>1, <3>1, <4>2
    <3>2. CASE i = n + 1
      <4>1. m - n + i = m + 1
        BY <1>1, <1>2, <3>2
      <4> QED BY <1>1, <1>2, <3>2, <4>1
    <3> QED BY <1>1, <3>1, <3>2
  <2>4. ASSUME NEW i \in 1..(m + 1), NEW j \in 1..(m + 1), i < j
        PROVE  newIds[i] < newIds[j]
    <3>1. i \in 1..m
      BY <1>2, <2>4
    <3>2. CASE j \in 1..m
      BY <2>1, <2>2, <2>4, <3>1, <3>2
    <3>3. CASE j = m + 1
      BY <1>2, <2>2, <3>1, <3>3
    <3> QED BY <1>2, <3>2, <3>3
  <2>5. ASSUME NEW i \in 1..(m + 1)
        PROVE  newIds[i] <= id
    <3>1. CASE i \in 1..m
      BY <2>2, <3>1
    <3>2. CASE i = m + 1
      BY <1>2, <3>2
    <3> QED BY <1>2, <3>1, <3>2
  <2>6. m + 1 - (n + 1) = m - n /\ n + 1 <= m + 1
    BY <1>1, <1>2, <2>1
  <2> QED BY <1>1, <1>2, <2>3, <2>4, <2>5, <2>6
<1>5. AcksMatch(newQueue, newIds, id)
  BY <1>3, <1>4 DEF AcksMatch
<1> QED BY <1>5 DEF newQueue, newIds

\* A unit that is newer than what was pushed last.  The oldest unit is let go only
\* when three are there, an id only when at least two are left.
LEMMA PushedIds ==
    ASSUME NEW d, DecoderOK(d), AcksMatch(d.queue, d.pending, d.last),
           NEW u \in GoodUnits, d.last < u[1].frameId
    PROVE  /\ PushUnit(d, u).last = u[1].frameId
           /\ AcksMatch(PushUnit(d, u).queue, PushUnit(d, u).pending, PushUnit(d, u).last)
<1> DEFINE id == u[1].frameId  units == d.queue  pending == d.pending
           ids == Append(pending, id)  queue == Append(units, u)
           newIds == IF Len(ids) > MaxPendingIds THEN Tail(ids) ELSE ids
           newQueue == IF Len(queue) > 2 THEN Tail(queue) ELSE queue
<1>1. /\ units \in Seq(GoodUnits) /\ pending \in Seq(Nat) /\ d.last \in Nat
      /\ Len(units) <= 2 /\ Len(pending) <= MaxPendingIds /\ id \in Nat
      /\ MaxPendingIds \in Nat \ {0, 1}
  BY UnitType, LiveAssumption DEF DecoderOK, Decoders
<1>2. /\ PushUnit(d, u).last = id
      /\ PushUnit(d, u).queue = newQueue /\ PushUnit(d, u).pending = newIds
  <2>1. d.last # id
    BY <1>1
  <2>2. Remember(d, id) = [d EXCEPT !.last = id, !.pending = newIds]
    BY <2>1 DEF Remember
  <2>3. PushUnit(d, u) = [Remember(d, id) EXCEPT !.queue = newQueue]
    BY DEF PushUnit
  <2>4. d \in Decoders
    BY DEF DecoderOK
  <2> HIDE DEF id, newIds, newQueue
  <2> QED BY <2>2, <2>3, <2>4 DEF Decoders
<1>3. AcksMatch(queue, ids, id)
  <2>1. AcksMatch(units, pending, d.last) /\ d.last < id
    OBVIOUS
  <2>2. id = u[1].frameId
    OBVIOUS
  <2> HIDE DEF id, units, pending
  <2> QED BY <1>1, <2>1, <2>2, AcksAppended
<1> HIDE DEF id, units, pending
<1>4. /\ queue \in Seq(GoodUnits) /\ queue # << >> /\ Len(units) \in Nat
      /\ Len(queue) = Len(units) + 1
  BY <1>1, AppendedAt
<1>5. /\ ids \in Seq(Nat) /\ ids # << >> /\ Len(pending) \in Nat
      /\ Len(ids) = Len(pending) + 1
  <2>1. pending \in Seq(Nat) /\ id \in Nat
    BY <1>1
  <2>2. /\ Append(pending, id) \in Seq(Nat) /\ Append(pending, id) # << >>
        /\ Len(Append(pending, id)) = Len(pending) + 1
    BY <2>1, AppendProperties
  <2>3. Len(pending) \in Nat
    BY <2>1, LenProperties
  <2> QED BY <2>2, <2>3
<1> HIDE DEF ids, queue
<1>6. /\ Len(Tail(queue)) = Len(queue) - 1
      /\ \A i \in 1..Len(Tail(queue)) : Tail(queue)[i] = queue[i + 1]
  BY <1>4, TailAt
<1>7. /\ Len(Tail(ids)) = Len(ids) - 1
      /\ \A i \in 1..Len(Tail(ids)) : Tail(ids)[i] = ids[i + 1]
  BY <1>5, TailAt
<1>8. PICK a \in {0, 1} : /\ Len(newIds) = Len(ids) - a
                          /\ \A i \in 1..Len(newIds) : newIds[i] = ids[i + a]
                          /\ a = 1 => Len(ids) > MaxPendingIds
  <2>1. CASE Len(ids) > MaxPendingIds
    BY <1>7, <2>1
  <2>2. CASE ~(Len(ids) > MaxPendingIds)
    <3>1. newIds = ids /\ Len(ids) - 0 = Len(ids) /\ \A i \in 1..Len(ids) : i + 0 = i
      BY <1>5, <2>2
    <3> HIDE DEF newIds
    <3>2. /\ Len(newIds) = Len(ids) - 0
          /\ \A i \in 1..Len(newIds) : newIds[i] = ids[i + 0]
      BY <3>1
    <3> QED BY <3>2
  <2> QED BY <2>1, <2>2
<1>9. PICK b \in {0, 1} : /\ Len(newQueue) = Len(queue) - b
                          /\ \A i \in 1..Len(newQueue) : newQueue[i] = queue[i + b]
                          /\ Len(newQueue) <= 2
  <2>1. CASE Len(queue) > 2
    BY <1>1, <1>4, <1>6, <2>1
  <2>2. CASE ~(Len(queue) > 2)
    <3>1. newQueue = queue /\ Len(queue) - 0 = Len(queue)
          /\ \A i \in 1..Len(queue) : i + 0 = i
      BY <1>4, <2>2
    <3> QED BY <1>4, <2>2, <3>1
  <2> QED BY <2>1, <2>2
<1> HIDE DEF newIds, newQueue
<1>10. /\ Len(newIds) \in Nat /\ Len(newQueue) \in Nat
       /\ Len(queue) \in Nat /\ Len(ids) \in Nat
  BY <1>4, <1>5, <1>8, <1>9
<1>11. ~ptsKept => Len(newQueue) <= Len(newIds)
  <2>1. ~ptsKept => Len(queue) <= Len(ids)
    BY <1>3 DEF AcksMatch
  <2> QED BY <1>1, <1>4, <1>5, <1>8, <1>9, <1>10, <2>1
<1>12. AcksMatch(newQueue, newIds, id)
  <2>1. a \in Nat /\ b \in Nat
    OBVIOUS
  <2> QED BY <1>3, <1>8, <1>9, <1>10, <1>11, <2>1, AcksTrimmed
<1> QED BY <1>2, <1>12 DEF id

\* A unit that is decoded: it gives a frame, or none.
LEMMA DecodedIds ==
    ASSUME NEW queue \in Seq(GoodUnits), NEW pending \in Seq(Nat), NEW last \in Nat,
           queue # << >>, AcksMatch(queue, pending, last)
    PROVE  /\ queue[1][1].frameId <= last
           /\ AcksMatch(Tail(queue), pending, last)
           /\ ptsKept => \A ids : AcksMatch(Tail(queue), ids, last)
           /\ ~ptsKept => /\ pending # << >>
                          /\ Head(pending) <= queue[1][1].frameId
                          /\ AcksMatch(Tail(queue), Tail(pending), last)
<1>1. /\ Len(queue) \in Nat \ {0} /\ Len(Tail(queue)) = Len(queue) - 1
      /\ \A i \in 1..Len(Tail(queue)) : Tail(queue)[i] = queue[i + 1]
  BY TailAt
<1>2. Len(pending) \in Nat /\ \A i \in 1..Len(pending) : pending[i] \in Nat
  BY LenProperties, ElementOfSeq
<1> DEFINE newQueue == Tail(queue)
<1> HIDE DEF newQueue
<1>3. AcksMatch(newQueue, pending, last)
  <2>1. /\ Len(pending) = Len(pending) - 0
        /\ \A i \in 1..Len(pending) : pending[i] = pending[i + 0]
    BY <1>2
  <2>2. /\ Len(newQueue) \in Nat /\ Len(newQueue) = Len(queue) - 1
        /\ \A i \in 1..Len(newQueue) : newQueue[i] = queue[i + 1]
    BY <1>1 DEF newQueue
  <2>3. ~ptsKept => Len(newQueue) <= Len(pending)
    BY <1>1, <1>2, <2>2 DEF AcksMatch
  <2>4. 0 \in Nat /\ 1 \in Nat /\ Len(queue) \in Nat
    BY <1>1
  <2> QED BY <1>2, <2>1, <2>2, <2>3, <2>4, AcksTrimmed
<1>4. ptsKept => \A ids : AcksMatch(newQueue, ids, last)
  BY <1>3 DEF AcksMatch
<1>5. ASSUME ~ptsKept
      PROVE  /\ pending # << >> /\ Head(pending) <= queue[1][1].frameId
             /\ AcksMatch(newQueue, Tail(pending), last)
  <2>1. /\ Len(queue) <= Len(pending)
        /\ \A i \in 1..Len(queue) :
              pending[Len(pending) - Len(queue) + i] = queue[i][1].frameId
        /\ \A i, j \in 1..Len(pending) : i < j => pending[i] < pending[j]
    BY <1>5 DEF AcksMatch
  <2>2. pending # << >>
    BY <1>1, <1>2, <2>1
  <2>3. /\ Len(Tail(pending)) = Len(pending) - 1 /\ Head(pending) = pending[1]
        /\ \A i \in 1..Len(Tail(pending)) : Tail(pending)[i] = pending[i + 1]
    BY <2>2, TailAt
  <2>4. Head(pending) <= queue[1][1].frameId
    <3>1. pending[Len(pending) - Len(queue) + 1] = queue[1][1].frameId
      BY <1>1, <2>1
    <3>2. CASE Len(pending) = Len(queue)
      BY <1>1, <1>2, <2>3, <3>1, <3>2
    <3>3. CASE Len(pending) > Len(queue)
      <4>1. /\ 1 \in 1..Len(pending) /\ Len(pending) - Len(queue) + 1 \in 1..Len(pending)
            /\ 1 < Len(pending) - Len(queue) + 1
        BY <1>1, <1>2, <3>3
      <4>2. pending[1] < pending[Len(pending) - Len(queue) + 1]
        BY <2>1, <4>1
      <4>3. pending[1] \in Nat /\ pending[Len(pending) - Len(queue) + 1] \in Nat
        BY <1>2, <4>1
      <4> QED BY <2>3, <3>1, <4>2, <4>3
    <3> QED BY <1>1, <1>2, <2>1, <3>2, <3>3
  <2> DEFINE newIds == Tail(pending)
  <2>5. /\ Len(newIds) \in Nat /\ Len(newIds) = Len(pending) - 1
        /\ \A i \in 1..Len(newIds) : newIds[i] = pending[i + 1]
    BY <1>1, <1>2, <2>1, <2>3
  <2>6. /\ Len(newQueue) \in Nat /\ Len(newQueue) = Len(queue) - 1
        /\ \A i \in 1..Len(newQueue) : newQueue[i] = queue[i + 1]
    BY <1>1 DEF newQueue
  <2> HIDE DEF newIds
  <2>7. ~ptsKept => Len(newQueue) <= Len(newIds)
    BY <1>1, <1>2, <2>1, <2>5, <2>6
  <2>8. AcksMatch(newQueue, newIds, last)
    <3>1. 1 \in Nat /\ Len(queue) \in Nat
      BY <1>1
    <3> QED BY <1>2, <2>5, <2>6, <2>7, <3>1, AcksTrimmed
  <2> QED BY <2>2, <2>4, <2>8 DEF newIds
<1>6. queue[1][1].frameId <= last
  BY <1>1 DEF AcksMatch
<1> QED BY <1>3, <1>4, <1>5, <1>6 DEF newQueue

\* The first of the NAL units in flight is received: what it closes is pushed in the
\* order of the ids, and what is left is newer.
LEMMA ReceivedIds ==
    ASSUME NEW n \in GoodNals, NEW d, DecoderOK(d), unit \in GoodUnits \cup {<< >>},
           AcksMatch(d.queue, d.pending, d.last), d.last < n.frameId,
           unit # << >> => d.last < unit[1].frameId /\ unit[1].frameId <= n.frameId,
           NEW e, e = PushUnits(d, UnitsClosedBy(n))
    PROVE  /\ AcksMatch(e.queue, e.pending, e.last)
           /\ e.last \in Nat /\ e.last <= n.frameId
           /\ ~n.endOfFrame => e.last < n.frameId
           /\ Collected(n)[1].frameId = n.frameId
<1>1. Collected(n) \in GoodUnits /\ DecoderOK(e)
  BY ReceivedNal
<1>2. e.last \in Nat /\ d.last \in Nat /\ n.frameId \in Nat
  BY <1>1 DEF DecoderOK, Decoders, GoodNals, NalUnits
<1>3. Collected(n)[1].frameId = n.frameId
  <2>1. CASE unit = << >>
    BY <2>1 DEF Collected, OfAnotherFrame
  <2>2. CASE unit # << >> /\ unit[1].frameId = n.frameId
    <3>1. unit \in GoodUnits /\ unit \in Seq(GoodNals) /\ Len(unit) \in Nat \ {0}
      BY <2>2, UnitType
    <3>2. Append(unit, n)[1] = unit[1]
      BY <3>1, AppendedAt
    <3> QED BY <2>2, <3>2 DEF Collected, OfAnotherFrame
  <2>3. CASE unit # << >> /\ unit[1].frameId # n.frameId
    BY <2>3 DEF Collected, OfAnotherFrame
  <2> QED BY <2>1, <2>2, <2>3
<1>4. CASE OfAnotherFrame(n)
  <2>1. unit \in GoodUnits /\ d.last < unit[1].frameId /\ unit[1].frameId < n.frameId
    <3>1. unit # << >> /\ unit[1].frameId # n.frameId
      BY <1>4 DEF OfAnotherFrame
    <3>2. unit[1].frameId \in Nat
      BY <3>1, UnitType
    <3> QED BY <1>2, <3>1, <3>2
  <2> DEFINE f == PushUnit(d, unit)
  <2>2. DecoderOK(f) /\ f.last = unit[1].frameId /\ AcksMatch(f.queue, f.pending, f.last)
    BY <2>1, PushedUnit, PushedIds
  <2>3. CASE n.endOfFrame
    <3>1. e = PushUnit(f, Collected(n))
      BY <1>4, <2>3, ClosedBy
    <3>2. f.last < Collected(n)[1].frameId
      BY <1>3, <2>1, <2>2
    <3> HIDE DEF f
    <3>3. e.last = Collected(n)[1].frameId /\ AcksMatch(e.queue, e.pending, e.last)
      BY <1>1, <2>2, <3>1, <3>2, PushedIds
    <3> QED BY <1>2, <1>3, <2>3, <3>3
  <2>4. CASE ~n.endOfFrame
    <3>1. e = f
      BY <1>4, <2>4, ClosedBy
    <3> HIDE DEF f
    <3> QED BY <1>2, <1>3, <2>1, <2>2, <2>4, <3>1
  <2> QED BY <2>3, <2>4
<1>5. CASE ~OfAnotherFrame(n)
  <2>1. CASE n.endOfFrame
    <3>1. e = PushUnit(d, Collected(n))
      BY <1>5, <2>1, ClosedBy
    <3>2. e.last = Collected(n)[1].frameId /\ AcksMatch(e.queue, e.pending, e.last)
      BY <1>1, <1>3, <3>1, PushedIds
    <3> QED BY <1>2, <1>3, <2>1, <3>2
  <2>2. CASE ~n.endOfFrame
    <3>1. e = d
      BY <1>5, <2>2, ClosedBy
    <3> QED BY <1>2, <1>3, <2>2, <3>1
  <2> QED BY <2>1, <2>2
<1> QED BY <1>4, <1>5

\* The types of what the ids are of.
LEMMA IdTypes ==
    ASSUME CountInv, StreamInv
    PROVE  /\ latestFrame_ \in Nat /\ lastQueuedFrameId_ \in Nat
           /\ net \in Seq(GoodNals) /\ Len(net) \in Nat /\ DOMAIN net = 1..Len(net)
           /\ \A i \in 1..Len(net) : net[i] \in GoodNals /\ net[i].frameId \in Nat
           /\ appsrc \in Seq(GoodUnits) /\ pendingFrameIds_ \in Seq(Nat)
           /\ unit # << >> => unit \in GoodUnits /\ unit[1].frameId \in Nat
<1>1. latestFrame_ \in Nat
  BY LiveAssumption DEF CountInv
<1>2. net \in Seq(GoodNals) /\ Len(net) \in Nat /\ DOMAIN net = 1..Len(net)
  BY LenProperties DEF StreamInv
<1>3. \A i \in 1..Len(net) : net[i] \in GoodNals /\ net[i].frameId \in Nat
  <2>1. \A i \in 1..Len(net) : net[i] \in GoodNals
    BY <1>2, ElementOfSeq
  <2> QED BY <2>1 DEF GoodNals, NalUnits
<1>4. /\ appsrc \in Seq(GoodUnits) /\ pendingFrameIds_ \in Seq(Nat)
      /\ lastQueuedFrameId_ \in Nat
  BY DEF StreamInv, DecoderOK, Decoders, Decoder
<1>5. unit # << >> => unit \in GoodUnits /\ unit[1].frameId \in Nat
  BY UnitType DEF StreamInv
<1> QED BY <1>1, <1>2, <1>3, <1>4, <1>5

LEMMA ReceiveKeepsIds ==
    ASSUME CountInv, StreamInv, IdsGrow, ordered = TRUE, ordered' = ordered,
           NEW k \in DOMAIN net, ReceiveNal(k)
    PROVE  IdsGrow'
<1> DEFINE n == net[1]  e == PushUnits(Decoder, UnitsClosedBy(n))
           last == lastQueuedFrameId_  latest == latestFrame_
<1>1. k = 1
  BY DEF ReceiveNal
<1>2. /\ latest \in Nat /\ last \in Nat /\ Len(net) \in Nat \ {0}
      /\ net \in Seq(GoodNals)
      /\ \A i \in 1..Len(net) : net[i] \in GoodNals /\ net[i].frameId \in Nat
  BY IdTypes, <1>1
<1>3. /\ \A i \in 1..Len(net) : last < net[i].frameId /\ net[i].frameId <= latest
      /\ \A i, j \in 1..Len(net) :
            i < j => \/ net[i].frameId < net[j].frameId
                     \/ net[i].frameId = net[j].frameId /\ ~net[i].endOfFrame
      /\ unit # << >> => last < unit[1].frameId /\ unit[1].frameId <= n.frameId
  BY <1>2 DEF IdsGrow, NalsAhead, UnitBetween
<1>4. Len(net') = Len(net) - 1 /\ \A i \in 1..Len(net') : net'[i] = net[i + 1]
  <2> DEFINE t == SubSeq(net, 1, 1 - 1) \o SubSeq(net, 1 + 1, Len(net))
  <2>1. 1 \in DOMAIN net /\ net' = t
    BY <1>1 DEF ReceiveNal
  <2>2. Len(t) = Len(net) - 1
        /\ \A i \in 1..Len(t) : t[i] = IF i < 1 THEN net[i] ELSE net[i + 1]
    BY <1>2, <2>1, WithoutAt
  <2> HIDE DEF t
  <2>3. \A i \in 1..Len(t) : t[i] = net[i + 1]
    BY <1>2, <2>2
  <2> QED BY <2>1, <2>2, <2>3
<1>5. \A i \in 1..Len(net') : i + 1 \in 1..Len(net) /\ 1 < i + 1 /\ 1 \in 1..Len(net)
  BY <1>2, <1>4
<1>6. \A i \in 1..Len(net') :
         /\ net'[i].frameId \in Nat /\ net'[i].frameId <= latest
         /\ n.frameId <= net'[i].frameId
         /\ n.endOfFrame => n.frameId < net'[i].frameId
  <2> SUFFICES ASSUME NEW i \in 1..Len(net')
               PROVE  /\ net'[i].frameId \in Nat /\ net'[i].frameId <= latest
                      /\ n.frameId <= net'[i].frameId
                      /\ n.endOfFrame => n.frameId < net'[i].frameId
    OBVIOUS
  <2>1. net'[i] = net[i + 1] /\ i + 1 \in 1..Len(net) /\ 1 \in 1..Len(net) /\ 1 < i + 1
    BY <1>4, <1>5
  <2>2. \/ net[1].frameId < net[i + 1].frameId
        \/ net[1].frameId = net[i + 1].frameId /\ ~net[1].endOfFrame
    BY <1>3, <2>1
  <2>3. /\ net[i + 1].frameId \in Nat /\ net[1].frameId \in Nat
        /\ net[i + 1].frameId <= latest
    BY <1>2, <1>3, <2>1
  <2> QED BY <2>1, <2>2, <2>3
<1>7. \A i, j \in 1..Len(net') :
         i < j => \/ net'[i].frameId < net'[j].frameId
                  \/ net'[i].frameId = net'[j].frameId /\ ~net'[i].endOfFrame
  <2> SUFFICES ASSUME NEW i \in 1..Len(net'), NEW j \in 1..Len(net'), i < j
               PROVE  \/ net'[i].frameId < net'[j].frameId
                      \/ net'[i].frameId = net'[j].frameId /\ ~net'[i].endOfFrame
    OBVIOUS
  <2>1. /\ net'[i] = net[i + 1] /\ i + 1 \in 1..Len(net)
        /\ net'[j] = net[j + 1] /\ j + 1 \in 1..Len(net) /\ i + 1 < j + 1
    BY <1>4, <1>5
  <2> QED BY <1>3, <2>1
<1>8. n \in GoodNals /\ n.frameId \in Nat /\ last < n.frameId /\ n.frameId <= latest
  BY <1>2, <1>3
<1>9. /\ AcksMatch(e.queue, e.pending, e.last)
      /\ e.last \in Nat /\ e.last <= n.frameId
      /\ ~n.endOfFrame => e.last < n.frameId
      /\ Collected(n)[1].frameId = n.frameId
  <2>1. DecoderOK(Decoder) /\ unit \in GoodUnits \cup {<< >>}
    BY DEF StreamInv
  <2>2. AcksMatch(Decoder.queue, Decoder.pending, Decoder.last) /\ Decoder.last = last
    BY DEF Decoder, IdsGrow
  <2> HIDE DEF n
  <2> QED BY <1>3, <1>8, <2>1, <2>2, ReceivedIds
<1>10. /\ appsrc' = e.queue /\ pendingFrameIds_' = e.pending
       /\ lastQueuedFrameId_' = e.last /\ latestFrame_' = latest /\ ptsKept' = ptsKept
       /\ unit' = IF n.endOfFrame THEN << >> ELSE Collected(n)
  BY <1>1 DEF ReceiveNal, SetDecoder, hostVars, captureVars, fixedVars
<1> HIDE DEF n, e
<1>11. e.last <= latest
  BY <1>2, <1>8, <1>9
<1>12. NalsAhead(net', e.last, latest)
  <2>1. \A i \in 1..Len(net') : e.last < net'[i].frameId /\ net'[i].frameId <= latest
    BY <1>6, <1>8, <1>9
  <2> QED BY <1>7, <2>1 DEF NalsAhead
<1>13. UnitBetween(unit', net', e.last, latest)
  <2>1. CASE n.endOfFrame
    BY <1>10, <2>1 DEF UnitBetween
  <2>2. CASE ~n.endOfFrame
    <3>1. unit' = Collected(n)
      BY <1>10, <2>2
    <3> QED BY <1>6, <1>8, <1>9, <2>2, <3>1 DEF UnitBetween
  <2> QED BY <2>1, <2>2
<1>14. AcksMatch(appsrc, pendingFrameIds_, lastQueuedFrameId_)'
  BY <1>9, <1>10 DEF AcksMatch
<1>15. NalsAhead(net, lastQueuedFrameId_, latestFrame_)'
  BY <1>10, <1>12 DEF NalsAhead
<1>16. UnitBetween(unit, net, lastQueuedFrameId_, latestFrame_)'
  BY <1>10, <1>13 DEF UnitBetween
<1>17. lastQueuedFrameId_' <= latestFrame_'
  BY <1>10, <1>11
<1> QED BY <1>14, <1>15, <1>16, <1>17 DEF IdsGrow

LEMMA LoseKeepsIds ==
    ASSUME CountInv, StreamInv, IdsGrow, NEW k \in DOMAIN net, LoseNal(k)
    PROVE  IdsGrow'
<1> DEFINE last == lastQueuedFrameId_  latest == latestFrame_
           from(i) == IF i < k THEN i ELSE i + 1
<1>1. net \in Seq(GoodNals) /\ Len(net) \in Nat
  BY IdTypes
<1>2. /\ k \in 1..Len(net) /\ Len(net') = Len(net) - 1
      /\ \A i \in 1..Len(net') : net'[i] = net[from(i)]
  <2> DEFINE t == SubSeq(net, 1, k - 1) \o SubSeq(net, k + 1, Len(net))
  <2>1. net' = t
    BY DEF LoseNal
  <2>2. /\ k \in 1..Len(net) /\ Len(t) = Len(net) - 1
        /\ \A i \in 1..Len(t) : t[i] = IF i < k THEN net[i] ELSE net[i + 1]
    BY <1>1, WithoutAt
  <2> HIDE DEF t
  <2> QED BY <2>1, <2>2
<1>3. /\ \A i \in 1..Len(net') : from(i) \in 1..Len(net)
      /\ \A i, j \in 1..Len(net') : i < j => from(i) < from(j)
  BY <1>1, <1>2
<1> HIDE DEF from
<1>4. NalsAhead(net', last, latest)
  <2>1. \A i \in 1..Len(net') : last < net'[i].frameId /\ net'[i].frameId <= latest
    BY <1>2, <1>3 DEF IdsGrow, NalsAhead
  <2>2. ASSUME NEW i \in 1..Len(net'), NEW j \in 1..Len(net'), i < j
        PROVE  \/ net'[i].frameId < net'[j].frameId
               \/ net'[i].frameId = net'[j].frameId /\ ~net'[i].endOfFrame
    <3>1. /\ net'[i] = net[from(i)] /\ from(i) \in 1..Len(net)
          /\ net'[j] = net[from(j)] /\ from(j) \in 1..Len(net) /\ from(i) < from(j)
      BY <1>2, <1>3, <2>2
    <3>2. \/ net[from(i)].frameId < net[from(j)].frameId
          \/ net[from(i)].frameId = net[from(j)].frameId /\ ~net[from(i)].endOfFrame
      BY <3>1 DEF IdsGrow, NalsAhead
    <3> QED BY <3>1, <3>2
  <2> QED BY <2>1, <2>2 DEF NalsAhead
<1>5. UnitBetween(unit, net', last, latest)
  BY <1>2, <1>3 DEF IdsGrow, UnitBetween
<1>6. /\ UNCHANGED <<unit, appsrc, pendingFrameIds_, lastQueuedFrameId_, latestFrame_>>
      /\ ptsKept' = ptsKept
  BY DEF LoseNal, clientVars, decoderVars, hostVars, captureVars, fixedVars
<1>7. NalsAhead(net, lastQueuedFrameId_, latestFrame_)'
  BY <1>4, <1>6 DEF NalsAhead
<1>8. UnitBetween(unit, net, lastQueuedFrameId_, latestFrame_)'
  BY <1>5, <1>6 DEF UnitBetween
<1>9. AcksMatch(appsrc, pendingFrameIds_, lastQueuedFrameId_)'
  BY <1>6 DEF IdsGrow, AcksMatch
<1> QED BY <1>6, <1>7, <1>8, <1>9 DEF IdsGrow

LEMMA SendKeepsIds ==
    ASSUME CountInv, StreamInv, IdsGrow, NEW k \in FrameNals, SendFrame(k)
    PROVE  IdsGrow'
<1> DEFINE last == lastQueuedFrameId_  latest == latestFrame_ + 1  m == Len(net)
           nal(i) == [frameId |-> latestFrame_ + 1, picture |-> pictures + 1,
                      endOfFrame |-> i = k]
           sentNals == [i \in 1..k |-> nal(i)]
<1>1. /\ latestFrame_ \in Nat /\ last \in Nat /\ k \in 1..2
      /\ net \in Seq(GoodNals) /\ m \in Nat
      /\ \A i \in 1..m : net[i].frameId \in Nat
      /\ unit # << >> => unit[1].frameId \in Nat
  BY IdTypes DEF FrameNals
<1>2. /\ last <= latestFrame_
      /\ \A i \in 1..m : last < net[i].frameId /\ net[i].frameId <= latestFrame_
      /\ \A i, j \in 1..m :
            i < j => \/ net[i].frameId < net[j].frameId
                     \/ net[i].frameId = net[j].frameId /\ ~net[i].endOfFrame
  BY DEF IdsGrow, NalsAhead
<1>3. unit # << >> => /\ last < unit[1].frameId /\ unit[1].frameId <= latestFrame_
                      /\ \A i \in 1..m : unit[1].frameId <= net[i].frameId
  BY DEF IdsGrow, UnitBetween
<1>4. /\ UNCHANGED <<unit, appsrc, pendingFrameIds_, lastQueuedFrameId_>>
      /\ latestFrame_' = latest /\ ptsKept' = ptsKept
  BY DEF SendFrame, clientVars, decoderVars, fixedVars
<1>5. \/ Len(net') = m /\ \A i \in 1..m : net'[i] = net[i]
      \/ /\ Len(net') = m + k
         /\ \A i \in 1..m : net'[i] = net[i]
         /\ \A i \in (m + 1)..(m + k) : /\ net'[i].frameId = latest
                                        /\ i - m # k => ~net'[i].endOfFrame
  <2>1. CASE "receiver" \notin clientHeld
    BY <2>1 DEF SendFrame
  <2>2. CASE "receiver" \in clientHeld
    <3>1. net' = net \o sentNals
      BY <2>2 DEF SendFrame
    <3> DEFINE Nals == GoodNals \cup {nal(i) : i \in 1..k}
    <3>2. net \in Seq(Nals)
      BY <1>1, SeqMonotonic
    <3>3. /\ sentNals \in Seq(Nals) /\ Len(sentNals) = k
          /\ \A i \in 1..k : sentNals[i] = nal(i)
      <4> HIDE DEF nal
      <4>1. sentNals \in [1..k -> Nals] /\ \A i \in 1..k : sentNals[i] = nal(i)
        OBVIOUS
      <4>2. DOMAIN sentNals = 1..k
        OBVIOUS
      <4> HIDE DEF sentNals, Nals
      <4>3. sentNals \in Seq(Nals)
        BY <1>1, <4>1, SeqDef
      <4>4. DOMAIN sentNals = 1..Len(sentNals) /\ Len(sentNals) \in Nat
        BY <4>3, LenProperties
      <4>5. Len(sentNals) = k
        <5>1. 1..k = 1..Len(sentNals) /\ k \in Nat /\ k >= 1
          BY <1>1, <4>2, <4>4
        <5> QED BY <4>4, <5>1, SameBound, Zenon
      <4> QED BY <4>1, <4>3, <4>5
    <3> HIDE DEF sentNals, Nals
    <3>4. /\ Len(net') = m + k
          /\ \A i \in 1..(m + k) : net'[i] = IF i <= m THEN net[i] ELSE sentNals[i - m]
      BY <3>1, <3>2, <3>3, ConcatProperties
    <3>5. ASSUME NEW i \in (m + 1)..(m + k)
          PROVE  net'[i].frameId = latest /\ (i - m # k => ~net'[i].endOfFrame)
      <4>1. i \in 1..(m + k) /\ ~(i <= m) /\ i - m \in 1..k
        BY <1>1
      <4>2. net'[i] = nal(i - m)
        BY <3>3, <3>4, <4>1
      <4>3. net'[i].frameId = latest /\ net'[i].endOfFrame = (i - m = k)
        BY <4>2
      <4> QED BY <4>3
    <3>6. \A i \in 1..m : net'[i] = net[i]
      BY <1>1, <3>4
    <3> QED BY <3>4, <3>5, <3>6
  <2> QED BY <2>1, <2>2
<1>6. \A i \in 1..Len(net') :
         /\ last < net'[i].frameId /\ net'[i].frameId <= latest
         /\ unit # << >> => unit[1].frameId <= net'[i].frameId
  BY <1>1, <1>2, <1>3, <1>5
<1>7. ASSUME NEW i \in 1..Len(net'), NEW j \in 1..Len(net'), i < j
      PROVE  \/ net'[i].frameId < net'[j].frameId
             \/ net'[i].frameId = net'[j].frameId /\ ~net'[i].endOfFrame
  <2>1. CASE j \in 1..m
    <3>1. i \in 1..m /\ net'[i] = net[i] /\ net'[j] = net[j]
      BY <1>1, <1>5, <1>7, <2>1
    <3> QED BY <1>2, <1>7, <2>1, <3>1
  <2>2. CASE j \notin 1..m
    <3>1. /\ Len(net') = m + k /\ j \in (m + 1)..(m + k)
          /\ net'[j].frameId = latest
      BY <1>1, <1>5, <2>2
    <3>2. CASE i \in 1..m
      BY <1>1, <1>2, <1>5, <3>1, <3>2
    <3>3. CASE i \notin 1..m
      <4>1. i \in (m + 1)..(m + k) /\ i - m # k
        BY <1>1, <1>7, <3>1, <3>3
      <4>2. m + k # m
        BY <1>1
      <4>3. net'[i].frameId = latest /\ ~net'[i].endOfFrame
        BY <1>5, <3>1, <4>1, <4>2
      <4> QED BY <3>1, <4>3
    <3> QED BY <3>2, <3>3
  <2> QED BY <2>1, <2>2
<1>8. NalsAhead(net, lastQueuedFrameId_, latestFrame_)'
  BY <1>4, <1>6, <1>7 DEF NalsAhead
<1>9. UnitBetween(unit, net, lastQueuedFrameId_, latestFrame_)'
  BY <1>1, <1>3, <1>4, <1>6 DEF UnitBetween
<1>10. AcksMatch(appsrc, pendingFrameIds_, lastQueuedFrameId_)'
  BY <1>4 DEF IdsGrow, AcksMatch
<1>11. lastQueuedFrameId_' <= latestFrame_'
  BY <1>1, <1>2, <1>4
<1> QED BY <1>8, <1>9, <1>10, <1>11 DEF IdsGrow

\* A frame that is rendered gets its own acknowledgement, or an older one.
LEMMA DecodeKeepsIds ==
    ASSUME CountInv, StreamInv, IdsGrow, AckNamesRendered, DecodeUnit
    PROVE  IdsGrow' /\ AckNamesRendered'
<1> DEFINE u == Head(appsrc)  last == lastQueuedFrameId_
<1>1. /\ appsrc \in Seq(GoodUnits) /\ appsrc # << >> /\ appsrc' = Tail(appsrc)
      /\ pendingFrameIds_ \in Seq(Nat) /\ last \in Nat
  BY IdTypes DEF DecodeUnit
<1>2. UNCHANGED <<net, unit, lastQueuedFrameId_, latestFrame_, ptsKept, ordered, restarts>>
  BY DEF DecodeUnit, hostVars, captureVars, fixedVars
<1>3. AcksMatch(appsrc, pendingFrameIds_, last)
  BY DEF IdsGrow
<1>4. /\ u = appsrc[1] /\ u[1].frameId <= last /\ u[1].frameId \in Nat
      /\ AcksMatch(Tail(appsrc), pendingFrameIds_, last)
      /\ ptsKept => \A ids : AcksMatch(Tail(appsrc), ids, last)
      /\ ~ptsKept => /\ pendingFrameIds_ # << >>
                     /\ Head(pendingFrameIds_) <= u[1].frameId
                     /\ AcksMatch(Tail(appsrc), Tail(pendingFrameIds_), last)
  <2>1. u = appsrc[1] /\ u \in GoodUnits
    BY <1>1, TailAt, HeadTailProperties
  <2>2. u[1].frameId \in Nat
    BY <2>1, UnitType
  <2> QED BY <1>1, <1>3, <2>1, <2>2, DecodedIds
<1> HIDE DEF u
<1>5. AcksMatch(Tail(appsrc), pendingFrameIds_', last)
  <2>1. CASE pendingFrameIds_' = pendingFrameIds_
    BY <1>4, <2>1
  <2>2. CASE pendingFrameIds_' = LeftFrameIds(u) /\ ~ptsKept
    <3>1. LeftFrameIds(u) = Tail(pendingFrameIds_)
      BY <1>4, <2>2 DEF LeftFrameIds, ByTimestamp
    <3> QED BY <1>4, <2>2, <3>1
  <2>3. CASE ptsKept
    BY <1>4, <2>3
  <2> QED BY <2>1, <2>2, <2>3 DEF DecodeUnit, u
<1>6. IdsGrow'
  <2>1. AcksMatch(appsrc, pendingFrameIds_, lastQueuedFrameId_)'
    BY <1>1, <1>2, <1>5 DEF AcksMatch
  <2>2. NalsAhead(net, lastQueuedFrameId_, latestFrame_)'
    BY <1>2 DEF IdsGrow, NalsAhead
  <2>3. UnitBetween(unit, net, lastQueuedFrameId_, latestFrame_)'
    BY <1>2 DEF IdsGrow, UnitBetween
  <2> QED BY <1>2, <2>1, <2>2, <2>3 DEF IdsGrow
<1>7. CASE rendered' = rendered
  BY <1>2, <1>6, <1>7 DEF AckNamesRendered
<1>8. CASE rendered' = [frameId |-> u[1].frameId, acked |-> TakenFrameId(u)]
  <2>1. ptsKept => TakenFrameId(u) = u[1].frameId
    BY <1>4 DEF TakenFrameId, ByTimestamp
  <2>2. ~ptsKept => TakenFrameId(u) = Head(pendingFrameIds_)
    BY <1>4 DEF TakenFrameId, ByTimestamp
  <2>3. TakenFrameId(u) <= u[1].frameId /\ (ptsKept => TakenFrameId(u) = u[1].frameId)
    BY <1>4, <2>1, <2>2
  <2> QED BY <1>2, <1>6, <1>8, <2>3 DEF AckNamesRendered
<1> QED BY <1>6, <1>7, <1>8 DEF DecodeUnit, u

LEMMA DrainKeepsIds ==
    ASSUME CountInv, StreamInv, IdsGrow, Drain
    PROVE  IdsGrow'
<1> DEFINE d == IF unit = << >> THEN Decoder ELSE PushUnit(Decoder, unit)
<1>1. /\ latestFrame_ \in Nat /\ lastQueuedFrameId_ \in Nat
      /\ lastQueuedFrameId_ <= latestFrame_ /\ DecoderOK(Decoder)
      /\ Decoder.last = lastQueuedFrameId_
      /\ AcksMatch(Decoder.queue, Decoder.pending, Decoder.last)
  BY IdTypes DEF IdsGrow, StreamInv, Decoder
<1>2. AcksMatch(d.queue, d.pending, d.last) /\ d.last <= latestFrame_
  <2>1. CASE unit = << >>
    BY <1>1, <2>1
  <2>2. CASE unit # << >>
    <3>1. /\ unit \in GoodUnits /\ Decoder.last < unit[1].frameId
          /\ unit[1].frameId <= latestFrame_
      BY <1>1, <2>2, IdTypes DEF IdsGrow, UnitBetween
    <3>2. d = PushUnit(Decoder, unit)
      BY <2>2
    <3> QED BY <1>1, <3>1, <3>2, PushedIds
  <2> QED BY <2>1, <2>2
<1>3. /\ appsrc' = d.queue /\ pendingFrameIds_' = d.pending
      /\ lastQueuedFrameId_' = d.last /\ latestFrame_' = latestFrame_
      /\ ptsKept' = ptsKept /\ unit' = << >> /\ net' = << >>
  BY DEF Drain, SetDecoder, hostVars, captureVars, fixedVars
<1> HIDE DEF d
<1>4. AcksMatch(appsrc, pendingFrameIds_, lastQueuedFrameId_)'
  BY <1>2, <1>3 DEF AcksMatch
<1>5. NalsAhead(net, lastQueuedFrameId_, latestFrame_)'
  BY <1>3 DEF NalsAhead
<1>6. UnitBetween(unit, net, lastQueuedFrameId_, latestFrame_)'
  BY <1>3 DEF UnitBetween
<1> QED BY <1>2, <1>3, <1>4, <1>5, <1>6 DEF IdsGrow

LEMMA EndKeepsIds ==
    ASSUME CountInv, NEW held, NEW wasRefused, EndsHolding(held, wasRefused)
    PROVE  IdsGrow' /\ AckNamesRendered'
<1>1. /\ appsrc' = << >> /\ pendingFrameIds_' = << >> /\ lastQueuedFrameId_' = 0
      /\ unit' = << >> /\ net' = << >> /\ latestFrame_' = latestFrame_
      /\ rendered' = Nothing
  BY DEF EndsHolding, SetDecoder, hostVars, captureVars
<1>2. lastQueuedFrameId_' <= latestFrame_'
  BY <1>1, LiveAssumption DEF CountInv
<1>3. AcksMatch(appsrc, pendingFrameIds_, lastQueuedFrameId_)'
  BY <1>1 DEF AcksMatch
<1>4. NalsAhead(net, lastQueuedFrameId_, latestFrame_)'
      /\ UnitBetween(unit, net, lastQueuedFrameId_, latestFrame_)'
  BY <1>1 DEF NalsAhead, UnitBetween
<1> QED BY <1>1, <1>2, <1>3, <1>4 DEF IdsGrow, AckNamesRendered

\* A step that none of this is about.
LEMMA IdsKept ==
    ASSUME IdsGrow, UNCHANGED <<net, unit, decoderVars, latestFrame_, ptsKept>>
    PROVE  IdsGrow'
<1>1. /\ appsrc' = appsrc /\ pendingFrameIds_' = pendingFrameIds_
      /\ lastQueuedFrameId_' = lastQueuedFrameId_
  BY DEF decoderVars
<1>2. AcksMatch(appsrc, pendingFrameIds_, lastQueuedFrameId_)'
  BY <1>1 DEF IdsGrow, AcksMatch
<1>3. NalsAhead(net, lastQueuedFrameId_, latestFrame_)'
  BY <1>1 DEF IdsGrow, NalsAhead
<1>4. UnitBetween(unit, net, lastQueuedFrameId_, latestFrame_)'
  BY <1>1 DEF IdsGrow, UnitBetween
<1> QED BY <1>1, <1>2, <1>3, <1>4 DEF IdsGrow

LEMMA HostKeepsAcks ==
    ASSUME LiveInv, AckInv, Host
    PROVE  AckInv'
<1>1. UNCHANGED clientVars /\ UNCHANGED fixedVars
  BY HostLeavesClient DEF Host, StepSucceeds, SenderOpens, StepFails, AcceptFails,
     FailStep, AcceptSucceeds, SendFrame, CaptureFails, Recovers, RecoveryEnds, LoopEnds,
     StopAndRelease, HostEnds, InputThreadEnds, InputThreadFails, AckThreadEnds
<1>2. UNCHANGED <<unit, decoderVars, rendered, ordered, ptsKept>>
      /\ (restarts' = restarts \/ restarts' # 0)
  BY <1>1, HostKeepsCounts DEF LiveInv, clientVars, fixedVars
<1>3. AckNamesRendered'
  BY <1>2 DEF AckInv, AckNamesRendered
<1>4. ASSUME ordered', restarts' = 0
      PROVE  IdsGrow'
  <2>1. IdsGrow /\ restarts' = restarts
    BY <1>2, <1>4 DEF AckInv
  <2>2. CASE \E k \in FrameNals : SendFrame(k)
    BY <2>1, <2>2, SendKeepsIds DEF LiveInv
  <2>3. CASE ~\E k \in FrameNals : SendFrame(k)
    <3>1. net' = net /\ (latestFrame_' = latestFrame_ \/ restarts' = restarts + 1)
      BY <2>3 DEF Host, StepSucceeds, SenderOpens, StepFails, AcceptFails, FailStep,
         AcceptSucceeds, CaptureFails, Recovers, RecoveryEnds, LoopEnds, StopAndRelease,
         HostEnds, InputThreadEnds, InputThreadFails, AckThreadEnds, captureVars
    <3>2. latestFrame_' = latestFrame_
      BY <1>4, <2>1, <3>1
    <3> QED BY <1>2, <2>1, <3>1, <3>2, IdsKept
  <2> QED BY <2>2, <2>3
<1> QED BY <1>3, <1>4 DEF AckInv

LEMMA ClientKeepsAcks ==
    ASSUME LiveInv, AckInv, Client
    PROVE  AckInv'
<1>1. UNCHANGED <<restarts, latestFrame_>>
  BY ClientLeavesHost DEF hostVars, captureVars
<1>2. UNCHANGED <<ordered, ptsKept>>
  BY DEF Client, Connect, GetReady, GetReadyFails, ReceiveNal, DecodeUnit, PushRefused,
         ReceiveFails, StartupTimesOut, ActiveTimesOut, EnoughReceived, ClientEnds,
         EndsHolding, LeaveLoop, Drain, fixedVars
<1>3. ordered' /\ restarts' = 0 => ordered = TRUE /\ ordered' = ordered /\ IdsGrow
  BY <1>1, <1>2 DEF AckInv, LiveInv, FlagInv
<1> USE DEF AckInv, LiveInv
<1>4. CASE UNCHANGED <<net, unit, decoderVars, rendered>>
  <2>1. AckNamesRendered'
    BY <1>1, <1>2, <1>4 DEF AckNamesRendered
  <2> QED BY <1>1, <1>2, <1>3, <1>4, <2>1, IdsKept
<1>5. CASE Connect \/ GetReady \/ GetReadyFails
  BY <1>4, <1>5 DEF Connect, GetReady, GetReadyFails
<1>6. CASE \E k \in DOMAIN net : ReceiveNal(k)
  <2>1. AckNamesRendered'
    BY <1>1, <1>2, <1>6 DEF AckNamesRendered, ReceiveNal
  <2> QED BY <1>3, <1>6, <2>1, ReceiveKeepsIds
<1>7. CASE DecodeUnit
  <2>1. CASE ordered' /\ restarts' = 0
    BY <1>3, <1>7, <2>1, DecodeKeepsIds
  <2>2. CASE ~(ordered' /\ restarts' = 0)
    BY <2>2 DEF AckNamesRendered
  <2> QED BY <2>1, <2>2
<1>8. CASE Drain
  <2>1. AckNamesRendered'
    BY <1>1, <1>2, <1>8 DEF AckNamesRendered, Drain
  <2> QED BY <1>3, <1>8, <2>1, DrainKeepsIds
<1>9. CASE PushRefused \/ ReceiveFails \/ ClientEnds
  BY <1>9, EndKeepsIds DEF PushRefused, ReceiveFails, ClientEnds
<1>10. CASE StartupTimesOut
  BY <1>4, <1>10, EndKeepsIds DEF StartupTimesOut
<1>11. CASE ActiveTimesOut \/ EnoughReceived
  BY <1>8, <1>11, EndKeepsIds DEF ActiveTimesOut, EnoughReceived, LeaveLoop
<1> QED BY <1>5, <1>6, <1>7, <1>9, <1>10, <1>11 DEF Client

LEMMA AckNext == LiveInv /\ AckInv /\ [Next]_vars => AckInv'
<1> SUFFICES ASSUME LiveInv, AckInv, [Next]_vars
             PROVE  AckInv'
  OBVIOUS
<1>1. CASE \E k \in DOMAIN net : LoseNal(k)
  <2>1. UNCHANGED <<rendered, ordered, restarts, ptsKept>>
    BY <1>1 DEF LoseNal, clientVars, hostVars, captureVars, fixedVars
  <2>2. AckNamesRendered'
    BY <2>1 DEF AckInv, AckNamesRendered
  <2> QED BY <1>1, <2>1, <2>2, LoseKeepsIds DEF AckInv, LiveInv
<1>2. CASE RequestStop \/ UNCHANGED vars
  <2>1. UNCHANGED <<net, unit, decoderVars, latestFrame_, ptsKept, rendered, ordered,
                    restarts>>
    BY <1>2 DEF RequestStop, vars, hostVars, captureVars, clientVars, fixedVars
  <2>2. AckNamesRendered'
    BY <2>1 DEF AckInv, AckNamesRendered
  <2> QED BY <2>1, <2>2, IdsKept DEF AckInv
<1> QED BY <1>1, <1>2, HostKeepsAcks, ClientKeepsAcks DEF Next

\* However many access units the pipeline lets go or gives no frame for, an
\* acknowledgement names no frame that is newer than the one rendered; with time stamps
\* it names that frame.  It takes that more ids are kept than the pipeline holds units.
THEOREM AcksNameRendered == Spec => []AckNamesRendered
<1>1. Init => AckInv
  <2> SUFFICES ASSUME Init PROVE AckInv
    OBVIOUS
  <2>1. AckNamesRendered
    BY DEF Init, AckNamesRendered
  <2>2. AcksMatch(<< >>, << >>, 0) /\ NalsAhead(<< >>, 0, 0) /\ UnitBetween(<< >>, << >>, 0, 0)
    BY DEF AcksMatch, NalsAhead, UnitBetween
  <2>3. IdsGrow
    BY <2>2 DEF Init, IdsGrow
  <2> QED BY <2>1, <2>3 DEF AckInv
<1>2. AckInv => AckNamesRendered
  BY DEF AckInv
<1> QED BY <1>1, <1>2, LiveInvariance, AckNext, PTL DEF Spec
=============================================================================
