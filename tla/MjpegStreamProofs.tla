-------------------------- MODULE MjpegStreamProofs --------------------------
(***************************************************************************)
(* Proofs about the MJPEG transport, for any number of frames, parts,      *)
(* rectangles and restarts.                                                *)
(***************************************************************************)
EXTENDS MjpegStream, FiniteSetTheorems, TLAPS

\* While the worker sends a rectangle, it is one of those packetized, and the
\* worker's part index is inside it.
SenderInv ==
    count # 0 => /\ rect < rects
                 /\ part < count
                 /\ serial \in Serials
                 /\ Current \in sent

\* A datagram in flight was cut from a rectangle that was packetized.
NetInv ==
    \A d \in net : /\ d.part < d.count
                   /\ [id |-> d.id, count |-> d.count, serial |-> d.serial]
                         \in sent

\* Every part the assembler holds comes from a rectangle of its id and count.
AssemblerInv ==
    /\ AssemblyIncomplete
    /\ received_ = {} => partCount_ = 0
    /\ \A p \in received_ :
          [id |-> frameId_, count |-> partCount_, serial |-> parts_[p]] \in sent
    /\ received_ # {} =>
          [id |-> frameId_, count |-> partCount_, serial |-> header_] \in sent

\* The frame handed over is complete and its header comes from its own id.
OutInv ==
    out # NoFrame =>
        /\ CompleteFrame
        /\ out.header \in Serials
        /\ out.count \in 1..MaxParts
        /\ [id |-> out.id, count |-> out.count, serial |-> out.header] \in sent

IInv == TypeOK /\ SenderInv /\ NetInv /\ AssemblerInv /\ OutInv

USE StreamAssumption DEF Serials, Rectangles, Datagrams, NoParts

-----------------------------------------------------------------------------
(***************************************************************************)
(* Initial states.                                                         *)
(***************************************************************************)
LEMMA InitIInv == Init => IInv
<1> SUFFICES ASSUME Init PROVE IInv
  OBVIOUS
<1>1. TypeOK
  BY DEF Init, TypeOK
<1>2. SenderInv /\ NetInv /\ OutInv
  BY DEF Init, SenderInv, NetInv, OutInv
<1>3. AssemblerInv
  BY FS_EmptySet DEF Init, AssemblerInv, AssemblyIncomplete
<1> QED
  BY <1>1, <1>2, <1>3 DEF IInv

-----------------------------------------------------------------------------
(***************************************************************************)
(* What the assembler holds after it has taken a datagram.                 *)
(***************************************************************************)
LEMMA AfterDatagram ==
  ASSUME IInv, NEW d \in net
  PROVE  /\ d \in Datagrams /\ d.count \in 1..MaxParts
         /\ PartsAfter(d) \subseteq 0..(d.count - 1)
         /\ PartsAfter(d) # {}
         /\ IsFiniteSet(PartsAfter(d))
         /\ CountAfter(d) = Cardinality(PartsAfter(d))
         /\ CountAfter(d) \in 0..d.count
         /\ CountAfter(d) = d.count => PartsAfter(d) = 0..(d.count - 1)
         /\ ContentAfter(d) \in [PartsAfter(d) -> Serials]
         /\ \A p \in PartsAfter(d) :
               [id |-> d.id, count |-> d.count, serial |-> ContentAfter(d)[p]]
                  \in sent
         /\ HeaderAfter(d) \in Serials
         /\ [id |-> d.id, count |-> d.count, serial |-> HeaderAfter(d)] \in sent
<1>1. /\ d \in Datagrams /\ d.count \in 1..MaxParts /\ d.part \in 0..(d.count - 1)
      /\ [id |-> d.id, count |-> d.count, serial |-> d.serial] \in sent
      /\ d.serial \in Serials
  BY DEF IInv, TypeOK, NetInv
<1>2. PartsBefore(d) \subseteq 0..(d.count - 1)
  <2>1. CASE Opens(d)
    BY <2>1 DEF PartsBefore
  <2>2. CASE ~Opens(d)
    <3>1. partCount_ = d.count
      BY <2>2 DEF Opens
    <3>2. received_ = {} \/ received_ \subseteq 0..(partCount_ - 1)
      BY DEF IInv, AssemblerInv, AssemblyIncomplete
    <3> QED
      BY <2>2, <3>1, <3>2 DEF PartsBefore
  <2> QED
    BY <2>1, <2>2
<1>3. PartsAfter(d) \subseteq 0..(d.count - 1)
  BY <1>1, <1>2 DEF PartsAfter
<1>4. IsFiniteSet(0..(d.count - 1)) /\ Cardinality(0..(d.count - 1)) = d.count
  BY <1>1, FS_Interval, 0 \in Int, d.count - 1 \in Int
<1>5. IsFiniteSet(PartsBefore(d)) /\ IsFiniteSet(PartsAfter(d))
  BY <1>2, <1>3, <1>4, FS_Subset
<1>6. CountBefore(d) = Cardinality(PartsBefore(d))
  BY FS_EmptySet DEF CountBefore, PartsBefore, IInv, AssemblerInv,
                     AssemblyIncomplete
<1>7. CountAfter(d) = Cardinality(PartsAfter(d))
  BY <1>5, <1>6, FS_AddElement DEF CountAfter, PartsAfter
<1>8. /\ CountAfter(d) \in Nat /\ CountAfter(d) <= d.count
      /\ CountAfter(d) = d.count => PartsAfter(d) = 0..(d.count - 1)
  BY <1>3, <1>4, <1>5, <1>7, FS_Subset, FS_CardinalityType
<1>9. \A p \in PartsBefore(d) :
         /\ parts_[p] \in Serials
         /\ [id |-> d.id, count |-> d.count, serial |-> parts_[p]] \in sent
  BY DEF PartsBefore, Opens, IInv, AssemblerInv, TypeOK
<1>10. /\ ContentAfter(d) \in [PartsAfter(d) -> Serials]
       /\ \A p \in PartsAfter(d) :
             [id |-> d.id, count |-> d.count, serial |-> ContentAfter(d)[p]]
                \in sent
  BY <1>1, <1>9 DEF ContentAfter, PartsAfter
<1>11. PartsAfter(d) # {}
  BY DEF PartsAfter
<1>12. /\ HeaderAfter(d) \in Serials
       /\ [id |-> d.id, count |-> d.count, serial |-> HeaderAfter(d)] \in sent
  <2>1. CASE Opens(d)
    BY <1>1, <2>1 DEF HeaderAfter
  <2>2. CASE ~Opens(d) /\ received_ # {}
    <3>1. [id |-> d.id, count |-> d.count, serial |-> header_] \in sent
      BY <2>2 DEF Opens, IInv, AssemblerInv
    <3>2. header_ \in Serials
      BY <3>1 DEF IInv, TypeOK
    <3> QED
      BY <2>2, <3>1, <3>2 DEF HeaderAfter
  <2> QED
    BY <1>1, <2>1, <2>2 DEF Opens, IInv, AssemblerInv
<1> QED
  BY <1>1, <1>3, <1>5, <1>7, <1>8, <1>10, <1>11, <1>12
-----------------------------------------------------------------------------
(***************************************************************************)
(* The invariant is preserved by every step.                               *)
(***************************************************************************)
\* Steps of the sender and losses leave the assembler alone and clear out.
LEMMA QuietStep ==
  ASSUME IInv, out' = NoFrame, UNCHANGED assemblerVars,
         sent \subseteq sent'
  PROVE  AssemblerInv' /\ OutInv'
<1>1. OutInv'
  BY DEF OutInv
<1>2. AssemblerInv'
  BY DEF IInv, AssemblerInv, AssemblyIncomplete, assemblerVars
<1> QED
  BY <1>1, <1>2

LEMMA TakeTaskIInv ==
  ASSUME IInv, NEW n \in 1..MaxRects, NEW skipped \in 0..1, TakeTask(n, skipped)
  PROVE  IInv'
<1>1. TypeOK'
  BY DEF IInv, TypeOK, TakeTask, assemblerVars
<1>2. SenderInv' /\ NetInv'
  BY DEF IInv, TypeOK, SenderInv, NetInv, TakeTask, WorkerIdle
<1>3. AssemblerInv' /\ OutInv'
  BY QuietStep DEF TakeTask
<1> QED
  BY <1>1, <1>2, <1>3 DEF IInv

LEMMA PacketizeRectIInv ==
  ASSUME IInv, NEW c \in 1..MaxParts, PacketizeRect(c)
  PROVE  IInv'
<1>1. PacketFrameId(taskFrame, rect) \in Nat
  BY DEF IInv, TypeOK, PacketFrameId
<1>2. TypeOK'
  BY <1>1 DEF IInv, TypeOK, PacketizeRect, assemblerVars
<1>3. SenderInv'
  BY DEF IInv, TypeOK, SenderInv, PacketizeRect, Current, WorkerIdle,
         PacketFrameId
<1>4. NetInv'
  BY DEF IInv, NetInv, PacketizeRect
<1>5. AssemblerInv' /\ OutInv'
  BY QuietStep DEF PacketizeRect
<1> QED
  BY <1>2, <1>3, <1>4, <1>5 DEF IInv

LEMMA EncodeFailsIInv == ASSUME IInv, EncodeFails PROVE IInv'
<1>1. TypeOK'
  BY DEF IInv, TypeOK, EncodeFails, assemblerVars
<1>2. SenderInv' /\ NetInv'
  BY DEF IInv, TypeOK, SenderInv, NetInv, EncodeFails
<1>3. AssemblerInv' /\ OutInv'
  BY QuietStep DEF EncodeFails
<1> QED
  BY <1>1, <1>2, <1>3 DEF IInv

LEMMA SendPartIInv == ASSUME IInv, SendPart PROVE IInv'
<1>1. /\ Current \in sent /\ part < count /\ rect < rects
      /\ serial \in Serials
  BY DEF IInv, SenderInv, SendPart
<1>2. PartOf(Current, part) \in Datagrams
  BY <1>1 DEF IInv, TypeOK, PartOf
<1>3. TypeOK'
  <2>1. net' \subseteq Datagrams
    BY <1>2 DEF IInv, TypeOK, SendPart
  <2>2. /\ whole' \subseteq Serials
        /\ count' \in 0..MaxParts /\ part' \in Nat /\ rect' \in 0..rects
    <3>1. /\ count \in 0..MaxParts /\ part \in Nat /\ rect \in 0..rects
          /\ rects \in 0..MaxRects /\ whole \subseteq Serials
      BY DEF IInv, TypeOK
    <3>2. CASE part + 1 = count
      <4>1. whole' = whole \cup {serial} /\ count' = 0 /\ part' = 0
            /\ rect' = rect + 1
        BY <3>2 DEF SendPart
      <4> QED
        BY <1>1, <3>1, <4>1
    <3>3. CASE part + 1 # count
      <4>1. part' = part + 1 /\ UNCHANGED <<whole, count, rect>>
        BY <3>3 DEF SendPart
      <4> QED
        BY <3>1, <4>1
    <3> QED
      BY <3>2, <3>3
  <2>3. UNCHANGED <<captured, recoveries, taskFrame, rects, serial, sent,
                    inOrder, assemblerVars>>
    BY DEF SendPart
  <2> QED
    BY <2>1, <2>2, <2>3 DEF IInv, TypeOK, assemblerVars
<1>4. SenderInv'
  <2>1. CASE part + 1 = count
    BY <2>1 DEF SenderInv, SendPart
  <2>2. CASE part + 1 # count
    BY <1>1, <2>2 DEF IInv, TypeOK, SenderInv, SendPart, Current
  <2> QED
    BY <2>1, <2>2
<1>5. NetInv'
  <2> DEFINE new == PartOf(Current, part)
  <2>1. /\ new.part < new.count
        /\ [id |-> new.id, count |-> new.count, serial |-> new.serial] \in sent
    BY <1>1 DEF PartOf, Current
  <2>2. net' = net \cup {new} /\ sent' = sent
    BY DEF SendPart
  <2> QED
    BY <2>1, <2>2 DEF IInv, NetInv
<1>6. AssemblerInv' /\ OutInv'
  BY QuietStep DEF SendPart
<1> QED
  BY <1>3, <1>4, <1>5, <1>6 DEF IInv

LEMMA SendFailsIInv == ASSUME IInv, SendFails PROVE IInv'
<1>1. TypeOK'
  BY DEF IInv, TypeOK, SendFails, assemblerVars
<1>2. SenderInv' /\ NetInv'
  BY DEF IInv, TypeOK, SenderInv, NetInv, SendFails
<1>3. AssemblerInv' /\ OutInv'
  BY QuietStep DEF SendFails
<1> QED
  BY <1>1, <1>2, <1>3 DEF IInv

LEMMA RestartCaptureIInv == ASSUME IInv, RestartCapture PROVE IInv'
<1>1. TypeOK'
  BY DEF IInv, TypeOK, RestartCapture, assemblerVars
<1>2. SenderInv' /\ NetInv'
  BY DEF IInv, TypeOK, SenderInv, NetInv, RestartCapture, Current
<1>3. AssemblerInv' /\ OutInv'
  BY QuietStep DEF RestartCapture
<1> QED
  BY <1>1, <1>2, <1>3 DEF IInv

LEMMA LoseIInv == ASSUME IInv, NEW d \in net, Lose(d) PROVE IInv'
<1>1. TypeOK'
  BY DEF IInv, TypeOK, Lose, assemblerVars, senderVars
<1>2. SenderInv' /\ NetInv'
  BY DEF IInv, TypeOK, SenderInv, NetInv, Lose, senderVars, Current
<1>3. AssemblerInv' /\ OutInv'
  BY QuietStep DEF Lose, senderVars
<1> QED
  BY <1>1, <1>2, <1>3 DEF IInv

LEMMA DeliverIInv == ASSUME IInv, NEW d \in net, Deliver(d) PROVE IInv'
<1>1. UNCHANGED <<senderVars, inOrder>> /\ net' \subseteq net /\ PushDatagram(d)
  BY DEF Deliver
<1>2. SenderInv' /\ NetInv'
  BY <1>1 DEF IInv, SenderInv, NetInv, senderVars, Current
<1>3. CASE CountAfter(d) = d.count
  <2>1. /\ out' = [id |-> d.id, count |-> d.count, header |-> HeaderAfter(d),
                   parts |-> ContentAfter(d)]
        /\ Reset
    BY <1>1, <1>3 DEF PushDatagram
  <2>2. OutInv'
    <3>1. /\ DOMAIN ContentAfter(d) = 0..(d.count - 1)
          /\ \A p \in 0..(d.count - 1) :
                [id |-> d.id, count |-> d.count,
                 serial |-> ContentAfter(d)[p]] \in sent
      BY <1>3, AfterDatagram
    <3>2. CompleteFrame'
      BY <1>1, <2>1, <3>1 DEF CompleteFrame, senderVars
    <3> QED
      BY <1>1, <2>1, <3>2, AfterDatagram DEF OutInv, senderVars
  <2>3. AssemblerInv'
    BY <2>1, FS_EmptySet DEF AssemblerInv, AssemblyIncomplete, Reset
  <2>4. TypeOK'
    <3>1. HeaderAfter(d) \in Serials
      BY AfterDatagram
    <3> QED
      BY <1>1, <2>1, <3>1 DEF IInv, TypeOK, Reset, senderVars
  <2> QED
    BY <1>2, <2>2, <2>3, <2>4 DEF IInv
<1>4. CASE CountAfter(d) # d.count
  <2>1. /\ out' = NoFrame
        /\ frameId_' = d.id /\ partCount_' = d.count
        /\ receivedParts_' = CountAfter(d)
        /\ received_' = PartsAfter(d) /\ parts_' = ContentAfter(d)
        /\ header_' = HeaderAfter(d)
    BY <1>1, <1>4 DEF PushDatagram
  <2>2. OutInv'
    BY <2>1 DEF OutInv
  <2>3. AssemblerInv'
    <3>1. AssemblyIncomplete'
      <4>1. /\ d.count \in 1..MaxParts /\ CountAfter(d) \in 0..d.count
            /\ CountAfter(d) = Cardinality(PartsAfter(d))
            /\ PartsAfter(d) \subseteq 0..(d.count - 1)
        BY AfterDatagram
      <4>2. CountAfter(d) < d.count
        BY <1>4, <4>1
      <4>3. /\ received_' = PartsAfter(d) /\ receivedParts_' = CountAfter(d)
            /\ partCount_' = d.count
        BY <2>1
      <4> QED
        BY <4>1, <4>2, <4>3 DEF AssemblyIncomplete
    <3>2. sent' = sent
      BY <1>1 DEF senderVars
    <3> QED
      BY <2>1, <3>1, <3>2, AfterDatagram DEF AssemblerInv
  <2>4. TypeOK'
    <3>1. /\ d \in Datagrams /\ d.count \in 1..MaxParts
          /\ CountAfter(d) \in 0..d.count
          /\ PartsAfter(d) \subseteq 0..(d.count - 1)
          /\ ContentAfter(d) \in [PartsAfter(d) -> Serials]
          /\ HeaderAfter(d) \in Serials
      BY AfterDatagram
    <3>2. d.id \in Nat /\ CountAfter(d) \in Nat
      BY <3>1
    <3>3. PartsAfter(d) \subseteq 0..(MaxParts - 1)
      BY <3>1
    <3> QED
      BY <1>1, <2>1, <3>1, <3>2, <3>3 DEF IInv, TypeOK, senderVars
  <2> QED
    BY <1>2, <2>2, <2>3, <2>4 DEF IInv
<1> QED
  BY <1>3, <1>4

LEMMA StepIInv == IInv /\ [Next]_vars => IInv'
<1> SUFFICES ASSUME IInv, [Next]_vars PROVE IInv'
  OBVIOUS
<1>1. CASE Host
  BY <1>1, TakeTaskIInv, PacketizeRectIInv, EncodeFailsIInv, SendPartIInv,
     SendFailsIInv, RestartCaptureIInv DEF Host
<1>2. CASE Network
  BY <1>2, LoseIInv, DeliverIInv DEF Network
<1>3. CASE UNCHANGED vars
  BY <1>3 DEF vars, senderVars, assemblerVars, IInv, TypeOK, SenderInv, NetInv,
              AssemblerInv, AssemblyIncomplete, OutInv, CompleteFrame, Current
<1> QED
  BY <1>1, <1>2, <1>3 DEF Next

-----------------------------------------------------------------------------
(***************************************************************************)
(* Results.                                                                *)
(***************************************************************************)
LEMMA InvariantIInv == Spec => []IInv
  BY InitIInv, StepIInv, PTL DEF Spec

\* Type correctness: in particular parts_ and received_ always agree, and no
\* part index beyond the largest frame is ever stored.
THEOREM TypeCorrect == Spec => []TypeOK
  BY InvariantIInv, PTL DEF IInv

\* pushDatagram's counter always equals the number of parts held and a complete
\* frame is handed over in the very step that completes it.
THEOREM CounterCorrect == Spec => []AssemblyIncomplete
  BY InvariantIInv, PTL DEF IInv, AssemblerInv

\* However datagrams are lost, repeated and reordered and however often the
\* capture engine restarts, a frame handed to the decoder has all its parts,
\* each from a rectangle sent under the frame's id and part count.
THEOREM HandsOverCompleteFrames == Spec => []CompleteFrame
<1>1. IInv => CompleteFrame
  BY DEF IInv, OutInv, CompleteFrame
<1> QED
  BY <1>1, InvariantIInv, PTL

-----------------------------------------------------------------------------
(***************************************************************************)
(* While the capture engine has not been restarted, an id names one        *)
(* rectangle: ids are handed out in increasing order.                      *)
(***************************************************************************)
IdsInOrder ==
    /\ taskFrame <= captured
    /\ \A s \in sent : s.id < (taskFrame + 1) * Stride
    /\ count = 0 /\ rect < rects =>
          \A s \in sent : s.id < PacketFrameId(taskFrame, rect)
    /\ count # 0 =>
          \A s \in sent : s.id < PacketFrameId(taskFrame, rect) \/ s = Current
    /\ \A s, t \in sent : s.id = t.id => s = t

IdInv == recoveries = 0 => IdsInOrder

\* The ids of a frame lie between its multiple of the stride and the next.
LEMMA StrideBounds ==
  ASSUME NEW a \in Nat, NEW b \in Nat
  PROVE  /\ a * Stride \in Nat /\ (a + 1) * Stride = a * Stride + Stride
         /\ a < b => (a + 1) * Stride <= b * Stride
<1>1. (a + 1) * Stride = a * Stride + Stride /\ a * Stride \in Nat
  OBVIOUS
<1>2. ASSUME a < b PROVE (a + 1) * Stride <= b * Stride
  <2>1. PICK k \in Nat : b = a + 1 + k
    <3>1. b - a - 1 \in Nat /\ b = a + 1 + (b - a - 1)
      BY <1>2
    <3> QED
      BY <3>1
  <2>2. b * Stride = (a + 1) * Stride + k * Stride /\ k * Stride \in Nat
    BY <2>1
  <2> QED
    BY <2>2
<1> QED
  BY <1>1, <1>2

LEMMA InitIdInv == Init => IdInv
  BY DEF Init, IdInv, IdsInOrder

LEMMA StepIdInv ==
  ASSUME IInv, IdInv, [Next]_vars
  PROVE  IdInv'
<1> SUFFICES ASSUME recoveries' = 0 PROVE IdsInOrder'
  BY DEF IdInv
<1> DEFINE base == taskFrame * Stride
<1>0. recoveries = 0 /\ ~RestartCapture
  <2>1. recoveries \in Nat
    BY DEF IInv, TypeOK
  <2>2. ~RestartCapture
    BY <2>1 DEF RestartCapture
  <2>3. UNCHANGED recoveries
    BY <2>2 DEF Next, Host, Network, TakeTask, PacketizeRect, EncodeFails,
                SendPart, SendFails, Lose, Deliver, senderVars, vars
  <2> QED
    BY <2>2, <2>3
<1>a. IdsInOrder
  BY <1>0 DEF IdInv
<1>1. /\ taskFrame \in Nat /\ captured \in Nat /\ rect \in 0..rects
      /\ rects \in 0..MaxRects /\ count \in 0..MaxParts /\ part \in Nat
      /\ base \in Nat /\ (taskFrame + 1) * Stride = base + Stride
      /\ PacketFrameId(taskFrame, rect) = base + rect
      /\ \A s \in sent : s.id \in Nat
  BY StrideBounds DEF IInv, TypeOK, PacketFrameId
<1>2. ASSUME NEW n \in 1..MaxRects, NEW skipped \in 0..1, TakeTask(n, skipped)
      PROVE  IdsInOrder'
  <2>1. /\ captured' = taskFrame' /\ taskFrame' \in Nat /\ taskFrame < taskFrame'
        /\ sent' = sent /\ rect' = 0 /\ UNCHANGED <<count, recoveries>>
    BY <1>a, <1>1, <1>2 DEF TakeTask, IdsInOrder
  <2>2. count = 0
    <3>1. rect = rects /\ ~(rect < rects)
      BY <1>1, <1>2 DEF TakeTask, WorkerIdle
    <3> QED
      BY <3>1 DEF IInv, SenderInv
  <2>3. /\ (taskFrame + 1) * Stride <= taskFrame' * Stride
        /\ taskFrame' * Stride \in Nat
        /\ (taskFrame' + 1) * Stride = taskFrame' * Stride + Stride
        /\ PacketFrameId(taskFrame', 0) = taskFrame' * Stride
    <3>1. (taskFrame + 1) * Stride <= taskFrame' * Stride
      BY <1>1, <2>1, StrideBounds
    <3>2. /\ taskFrame' * Stride \in Nat
          /\ (taskFrame' + 1) * Stride = taskFrame' * Stride + Stride
      BY <2>1, StrideBounds
    <3>3. PacketFrameId(taskFrame', 0) = taskFrame' * Stride
      BY <3>2 DEF PacketFrameId
    <3> QED
      BY <3>1, <3>2, <3>3
  <2>4. \A s \in sent : s.id < taskFrame' * Stride
    BY <1>a, <1>1, <2>3 DEF IdsInOrder
  <2> QED
    BY <1>a, <1>1, <2>1, <2>2, <2>3, <2>4 DEF IdsInOrder
<1>3. ASSUME NEW c \in 1..MaxParts, PacketizeRect(c)
      PROVE  IdsInOrder'
  <2> DEFINE new == [id |-> PacketFrameId(taskFrame, rect), count |-> c,
                     serial |-> serial + 1]
  <2>1. /\ sent' = sent \cup {new} /\ count' = c /\ c # 0 /\ Current' = new
        /\ UNCHANGED <<captured, recoveries, taskFrame, rects, rect>>
    BY <1>3 DEF PacketizeRect, Current, PacketFrameId
  <2>2. rect < rects /\ rect < Stride /\ count = 0
    BY <1>1, <1>3 DEF PacketizeRect, WorkerIdle
  <2>3. \A s \in sent : s.id < PacketFrameId(taskFrame, rect)
    BY <1>a, <2>2 DEF IdsInOrder
  <2>4. new.id < (taskFrame + 1) * Stride
    BY <1>1, <2>2
  <2>5. \A s \in sent' : s.id < (taskFrame' + 1) * Stride
    BY <1>a, <2>1, <2>4 DEF IdsInOrder
  <2>6. \A s, t \in sent' : s.id = t.id => s = t
    BY <1>a, <1>1, <2>1, <2>3 DEF IdsInOrder
  <2>7. \A s \in sent' : s.id < PacketFrameId(taskFrame', rect') \/ s = Current'
    BY <2>1, <2>3
  <2> QED
    BY <1>a, <2>1, <2>5, <2>6, <2>7 DEF IdsInOrder
<1>4. CASE EncodeFails \/ SendFails
  BY <1>a, <1>1, <1>4 DEF EncodeFails, SendFails, IdsInOrder
<1>5. CASE SendPart
  <2>1. UNCHANGED <<captured, recoveries, taskFrame, rects, serial, sent>>
    BY <1>5 DEF SendPart
  <2>2. CASE part + 1 = count
    <3>1. count' = 0 /\ rect' = rect + 1
      BY <1>5, <2>2 DEF SendPart
    <3>2. PacketFrameId(taskFrame', rect') = base + rect + 1
      BY <1>1, <2>1, <3>1 DEF PacketFrameId
    <3>3. \A s \in sent : s.id < base + rect \/ s.id = base + rect
      BY <1>a, <1>1, <1>5 DEF IdsInOrder, SendPart, Current
    <3>4. \A s \in sent' : s.id < PacketFrameId(taskFrame', rect')
      BY <1>1, <2>1, <3>2, <3>3
    <3> QED
      BY <1>a, <2>1, <3>1, <3>4 DEF IdsInOrder
  <2>3. CASE part + 1 # count
    <3>1. UNCHANGED <<count, rect>> /\ count # 0
      BY <1>5, <2>3 DEF SendPart
    <3>2. Current' = Current
      BY <2>1, <3>1 DEF Current, PacketFrameId
    <3> QED
      BY <1>a, <2>1, <3>1, <3>2 DEF IdsInOrder, PacketFrameId
  <2> QED
    BY <2>2, <2>3
<1>7. CASE Network \/ UNCHANGED vars
  <2>1. UNCHANGED senderVars
    BY <1>7 DEF Network, Lose, Deliver, vars
  <2> QED
    BY <1>a, <2>1 DEF senderVars, IdsInOrder, Current, PacketFrameId
<1> QED
  BY <1>0, <1>2, <1>3, <1>4, <1>5, <1>7 DEF Next, Host

LEMMA InvariantIdInv == Spec => [](IInv /\ IdInv)
<1>1. Init => IInv /\ IdInv
  BY InitIInv, InitIdInv
<1>2. IInv /\ IdInv /\ [Next]_vars => (IInv /\ IdInv)'
  BY StepIInv, StepIdInv
<1> QED
  BY <1>1, <1>2, PTL DEF Spec

LEMMA NoTornFrameFromInvariants == IInv /\ IdInv => NoTornFrame
<1> SUFFICES ASSUME IInv, IdInv, recoveries = 0, out # NoFrame
             PROVE  Untorn(out)
  BY DEF NoTornFrame
<1>1. /\ CompleteFrame
      /\ [id |-> out.id, count |-> out.count, serial |-> out.header] \in sent
  BY DEF IInv, OutInv
<1>2. \A s, t \in sent : s.id = t.id => s = t
  BY DEF IdInv, IdsInOrder
<1>3. ASSUME NEW p \in DOMAIN out.parts
      PROVE  out.parts[p] = out.header
  <2>1. [id |-> out.id, count |-> out.count, serial |-> out.parts[p]] \in sent
    BY <1>1 DEF CompleteFrame
  <2> QED
    BY <1>1, <1>2, <2>1
<1> QED
  BY <1>1, <1>3 DEF CompleteFrame, Untorn

\* As long as the capture engine is not restarted within a session, a frame
\* handed to the decoder is one rectangle as it was captured and nothing else:
\* no datagram of another rectangle is ever mixed in.
THEOREM NoTornFrames == Spec => []NoTornFrame
  BY InvariantIdInv, NoTornFrameFromInvariants, PTL

-----------------------------------------------------------------------------
(***************************************************************************)
(* The transport implements the abstract channel.                          *)
(***************************************************************************)
LEMMA InitImplements == Init => Channel!ChannelInit
  BY DEF Init, Channel!ChannelInit, Picture

LEMMA StepImplements ==
  ASSUME IInv, IInv', NoTornFrame', [Next]_vars
  PROVE  [Channel!ChannelNext]_(Channel!channelVars)
<1> DEFINE handed == IF recoveries = 0 THEN Picture(out) ELSE NoFrame
<1>1. CASE recoveries' # 0 \/ out' = NoFrame
  <2>1. handed' = NoFrame
    BY <1>1 DEF Picture
  <2>2. sent \subseteq sent'
    BY DEF Next, Host, Network, TakeTask, PacketizeRect, EncodeFails, SendPart,
           SendFails, RestartCapture, Lose, Deliver, senderVars, vars
  <2>3. sent' \subseteq Rectangles
    BY DEF IInv, TypeOK
  <2> QED
    BY <2>1, <2>2, <2>3 DEF Channel!ChannelNext, Channel!Submit
<1>2. CASE recoveries' = 0 /\ out' # NoFrame /\ ~UNCHANGED vars
  <2>1. PICK d \in net : Deliver(d)
    BY <1>2 DEF Next, Host, Network, TakeTask, PacketizeRect, EncodeFails,
                SendPart, SendFails, RestartCapture, Lose
  <2>2. sent' = sent
    BY <2>1 DEF Deliver, senderVars
  <2>3. Picture(out)' \in sent
    BY <1>2, <2>2 DEF NoTornFrame, Picture, Untorn
  <2>4. handed' \in sent
    BY <1>2, <2>3
  <2> QED
    BY <2>2, <2>4 DEF Channel!ChannelNext, Channel!HandOver
<1>3. CASE UNCHANGED vars
  BY <1>3 DEF vars, senderVars, Channel!channelVars, Picture, Untorn
<1> QED
  BY <1>1, <1>2, <1>3

\* Seen from the decoder, UDP, the packetizer and the assembler together are a
\* channel that may lose, repeat and reorder pictures but alters none.
THEOREM StreamImplementsChannel == Spec => ImplementsChannel
<1>1. IInv /\ IInv' /\ NoTornFrame' /\ [Next]_vars
        => [Channel!ChannelNext]_(Channel!channelVars)
  BY StepImplements
<1> QED
  BY <1>1, InitImplements, InvariantIInv, NoTornFrames, PTL
  DEF Spec, ImplementsChannel, Channel!ChannelSpec
=============================================================================
