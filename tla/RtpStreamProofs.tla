--------------------------- MODULE RtpStreamProofs ---------------------------
(***************************************************************************)
(* Proofs about the H.264 transport, for any number of frames, sizes of    *)
(* NAL units, sequence space and packets in flight.                        *)
(***************************************************************************)
EXTENDS RtpStream, SequenceTheorems, TLAPS

(***************************************************************************)
(* Arithmetic of sequence numbers.                                         *)
(***************************************************************************)
\* Numbers that are less than M apart are told from each other modulo M.
LEMMA ModInjective ==
    ASSUME NEW a \in Nat, NEW b \in Nat, NEW M \in Nat \ {0},
           a % M = b % M, a - b < M, b - a < M
    PROVE  a = b
<1>1. a = M * (a \div M) + (a % M)
  BY SMT
<1>2. b = M * (b \div M) + (b % M)
  BY SMT
<1> DEFINE q == a \div M  r == b \div M
<1>3. q \in Int /\ r \in Int
  BY SMT
<1>4. a - b = M * (q - r)
  BY <1>1, <1>2, <1>3, SMT
<1> HIDE DEF q, r
<1>5. ~(q - r >= 1)
  BY <1>3, <1>4, SMT
<1>6. ~(r - q >= 1)
  BY <1>3, <1>4, SMT
<1>7. q = r
  BY <1>3, <1>5, <1>6, SMT
<1> QED BY <1>7, <1>4, <1>3, SMT

\* The difference of two remainders is the difference, when that fits.
LEMMA ModDifference ==
    ASSUME NEW a \in Nat, NEW b \in Nat, NEW M \in Nat \ {0},
           0 <= a - b, a - b < M
    PROVE  ((a % M) - (b % M)) % M = a - b
<1> DEFINE x == (a % M) - (b % M)
           q == a \div M  r == b \div M  s == x \div M  y == x % M
<1>1. /\ a = M * q + (a % M) /\ b = M * r + (b % M)
      /\ q \in Int /\ r \in Int /\ x \in Int
  BY SMT
<1>2. x = M * s + y /\ y \in 0..(M - 1) /\ s \in Int
  <2> HIDE DEF x
  <2> QED BY <1>1, SMT
<1>3. a - b = M * (q - r) + x
  BY <1>1, SMT
<1> HIDE DEF x, q, r, s, y
<1>4. q - r + s \in Int /\ (a - b) - y = M * (q - r + s)
  BY <1>1, <1>2, <1>3, SMT
<1>5. ~(q - r + s >= 1)
  BY <1>2, <1>4, SMT
<1>6. ~(q - r + s <= -1)
  BY <1>2, <1>4, SMT
<1>7. (a - b) - y = 0
  BY <1>4, <1>5, <1>6, SMT
<1>8. y = a - b
  BY <1>2, <1>7, SMT
<1> QED BY <1>8 DEF y, x

\* The successor of a remainder is the remainder of the successor.
LEMMA ModSuccessor ==
    ASSUME NEW a \in Nat, NEW M \in Nat \ {0, 1}
    PROVE  ((a % M) + 1) % M = (a + 1) % M
<1> DEFINE x == (a % M) + 1  y == x % M  z == (a + 1) % M
           q == a \div M  r == x \div M  t == (a + 1) \div M
<1>1. a = M * q + (a % M) /\ q \in Int /\ x \in Nat
  BY SMT
<1>2. x = M * r + y /\ y \in 0..(M - 1) /\ r \in Int
  <2> HIDE DEF x
  <2> QED BY <1>1, SMT
<1>3. a + 1 = M * t + z /\ z \in 0..(M - 1) /\ t \in Int
  BY SMT
<1>4. a + 1 = M * q + x
  BY <1>1, SMT
<1> HIDE DEF x, y, z, q, r, t
<1>5. q + r - t \in Int /\ z - y = M * (q + r - t)
  BY <1>1, <1>2, <1>3, <1>4, SMT
<1>6. ~(q + r - t >= 1)
  BY <1>2, <1>3, <1>5, SMT
<1>7. ~(q + r - t <= -1)
  BY <1>2, <1>3, <1>5, SMT
<1>8. z - y = 0
  BY <1>5, <1>6, <1>7, SMT
<1>9. z = y
  BY <1>2, <1>3, <1>8, SMT
<1> QED BY <1>9 DEF x, y, z

LEMMA ModRange ==
    ASSUME NEW a \in Nat, NEW M \in Nat \ {0}
    PROVE  a % M \in 0..(M - 1)
BY SMT

(***************************************************************************)
(* The sender.  Sequence numbers before they wrap are handed out once:     *)
(* the NAL units that were packetized occupy disjoint intervals of them,   *)
(* and those of one frame lie within one turn of the 16-bit number.        *)
(***************************************************************************)
Shapes == {<< >>, <<"slice">>, <<"params">>, <<"placeholder">>,
           <<"params", "slice">>, <<"params", "idr">>}

SenderInv ==
    /\ frame \in Nat /\ frags \in Nat /\ frag \in Nat \ {0} /\ allocated \in Nat
    /\ nalUnits \in Shapes /\ index \in 1..(Len(nalUnits) + 1)
    /\ frags # 0 => /\ frag <= frags /\ index <= Len(nalUnits)
                    /\ frags <= allocated /\ open_ = TRUE

SentInv ==
    /\ \A u \in sent : /\ u \in NalUnits /\ u.frame <= frame
                       /\ u.first + u.frags <= allocated
    /\ \A u, v \in sent : \/ u = v
                          \/ u.first + u.frags <= v.first
                          \/ v.first + v.frags <= u.first
    /\ \A u, v \in sent : u.frame = v.frame => u.first + u.frags - v.first <= SeqMod
    /\ frags # 0 => Outgoing \in sent
    /\ whole \subseteq sent

\* The NAL units of the frame that is being sent, as long as the socket is open.
FrameInv ==
    open_ => \A u \in sent : u.frame = frame =>
        /\ u.index <= index
        /\ u.index = index => frags # 0
        /\ u.index = index \/ (u.index + 1 = index /\ frags = 0)
              => u.first + u.frags = allocated
        /\ u.index = 1 /\ nalUnits[1] = "params" => u.frags = 1

ParamsInv ==
    /\ index = 2 /\ Len(nalUnits) = 2 =>
           \E v \in sent : v.frame = frame /\ v.kind = "params" /\ v.first < allocated
    /\ IdrDecodable

HostInv == SenderInv /\ SentInv /\ FrameInv /\ ParamsInv

LEMMA ShapeFacts ==
    ASSUME nalUnits \in Shapes
    PROVE  /\ nalUnits \in Seq(Kinds) /\ Len(nalUnits) \in 0..2
           /\ Len(nalUnits) >= 1 => nalUnits[1] \in Kinds /\ nalUnits[1] # "idr"
           /\ Len(nalUnits) = 2 => /\ nalUnits[1] = "params"
                                  /\ nalUnits[2] \in {"slice", "idr"}
<1>1. CASE nalUnits = << >>
  <2>1. Len(<< >>) = 0 /\ << >> \in Seq(Kinds)
    BY EmptySeq
  <2> QED BY <1>1, <2>1
<1>2. CASE \E k \in {"slice", "params", "placeholder"} : nalUnits = <<k>>
  BY <1>2 DEF Kinds
<1>3. CASE \E k \in {"slice", "idr"} : nalUnits = <<"params", k>>
  BY <1>3 DEF Kinds
<1> QED BY <1>1, <1>2, <1>3 DEF Shapes

LEMMA Prefixed ==
    ASSUME NEW a, NEW b
    PROVE  /\ <<a>> \o << >> = <<a>>
           /\ <<a>> \o <<b>> = <<a, b>>
<1> DEFINE S == {a, b}  s == <<a>> \o <<b>>  t == <<a, b>>
<1>1. <<a>> \in Seq(S) /\ <<b>> \in Seq(S) /\ t \in Seq(S)
  OBVIOUS
<1>2. <<a>> \o << >> = <<a>>
  BY <1>1, ConcatEmptySeq
<1>3. /\ Len(<<a>>) = 1 /\ Len(<<b>>) = 1 /\ Len(t) = 2
      /\ <<a>>[1] = a /\ <<b>>[1] = b /\ t[1] = a /\ t[2] = b
  OBVIOUS
<1>4. s \in Seq(S) /\ Len(s) = 2 /\ s[1] = a /\ s[2] = b
  BY <1>1, <1>3, ConcatProperties
<1>5. s = t
  <2> HIDE DEF s, t, S
  <2>1. Len(s) = Len(t) /\ \A i \in 1..Len(s) : s[i] = t[i]
    BY <1>3, <1>4
  <2> QED BY <1>1, <1>4, <2>1, SeqEqual
<1> QED BY <1>2, <1>5

\* An IDR picture leaves encode with parameter sets in front of it.
LEMMA EncodedShape ==
    ASSUME NEW units \in Pictures, NEW known \in BOOLEAN,
           Has(units, "idr") /\ ~Has(units, "params") => known
    PROVE  WithParameters(units, frame + 1, known) \in Shapes
<1>1. CASE units = << >>
  BY <1>1, Prefixed DEF WithParameters, Shapes
<1>2. CASE units = <<"slice">>
  BY <1>2, Prefixed DEF WithParameters, Shapes
<1>3. CASE units = <<"idr">>
  <2>1. Has(units, "idr") /\ ~Has(units, "params")
    BY <1>3 DEF Has
  <2> QED BY <1>3, <2>1, Prefixed DEF WithParameters, Shapes
<1>4. CASE units = <<"params", "idr">>
  <2>1. Has(units, "params")
    BY <1>4 DEF Has
  <2> QED BY <1>4, <2>1 DEF WithParameters, Shapes
<1> QED BY <1>1, <1>2, <1>3, <1>4 DEF Pictures

LEMMA NewFrame ==
    ASSUME HostInv, NEW units \in Shapes, NextFrame(units)
    PROVE  HostInv'
<1> USE DEF HostInv
<1>1. /\ frame' = frame + 1 /\ nalUnits' = units /\ index' = 1
      /\ UNCHANGED <<frags, frag, allocated, open_, sent, whole>>
      /\ Idle
  BY DEF NextFrame
<1>2. frags = 0
  BY <1>1 DEF Idle, SenderInv
<1>3. Len(nalUnits) \in Nat /\ Len(units) \in Nat
  <2>1. Len(<< >>) = 0
    BY EmptySeq
  <2> QED BY <2>1, ShapeFacts DEF SenderInv, Shapes
<1>4. SenderInv'
  BY <1>1, <1>2, <1>3 DEF SenderInv
<1>5. \A u \in sent : u.frame \in Nat /\ u.frame <= frame /\ frame \in Nat
  BY DEF SentInv, SenderInv, NalUnits
<1>6. SentInv'
  BY <1>1, <1>2, <1>5 DEF SentInv
<1>7. FrameInv'
  BY <1>1, <1>5 DEF FrameInv
<1>8. ParamsInv'
  BY <1>1 DEF ParamsInv, IdrDecodable
<1> QED BY <1>4, <1>6, <1>7, <1>8

LEMMA CutNal ==
    ASSUME HostInv, NEW c, PacketizeNal(c)
    PROVE  HostInv'
<1> USE DEF HostInv
<1> DEFINE n == CurrentNal(c)
<1>1. /\ open_ /\ index \in 1..Len(nalUnits) /\ frags = 0 /\ frags' = c /\ frag' = 1
      /\ sent' = sent \cup {n} /\ allocated' = allocated + c
      /\ UNCHANGED <<frame, nalUnits, index, open_, whole>>
  <2>1. Len(nalUnits) \in Nat
    BY ShapeFacts DEF SenderInv
  <2> QED BY <2>1 DEF PacketizeNal, encoderVars, Idle, SenderInv
<1>2. /\ c \in Nat \ {0} /\ c <= SeqMod
      /\ nalUnits[index] # "placeholder" => c + 1 <= SeqMod
      /\ nalUnits[index] = "params" => c = 1
  <2>1. c \in PacketsOf(nalUnits[index])
    BY DEF PacketizeNal
  <2>2. CASE nalUnits[index] = "params"
    BY <2>1, <2>2, RtpAssumption DEF PacketsOf
  <2>3. CASE nalUnits[index] = "placeholder"
    BY <2>1, <2>3, RtpAssumption, FrameFits DEF PacketsOf
  <2>4. CASE nalUnits[index] \notin {"params", "placeholder"}
    <3>1. c \in FragCounts
      BY <2>1, <2>4 DEF PacketsOf
    <3> QED BY <3>1, <2>4, RtpAssumption, FrameFits
  <2> QED BY <2>2, <2>3, <2>4
<1>3. /\ nalUnits[index] \in Kinds
      /\ \/ index = 1 /\ nalUnits[index] # "idr"
         \/ /\ index = 2 /\ nalUnits[1] = "params" /\ Len(nalUnits) = 2
            /\ nalUnits[index] # "placeholder"
  <2>1. Len(nalUnits) \in 0..2 /\ index \in 1..Len(nalUnits)
    BY <1>1, ShapeFacts DEF SenderInv
  <2>2. CASE index = 1
    BY <2>1, <2>2, ShapeFacts DEF SenderInv
  <2>3. CASE index = 2 /\ Len(nalUnits) = 2
    BY <2>3, ShapeFacts DEF SenderInv, Kinds
  <2>4. index = 1 \/ (index = 2 /\ Len(nalUnits) = 2)
    <3> DEFINE l == Len(nalUnits)
    <3>1. l \in 0..2 /\ index \in 1..l
      BY <2>1
    <3> HIDE DEF l
    <3>2. index = 1 \/ (index = 2 /\ l = 2)
      BY <3>1
    <3> QED BY <3>2 DEF l
  <2> QED BY <2>2, <2>3, <2>4
<1>4. /\ frame \in Nat /\ allocated \in Nat /\ index \in Nat \ {0}
      /\ SeqMod \in Nat /\ Len(nalUnits) \in Nat
  BY <1>1, ShapeFacts, RtpAssumption DEF SenderInv
<1>5. /\ n \in NalUnits /\ n.frame = frame /\ n.index = index /\ n.first = allocated
      /\ n.frags = c /\ n.kind = nalUnits[index]
  BY <1>2, <1>3, <1>4 DEF CurrentNal, NalUnits
<1>6. Outgoing' = n
  <2>1. allocated' - frags' = allocated
    BY <1>1, <1>2, <1>4
  <2> QED BY <1>1, <2>1 DEF Outgoing, CurrentNal
<1> HIDE DEF n
<1>7. \A u \in sent : /\ u.first \in Nat /\ u.frags \in Nat \ {0} /\ u.index \in Nat \ {0}
                      /\ u.frame \in Nat /\ u.first + u.frags <= allocated
  BY DEF SentInv, NalUnits
<1>8. \A u \in sent : u.frame = frame =>
          /\ index = 2 /\ u.first + u.frags = allocated /\ u.frags = 1
          /\ c + 1 <= SeqMod
  <2> SUFFICES ASSUME NEW u \in sent, u.frame = frame
               PROVE  /\ index = 2 /\ u.first + u.frags = allocated /\ u.frags = 1
                      /\ c + 1 <= SeqMod
    OBVIOUS
  <2>1. u.index < index
    BY <1>1, <1>4, <1>7 DEF FrameInv
  <2>2. index = 2 /\ u.index = 1
    BY <1>3, <1>7, <2>1
  <2> QED BY <1>1, <1>2, <1>3, <2>2 DEF FrameInv
<1>9. SenderInv'
  BY <1>1, <1>2, <1>4 DEF SenderInv
<1>10. SentInv'
  <2>1. \A u \in sent' : /\ u \in NalUnits /\ u.frame <= frame'
                         /\ u.first + u.frags <= allocated'
    <3>1. ASSUME NEW u \in sent
          PROVE  u \in NalUnits /\ u.frame <= frame' /\ u.first + u.frags <= allocated'
      <4>1. u \in NalUnits /\ u.frame <= frame'
        BY <1>1 DEF SentInv
      <4>2. u.first + u.frags \in Nat /\ u.first + u.frags <= allocated
        BY <1>7
      <4>3. allocated' = allocated + c
        BY <1>1
      <4> QED BY <1>2, <1>4, <4>1, <4>2, <4>3
    <3>2. n \in NalUnits /\ n.frame <= frame' /\ n.first + n.frags <= allocated'
      BY <1>1, <1>2, <1>4, <1>5
    <3> QED BY <1>1, <3>1, <3>2
  <2>2. \A u, v \in sent' : \/ u = v
                            \/ u.first + u.frags <= v.first
                            \/ v.first + v.frags <= u.first
    BY <1>1, <1>5, <1>7 DEF SentInv
  <2>3. \A u, v \in sent' : u.frame = v.frame
            => u.first + u.frags - v.first <= SeqMod
    <3>1. ASSUME NEW u \in sent, u.frame = n.frame
          PROVE  /\ u.first + u.frags - n.first <= SeqMod
                 /\ n.first + n.frags - u.first <= SeqMod
      <4>1. u.first + 1 = allocated /\ u.frags = 1 /\ c + 1 <= SeqMod
        BY <1>5, <1>8, <3>1
      <4>2. n.first = u.first + 1 /\ n.frags = c /\ u.first \in Nat
        BY <1>5, <1>7, <3>1, <4>1
      <4>3. u.first + u.frags - n.first <= SeqMod
        BY <1>2, <1>4, <4>1, <4>2
      <4>4. n.first + n.frags - u.first <= SeqMod
        BY <1>2, <1>4, <4>1, <4>2
      <4> QED BY <4>3, <4>4
    <3>2. n.first + n.frags - n.first <= SeqMod
      BY <1>2, <1>4, <1>5
    <3> QED BY <1>1, <3>1, <3>2 DEF SentInv
  <2>4. Outgoing' \in sent' /\ whole' \subseteq sent'
    BY <1>1, <1>6 DEF SentInv
  <2> QED BY <2>1, <2>2, <2>3, <2>4 DEF SentInv
<1>11. FrameInv'
  <2> SUFFICES ASSUME NEW u \in sent', u.frame = frame'
               PROVE  /\ u.index <= index'
                      /\ u.index = index' => frags' # 0
                      /\ u.index = index' \/ (u.index + 1 = index' /\ frags' = 0)
                            => u.first + u.frags = allocated'
                      /\ u.index = 1 /\ nalUnits'[1] = "params" => u.frags = 1
    BY DEF FrameInv
  <2>1. CASE u \in sent
    <3>1. u.index <= index /\ u.index # index
      BY <1>1, <2>1 DEF FrameInv
    <3>2. u.frags = 1
      BY <1>1, <1>8, <2>1
    <3> QED BY <1>1, <1>2, <3>1, <3>2
  <2>2. CASE u = n
    BY <1>1, <1>2, <1>4, <1>5, <2>2
  <2> QED BY <1>1, <2>1, <2>2
<1>12. ParamsInv'
  <2>1. ASSUME index = 2, Len(nalUnits) = 2
        PROVE  \E v \in sent : v.frame = frame /\ v.kind = "params" /\ v.first < allocated
    BY <2>1 DEF ParamsInv
  <2>2. ASSUME index' = 2, Len(nalUnits') = 2
        PROVE  \E v \in sent' : v.frame = frame' /\ v.kind = "params"
                                /\ v.first < allocated'
    <3>1. PICK v \in sent : v.frame = frame /\ v.kind = "params" /\ v.first < allocated
      BY <1>1, <2>1, <2>2
    <3>2. v.first < allocated'
      BY <1>1, <1>2, <1>4, <1>7, <3>1
    <3> QED BY <1>1, <3>1, <3>2
  <2>3. ASSUME NEW u \in sent', u.kind = "idr"
        PROVE  \E v \in sent' : /\ v.kind = "params" /\ v.frame = u.frame
                                /\ v.first < u.first
    <3>1. CASE u \in sent
      BY <1>1, <2>3, <3>1 DEF ParamsInv, IdrDecodable
    <3>2. CASE u = n
      BY <1>1, <1>3, <1>5, <2>1, <2>3, <3>2
    <3> QED BY <1>1, <3>1, <3>2
  <2> QED BY <2>2, <2>3 DEF ParamsInv, IdrDecodable
<1> QED BY <1>9, <1>10, <1>11, <1>12

LEMMA SentPacket ==
    ASSUME HostInv, SendPacket
    PROVE  HostInv'
<1> USE DEF HostInv
<1>1. /\ frags # 0 /\ frag <= frags /\ index \in 1..Len(nalUnits) /\ open_
      /\ frags \in Nat /\ frag \in Nat \ {0} /\ allocated \in Nat /\ frags <= allocated
      /\ Outgoing \in sent /\ Len(nalUnits) \in 0..2
  BY ShapeFacts DEF SendPacket, SenderInv, SentInv
<1>2. UNCHANGED <<frame, nalUnits, allocated, open_, sent>>
  BY DEF SendPacket, encoderVars
<1>3. CASE frag = frags
  <2>1. /\ whole' = whole \cup {Outgoing} /\ frags' = 0 /\ frag' = 1
        /\ index' = index + 1
    BY <1>3 DEF SendPacket
  <2>2. SenderInv'
    BY <1>1, <1>2, <2>1 DEF SenderInv
  <2>3. SentInv'
    BY <1>1, <1>2, <2>1 DEF SentInv
  <2>4. FrameInv'
    <3> SUFFICES ASSUME NEW u \in sent, u.frame = frame
                 PROVE  /\ u.index <= index'
                        /\ u.index # index'
                        /\ u.index + 1 = index' => u.first + u.frags = allocated'
                        /\ u.index = 1 /\ nalUnits'[1] = "params" => u.frags = 1
      BY <1>2, <2>1 DEF FrameInv
    <3>1. u.index \in Nat /\ u.index <= index
      BY <1>1 DEF FrameInv, SentInv, NalUnits
    <3> QED BY <1>1, <1>2, <2>1, <3>1 DEF FrameInv
  <2>5. ParamsInv'
    <3>1. ASSUME index' = 2, Len(nalUnits') = 2
          PROVE  \E v \in sent' : v.frame = frame' /\ v.kind = "params"
                                  /\ v.first < allocated'
      <4>1. index = 1 /\ nalUnits[1] = "params"
        BY <1>1, <1>2, <2>1, <3>1, ShapeFacts DEF SenderInv
      <4>2. /\ Outgoing.frame = frame /\ Outgoing.kind = "params"
            /\ Outgoing.first = allocated - frags
        BY <4>1 DEF Outgoing
      <4>3. Outgoing.first < allocated
        BY <1>1, <4>2
      <4> QED BY <1>1, <1>2, <4>2, <4>3
    <3> QED BY <1>2, <3>1 DEF ParamsInv, IdrDecodable
  <2> QED BY <2>2, <2>3, <2>4, <2>5
<1>4. CASE frag # frags
  <2>1. frag' = frag + 1 /\ UNCHANGED <<whole, frags, index>>
    BY <1>4 DEF SendPacket
  <2>2. SenderInv'
    BY <1>1, <1>2, <1>4, <2>1 DEF SenderInv
  <2>3. SentInv'
    BY <1>2, <2>1 DEF SentInv, Outgoing
  <2> QED BY <1>2, <2>1, <2>2, <2>3 DEF FrameInv, ParamsInv, IdrDecodable
<1> QED BY <1>3, <1>4

LEMMA SocketFails ==
    ASSUME HostInv, SendFails
    PROVE  HostInv'
BY DEF HostInv, SendFails, encoderVars, SenderInv, SentInv, FrameInv, ParamsInv,
       IdrDecodable

LEMMA HostInit == Init => HostInv
<1> SUFFICES ASSUME Init PROVE HostInv
  OBVIOUS
<1>1. Len(<< >>) = 0
  BY EmptySeq
<1>2. SenderInv
  BY <1>1 DEF Init, SenderInv, Shapes
<1>3. SentInv /\ FrameInv /\ ParamsInv
  BY DEF Init, SentInv, FrameInv, ParamsInv, IdrDecodable
<1> QED BY <1>2, <1>3 DEF HostInv

FlagInv ==
    /\ mediaFoundation \in BOOLEAN /\ parameterSets_ \in BOOLEAN /\ open_ \in BOOLEAN
    /\ mode \in {"clean", "lossy", "any"}

LEMMA FlagNext == FlagInv /\ [Next]_vars => FlagInv'
<1> SUFFICES ASSUME FlagInv, [Next]_vars PROVE FlagInv'
  OBVIOUS
<1> USE DEF FlagInv
<1>1. CASE Network \/ UNCHANGED vars
  BY <1>1 DEF Network, Lose, Deliver, vars, senderVars, encoderVars
<1>2. CASE \E picture \in Pictures, header \in BOOLEAN : EncodeFrame(picture, header)
  BY <1>2 DEF EncodeFrame, NextFrame
<1>3. CASE EncodePlaceholder
  BY <1>3 DEF EncodePlaceholder, NextFrame
<1>4. CASE \E c \in FragCounts \cup {1, PlaceholderFrags} : PacketizeNal(c)
  BY <1>4 DEF PacketizeNal, encoderVars
<1>5. CASE SendPacket
  BY <1>5 DEF SendPacket, encoderVars
<1>6. CASE SendFails
  BY <1>6 DEF SendFails, encoderVars
<1> QED BY <1>1, <1>2, <1>3, <1>4, <1>5, <1>6 DEF Next, Host

LEMMA HostNext == FlagInv /\ HostInv /\ [Next]_vars => HostInv'
<1> SUFFICES ASSUME FlagInv, HostInv, [Next]_vars PROVE HostInv'
  OBVIOUS
<1>1. CASE Network \/ UNCHANGED vars
  <2>1. UNCHANGED <<frame, senderVars>>
    BY <1>1 DEF Network, Lose, Deliver, vars, encoderVars
  <2>2. Outgoing' = Outgoing
    BY <2>1 DEF Outgoing, senderVars
  <2> QED BY <2>1, <2>2 DEF senderVars, HostInv, SenderInv, SentInv, FrameInv,
                            ParamsInv, IdrDecodable
<1>2. ASSUME NEW picture \in Pictures, NEW header \in BOOLEAN,
             EncodeFrame(picture, header)
      PROVE  HostInv'
  <2>1. parameterSets_' \in BOOLEAN
    BY <1>2 DEF FlagInv, EncodeFrame
  <2>2. WithParameters(picture, frame + 1, parameterSets_') \in Shapes
    BY <1>2, <2>1, EncodedShape DEF EncodeFrame
  <2> QED BY <1>2, <2>2, NewFrame DEF EncodeFrame
<1>3. CASE EncodePlaceholder
  BY <1>3, NewFrame DEF EncodePlaceholder, Shapes
<1>4. CASE \E c \in FragCounts \cup {1, PlaceholderFrags} : PacketizeNal(c)
  BY <1>4, CutNal
<1>5. CASE SendPacket \/ SendFails
  BY <1>5, SentPacket, SocketFails
<1> QED BY <1>1, <1>2, <1>3, <1>4, <1>5 DEF Next, Host

(***************************************************************************)
(* The depacketizer.                                                       *)
(***************************************************************************)
\* The first j pieces of NAL unit u.
PiecesOf(u, j) == [k \in 1..j |-> [nal |-> u, piece |-> k]]

PacketOK(p) == p \in Packets /\ p.nal \in sent /\ p.piece <= p.nal.frags

NetInv == \A p \in net : PacketOK(p)

\* What is put together is the beginning of one NAL unit that was packetized, and the
\* piece that is expected is its next one.
AssemblyInv ==
    /\ assemblingFuA_ \in BOOLEAN
    /\ ~assemblingFuA_ => /\ currentNal_ = << >> /\ currentTimestamp_ = 0
                          /\ expectedSequence_ = 0
    /\ assemblingFuA_ =>
         \E u \in sent : \E j \in 1..(u.frags - 1) :
            /\ currentNal_ = PiecesOf(u, j)
            /\ currentTimestamp_ = u.frame
            /\ expectedSequence_ = (u.first + j) % SeqMod

OutInv == out # Unset => \E u \in sent : out = [pieces |-> PiecesOf(u, u.frags)]

ClientInv == NetInv /\ AssemblyInv /\ OutInv

LEMMA PacketFacts ==
    ASSUME SentInv, NEW p, PacketOK(p)
    PROVE  /\ p.nal \in sent /\ p.nal.first \in Nat /\ p.nal.frags \in Nat \ {0}
           /\ p.nal.frame \in Nat
           /\ p.piece \in 1..p.nal.frags /\ p = [nal |-> p.nal, piece |-> p.piece]
           /\ Number(p) \in Nat /\ Number(p) = p.nal.first + p.piece - 1
BY DEF PacketOK, Packets, NalUnits, Number

\* A function on 1..j is a sequence of that length.
LEMMA FunctionIsSeq ==
    ASSUME NEW S, NEW j \in Nat, NEW s \in [1..j -> S]
    PROVE  s \in Seq(S) /\ Len(s) = j
<1>1. s \in Seq(S) /\ DOMAIN s = 1..j
  BY SeqDef
<1>2. Len(s) \in Nat /\ 1..Len(s) = 1..j
  BY <1>1, LenProperties
<1>3. CASE j = 0
  <2>1. 1..Len(s) = {}
    BY <1>2, <1>3
  <2>2. ~(Len(s) >= 1)
    <3>1. Len(s) \notin 1..Len(s)
      BY <2>1
    <3> QED BY <1>2, <3>1
  <2> QED BY <1>1, <1>2, <1>3, <2>2
<1>4. CASE j >= 1
  <2>1. j \in 1..Len(s)
    <3>1. j \in 1..j
      BY <1>4
    <3> QED BY <1>2, <3>1
  <2>2. Len(s) \in 1..j
    <3>1. Len(s) \in 1..Len(s)
      BY <1>2, <2>1
    <3> QED BY <1>2, <3>1
  <2> QED BY <1>1, <2>1, <2>2
<1> QED BY <1>3, <1>4

LEMMA PiecesType ==
    ASSUME NEW S, NEW u, NEW j \in Nat, \A k \in 1..j : [nal |-> u, piece |-> k] \in S
    PROVE  /\ PiecesOf(u, j) \in Seq(S) /\ Len(PiecesOf(u, j)) = j
           /\ \A k \in 1..j : PiecesOf(u, j)[k] = [nal |-> u, piece |-> k]
<1>1. /\ PiecesOf(u, j) \in [1..j -> S]
      /\ \A k \in 1..j : PiecesOf(u, j)[k] = [nal |-> u, piece |-> k]
  BY DEF PiecesOf
<1> QED BY <1>1, FunctionIsSeq

LEMMA FirstPiece ==
    ASSUME NEW u, NEW p, p = [nal |-> u, piece |-> 1]
    PROVE  <<p>> = PiecesOf(u, 1)
<1> DEFINE t == PiecesOf(u, 1)  S == {p}  one == 1
<1>1. /\ one \in Nat /\ \A k \in 1..one : [nal |-> u, piece |-> k] \in S
      /\ <<p>> \in Seq(S) /\ Len(<<p>>) = one /\ <<p>>[one] = p
  OBVIOUS
<1>2. one = 1 /\ t = PiecesOf(u, one)
  OBVIOUS
<1> HIDE DEF S, one, t
<1>3. /\ PiecesOf(u, one) \in Seq(S) /\ Len(PiecesOf(u, one)) = one
      /\ \A k \in 1..one : PiecesOf(u, one)[k] = [nal |-> u, piece |-> k]
  <2>1. /\ PiecesOf(u, one) \in [1..one -> S]
        /\ \A k \in 1..one : PiecesOf(u, one)[k] = [nal |-> u, piece |-> k]
    BY <1>1 DEF PiecesOf
  <2> QED BY <1>1, <2>1, FunctionIsSeq
<1>4. Len(<<p>>) = Len(t) /\ \A i \in 1..Len(<<p>>) : <<p>>[i] = t[i]
  BY <1>1, <1>2, <1>3
<1>5. <<p>> = t
  BY <1>1, <1>2, <1>3, <1>4, SeqEqual
<1> QED BY <1>5 DEF t

LEMMA NextPiece ==
    ASSUME NEW u, NEW j \in Nat, NEW p, p = [nal |-> u, piece |-> j + 1]
    PROVE  Append(PiecesOf(u, j), p) = PiecesOf(u, j + 1)
<1> DEFINE S == {[nal |-> u, piece |-> k] : k \in 1..(j + 1)}
           i == j + 1  s == PiecesOf(u, j)  t == PiecesOf(u, i)
<1>1. i \in Nat /\ i = j + 1 /\ \A k \in 1..i : [nal |-> u, piece |-> k] \in S
  OBVIOUS
<1>2. p \in S /\ \A k \in 1..j : [nal |-> u, piece |-> k] \in S
  BY <1>1
<1> HIDE DEF S, i, s, t
<1>3. /\ PiecesOf(u, j) \in Seq(S) /\ Len(PiecesOf(u, j)) = j
      /\ \A k \in 1..j : PiecesOf(u, j)[k] = [nal |-> u, piece |-> k]
  <2>1. /\ PiecesOf(u, j) \in [1..j -> S]
        /\ \A k \in 1..j : PiecesOf(u, j)[k] = [nal |-> u, piece |-> k]
    BY <1>2 DEF PiecesOf
  <2> QED BY <2>1, FunctionIsSeq
<1>4. /\ PiecesOf(u, i) \in Seq(S) /\ Len(PiecesOf(u, i)) = i
      /\ \A k \in 1..i : PiecesOf(u, i)[k] = [nal |-> u, piece |-> k]
  <2>1. /\ PiecesOf(u, i) \in [1..i -> S]
        /\ \A k \in 1..i : PiecesOf(u, i)[k] = [nal |-> u, piece |-> k]
    BY <1>1 DEF PiecesOf
  <2> QED BY <1>1, <2>1, FunctionIsSeq
<1>5. s \in Seq(S) /\ Len(s) = j /\ t \in Seq(S) /\ Len(t) = i
  BY <1>3, <1>4 DEF s, t
<1>6. /\ Append(s, p) \in Seq(S) /\ Len(Append(s, p)) = j + 1
      /\ \A k \in 1..j : Append(s, p)[k] = s[k]
      /\ Append(s, p)[j + 1] = p
  BY <1>2, <1>5, AppendProperties
<1>7. ASSUME NEW k \in 1..i
      PROVE  Append(s, p)[k] = t[k]
  <2>1. k \in 1..j \/ k = j + 1
    BY <1>1
  <2>2. t[k] = [nal |-> u, piece |-> k]
    BY <1>4 DEF t
  <2>3. k \in 1..j => s[k] = [nal |-> u, piece |-> k]
    BY <1>3 DEF s
  <2> QED BY <1>1, <1>6, <2>1, <2>2, <2>3
<1>8. Append(s, p) = t
  BY <1>1, <1>5, <1>6, <1>7, SeqEqual
<1> QED BY <1>8 DEF i, s, t

\* The piece that continues what is put together is the next one of the same NAL unit:
\* a number that was taken a turn of the sequence earlier is of another frame.
LEMMA ContinuationIsNext ==
    ASSUME SentInv, NEW u \in sent, NEW j \in 1..(u.frags - 1), NEW p, PacketOK(p),
           p.nal.frame = u.frame,
           SequenceNumber(p) = (u.first + j) % SeqMod
    PROVE  p.nal = u /\ p.piece = j + 1
<1> DEFINE v == p.nal
<1>1. /\ v \in sent /\ v.first \in Nat /\ v.frags \in Nat \ {0}
      /\ p.piece \in 1..v.frags /\ Number(p) \in Nat
      /\ Number(p) = v.first + p.piece - 1
  BY PacketFacts
<1>2. /\ u.first \in Nat /\ u.frags \in Nat \ {0} /\ j \in Nat
      /\ SeqMod \in Nat \ {0, 1}
  BY RtpAssumption DEF SentInv, NalUnits
<1>3. /\ u.first + u.frags - v.first <= SeqMod
      /\ v.first + v.frags - u.first <= SeqMod
  BY <1>1 DEF SentInv
<1>4. Number(p) % SeqMod = (u.first + j) % SeqMod
  BY DEF SequenceNumber
<1>5. u = v \/ u.first + u.frags <= v.first \/ v.first + v.frags <= u.first
  BY <1>1 DEF SentInv
<1> HIDE DEF v
<1>0. j < u.frags
  BY <1>2
<1>6. Number(p) - (u.first + j) < SeqMod /\ (u.first + j) - Number(p) < SeqMod
  <2> DEFINE x == Number(p)
  <2>1. x \in Nat /\ x >= v.first /\ x < v.first + v.frags
    BY <1>1
  <2> HIDE DEF x
  <2>2. x - (u.first + j) < SeqMod
    BY <1>0, <1>1, <1>2, <1>3, <2>1
  <2>3. (u.first + j) - x < SeqMod
    BY <1>0, <1>1, <1>2, <1>3, <2>1
  <2> QED BY <2>2, <2>3 DEF x
<1>7. Number(p) = u.first + j
  <2> DEFINE x == Number(p)  y == u.first + j
  <2>1. x \in Nat /\ y \in Nat /\ x - y < SeqMod /\ y - x < SeqMod
        /\ x % SeqMod = y % SeqMod
    BY <1>1, <1>2, <1>4, <1>6
  <2> HIDE DEF x, y
  <2>2. x = y
    BY <1>2, <2>1, ModInjective
  <2> QED BY <2>2 DEF x, y
<1>8. u = v
  BY <1>1, <1>2, <1>5, <1>7
<1> QED BY <1>1, <1>2, <1>7, <1>8 DEF v

LEMMA PushedPacket ==
    ASSUME SentInv, AssemblyInv, NEW p, PacketOK(p), PushPacket(p), sent' = sent
    PROVE  AssemblyInv' /\ OutInv'
<1> DEFINE u == p.nal
<1>1. /\ u \in sent /\ u.first \in Nat /\ u.frags \in Nat \ {0} /\ u.frame \in Nat
      /\ p.piece \in 1..u.frags /\ p = [nal |-> u, piece |-> p.piece]
      /\ Number(p) \in Nat /\ Number(p) = u.first + p.piece - 1
  BY PacketFacts
<1>2. SeqMod \in Nat \ {0, 1}
  BY RtpAssumption
<1>3. ASSUME Reset, out' = Unset
      PROVE  AssemblyInv' /\ OutInv'
  BY <1>3 DEF Reset, NoAssembly, AssemblyInv, OutInv
<1>4. ASSUME Reset, out' = [pieces |-> PiecesOf(u, u.frags)]
      PROVE  AssemblyInv' /\ OutInv'
  BY <1>1, <1>4 DEF Reset, NoAssembly, AssemblyInv, OutInv
<1>5. p.piece = 1 => <<p>> = PiecesOf(u, 1)
  BY <1>1, FirstPiece
<1>6. CASE SingleNal(p)
  <2>1. u.frags = 1 /\ p.piece = 1
    BY <1>1, <1>6 DEF SingleNal
  <2> QED BY <1>4, <1>5, <1>6, <2>1 DEF PushPacket, PushSingleNal
\* The pieces up to p, however p came to be taken.
<1>7. ASSUME ~SingleNal(p), Starts(p) \/ (assemblingFuA_ /\ Continues(p))
      PROVE  Pieces(p) = PiecesOf(u, p.piece)
  <2>1. CASE Starts(p)
    BY <1>5, <2>1 DEF Pieces, Starts
  <2>2. CASE ~Starts(p)
    <3>1. PICK w \in sent : \E j \in 1..(w.frags - 1) :
              /\ currentNal_ = PiecesOf(w, j)
              /\ currentTimestamp_ = w.frame
              /\ expectedSequence_ = (w.first + j) % SeqMod
      BY <1>7, <2>2 DEF AssemblyInv
    <3>2. PICK j \in 1..(w.frags - 1) :
              /\ currentNal_ = PiecesOf(w, j)
              /\ currentTimestamp_ = w.frame
              /\ expectedSequence_ = (w.first + j) % SeqMod
      BY <3>1
    <3>3. u = w /\ p.piece = j + 1
      BY <1>7, <2>2, <3>2, ContinuationIsNext DEF Continues, Timestamp
    <3>4. j \in Nat
      OBVIOUS
    <3>5. Append(PiecesOf(u, j), p) = PiecesOf(u, j + 1)
      BY <1>1, <3>3, <3>4, NextPiece
    <3> QED BY <2>2, <3>2, <3>3, <3>5 DEF Pieces
  <2> QED BY <2>1, <2>2
<1>8. CASE ~SingleNal(p)
  <2>1. PushFuA(p)
    BY <1>8 DEF PushPacket
  <2>2. CASE ~Starts(p) /\ ~assemblingFuA_
    <3>1. UNCHANGED depacketizerVars /\ out' = Unset
      BY <2>1, <2>2 DEF PushFuA
    <3> QED BY <3>1 DEF depacketizerVars, AssemblyInv, OutInv
  <2>3. CASE ~Starts(p) /\ assemblingFuA_ /\ ~Continues(p)
    <3>1. Reset /\ out' = Unset
      BY <2>1, <2>3 DEF PushFuA
    <3> QED BY <1>3, <3>1
  <2>4. CASE (Starts(p) \/ (assemblingFuA_ /\ Continues(p))) /\ ~Ends(p)
    <3>1. /\ assemblingFuA_' = TRUE /\ currentTimestamp_' = Timestamp(p)
          /\ expectedSequence_' = ExpectedAfter(p)
          /\ currentNal_' = Pieces(p)
          /\ out' = Unset
      BY <2>1, <2>4 DEF PushFuA
    <3>2. p.piece \in 1..(u.frags - 1)
      BY <1>1, <2>4 DEF Ends
    <3>3. ExpectedAfter(p) = (u.first + p.piece) % SeqMod
      <4>1. Number(p) + 1 = u.first + p.piece
        BY <1>1
      <4>2. ((Number(p) % SeqMod) + 1) % SeqMod = (Number(p) + 1) % SeqMod
        BY <1>1, <1>2, ModSuccessor
      <4> QED BY <4>1, <4>2 DEF ExpectedAfter, NextSequence, SequenceNumber
    <3>4. Pieces(p) = PiecesOf(u, p.piece)
      BY <1>7, <1>8, <2>4
    <3> QED BY <1>1, <3>1, <3>2, <3>3, <3>4 DEF AssemblyInv, OutInv, Timestamp
  <2>5. CASE (Starts(p) \/ (assemblingFuA_ /\ Continues(p))) /\ Ends(p)
    <3>1. Reset /\ out' = [pieces |-> Pieces(p)]
      BY <2>1, <2>5 DEF PushFuA
    <3>2. Pieces(p) = PiecesOf(u, u.frags)
      BY <1>7, <1>8, <2>5 DEF Ends
    <3> QED BY <1>4, <3>1, <3>2
  <2> QED BY <2>2, <2>3, <2>4, <2>5 DEF AssemblyInv
<1> QED BY <1>6, <1>8

\* A step that is no delivery leaves the depacketizer and forgets what was returned.
LEMMA OtherStep ==
    ASSUME [Next]_vars, ~\E p \in net : Deliver(p)
    PROVE  /\ UNCHANGED <<depacketizerVars, statsVars>> /\ sent \subseteq sent'
           /\ out' = Unset \/ UNCHANGED <<out, sent, net>>
           /\ net' \subseteq net \/ (frags # 0
                                     /\ net' = net \cup {[nal |-> Outgoing, piece |-> frag]})
<1>1. CASE \E picture \in Pictures, header \in BOOLEAN : EncodeFrame(picture, header)
  BY <1>1 DEF EncodeFrame, NextFrame
<1>2. CASE EncodePlaceholder
  BY <1>2 DEF EncodePlaceholder, NextFrame
<1>3. CASE \E c \in FragCounts \cup {1, PlaceholderFrags} : PacketizeNal(c)
  BY <1>3 DEF PacketizeNal
<1>4. CASE SendPacket
  BY <1>4 DEF SendPacket
<1>5. CASE SendFails
  BY <1>5 DEF SendFails
<1>6. CASE \E p \in net : Lose(p)
  BY <1>6 DEF Lose, senderVars
<1>7. CASE UNCHANGED vars
  BY <1>7 DEF vars, senderVars
<1> QED BY <1>1, <1>2, <1>3, <1>4, <1>5, <1>6, <1>7 DEF Next, Host, Network

LEMMA DeliverStep ==
    ASSUME NEW p \in net, Deliver(p)
    PROVE  /\ PushPacket(p) /\ NotePacket(p) /\ net' \subseteq net
           /\ UNCHANGED <<encoderVars, senderVars, mode>> /\ sent' = sent
BY DEF Deliver, senderVars

LEMMA ClientNext == HostInv /\ ClientInv /\ [Next]_vars => ClientInv'
<1> SUFFICES ASSUME HostInv, ClientInv, [Next]_vars PROVE ClientInv'
  OBVIOUS
<1> USE DEF ClientInv
<1>1. CASE \E p \in net : Deliver(p)
  <2> PICK p \in net : Deliver(p)
    BY <1>1
  <2>1. PacketOK(p)
    BY DEF NetInv
  <2>2. AssemblyInv' /\ OutInv'
    BY <2>1, DeliverStep, PushedPacket DEF HostInv
  <2>3. NetInv'
    BY DeliverStep DEF NetInv, PacketOK
  <2> QED BY <2>2, <2>3
<1>2. CASE ~\E p \in net : Deliver(p)
  <2>1. UNCHANGED depacketizerVars /\ sent \subseteq sent'
    BY <1>2, OtherStep
  <2>2. AssemblyInv'
    BY <2>1 DEF AssemblyInv, depacketizerVars
  <2>3. OutInv'
    BY <1>2, OtherStep DEF OutInv
  <2>4. frags # 0 => PacketOK([nal |-> Outgoing, piece |-> frag])
    BY DEF HostInv, SenderInv, SentInv, PacketOK, Packets, Outgoing
  <2>5. NetInv'
    BY <1>2, <2>1, <2>4, OtherStep DEF NetInv, PacketOK
  <2> QED BY <2>2, <2>3, <2>5
<1> QED BY <1>1, <1>2

(***************************************************************************)
(* The receiver's statistics.                                              *)
(***************************************************************************)
\* The number of the next packet that is given to the socket.
Upcoming == IF frags = 0 THEN allocated ELSE allocated - frags + frag - 1

\* Packets in flight have numbers of their own, below Upcoming; while packets stay in
\* order, above that of the last one taken.
OrderInv ==
    /\ \A p, q \in net : Number(p) = Number(q) => p = q
    /\ \A p \in net : Number(p) < Upcoming
    /\ newest \in Nat \cup {-1}
    /\ mode # "any" => newest < Upcoming /\ \A p \in net : newest < Number(p)

CountsOK ==
    /\ expectedNumber \in 0..(SeqMod - 1) /\ sequenceGaps \in Nat /\ lostPackets \in Nat
    /\ outOfOrder \in Nat /\ missed \in Nat /\ burst \in Nat

LossInv ==
    mode # "any" =>
        /\ hasExpected = (newest # -1)
        /\ 2 * (burst + 1) <= SeqMod =>
              /\ lostPackets = missed /\ outOfOrder = 0
              /\ hasExpected => expectedNumber = (newest + 1) % SeqMod

StatsInv == OrderInv /\ hasExpected \in BOOLEAN /\ CountsOK /\ LossInv

LEMMA UpcomingType == HostInv => Upcoming \in Nat
BY DEF HostInv, SenderInv, Upcoming

LEMMA UpcomingGrows ==
    ASSUME HostInv, [Next]_vars, ~\E p \in net : Deliver(p)
    PROVE  \/ /\ frags # 0 /\ Upcoming' = Upcoming + 1
              /\ net' = net \cup {[nal |-> Outgoing, piece |-> frag]}
           \/ Upcoming' \in Int /\ Upcoming' >= Upcoming /\ net' \subseteq net
<1> USE RtpAssumption DEF HostInv, SenderInv, Upcoming
<1>1. ASSUME NEW units, NextFrame(units)
      PROVE  Upcoming' \in Int /\ Upcoming' >= Upcoming /\ net' \subseteq net
  BY <1>1 DEF NextFrame
<1>2. CASE \E picture \in Pictures, header \in BOOLEAN : EncodeFrame(picture, header)
  BY <1>1, <1>2 DEF EncodeFrame
<1>3. CASE EncodePlaceholder
  BY <1>1, <1>3 DEF EncodePlaceholder
<1>4. ASSUME NEW c \in FragCounts \cup {1, PlaceholderFrags}, PacketizeNal(c)
      PROVE  Upcoming' \in Int /\ Upcoming' >= Upcoming /\ net' \subseteq net
  <2>1. c \in Nat \ {0}
    OBVIOUS
  <2>2. frags = 0 /\ frags' = c /\ frag' = 1 /\ allocated' = allocated + c /\ net' = net
    BY <1>4 DEF PacketizeNal
  <2> QED BY <2>1, <2>2
<1>5. CASE SendPacket
  <2>1. /\ frags # 0 /\ net' = net \cup {[nal |-> Outgoing, piece |-> frag]}
        /\ allocated' = allocated
        /\ \/ frag = frags /\ frags' = 0 /\ frag' = 1
           \/ frag # frags /\ frag' = frag + 1 /\ frags' = frags
    BY <1>5 DEF SendPacket
  <2> QED BY <2>1
<1>6. CASE SendFails
  BY <1>6 DEF SendFails
<1>7. CASE \E p \in net : Lose(p)
  BY <1>7 DEF Lose, senderVars
<1>8. CASE UNCHANGED vars
  BY <1>8 DEF vars, senderVars
<1> QED BY <1>2, <1>3, <1>4, <1>5, <1>6, <1>7, <1>8 DEF Next, Host, Network

LEMMA NumberFacts ==
    ASSUME HostInv, NetInv
    PROVE  \A p \in net : Number(p) \in Nat
BY PacketFacts DEF HostInv, NetInv

LEMMA ModeKept == [Next]_vars => mode' = mode
BY DEF Next, Host, Network, EncodeFrame, EncodePlaceholder, NextFrame, PacketizeNal,
       SendPacket, SendFails, Lose, Deliver, vars

LEMMA OrderOther ==
    ASSUME HostInv, NetInv, OrderInv, [Next]_vars, ~\E p \in net : Deliver(p)
    PROVE  OrderInv'
<1> DEFINE n == [nal |-> Outgoing, piece |-> frag]  now == Upcoming  next == Upcoming'
<1>1. newest' = newest /\ mode' = mode
  BY OtherStep, ModeKept DEF statsVars
<1>2. now \in Nat /\ \A p \in net : Number(p) \in Nat /\ Number(p) < now
  BY UpcomingType, NumberFacts DEF OrderInv
<1>3. frags # 0 => Number(n) = now
  <2>1. n.nal.first = allocated - frags /\ n.piece = frag
    BY DEF Outgoing
  <2> HIDE DEF n
  <2> QED BY <2>1 DEF Number, Upcoming, HostInv, SenderInv
<1>4. \/ frags # 0 /\ next = now + 1 /\ net' = net \cup {n}
      \/ next \in Int /\ next >= now /\ net' \subseteq net
  BY UpcomingGrows
<1> HIDE DEF n, now, next
<1>5. \A p \in net' : (p \in net /\ Number(p) < now) \/ (p = n /\ Number(p) = now)
  BY <1>2, <1>3, <1>4
<1>6. next \in Int /\ next >= now /\ \A p \in net' : Number(p) < next
  BY <1>2, <1>3, <1>4, <1>5
<1>7. \A p, q \in net' : Number(p) = Number(q) => p = q
  BY <1>2, <1>5 DEF OrderInv
<1>8. ASSUME mode # "any"
      PROVE  newest < next /\ \A p \in net' : newest < Number(p)
  <2>1. newest < now /\ \A p \in net : newest < Number(p)
    BY <1>8 DEF OrderInv, now
  <2>2. newest \in Int
    BY DEF OrderInv
  <2> QED BY <1>2, <1>5, <1>6, <2>1, <2>2
<1>9. \A p : Number(p)' = Number(p)
  BY DEF Number
<1> QED BY <1>1, <1>6, <1>7, <1>8 DEF OrderInv, next

LEMMA OrderDeliver ==
    ASSUME HostInv, NetInv, OrderInv, NEW p \in net, Deliver(p)
    PROVE  OrderInv'
<1>1. /\ net' \subseteq net /\ Upcoming' = Upcoming /\ mode' = mode
      /\ mode # "any" => newest' = Number(p) /\ net' = net \ {p} /\ Oldest(p)
      /\ mode = "any" => newest' = newest
  BY DEF Deliver, NotePacket, NoteHistory, senderVars, Upcoming
<1>2. \A q \in net : Number(q) \in Nat
  BY NumberFacts
<1>3. \A q \in net' : q \in net /\ Number(q) < Upcoming'
  BY <1>1 DEF OrderInv
<1>4. \A q, r \in net' : Number(q) = Number(r) => q = r
  BY <1>1 DEF OrderInv
<1>5. newest' \in Nat \cup {-1}
  BY <1>1, <1>2 DEF OrderInv
<1>6. ASSUME mode # "any"
      PROVE  newest' < Upcoming' /\ \A q \in net' : newest' < Number(q)
  <2>1. newest' < Upcoming'
    BY <1>1, <1>6 DEF OrderInv
  <2>2. ASSUME NEW q \in net'
        PROVE  Number(p) < Number(q)
    <3>1. q \in net /\ q # p /\ Number(p) <= Number(q)
      BY <1>1, <1>6, <2>2 DEF Oldest
    <3>2. Number(p) # Number(q)
      BY <3>1 DEF OrderInv
    <3> QED BY <1>2, <3>1, <3>2
  <2> QED BY <1>1, <1>6, <2>1, <2>2
<1> QED BY <1>1, <1>3, <1>4, <1>5, <1>6 DEF OrderInv

LEMMA DeltaType ==
    ASSUME NEW a \in 0..(SeqMod - 1), NEW b \in 0..(SeqMod - 1)
    PROVE  SequenceDelta(a, b) \in Int
<1>1. SeqMod \in Nat \ {0} /\ a - b \in Int
  BY RtpAssumption
<1>2. (a - b) % SeqMod \in Int
  BY <1>1, SMT
<1> QED BY <1>1, <1>2 DEF SequenceDelta

LEMMA Remainder ==
    ASSUME NEW a \in Nat
    PROVE  a % SeqMod \in 0..(SeqMod - 1)
BY RtpAssumption, ModRange

LEMMA CountsDeliver ==
    ASSUME HostInv, NetInv, OrderInv, CountsOK, NEW p \in net, Deliver(p)
    PROVE  CountsOK' /\ hasExpected' = TRUE
<1> DEFINE number == SequenceNumber(p)  delta == SequenceDelta(number, expectedNumber)
           next == NextSequence(number)
<1>1. NotePacket(p)
  BY DeliverStep
<1>2. Number(p) \in Nat /\ SeqMod \in Nat \ {0, 1}
  BY NumberFacts, RtpAssumption
<1>3. number \in 0..(SeqMod - 1)
  BY <1>2, Remainder DEF SequenceNumber
<1>4. next \in 0..(SeqMod - 1)
  <2>1. number + 1 \in Nat
    BY <1>3
  <2> HIDE DEF number
  <2> QED BY <2>1, Remainder DEF NextSequence
<1>5. delta \in Int
  BY <1>3, DeltaType DEF CountsOK
<1> HIDE DEF number, delta, next
<1>6. /\ hasExpected' = TRUE
      /\ expectedNumber' \in {expectedNumber, next}
      /\ sequenceGaps' \in {sequenceGaps, sequenceGaps + 1}
      /\ outOfOrder' \in {outOfOrder, outOfOrder + 1}
      /\ lostPackets' = lostPackets \/ (delta > 0 /\ lostPackets' = lostPackets + delta)
  BY <1>1 DEF NotePacket, LostBy, number, delta, next
<1>7. /\ missed' = missed \/ (missed' = missed + Skipped(p) /\ mode # "any")
      /\ burst' = burst \/ (burst' = Skipped(p) /\ mode # "any")
  BY <1>1 DEF NotePacket, NoteHistory
<1>8. mode # "any" => Skipped(p) \in Nat
  BY <1>2 DEF Skipped, OrderInv
<1>9. expectedNumber' \in 0..(SeqMod - 1)
  BY <1>4, <1>6 DEF CountsOK
<1>10. sequenceGaps' \in Nat /\ outOfOrder' \in Nat
  BY <1>6 DEF CountsOK
<1>11. lostPackets' \in Nat
  BY <1>5, <1>6 DEF CountsOK
<1>12. missed' \in Nat /\ burst' \in Nat
  BY <1>7, <1>8 DEF CountsOK
<1> QED BY <1>6, <1>9, <1>10, <1>11, <1>12 DEF CountsOK

\* A gap that is shorter than half the sequence space is read as what it is.
LEMMA DeltaIsGap ==
    ASSUME NEW a \in Nat, NEW b \in Nat, NEW k \in Nat, a = b + k, 2 * k < SeqMod
    PROVE  SequenceDelta(a % SeqMod, b % SeqMod) = k
<1>1. SeqMod \in Nat \ {0} /\ 0 <= a - b /\ a - b < SeqMod /\ a - b = k
  BY RtpAssumption
<1>2. ((a % SeqMod) - (b % SeqMod)) % SeqMod = k
  BY <1>1, ModDifference
<1> QED BY <1>2 DEF SequenceDelta

LEMMA LossDeliver ==
    ASSUME HostInv, NetInv, OrderInv, CountsOK, LossInv, hasExpected \in BOOLEAN,
           NEW p \in net, Deliver(p)
    PROVE  LossInv'
<1> DEFINE k == Skipped(p)  delta == SequenceDelta(SequenceNumber(p), expectedNumber)
<1>1. NotePacket(p) /\ mode' = mode /\ hasExpected' = TRUE
  BY DeliverStep, CountsDeliver
<1> SUFFICES ASSUME mode # "any"
             PROVE  /\ newest' # -1
                    /\ 2 * (burst' + 1) <= SeqMod =>
                          /\ lostPackets' = missed' /\ outOfOrder' = 0
                          /\ expectedNumber' = (newest' + 1) % SeqMod
  BY <1>1 DEF LossInv
<1>2. /\ Number(p) \in Nat /\ newest \in Nat \cup {-1} /\ newest < Number(p)
      /\ burst \in Nat /\ SeqMod \in Nat \ {0, 1} /\ lostPackets \in Nat
      /\ missed \in Nat
  BY NumberFacts, RtpAssumption DEF OrderInv, CountsOK
<1>3. /\ newest' = Number(p) /\ missed' = missed + k
      /\ burst' = IF k > burst THEN k ELSE burst
  BY <1>1 DEF NotePacket, NoteHistory
<1>4. k = IF newest = -1 THEN 0 ELSE Number(p) - newest - 1
  BY DEF Skipped
<1>5. k \in Nat
  BY <1>2, <1>4
<1>6. ASSUME 2 * (burst' + 1) <= SeqMod
      PROVE  /\ lostPackets' = missed' /\ outOfOrder' = 0
             /\ expectedNumber' = (newest' + 1) % SeqMod
  <2>1. 2 * (burst + 1) <= SeqMod /\ 2 * k < SeqMod
    <3> HIDE DEF k
    <3> QED BY <1>2, <1>3, <1>5, <1>6
  <2>2. lostPackets = missed /\ outOfOrder = 0
    BY <2>1 DEF LossInv
  <2>3. NextSequence(SequenceNumber(p)) = (newest' + 1) % SeqMod
    BY <1>2, <1>3, ModSuccessor DEF NextSequence, SequenceNumber
  <2>4. CASE hasExpected = FALSE
    <3>1. newest = -1 /\ k = 0
      BY <1>4, <2>4 DEF LossInv
    <3>2. /\ expectedNumber' = NextSequence(SequenceNumber(p))
          /\ lostPackets' = lostPackets /\ outOfOrder' = outOfOrder
      BY <1>1, <2>4 DEF NotePacket
    <3>3. missed' = missed
      BY <1>2, <1>3, <3>1
    <3> QED BY <2>2, <2>3, <3>2, <3>3
  <2>5. CASE hasExpected = TRUE
    <3>1. newest # -1 /\ expectedNumber = (newest + 1) % SeqMod
      BY <2>1, <2>5 DEF LossInv
    <3>2. newest + 1 \in Nat /\ Number(p) = (newest + 1) + k
      BY <1>2, <1>4, <3>1
    <3>3. delta = k
      <4> DEFINE e == newest + 1  m == Number(p)
      <4>1. e \in Nat /\ m \in Nat /\ m = e + k
        BY <1>2, <3>2
      <4> HIDE DEF e, m, k
      <4>2. SequenceDelta(m % SeqMod, e % SeqMod) = k
        BY <1>5, <2>1, <4>1, DeltaIsGap
      <4> QED BY <3>1, <4>2 DEF e, m, SequenceNumber
    <3>4. /\ expectedNumber' = IF delta < 0 THEN expectedNumber
                               ELSE NextSequence(SequenceNumber(p))
          /\ lostPackets' = IF delta > 0 THEN lostPackets + delta ELSE lostPackets
          /\ outOfOrder' = IF delta < 0 THEN outOfOrder + 1 ELSE outOfOrder
      BY <1>1, <2>5 DEF NotePacket, LostBy
    <3> HIDE DEF k, delta
    <3>5. ~(delta < 0) /\ (delta > 0 => lostPackets + delta = missed + k)
          /\ (~(delta > 0) => lostPackets = missed + k)
      BY <1>2, <1>5, <2>2, <3>3
    <3> QED BY <1>3, <2>2, <2>3, <3>4, <3>5
  <2> QED BY <2>4, <2>5
<1> QED BY <1>2, <1>3, <1>6

LEMMA StatsNext ==
    FlagInv /\ HostInv /\ NetInv /\ StatsInv /\ [Next]_vars => StatsInv'
<1> SUFFICES ASSUME HostInv, NetInv, StatsInv, [Next]_vars PROVE StatsInv'
  OBVIOUS
<1> USE DEF StatsInv
<1>1. CASE \E p \in net : Deliver(p)
  BY <1>1, OrderDeliver, CountsDeliver, LossDeliver
<1>2. CASE ~\E p \in net : Deliver(p)
  <2>1. UNCHANGED statsVars /\ mode' = mode
    BY <1>2, OtherStep, ModeKept
  <2>2. OrderInv'
    BY <1>2, OrderOther
  <2> QED BY <2>1, <2>2 DEF statsVars, CountsOK, LossInv
<1> QED BY <1>1, <1>2

(***************************************************************************)
(* The invariant and what follows from it.                                 *)
(***************************************************************************)
IInv == FlagInv /\ HostInv /\ ClientInv /\ StatsInv

LEMMA IInvInit == Init => IInv
<1> SUFFICES ASSUME Init PROVE IInv
  OBVIOUS
<1>1. FlagInv
  BY DEF Init, FlagInv
<1>2. ClientInv
  BY DEF Init, ClientInv, NetInv, AssemblyInv, OutInv, NoAssembly
<1>3. OrderInv
  BY DEF Init, OrderInv, Upcoming
<1>4. CountsOK
  BY RtpAssumption DEF Init, CountsOK
<1>5. LossInv /\ hasExpected \in BOOLEAN
  BY DEF Init, LossInv
<1> QED BY <1>1, <1>2, <1>3, <1>4, <1>5, HostInit DEF IInv, StatsInv

LEMMA IInvNext == IInv /\ [Next]_vars => IInv'
BY FlagNext, HostNext, ClientNext, StatsNext DEF IInv, ClientInv

LEMMA Invariance == Spec => []IInv
BY IInvInit, IInvNext, PTL DEF Spec

\* Every variable of the encoder, the sender, the depacketizer and the receiver keeps
\* its type.
THEOREM TypeCorrect == Spec => []TypeOK
<1>1. IInv => TypeOK
  <2> SUFFICES ASSUME IInv PROVE TypeOK
    OBVIOUS
  <2> USE DEF IInv, HostInv, ClientInv, StatsInv
  <2>1. /\ frame \in Nat /\ mediaFoundation \in BOOLEAN /\ parameterSets_ \in BOOLEAN
        /\ open_ \in BOOLEAN /\ mode \in {"clean", "lossy", "any"}
    BY DEF FlagInv, SenderInv
  <2>2. /\ nalUnits \in Seq(Kinds) /\ index \in Nat \ {0}
        /\ frags \in Nat /\ frag \in Nat \ {0} /\ allocated \in Nat
        /\ frags # 0 => frag <= frags /\ ~Idle /\ frags <= allocated
    <3>1. Len(nalUnits) \in 0..2 /\ nalUnits \in Seq(Kinds)
      BY ShapeFacts DEF SenderInv
    <3>2. index \in Nat \ {0} /\ (index <= Len(nalUnits) => ~Idle)
      BY <3>1 DEF SenderInv, Idle
    <3> QED BY <3>1, <3>2 DEF SenderInv
  <2>3. sent \subseteq NalUnits /\ whole \subseteq NalUnits /\ net \subseteq Packets
    BY DEF SentInv, NetInv, PacketOK
  <2>4. ASSUME NEW u \in sent, NEW j \in Nat
        PROVE  PiecesOf(u, j) \in Seq(Packets)
    <3>1. \A k \in 1..j : [nal |-> u, piece |-> k] \in Packets
      BY <2>3 DEF Packets
    <3> QED BY <3>1, PiecesType
  <2>5. \A u \in sent : u.frags \in Nat \ {0} /\ u.frame \in Nat /\ u.first \in Nat
    BY <2>3 DEF NalUnits
  <2>6. /\ assemblingFuA_ \in BOOLEAN /\ currentTimestamp_ \in Nat
        /\ expectedSequence_ \in 0..(SeqMod - 1) /\ currentNal_ \in Seq(Packets)
    <3>1. CASE ~assemblingFuA_
      <4>1. << >> \in Seq(Packets) /\ 0 \in 0..(SeqMod - 1)
        BY EmptySeq, RtpAssumption
      <4> QED BY <3>1, <4>1 DEF AssemblyInv
    <3>2. CASE assemblingFuA_
      <4>1. PICK u \in sent : \E j \in 1..(u.frags - 1) :
                /\ currentNal_ = PiecesOf(u, j)
                /\ currentTimestamp_ = u.frame
                /\ expectedSequence_ = (u.first + j) % SeqMod
        BY <3>2 DEF AssemblyInv
      <4>2. PICK j \in 1..(u.frags - 1) :
                /\ currentNal_ = PiecesOf(u, j)
                /\ currentTimestamp_ = u.frame
                /\ expectedSequence_ = (u.first + j) % SeqMod
        BY <4>1
      <4>3. j \in Nat /\ u.first + j \in Nat
        BY <2>5
      <4>4. expectedSequence_ \in 0..(SeqMod - 1)
        BY <4>2, <4>3, Remainder
      <4>5. currentNal_ \in Seq(Packets) /\ currentTimestamp_ \in Nat
        BY <2>4, <2>5, <4>2, <4>3
      <4> QED BY <4>4, <4>5 DEF AssemblyInv
    <3> QED BY <3>1, <3>2
  <2>7. out # Unset => out = [pieces |-> out.pieces] /\ out.pieces \in Seq(Packets)
    <3> SUFFICES ASSUME out # Unset
                 PROVE  out = [pieces |-> out.pieces] /\ out.pieces \in Seq(Packets)
      OBVIOUS
    <3>1. PICK u \in sent : out = [pieces |-> PiecesOf(u, u.frags)]
      BY DEF OutInv
    <3>2. PiecesOf(u, u.frags) \in Seq(Packets)
      BY <2>4, <2>5
    <3>3. out.pieces = PiecesOf(u, u.frags)
      BY <3>1
    <3> QED BY <3>1, <3>2, <3>3
  <2>8. hasExpected \in BOOLEAN /\ newest \in Nat \cup {-1}
    BY DEF OrderInv
  <2> HIDE DEF IInv, HostInv, ClientInv, StatsInv
  <2>9. CountsOK
    BY DEF IInv, StatsInv
  <2> QED BY <2>1, <2>2, <2>3, <2>6, <2>7, <2>8, <2>9 DEF TypeOK, CountsOK
<1> QED BY <1>1, Invariance, PTL

\* Parameter sets travel in front of every IDR picture in the same frame, although
\* encode guesses key frames from frame ids and the transform decides by itself.
THEOREM IdrsDecodable == Spec => []IdrDecodable
<1>1. IInv => IdrDecodable
  BY DEF IInv, HostInv, ParamsInv
<1> QED BY <1>1, Invariance, PTL

\* Across any number of wraps of the sequence number, every lost packet is counted as
\* long as less than half the sequence space is lost in a row.
THEOREM LossesCounted == Spec => []LossIsCounted
<1>1. IInv => LossIsCounted
  BY DEF IInv, StatsInv, LossInv, LossIsCounted
<1> QED BY <1>1, Invariance, PTL

\* What receiveNal returns is one of the NAL units that were packetized.
ReturnsSent == out # Unset => Reassembled \in sent

LEMMA ReturnedIsSent == IInv => ReturnsSent
<1> SUFFICES ASSUME SentInv, OutInv, out # Unset PROVE Reassembled \in sent
  BY DEF ReturnsSent, IInv, HostInv, ClientInv
<1>1. PICK u \in sent : out = [pieces |-> PiecesOf(u, u.frags)]
  BY DEF OutInv
<1>2. u.frags \in Nat \ {0}
  BY DEF SentInv, NalUnits
<1> DEFINE s == PiecesOf(u, u.frags)  S == {[nal |-> u, piece |-> k] : k \in 1..u.frags}
<1>3. /\ s \in Seq(S) /\ Len(s) = u.frags
      /\ \A k \in 1..u.frags : s[k] = [nal |-> u, piece |-> k]
  <2>1. \A k \in 1..u.frags : [nal |-> u, piece |-> k] \in S
    OBVIOUS
  <2> HIDE DEF S
  <2> QED BY <1>2, <2>1, PiecesType
<1>4. out.pieces = s
  BY <1>1
<1> HIDE DEF s, S
<1>5. DOMAIN s = 1..u.frags /\ s[1] = [nal |-> u, piece |-> 1] /\ s[1].nal = u
  BY <1>2, <1>3, LenProperties
<1>6. s # << >>
  <2>1. Len(<< >>) = 0
    BY EmptySeq
  <2> QED BY <1>2, <1>3, <2>1
<1>7. IsWhole(s)
  BY <1>3, <1>5, <1>6 DEF IsWhole
<1> QED BY <1>4, <1>5, <1>7 DEF Reassembled

\* Seen from the decoder, packetizer, UDP and depacketizer together are a channel that
\* may lose, repeat and reorder NAL units but alters none.
THEOREM StreamImplementsChannel == Spec => ImplementsChannel
<1>1. Init => Channel!ChannelInit
  BY DEF Init, Channel!ChannelInit, Reassembled
<1>2. IInv /\ IInv' /\ ReturnsSent' /\ [Next]_vars
        => [Channel!ChannelNext]_(Channel!channelVars)
  <2> SUFFICES ASSUME IInv, IInv', ReturnsSent', [Next]_vars
               PROVE  [Channel!ChannelNext]_(Channel!channelVars)
    OBVIOUS
  <2>1. sent' \subseteq NalUnits
    BY DEF IInv, HostInv, SentInv
  <2>2. sent \subseteq sent' /\ (out' # out => sent' = sent \/ out' = Unset)
    <3>1. CASE \E p \in net : Deliver(p)
      BY <3>1, DeliverStep
    <3>2. CASE ~\E p \in net : Deliver(p)
      BY <3>2, OtherStep
    <3> QED BY <3>1, <3>2
  <2>3. CASE out' = Unset
    <3>1. Reassembled' = Unset
      BY <2>3 DEF Reassembled
    <3> QED BY <2>1, <2>2, <3>1 DEF Channel!ChannelNext, Channel!Submit
  <2>4. CASE out' # Unset
    <3>1. sent' = sent
      <4>1. CASE \E p \in net : Deliver(p)
        BY <4>1, DeliverStep
      <4>2. CASE ~\E p \in net : Deliver(p)
        BY <2>4, <4>2, OtherStep
      <4> QED BY <4>1, <4>2
    <3>2. Reassembled' \in sent'
      BY <2>4 DEF ReturnsSent
    <3> QED BY <3>1, <3>2 DEF Channel!ChannelNext, Channel!HandOver
  <2> QED BY <2>3, <2>4
<1> QED BY <1>1, <1>2, Invariance, ReturnedIsSent, PTL
        DEF Spec, ImplementsChannel, Channel!ChannelSpec
=============================================================================
