-------------------------- MODULE PacketStreamProofs --------------------------
(***************************************************************************)
(* The byte stream implements the packet queue, for any packets, any Base  *)
(* and size of size_t, and any window; and what the Java connector makes   *)
(* of the same bytes.                                                      *)
(***************************************************************************)
EXTENDS PacketStream, Integers, WellFoundedInduction, SequenceTheorems, TLAPS

(* A set of naturals with an element has a least one: the form in which    *)
(* the proofs below use induction.                                         *)
LEMMA LeastNat ==
  ASSUME NEW T \in SUBSET Nat, T # {}
  PROVE  \E x \in T : \A y \in T : x <= y
<1>1. PICK x \in T : \A y \in T : ~(<<y, x>> \in OpToRel(<, Nat))
  BY NatLessThanWellFounded, WFMin
<1>2. \A y \in T : ~(y < x) BY <1>1 DEF OpToRel
<1> QED BY <1>2

-----------------------------------------------------------------------------
(* Power is what its definition says: the equation has a solution. *)

PowerUpTo(g, n) ==
  /\ g \in [0..n -> Nat \ {0}]
  /\ g[0] = 1 /\ \A i \in 1..n : g[i] = Base * g[i - 1]

LEMMA PowersExist == \A n \in Nat : \E g : PowerUpTo(g, n)
<1> DEFINE T == {n \in Nat : ~\E g : PowerUpTo(g, n)}
<1> SUFFICES ASSUME T # {} PROVE FALSE OBVIOUS
<1>1. PICK n \in T : \A m \in T : n <= m BY LeastNat
<1>2. CASE n = 0
  <2> DEFINE g == [i \in 0..0 |-> 1]
  <2>1. PowerUpTo(g, 0) BY DEF PowerUpTo
  <2> QED BY <2>1, <1>1, <1>2
<1>3. CASE n # 0
  <2>1. n - 1 \in Nat /\ n - 1 \notin T BY <1>1, <1>3
  <2>2. PICK h : PowerUpTo(h, n - 1) BY <2>1
  <2>3. /\ h \in [0..(n - 1) -> Nat \ {0}]
        /\ h[0] = 1 /\ \A i \in 1..(n - 1) : h[i] = Base * h[i - 1]
    BY <2>2 DEF PowerUpTo
  <2> DEFINE g == [i \in 0..n |-> IF i = n THEN Base * h[n - 1] ELSE h[i]]
  <2>4. h[n - 1] \in Nat \ {0} BY <2>1, <2>3
  <2>5. Base * h[n - 1] \in Nat \ {0} BY <2>4, BaseAssumption
  <2>6. g \in [0..n -> Nat \ {0}]
    <3> SUFFICES ASSUME NEW i \in 0..n PROVE g[i] \in Nat \ {0} OBVIOUS
    <3>1. CASE i = n BY <3>1, <2>5
    <3>2. CASE i # n
      <4>1. i \in 0..(n - 1) BY <3>2
      <4> QED BY <4>1, <2>3, <3>2
    <3> QED BY <3>1, <3>2
  <2>7. g[0] = 1 BY <1>3, <2>3
  <2>8. ASSUME NEW i \in 1..n PROVE g[i] = Base * g[i - 1]
    <3>1. g[i - 1] = h[i - 1] OBVIOUS
    <3>2. CASE i = n BY <3>1, <3>2
    <3>3. CASE i # n
      <4>1. i \in 1..(n - 1) BY <3>3
      <4> QED BY <4>1, <2>3, <3>1, <3>3
    <3> QED BY <3>2, <3>3
  <2>9. PowerUpTo(g, n) BY <2>6, <2>7, <2>8 DEF PowerUpTo
  <2> QED BY <2>9, <1>1
<1> QED BY <1>2, <1>3

LEMMA PowersAgree ==
  ASSUME NEW n \in Nat, NEW m \in Nat, NEW g, NEW h, PowerUpTo(g, n), PowerUpTo(h, m)
  PROVE  \A i \in Nat : i <= n /\ i <= m => g[i] = h[i]
<1> DEFINE T == {i \in Nat : i <= n /\ i <= m /\ g[i] # h[i]}
<1> SUFFICES ASSUME T # {} PROVE FALSE OBVIOUS
<1>1. PICK i \in T : \A j \in T : i <= j BY LeastNat
<1>2. g[0] = 1 /\ h[0] = 1 /\ (\A j \in 1..n : g[j] = Base * g[j - 1])
                           /\ (\A j \in 1..m : h[j] = Base * h[j - 1])
  BY DEF PowerUpTo
<1>3. i # 0 BY <1>1, <1>2
<1>4. i - 1 \in Nat /\ i - 1 \notin T /\ i \in 1..n /\ i \in 1..m BY <1>1, <1>3
<1>5. g[i - 1] = h[i - 1] BY <1>4
<1> QED BY <1>1, <1>2, <1>4, <1>5

LEMMA PowerDef ==
  /\ \A i \in Nat : Power[i] \in Nat \ {0}
  /\ Power[0] = 1 /\ \A i \in Nat \ {0} : Power[i] = Base * Power[i - 1]
<1> DEFINE Pow == [n \in Nat |-> (CHOOSE g : PowerUpTo(g, n))[n]]
           Eq(f) == f = [i \in Nat |-> IF i = 0 THEN 1 ELSE Base * f[i - 1]]
<1>1. \A n \in Nat : PowerUpTo(CHOOSE g : PowerUpTo(g, n), n) BY PowersExist
<1>2. Pow[0] = 1
  <2> DEFINE h == CHOOSE g : PowerUpTo(g, 0)
  <2>1. PowerUpTo(h, 0) /\ Pow[0] = h[0] BY <1>1
  <2> HIDE DEF h, Pow
  <2> QED BY <2>1 DEF PowerUpTo
<1>3. ASSUME NEW n \in Nat \ {0} PROVE Pow[n] = Base * Pow[n - 1]
  <2> DEFINE g == CHOOSE f : PowerUpTo(f, n)
             h == CHOOSE f : PowerUpTo(f, n - 1)
  <2>1. n - 1 \in Nat /\ n \in Nat /\ n - 1 <= n OBVIOUS
  <2>2. PowerUpTo(g, n) /\ PowerUpTo(h, n - 1) BY <1>1, <2>1
  <2>3. Pow[n] = g[n] /\ Pow[n - 1] = h[n - 1] BY <2>1
  <2> HIDE DEF g, h, Pow
  <2>4. g[n - 1] = h[n - 1] BY <2>1, <2>2, PowersAgree
  <2>5. g[n] = Base * g[n - 1] BY <2>2 DEF PowerUpTo
  <2> QED BY <2>3, <2>4, <2>5
<1>4. Eq(Pow)
  <2> DEFINE R == [i \in Nat |-> IF i = 0 THEN 1 ELSE Base * Pow[i - 1]]
  <2>1. \A i \in Nat : Pow[i] = R[i] BY <1>2, <1>3
  <2>2. DOMAIN Pow = Nat /\ DOMAIN R = Nat OBVIOUS
  <2>3. Pow = R BY <2>1
  <2> QED BY <2>3
<1>5. Power = CHOOSE f : Eq(f) BY DEF Power
<1> HIDE DEF Pow
<1>6. Eq(Power) BY <1>4, <1>5
<1>7. Power[0] = 1 /\ \A i \in Nat \ {0} : Power[i] = Base * Power[i - 1]
  BY <1>6
<1>8. \A i \in Nat : Power[i] \in Nat \ {0}
  <2> DEFINE T == {i \in Nat : Power[i] \notin Nat \ {0}}
  <2> SUFFICES ASSUME T # {} PROVE FALSE OBVIOUS
  <2>1. PICK i \in T : \A j \in T : i <= j BY LeastNat
  <2>2. i # 0 BY <1>7, <2>1
  <2>3. i - 1 \in Nat /\ i - 1 \notin T BY <2>1, <2>2
  <2>4. Power[i - 1] \in Nat \ {0} BY <2>3
  <2>5. Power[i] = Base * Power[i - 1] BY <1>7, <2>1, <2>2
  <2>6. Power[i] \in Nat \ {0} BY <2>4, <2>5, BaseAssumption
  <2> QED BY <2>1, <2>6
<1> QED BY <1>7, <1>8

-----------------------------------------------------------------------------
(* The bytes of a size. *)

LEMMA Dividing ==
  ASSUME NEW n \in Nat, NEW b \in Nat \ {0}
  PROVE  n \div b \in Nat /\ n % b \in Nat /\ n % b < b /\ n = (b * (n \div b)) + (n % b)
<1>1. n \div b \in Nat OBVIOUS
<1>2. n % b \in 0..(b - 1) OBVIOUS
<1>3. n = (b * (n \div b)) + (n % b) OBVIOUS
<1> QED BY <1>1, <1>2, <1>3

LEMMA ShiftTwice ==
  ASSUME NEW b \in Nat \ {0}, NEW c \in Nat \ {0}, NEW n \in Nat
  PROVE  (n \div c) \div b = n \div (b * c)
OBVIOUS

LEMMA Fields ==
  ASSUME NEW n \in Nat
  PROVE  /\ SizeField(n) \in Seq(Byte) /\ Len(SizeField(n)) = SizeBytes
         /\ \A i \in 1..SizeBytes : SizeField(n)[i] = (n \div Power[i - 1]) % Base
         /\ SizeField(n)[1] = n % Base
<1>1. \A i \in 1..SizeBytes : SizeField(n)[i] = (n \div Power[i - 1]) % Base
  BY DEF SizeField
<1>2. ASSUME NEW i \in 1..SizeBytes PROVE SizeField(n)[i] \in Byte
  <2>1. i - 1 \in Nat BY BaseAssumption
  <2>2. Power[i - 1] \in Nat \ {0} BY <2>1, PowerDef
  <2>3. n \div Power[i - 1] \in Nat BY <2>2, Dividing
  <2>4. (n \div Power[i - 1]) % Base \in Nat /\ (n \div Power[i - 1]) % Base < Base
    BY <2>3, Dividing, BaseAssumption
  <2> QED BY <1>1, <2>4, BaseAssumption DEF Byte
<1>3. SizeField(n) \in [1..SizeBytes -> Byte] BY <1>2 DEF SizeField
<1>4. SizeField(n) \in Seq(Byte) /\ Len(SizeField(n)) = SizeBytes
  BY <1>3, BaseAssumption
<1>5. SizeField(n)[1] = n % Base
  <2>1. 1 \in 1..SizeBytes /\ 1 - 1 = 0 BY BaseAssumption
  <2>2. n \div 1 = n OBVIOUS
  <2> QED BY <1>1, <2>1, <2>2, PowerDef
<1> QED BY <1>1, <1>4, <1>5

(* The bytes tell sizes below Power[SizeBytes] apart: their quotients by   *)
(* the powers of Base agree, from the highest power down.                  *)
LEMMA SizesDiffer ==
  ASSUME NEW m \in 0..(Power[SizeBytes] - 1), NEW n \in 0..(Power[SizeBytes] - 1),
         SizeField(m) = SizeField(n)
  PROVE  m = n
<1>0. SizeBytes \in Nat /\ m \in Nat /\ n \in Nat /\ Base \in Nat \ {0}
      /\ Power[SizeBytes] \in Nat \ {0}
  BY BaseAssumption, PowerDef
<1> DEFINE Agree(k) == m \div Power[SizeBytes - k] = n \div Power[SizeBytes - k]
           T == {k \in Nat : k <= SizeBytes /\ ~Agree(k)}
<1>1. Agree(0)
  <2>1. m \div Power[SizeBytes] = 0 /\ n \div Power[SizeBytes] = 0
    <3>1. \A q \in Nat : q < Power[SizeBytes] => q \div Power[SizeBytes] = 0 BY <1>0
    <3> QED BY <1>0, <3>1
  <2> QED BY <1>0, <2>1
<1>2. ASSUME NEW k \in Nat, k + 1 <= SizeBytes, Agree(k) PROVE Agree(k + 1)
  <2> DEFINE i == SizeBytes - k
             a == m \div Power[i - 1]
             b == n \div Power[i - 1]
  <2>1. i \in 1..SizeBytes /\ i - 1 \in Nat /\ i \in Nat \ {0} /\ SizeBytes - (k + 1) = i - 1
    BY <1>0, <1>2
  <2>2. Power[i] = Base * Power[i - 1] /\ Power[i - 1] \in Nat \ {0} BY <2>1, PowerDef
  <2>3. a \in Nat /\ b \in Nat BY <1>0, <2>2, Dividing
  <2>4. a % Base = b % Base
    <3>1. SizeField(m)[i] = a % Base /\ SizeField(n)[i] = b % Base
      BY <1>0, <2>1, Fields
    <3> QED BY <3>1
  <2>5. a \div Base = m \div Power[i] /\ b \div Base = n \div Power[i]
    <3>1. \A c \in Nat \ {0}, q \in Nat : (q \div c) \div Base = q \div (Base * c)
      BY <1>0, ShiftTwice
    <3>2. a \div Base = m \div (Base * Power[i - 1]) /\ b \div Base = n \div (Base * Power[i - 1])
      BY <1>0, <2>2, <3>1
    <3> HIDE DEF a, b, i
    <3> QED BY <2>2, <3>2
  <2>6. a \div Base = b \div Base BY <1>2, <2>5
  <2> HIDE DEF a, b, i
  <2>7. a = (Base * (a \div Base)) + (a % Base) /\ b = (Base * (b \div Base)) + (b % Base)
    BY <1>0, <2>3, Dividing
  <2>8. a = b BY <2>4, <2>6, <2>7
  <2> QED BY <2>1, <2>8 DEF a, b
<1>3. \A k \in Nat : k <= SizeBytes => Agree(k)
  <2> SUFFICES ASSUME T # {} PROVE FALSE OBVIOUS
  <2>1. PICK k \in T : \A j \in T : k <= j BY LeastNat
  <2>2. k # 0 BY <1>1, <2>1
  <2>3. k - 1 \in Nat /\ k - 1 \notin T /\ k - 1 + 1 = k /\ k <= SizeBytes BY <2>1, <2>2
  <2>4. Agree(k - 1) BY <1>0, <2>3
  <2>5. Agree((k - 1) + 1)
    <3> HIDE DEF Agree, T
    <3> QED BY <1>2, <2>3, <2>4
  <2> QED BY <2>1, <2>3, <2>5
<1>4. m \div Power[0] = n \div Power[0]
  <2>1. Agree(SizeBytes) BY <1>0, <1>3
  <2>2. SizeBytes - SizeBytes = 0 BY <1>0
  <2> QED BY <2>1, <2>2
<1>5. m \div 1 = m /\ n \div 1 = n BY <1>0
<1> QED BY <1>4, <1>5, PowerDef

-----------------------------------------------------------------------------
(* A packet on the wire. *)

Wire(p) == Header(p) \o p.payload

LEMMA OfPackets ==
  ASSUME NEW p \in Packets
  PROVE  /\ p \in Packet /\ p.type \in Byte /\ p.status \in Byte /\ p.payload \in Seq(Byte)
         /\ Len(p.payload) \in 0..(Power[SizeBytes] - 1)
<1>1. p \in Packet /\ Len(p.payload) < Power[SizeBytes] BY PacketsAssumption
<1>2. p.type \in Byte /\ p.status \in Byte /\ p.payload \in Seq(Byte) BY <1>1 DEF Packet
<1>3. Len(p.payload) \in Nat /\ Power[SizeBytes] \in Nat BY <1>2, PowerDef, BaseAssumption
<1> QED BY <1>1, <1>2, <1>3

LEMMA HeaderOf ==
  ASSUME NEW p \in Packets
  PROVE  /\ HeaderSize \in Nat /\ HeaderSize > 3 /\ HeaderSize = 2 + SizeBytes
         /\ Header(p) \in Seq(Byte) /\ Len(Header(p)) = HeaderSize
         /\ Header(p)[1] = p.type /\ Header(p)[2] = p.status
         /\ \A i \in 1..SizeBytes : Header(p)[i + 2] = SizeField(Len(p.payload))[i]
<1> DEFINE f == SizeField(Len(p.payload))
<1>1. p.type \in Byte /\ p.status \in Byte /\ p.payload \in Seq(Byte) BY OfPackets
<1>2. Len(p.payload) \in Nat BY <1>1
<1>3. f \in Seq(Byte) /\ Len(f) = SizeBytes BY <1>2, Fields
<1>4. SizeBytes \in Nat \ {0, 1} BY BaseAssumption
<1> HIDE DEF f
<1>5. <<p.type, p.status>> \in Seq(Byte) /\ Len(<<p.type, p.status>>) = 2 BY <1>1
<1>6. /\ <<p.type, p.status>> \o f \in Seq(Byte)
      /\ Len(<<p.type, p.status>> \o f) = 2 + SizeBytes
      /\ \A i \in 1..(2 + SizeBytes) :
           (<<p.type, p.status>> \o f)[i] = IF i <= 2 THEN <<p.type, p.status>>[i] ELSE f[i - 2]
  BY <1>3, <1>5, ConcatProperties
<1>7. Header(p) = <<p.type, p.status>> \o f BY DEF Header, f
<1>8. 1 \in 1..(2 + SizeBytes) /\ 2 \in 1..(2 + SizeBytes) BY <1>4
<1>9. Header(p)[1] = p.type /\ Header(p)[2] = p.status BY <1>6, <1>7, <1>8
<1>10. \A i \in 1..SizeBytes : i + 2 \in 1..(2 + SizeBytes) /\ ~(i + 2 <= 2) /\ (i + 2) - 2 = i
  BY <1>4
<1>11. \A i \in 1..SizeBytes : Header(p)[i + 2] = f[i] BY <1>6, <1>7, <1>10
<1> QED BY <1>4, <1>6, <1>7, <1>9, <1>11 DEF HeaderSize, f

LEMMA WireOf ==
  ASSUME NEW p \in Packets
  PROVE  /\ Wire(p) \in Seq(Byte) /\ Len(Wire(p)) = HeaderSize + Len(p.payload)
         /\ \A i \in 1..HeaderSize : Wire(p)[i] = Header(p)[i]
         /\ \A i \in 1..Len(p.payload) : Wire(p)[HeaderSize + i] = p.payload[i]
         /\ Len(Wire(p)) > 3 /\ Len(Wire(p)) \in Nat
<1>1. /\ Header(p) \in Seq(Byte) /\ Len(Header(p)) = HeaderSize /\ p.payload \in Seq(Byte)
      /\ HeaderSize \in Nat /\ HeaderSize > 3
  BY HeaderOf, OfPackets
<1>2. /\ Wire(p) \in Seq(Byte) /\ Len(Wire(p)) = HeaderSize + Len(p.payload)
      /\ \A i \in 1..(HeaderSize + Len(p.payload)) :
           Wire(p)[i] = IF i <= HeaderSize THEN Header(p)[i] ELSE p.payload[i - HeaderSize]
  BY <1>1, ConcatProperties DEF Wire
<1>3. Len(p.payload) \in Nat BY <1>1
<1>4. \A i \in 1..HeaderSize : Wire(p)[i] = Header(p)[i] BY <1>1, <1>2, <1>3
<1>5. \A i \in 1..Len(p.payload) : Wire(p)[HeaderSize + i] = p.payload[i]
  <2> TAKE i \in 1..Len(p.payload)
  <2>1. HeaderSize + i \in 1..(HeaderSize + Len(p.payload)) /\ ~(HeaderSize + i <= HeaderSize)
        /\ (HeaderSize + i) - HeaderSize = i
    BY <1>1, <1>3
  <2> QED BY <1>2, <2>1
<1> QED BY <1>1, <1>2, <1>3, <1>4, <1>5

(* recv_packet reads the size that send_packet wrote. *)
LEMMA SizeRead ==
  ASSUME NEW p \in Packets
  PROVE  PayloadSize(Header(p)) = Len(p.payload)
<1> DEFINE n == Len(p.payload)
           Sizes == 0..(Power[SizeBytes] - 1)
<1>1. n \in Sizes BY OfPackets
<1>2. SizeField(n) = SubSeq(Header(p), 3, HeaderSize)
  <2>1. SizeField(n) \in Seq(Byte) /\ Len(SizeField(n)) = SizeBytes
    <3>1. n \in Nat BY OfPackets
    <3> QED BY <3>1, Fields
  <2>2. /\ Header(p) \in Seq(Byte) /\ Len(Header(p)) = HeaderSize /\ HeaderSize = 2 + SizeBytes
        /\ \A i \in 1..SizeBytes : Header(p)[i + 2] = SizeField(n)[i]
    BY HeaderOf
  <2>3. SizeBytes \in Nat BY BaseAssumption
  <2>4. \A i \in 3..HeaderSize : Header(p)[i] \in Byte
    BY <2>2, <2>3, ElementOfSeq
  <2>5. HeaderSize \in Int /\ 3 <= HeaderSize BY <2>2, HeaderOf
  <2>6. /\ SubSeq(Header(p), 3, HeaderSize) \in Seq(Byte)
        /\ Len(SubSeq(Header(p), 3, HeaderSize)) = HeaderSize - 3 + 1
        /\ \A i \in 1..(HeaderSize - 3 + 1) :
             SubSeq(Header(p), 3, HeaderSize)[i] = Header(p)[3 + i - 1]
    BY <2>4, <2>5, SubSeqProperties
  <2>7. HeaderSize - 3 + 1 = SizeBytes /\ \A i \in 1..SizeBytes : 3 + i - 1 = i + 2
    BY <2>2, <2>3
  <2>8. \A i \in 1..SizeBytes : SizeField(n)[i] = SubSeq(Header(p), 3, HeaderSize)[i]
    BY <2>2, <2>6, <2>7
  <2> HIDE DEF n
  <2> QED BY <2>1, <2>6, <2>7, <2>8, SeqEqual
<1> HIDE DEF n
<1>3. \A m \in Sizes : SizeField(m) = SubSeq(Header(p), 3, HeaderSize) => m = n
  BY <1>1, <1>2, SizesDiffer
<1>4. PayloadSize(Header(p)) = n
  BY <1>1, <1>2, <1>3 DEF PayloadSize
<1> QED BY <1>4 DEF n

-----------------------------------------------------------------------------
(* The bytes of several packets: where each of them begins. *)

Cuts(s, ps, cut) ==
  /\ cut \in [1..(Len(ps) + 1) -> Nat] /\ cut[1] = 0 /\ cut[Len(ps) + 1] = Len(s)
  /\ \A i \in 1..Len(ps) : /\ cut[i + 1] = cut[i] + Len(Wire(ps[i]))
                           /\ \A j \in 1..Len(Wire(ps[i])) : s[cut[i] + j] = Wire(ps[i])[j]
  /\ \A i, j \in 1..(Len(ps) + 1) : i <= j => cut[i] <= cut[j]
Stream(s, ps) == \E cut : Cuts(s, ps, cut)

LEMMA StreamEmpty == Stream(<<>>, <<>>)
<1> DEFINE cut == [i \in 1..1 |-> 0]
<1>1. Len(<<>>) = 0 OBVIOUS
<1>2. Cuts(<<>>, <<>>, cut) BY <1>1 DEF Cuts
<1> QED BY <1>2 DEF Stream

LEMMA StreamNone ==
  ASSUME NEW s \in Seq(Byte), Stream(s, <<>>)
  PROVE  s = <<>>
<1>1. Len(<<>>) = 0 OBVIOUS
<1>2. PICK cut : Cuts(s, <<>>, cut) BY DEF Stream
<1>3. Len(s) = 0 BY <1>1, <1>2 DEF Cuts
<1> QED BY <1>3

LEMMA StreamGrows ==
  ASSUME NEW s \in Seq(Byte), NEW ps \in Seq(Packets), NEW p \in Packets, Stream(s, ps)
  PROVE  Stream(s \o Wire(p), Append(ps, p))
<1>1. PICK cut : Cuts(s, ps, cut) BY DEF Stream
<1> DEFINE n == Len(ps)
           qs == Append(ps, p)
           t == s \o Wire(p)
           w == Len(Wire(p))
           longer == [i \in 1..(n + 2) |-> IF i = n + 2 THEN Len(s) + w ELSE cut[i]]
<1>2. n \in Nat /\ Len(s) \in Nat /\ w \in Nat /\ Wire(p) \in Seq(Byte) BY WireOf
<1>3. /\ Len(t) = Len(s) + w
      /\ \A i \in 1..(Len(s) + w) : t[i] = IF i <= Len(s) THEN s[i] ELSE Wire(p)[i - Len(s)]
  BY <1>2, ConcatProperties
<1>4. Len(qs) = n + 1 /\ qs[n + 1] = p /\ \A i \in 1..n : qs[i] = ps[i] BY AppendProperties
<1>5. /\ cut \in [1..(n + 1) -> Nat] /\ cut[1] = 0 /\ cut[n + 1] = Len(s)
      /\ \A i \in 1..n : /\ cut[i + 1] = cut[i] + Len(Wire(ps[i]))
                         /\ \A j \in 1..Len(Wire(ps[i])) : s[cut[i] + j] = Wire(ps[i])[j]
      /\ \A i, j \in 1..(n + 1) : i <= j => cut[i] <= cut[j]
  BY <1>1 DEF Cuts
<1> HIDE DEF n, qs, t, w
<1>6. longer \in [1..(n + 2) -> Nat]
  <2> SUFFICES ASSUME NEW i \in 1..(n + 2) PROVE longer[i] \in Nat OBVIOUS
  <2>1. CASE i = n + 2 BY <2>1, <1>2
  <2>2. CASE i # n + 2
    <3>1. i \in 1..(n + 1) BY <2>2, <1>2
    <3> QED BY <3>1, <2>2, <1>5
  <2> QED BY <2>1, <2>2
<1>7. longer[n + 2] = Len(s) + w /\ \A i \in 1..(n + 1) : longer[i] = cut[i]
  BY <1>2
<1> HIDE DEF longer
<1>8. \A i, j \in 1..(n + 2) : i <= j => longer[i] <= longer[j]
  <2> SUFFICES ASSUME NEW i \in 1..(n + 2), NEW j \in 1..(n + 2), i <= j
               PROVE  longer[i] <= longer[j]
    OBVIOUS
  <2>1. CASE j # n + 2
    <3>1. i \in 1..(n + 1) /\ j \in 1..(n + 1) BY <2>1, <1>2
    <3> QED BY <3>1, <1>5, <1>7
  <2>2. CASE j = n + 2 /\ i # n + 2
    <3>1. i \in 1..(n + 1) /\ n + 1 \in 1..(n + 1) /\ i <= n + 1 BY <2>2, <1>2
    <3>2. cut[i] <= Len(s) /\ cut[i] \in Nat BY <3>1, <1>5
    <3> QED BY <3>1, <3>2, <2>2, <1>2, <1>7
  <2>3. CASE j = n + 2 /\ i = n + 2 BY <2>3, <1>2, <1>7
  <2> QED BY <2>1, <2>2, <2>3
<1>9. ASSUME NEW i \in 1..(n + 1)
      PROVE  /\ longer[i + 1] = longer[i] + Len(Wire(qs[i]))
             /\ \A j \in 1..Len(Wire(qs[i])) : t[longer[i] + j] = Wire(qs[i])[j]
  <2>1. CASE i = n + 1
    <3>1. longer[i] = Len(s) /\ longer[i + 1] = Len(s) + w /\ qs[i] = p /\ Len(Wire(p)) = w
      BY <2>1, <1>2, <1>4, <1>5, <1>7 DEF w
    <3>2. \A j \in 1..w : Len(s) + j \in 1..(Len(s) + w) /\ ~(Len(s) + j <= Len(s))
                          /\ (Len(s) + j) - Len(s) = j
      BY <1>2
    <3>3. \A j \in 1..w : t[Len(s) + j] = Wire(p)[j] BY <3>2, <1>3
    <3> QED BY <3>1, <3>3
  <2>2. CASE i # n + 1
    <3>1. i \in 1..n /\ i \in 1..(n + 1) /\ i + 1 \in 1..(n + 1) /\ n + 1 \in 1..(n + 1)
          /\ i + 1 <= n + 1
      BY <2>2, <1>2
    <3>2. longer[i] = cut[i] /\ longer[i + 1] = cut[i + 1] /\ qs[i] = ps[i]
      BY <3>1, <1>4, <1>7
    <3>3. cut[i] \in Nat /\ cut[i + 1] \in Nat /\ cut[i + 1] <= Len(s)
          /\ cut[i + 1] = cut[i] + Len(Wire(ps[i]))
      BY <3>1, <1>5
    <3>4. Len(Wire(ps[i])) \in Nat
      <4>1. ps[i] \in Packets BY <3>1, ElementOfSeq DEF n
      <4> QED BY <4>1, WireOf
    <3>5. \A j \in 1..Len(Wire(ps[i])) :
            cut[i] + j \in 1..(Len(s) + w) /\ cut[i] + j <= Len(s)
      BY <3>3, <3>4, <1>2
    <3>6. \A j \in 1..Len(Wire(ps[i])) : t[cut[i] + j] = s[cut[i] + j] BY <3>5, <1>3
    <3>7. \A j \in 1..Len(Wire(ps[i])) : t[cut[i] + j] = Wire(ps[i])[j] BY <3>1, <3>6, <1>5
    <3> QED BY <3>2, <3>3, <3>7
  <2> QED BY <2>1, <2>2
<1>10. Cuts(t, qs, longer)
  <2>1. longer[1] = 0
    <3>1. 1 \in 1..(n + 1) BY <1>2
    <3> QED BY <3>1, <1>5, <1>7
  <2>2. (n + 1) + 1 = n + 2 BY <1>2
  <2> QED BY <2>1, <2>2, <1>3, <1>4, <1>6, <1>7, <1>8, <1>9 DEF Cuts
<1> QED BY <1>10 DEF Stream, t, qs

(* The first packet of a stream, and what follows it. *)
LEMMA StreamFirst ==
  ASSUME NEW s \in Seq(Byte), NEW ps \in Seq(Packets), ps # <<>>, Stream(s, ps)
  PROVE  /\ ps[1] \in Packets /\ Len(Wire(ps[1])) <= Len(s)
         /\ \A j \in 1..Len(Wire(ps[1])) : s[j] = Wire(ps[1])[j]
         /\ \A t \in Seq(Byte) :
              /\ Len(t) = Len(s) - Len(Wire(ps[1]))
              /\ \A j \in 1..Len(t) : t[j] = s[Len(Wire(ps[1])) + j]
              => Stream(t, Tail(ps))
<1> DEFINE n == Len(ps)
           w == Len(Wire(ps[1]))
           rs == Tail(ps)
<1>1. PICK cut : Cuts(s, ps, cut) BY DEF Stream
<1>2. n \in Nat \ {0} /\ Len(s) \in Nat /\ ps[1] \in Packets /\ 1 \in 1..n BY EmptySeq, ElementOfSeq
<1>3. w \in Nat BY <1>2, WireOf
<1>4. /\ cut \in [1..(n + 1) -> Nat] /\ cut[1] = 0 /\ cut[n + 1] = Len(s)
      /\ \A i \in 1..n : /\ cut[i + 1] = cut[i] + Len(Wire(ps[i]))
                         /\ \A j \in 1..Len(Wire(ps[i])) : s[cut[i] + j] = Wire(ps[i])[j]
      /\ \A i, j \in 1..(n + 1) : i <= j => cut[i] <= cut[j]
  BY <1>1 DEF Cuts
<1>5. Len(rs) = n - 1 /\ rs \in Seq(Packets) /\ \A i \in 1..(n - 1) : rs[i] = ps[i + 1]
  BY <1>2, HeadTailProperties
<1> HIDE DEF n, rs
<1>6. cut[2] = w
  <2>1. cut[1 + 1] = cut[1] + w BY <1>2, <1>4
  <2> QED BY <2>1, <1>3, <1>4
<1>7. \A j \in 1..w : s[j] = Wire(ps[1])[j]
  <2>1. \A j \in 1..w : s[cut[1] + j] = Wire(ps[1])[j] BY <1>2, <1>4
  <2>2. \A j \in 1..w : cut[1] + j = j BY <1>3, <1>4
  <2> QED BY <2>1, <2>2
<1> HIDE DEF w
<1>8. \A i \in 1..n : i + 1 \in 1..(n + 1) /\ 2 \in 1..(n + 1) /\ 2 <= i + 1 BY <1>2
<1>9. \A i \in 1..n : cut[i + 1] \in Nat /\ w <= cut[i + 1] BY <1>4, <1>6, <1>8
<1>10. w <= Len(s) BY <1>2, <1>4, <1>9
<1>11. ASSUME NEW t \in Seq(Byte), Len(t) = Len(s) - w, \A j \in 1..Len(t) : t[j] = s[w + j]
       PROVE  Stream(t, rs)
  <2> DEFINE rest == [i \in 1..n |-> cut[i + 1] - w]
  <2>1. rest \in [1..n -> Nat] BY <1>3, <1>9
  <2>2. \A i \in 1..n : rest[i] = cut[i + 1] - w OBVIOUS
  <2> HIDE DEF rest
  <2>3. rest[1] = 0
    <3>1. 1 + 1 = 2 OBVIOUS
    <3> QED BY <3>1, <2>2, <1>2, <1>3, <1>6
  <2>4. rest[n] = Len(t)
    <3>1. n \in 1..n BY <1>2
    <3> QED BY <3>1, <2>2, <1>4, <1>11
  <2>5. \A i, j \in 1..n : i <= j => rest[i] <= rest[j]
    <3> SUFFICES ASSUME NEW i \in 1..n, NEW j \in 1..n, i <= j PROVE rest[i] <= rest[j]
      OBVIOUS
    <3>1. i + 1 \in 1..(n + 1) /\ j + 1 \in 1..(n + 1) /\ i + 1 <= j + 1 BY <1>2
    <3>2. cut[i + 1] <= cut[j + 1] /\ cut[i + 1] \in Nat /\ cut[j + 1] \in Nat BY <3>1, <1>4
    <3> QED BY <3>2, <2>2, <1>3
  <2>6. ASSUME NEW i \in 1..(n - 1)
        PROVE  /\ rest[i + 1] = rest[i] + Len(Wire(rs[i]))
               /\ \A j \in 1..Len(Wire(rs[i])) : t[rest[i] + j] = Wire(rs[i])[j]
    <3>1. i \in 1..n /\ i + 1 \in 1..n BY <1>2
    <3>2. rs[i] = ps[i + 1] /\ rs[i] \in Packets BY <1>5, ElementOfSeq
    <3>3. Len(Wire(rs[i])) \in Nat BY <3>2, WireOf
    <3>4. cut[(i + 1) + 1] = cut[i + 1] + Len(Wire(rs[i])) BY <3>1, <3>2, <1>4
    <3>5. cut[i + 1] \in Nat /\ w <= cut[i + 1] /\ cut[(i + 1) + 1] \in Nat BY <3>1, <1>9
    <3>6. rest[i] = cut[i + 1] - w /\ rest[i + 1] = cut[(i + 1) + 1] - w BY <3>1, <2>2
    <3>7. rest[i + 1] = rest[i] + Len(Wire(rs[i])) BY <3>3, <3>4, <3>5, <3>6, <1>3
    <3>8. rest[i] \in Nat /\ rest[i + 1] \in Nat /\ rest[i + 1] <= rest[n]
      <4>1. n \in 1..n /\ i + 1 <= n BY <1>2
      <4> QED BY <4>1, <3>1, <2>1, <2>5
    <3>9. ASSUME NEW j \in 1..Len(Wire(rs[i])) PROVE t[rest[i] + j] = Wire(rs[i])[j]
      <4>1. rest[i] + j \in 1..Len(t) BY <3>3, <3>7, <3>8, <2>4
      <4>2. t[rest[i] + j] = s[w + (rest[i] + j)] BY <4>1, <1>11
      <4>3. w + (rest[i] + j) = cut[i + 1] + j BY <3>3, <3>5, <3>6, <3>8, <1>3
      <4>4. s[cut[i + 1] + j] = Wire(rs[i])[j] BY <3>1, <3>2, <1>4
      <4> QED BY <4>2, <4>3, <4>4
    <3> QED BY <3>7, <3>9
  <2>7. (n - 1) + 1 = n BY <1>2
  <2>8. Cuts(t, rs, rest) BY <2>1, <2>3, <2>4, <2>5, <2>6, <2>7, <1>5 DEF Cuts
  <2> QED BY <2>8 DEF Stream
<1> QED BY <1>2, <1>7, <1>10, <1>11 DEF w, rs

(* A stream of one packet is its bytes. *)
LEMMA StreamOne ==
  ASSUME NEW s \in Seq(Byte), NEW p \in Packets, Stream(s, <<p>>)
  PROVE  Len(s) = Len(Wire(p))
<1>1. Len(<<p>>) = 1 /\ <<p>>[1] = p OBVIOUS
<1>2. PICK cut : Cuts(s, <<p>>, cut) BY DEF Stream
<1>3. cut[1] = 0 /\ cut[1 + 1] = Len(s) /\ cut[1 + 1] = cut[1] + Len(Wire(p))
  BY <1>1, <1>2 DEF Cuts
<1>4. Len(Wire(p)) \in Nat BY WireOf
<1> QED BY <1>3, <1>4

(* The first and the last packet of a stream do not overlap. *)
LEMMA StreamEnds ==
  ASSUME NEW s \in Seq(Byte), NEW ps \in Seq(Packets), Len(ps) > 1, Stream(s, ps)
  PROVE  Len(Wire(ps[1])) + Len(Wire(ps[Len(ps)])) <= Len(s)
<1> DEFINE n == Len(ps)
<1>1. PICK cut : Cuts(s, ps, cut) BY DEF Stream
<1>2. n \in Nat /\ n > 1 /\ 1 \in 1..n /\ n \in 1..n OBVIOUS
<1>3. ps[1] \in Packets /\ ps[n] \in Packets BY <1>2, ElementOfSeq
<1>4. Len(Wire(ps[1])) \in Nat /\ Len(Wire(ps[n])) \in Nat BY <1>3, WireOf
<1>5. /\ cut \in [1..(n + 1) -> Nat] /\ cut[1] = 0 /\ cut[n + 1] = Len(s)
      /\ \A i \in 1..n : cut[i + 1] = cut[i] + Len(Wire(ps[i]))
      /\ \A i, j \in 1..(n + 1) : i <= j => cut[i] <= cut[j]
  BY <1>1 DEF Cuts
<1> HIDE DEF n
<1>6. cut[1 + 1] = cut[1] + Len(Wire(ps[1])) /\ cut[n + 1] = cut[n] + Len(Wire(ps[n]))
  BY <1>2, <1>5
<1>7. 2 \in 1..(n + 1) /\ n \in 1..(n + 1) /\ 2 <= n BY <1>2
<1>8. cut[2] <= cut[n] /\ cut[n] \in Nat /\ cut[2] \in Nat BY <1>5, <1>7
<1>9. Len(Wire(ps[1])) + Len(Wire(ps[n])) <= Len(s) BY <1>4, <1>5, <1>6, <1>8
<1> QED BY <1>9 DEF n

-----------------------------------------------------------------------------
(* What holds in every reachable state.                                    *)

(* The receiving side has not ended; where it is not in recv_packet it has *)
(* what its last call left.                                                *)
Attached == rpc \in {"elsewhere", "header", "payload"}

(* What of the packet under way was read; the packets that were not        *)
(* returned; the rest of the packet in send.                               *)
Mid == IF rpc \in {"elsewhere", "header"} THEN IF Len(head) = HeaderSize THEN <<>> ELSE head ELSE head \o body
Remaining == SubSeq(given, Len(received) + 1, Len(given))
Later == IF wpc = "header" THEN Last(given).payload ELSE <<>>
Owed == IF Sending THEN unsent \o Later ELSE <<>>

SenderInv ==
  /\ wpc = "gone" <=> ending # "no"
  /\ wpc = "failed" => rpc = "left"
  /\ given = sent \/ \E p \in Packets : given = Append(sent, p)
  /\ wpc = "idle" => given = sent
  /\ Sending => given # sent

ReaderInv ==
  /\ kind = "recv_packet" =>
       Len(received) <= Len(sent) /\ \A i \in 1..Len(received) : received[i] = sent[i]
  /\ Attached /\ kind = "recv_packet" /\ rpc = "payload" =>
       Len(head) = HeaderSize /\ PayloadSize(head) \in Nat /\ Len(body) < PayloadSize(head)
  /\ Attached /\ kind = "connector" =>
       /\ received = <<>> /\ rpc # "elsewhere"
       /\ rpc = "header" => Len(head) < 3 /\ body = <<>>
       /\ rpc = "payload" => Len(head) = 3 /\ Len(body) < head[3]

(* As long as somebody may read, what was read, what is under way and some    *)
(* rest that will or will not come make up the packets not returned.       *)
RestIs(rest) ==
  /\ Stream(Mid \o (pipe \o rest), Remaining)
  /\ given # sent => rest # <<>>
  /\ ending # "reset" => IF given = sent THEN rest = <<>> ELSE Len(rest) <= Len(Wire(Last(given)))
  /\ ending = "no" => rest = Owed
StreamInv == Attached => \E rest \in Seq(Byte) : RestIs(rest)

GetsInv == ConnectorGets /\ (kind = "connector" /\ received # <<>> => given # <<>>)

Inv == StreamTypeOK /\ SenderInv /\ ReaderInv /\ StreamInv /\ GetsInv

-----------------------------------------------------------------------------
(* Sequences of bytes cut and put together. *)

LEMMA Chunk ==
  ASSUME NEW s \in Seq(Byte), NEW k \in 0..Len(s)
  PROVE  /\ SubSeq(s, 1, k) \in Seq(Byte) /\ Len(SubSeq(s, 1, k)) = k
         /\ SubSeq(s, k + 1, Len(s)) \in Seq(Byte) /\ Len(SubSeq(s, k + 1, Len(s))) = Len(s) - k
         /\ SubSeq(s, 1, k) \o SubSeq(s, k + 1, Len(s)) = s
<1>1. Len(s) \in Nat /\ k \in Int /\ 1 \in Int /\ k + 1 \in Int OBVIOUS
<1>2. (\A i \in 1..k : s[i] \in Byte) /\ \A i \in (k + 1)..Len(s) : s[i] \in Byte
  OBVIOUS
<1>3. SubSeq(s, 1, k) \in Seq(Byte) /\ Len(SubSeq(s, 1, k)) = IF 1 <= k THEN k - 1 + 1 ELSE 0
  BY <1>1, <1>2, SubSeqProperties
<1>4. /\ SubSeq(s, k + 1, Len(s)) \in Seq(Byte)
      /\ Len(SubSeq(s, k + 1, Len(s))) = IF k + 1 <= Len(s) THEN Len(s) - (k + 1) + 1 ELSE 0
  BY <1>1, <1>2, SubSeqProperties
<1>5. SubSeq(s, 1, k) \o SubSeq(s, k + 1, Len(s)) = SubSeq(s, 1, Len(s))
  <2>1. 1 \in 1..(Len(s) + 1) /\ k \in (1 - 1)..Len(s) /\ Len(s) \in k..Len(s) BY <1>1
  <2> QED BY <2>1, ConcatAdjacentSubSeq
<1>6. SubSeq(s, 1, Len(s)) = s BY SubSeqFull
<1>7. (IF 1 <= k THEN k - 1 + 1 ELSE 0) = k
      /\ (IF k + 1 <= Len(s) THEN Len(s) - (k + 1) + 1 ELSE 0) = Len(s) - k
  BY <1>1
<1>8. Len(SubSeq(s, 1, k)) = k /\ Len(SubSeq(s, k + 1, Len(s))) = Len(s) - k
  <2>1. Len(SubSeq(s, 1, k)) = IF 1 <= k THEN k - 1 + 1 ELSE 0 BY <1>3
  <2>2. Len(SubSeq(s, k + 1, Len(s))) = IF k + 1 <= Len(s) THEN Len(s) - (k + 1) + 1 ELSE 0
    BY <1>4
  <2>3. (IF 1 <= k THEN k - 1 + 1 ELSE 0) = k BY <1>7
  <2>4. (IF k + 1 <= Len(s) THEN Len(s) - (k + 1) + 1 ELSE 0) = Len(s) - k BY <1>7
  <2> QED BY <2>1, <2>2, <2>3, <2>4
<1>9. SubSeq(s, 1, k) \o SubSeq(s, k + 1, Len(s)) = s BY <1>5, <1>6, Zenon
<1> QED BY <1>3, <1>4, <1>8, <1>9, Zenon

LEMMA Associative ==
  \A x, y, z \in Seq(Byte) : (x \o y) \o z = x \o (y \o z)
BY ConcatAssociative

LEMMA Joined ==
  \A x, y \in Seq(Byte) : x \o y \in Seq(Byte) /\ Len(x \o y) = Len(x) + Len(y)
BY ConcatProperties

LEMMA Parts ==
  \A x, y \in Seq(Byte) :
    /\ Len(x \o y) = Len(x) + Len(y)
    /\ \A j \in 1..(Len(x) + Len(y)) : (x \o y)[j] = IF j <= Len(x) THEN x[j] ELSE y[j - Len(x)]
BY ConcatProperties

LEMMA OneMore ==
  \A s \in Seq(Packet), p \in Packet :
    /\ Append(s, p) \in Seq(Packet) /\ Len(Append(s, p)) = Len(s) + 1
    /\ Append(s, p) # <<>> /\ Append(s, p)[Len(s) + 1] = p
    /\ \A i \in 1..Len(s) : Append(s, p)[i] = s[i]
BY AppendProperties

(* What the kernel takes or gives at a time. *)
LEMMA Taking ==
  ASSUME NEW s \in Seq(Byte), NEW m \in Int, NEW k \in 1..AtMost(Len(s), m)
  PROVE  k \in 1..Len(s) /\ k \in 0..Len(s) /\ k <= m
<1>1. Len(s) \in Nat OBVIOUS
<1>2. AtMost(Len(s), m) \in Int /\ AtMost(Len(s), m) <= Len(s) /\ AtMost(Len(s), m) <= m
  BY <1>1 DEF AtMost
<1> QED BY <1>1, <1>2

(* A reader that has read something has read of the first packet. *)
LEMMA Reads ==
  ASSUME NEW m \in Seq(Byte), NEW t \in Seq(Byte), NEW ps \in Seq(Packets), m # <<>>,
         Stream(m \o t, ps)
  PROVE  /\ ps # <<>> /\ ps[1] \in Packets /\ Len(Wire(ps[1])) <= Len(m) + Len(t)
         /\ \A j \in 1..Len(m) : j <= Len(Wire(ps[1])) => m[j] = Wire(ps[1])[j]
         /\ Len(m) = Len(Wire(ps[1])) => Stream(t, Tail(ps))
<1>1. /\ m \o t \in Seq(Byte) /\ Len(m \o t) = Len(m) + Len(t)
      /\ \A i \in 1..(Len(m) + Len(t)) : (m \o t)[i] = IF i <= Len(m) THEN m[i] ELSE t[i - Len(m)]
  BY ConcatProperties
<1>2. Len(m) \in Nat /\ Len(t) \in Nat /\ Len(m) > 0 BY EmptySeq
<1>3. ps # <<>>
  <2> SUFFICES ASSUME ps = <<>> PROVE FALSE OBVIOUS
  <2>1. m \o t = <<>> BY <1>1, StreamNone
  <2>2. Len(m \o t) = 0 BY <2>1
  <2> QED BY <1>1, <1>2, <2>2
<1> DEFINE w == Len(Wire(ps[1]))
<1>4. /\ ps[1] \in Packets /\ w <= Len(m \o t)
      /\ \A j \in 1..w : (m \o t)[j] = Wire(ps[1])[j]
      /\ \A u \in Seq(Byte) : /\ Len(u) = Len(m \o t) - w
                              /\ \A j \in 1..Len(u) : u[j] = (m \o t)[w + j]
                              => Stream(u, Tail(ps))
  BY <1>1, <1>3, StreamFirst
<1>5. w \in Nat BY <1>4, WireOf
<1> HIDE DEF w
<1>6. \A j \in 1..Len(m) : j <= w => m[j] = Wire(ps[1])[j]
  <2> SUFFICES ASSUME NEW j \in 1..Len(m), j <= w PROVE m[j] = Wire(ps[1])[j] OBVIOUS
  <2>1. j \in 1..w /\ j \in 1..(Len(m) + Len(t)) /\ j <= Len(m) BY <1>2, <1>5
  <2> QED BY <2>1, <1>1, <1>4
<1>7. Len(m) = w => Stream(t, Tail(ps))
  <2> SUFFICES ASSUME Len(m) = w PROVE Stream(t, Tail(ps)) OBVIOUS
  <2>1. Len(t) = Len(m \o t) - w BY <1>1, <1>2
  <2>2. \A j \in 1..Len(t) : t[j] = (m \o t)[w + j]
    <3> TAKE j \in 1..Len(t)
    <3>1. w + j \in 1..(Len(m) + Len(t)) /\ ~(w + j <= Len(m)) /\ (w + j) - Len(m) = j
      BY <1>2
    <3> QED BY <3>1, <1>1
  <2> QED BY <2>1, <2>2, <1>4
<1> QED BY <1>1, <1>3, <1>4, <1>6, <1>7 DEF w

LEMMA RemainingIs ==
  ASSUME NEW gs \in Seq(Packets), NEW n \in Nat, n <= Len(gs)
  PROVE  LET rs == SubSeq(gs, n + 1, Len(gs))
         IN /\ rs \in Seq(Packets) /\ Len(rs) = Len(gs) - n
            /\ \A i \in 1..(Len(gs) - n) : rs[i] = gs[n + i]
            /\ rs # <<>> => /\ n + 1 \in 1..Len(gs) /\ rs[1] = gs[n + 1]
                            /\ Tail(rs) = SubSeq(gs, n + 2, Len(gs))
            /\ \A p \in Packets : SubSeq(Append(gs, p), n + 1, Len(gs) + 1) = Append(rs, p)
<1> DEFINE rs == SubSeq(gs, n + 1, Len(gs))
<1>1. Len(gs) \in Nat /\ n + 1 \in Int /\ \A i \in (n + 1)..Len(gs) : gs[i] \in Packets
  BY ElementOfSeq
<1>2. /\ rs \in Seq(Packets)
      /\ Len(rs) = IF n + 1 <= Len(gs) THEN Len(gs) - (n + 1) + 1 ELSE 0
      /\ \A i \in 1..(Len(gs) - (n + 1) + 1) : rs[i] = gs[(n + 1) + i - 1]
  BY <1>1, SubSeqProperties
<1>3. Len(rs) = Len(gs) - n /\ \A i \in 1..(Len(gs) - n) : rs[i] = gs[n + i] BY <1>1, <1>2
<1>4. ASSUME rs # <<>>
      PROVE  n + 1 \in 1..Len(gs) /\ rs[1] = gs[n + 1] /\ Tail(rs) = SubSeq(gs, n + 2, Len(gs))
  <2>1. Len(rs) > 0 BY <1>2, <1>4, EmptySeq
  <2>2. n + 1 \in 1..Len(gs) /\ Len(gs) \in (n + 1)..Len(gs) BY <2>1, <1>1, <1>3
  <2>3. Tail(rs) = SubSeq(gs, (n + 1) + 1, Len(gs)) BY <2>2, HeadTailOfSubSeq
  <2>4. rs[1] = gs[n + 1] BY <2>2, <1>1, <1>3
  <2>5. (n + 1) + 1 = n + 2 OBVIOUS
  <2> QED BY <2>2, <2>3, <2>4, <2>5
<1>5. ASSUME NEW p \in Packets PROVE SubSeq(Append(gs, p), n + 1, Len(gs) + 1) = Append(rs, p)
  <2> DEFINE hs == Append(gs, p)
             qs == SubSeq(hs, n + 1, Len(gs) + 1)
  <2>1. /\ hs \in Seq(Packets) /\ Len(hs) = Len(gs) + 1 /\ hs[Len(gs) + 1] = p
        /\ \A i \in 1..Len(gs) : hs[i] = gs[i]
    BY AppendProperties
  <2> HIDE DEF hs
  <2>2. \A i \in (n + 1)..(Len(gs) + 1) : hs[i] \in Packets BY <2>1, <1>1, ElementOfSeq
  <2>3. /\ qs \in Seq(Packets)
        /\ Len(qs) = IF n + 1 <= Len(gs) + 1 THEN (Len(gs) + 1) - (n + 1) + 1 ELSE 0
        /\ \A i \in 1..((Len(gs) + 1) - (n + 1) + 1) : qs[i] = hs[(n + 1) + i - 1]
    BY <2>2, <1>1, SubSeqProperties
  <2> HIDE DEF qs, rs
  <2>4. /\ Append(rs, p) \in Seq(Packets) /\ Len(Append(rs, p)) = Len(rs) + 1
        /\ \A i \in 1..Len(rs) : Append(rs, p)[i] = rs[i]
        /\ Append(rs, p)[Len(rs) + 1] = p
    BY <1>2, AppendProperties
  <2>5. Len(qs) = Len(Append(rs, p)) BY <2>3, <2>4, <1>1, <1>3
  <2>6. ASSUME NEW i \in 1..Len(qs) PROVE qs[i] = Append(rs, p)[i]
    <3>1. qs[i] = hs[n + i] BY <2>3, <1>1
    <3>2. CASE i = Len(rs) + 1
      <4>1. n + i = Len(gs) + 1 BY <3>2, <1>1, <1>3
      <4> QED BY <4>1, <3>1, <3>2, <2>1, <2>4
    <3>3. CASE i # Len(rs) + 1
      <4>1. i \in 1..Len(rs) /\ i \in 1..(Len(gs) - n) /\ n + i \in 1..Len(gs)
        BY <3>3, <2>3, <1>1, <1>3
      <4> QED BY <4>1, <3>1, <2>1, <2>4, <1>3
    <3> QED BY <3>2, <3>3
  <2>7. qs = Append(rs, p) BY <2>3, <2>4, <2>5, <2>6, SeqEqual
  <2> QED BY <2>7 DEF qs, hs, rs
<1> QED BY <1>2, <1>3, <1>4, <1>5

-----------------------------------------------------------------------------
(* The steps of the sending side. *)

LEMMA Constants ==
  /\ Base \in Nat /\ Base > 1 /\ SizeBytes \in Nat /\ SizeBytes > 1 /\ Window \in Nat
  /\ HeaderSize \in Nat /\ HeaderSize > 3 /\ HeaderSize = 2 + SizeBytes
BY BaseAssumption, WindowAssumption DEF HeaderSize

LEMMA MidType ==
  ASSUME StreamTypeOK
  PROVE  Mid \in Seq(Byte)
<1>1. head \in Seq(Byte) /\ body \in Seq(Byte) BY DEF StreamTypeOK
<1>2. head \o body \in Seq(Byte) BY <1>1, ConcatProperties
<1> QED BY <1>1, <1>2, EmptySeq DEF Mid

(* The packet in send is the last one that was given. *)
LEMMA InSend ==
  ASSUME StreamTypeOK, SenderInv, given # sent
  PROVE  /\ Last(given) \in Packets /\ given = Append(sent, Last(given)) /\ Len(given) > 0
         /\ given[Len(given)] = Last(given) /\ Len(given) = Len(sent) + 1
         /\ Last(given).payload \in Seq(Byte)
<1>1. PICK p \in Packets : given = Append(sent, p) BY DEF SenderInv
<1>2. Len(given) = Len(sent) + 1 /\ given[Len(sent) + 1] = p /\ Len(sent) \in Nat
  BY <1>1, AppendProperties DEF StreamTypeOK
<1>3. Last(given) = p BY <1>2 DEF Last
<1> QED BY <1>1, <1>2, <1>3, OfPackets

LEMMA OwedType ==
  ASSUME StreamTypeOK, SenderInv
  PROVE  Owed \in Seq(Byte) /\ (Sending => Later \in Seq(Byte) /\ Owed = unsent \o Later /\ Owed # <<>>)
<1>1. CASE Sending
  <2>1. Later \in Seq(Byte) BY <1>1, InSend, EmptySeq DEF SenderInv, Later
  <2>2. unsent \in Seq(Byte) /\ unsent # <<>> BY <1>1 DEF StreamTypeOK
  <2>3. Owed = unsent \o Later BY <1>1 DEF Owed
  <2>4. Owed \in Seq(Byte) /\ Len(Owed) = Len(unsent) + Len(Later)
    BY <2>1, <2>2, <2>3, ConcatProperties
  <2>5. Len(unsent) > 0 /\ Len(unsent) \in Nat /\ Len(Later) \in Nat BY <2>1, <2>2, EmptySeq
  <2>6. Owed # <<>> BY <2>4, <2>5
  <2> QED BY <2>1, <2>3, <2>4, <2>6
<1>2. CASE ~Sending BY <1>2, EmptySeq DEF Owed
<1> QED BY <1>1, <1>2

(* What the reader has and what it returned outlast a step of the sender. *)
LEMMA ReaderStays ==
  ASSUME StreamTypeOK, ReaderInv, GetsInv, UNCHANGED receiverVars,
         given' = given \/ \E p \in Packets : given' = Append(given, p),
         sent' = sent \/ \E p \in Packets : sent' = Append(sent, p)
  PROVE  ReaderInv' /\ GetsInv' /\ Mid' = Mid
<1>0. UNCHANGED <<kind, rpc, head, body, received>> BY DEF receiverVars
<1>1. Len(sent) <= Len(sent') /\ \A i \in 1..Len(sent) : sent'[i] = sent[i]
  <2>1. sent \in Seq(Packets) /\ Len(sent) \in Nat BY DEF StreamTypeOK
  <2>2. ASSUME NEW p \in Packets, sent' = Append(sent, p)
        PROVE  Len(sent) <= Len(sent') /\ \A i \in 1..Len(sent) : sent'[i] = sent[i]
    <3>1. Len(sent') = Len(sent) + 1 /\ \A i \in 1..Len(sent) : sent'[i] = sent[i]
      BY <2>1, <2>2, AppendProperties
    <3> QED BY <2>1, <3>1
  <2> QED BY <2>1, <2>2
<1>2. given # <<>> => given' # <<>> /\ given'[1] = given[1]
  <2> SUFFICES ASSUME given # <<>> PROVE given' # <<>> /\ given'[1] = given[1] OBVIOUS
  <2>1. given \in Seq(Packets) BY DEF StreamTypeOK
  <2>2. 1 \in 1..Len(given) BY <2>1, EmptySeq
  <2>3. ASSUME NEW p \in Packets, given' = Append(given, p)
        PROVE  given' # <<>> /\ given'[1] = given[1]
    BY <2>1, <2>2, <2>3, AppendProperties
  <2> QED BY <2>3
<1>3. Len(received) <= Len(sent) => Len(received) <= Len(sent') /\ 1..Len(received) \subseteq 1..Len(sent)
  <2>1. Len(received) \in Nat /\ Len(sent) \in Nat BY DEF StreamTypeOK
  <2>2. Len(sent') \in Nat BY <2>1, AppendProperties DEF StreamTypeOK
  <2> QED BY <2>1, <2>2, <1>1
<1>4. kind = "recv_packet" => Len(received) <= Len(sent') /\ \A i \in 1..Len(received) : received[i] = sent'[i]
  BY <1>1, <1>3 DEF ReaderInv
<1>5. PayloadSize(head)' = PayloadSize(head) BY <1>0 DEF PayloadSize
<1>6. ReaderInv' BY <1>0, <1>4, <1>5 DEF ReaderInv, Attached
<1>7. GetsInv' BY <1>0, <1>2 DEF GetsInv, ConnectorGets
<1> QED BY <1>0, <1>6, <1>7 DEF Mid

LEMMA InitHolds == Init => Inv
<1> SUFFICES ASSUME Init PROVE Inv OBVIOUS
<1>1. /\ wpc = "idle" /\ given = <<>> /\ unsent = <<>> /\ sent = <<>> /\ pipe = <<>> /\ ending = "no"
      /\ kind \in {"recv_packet", "connector"} /\ head = <<>> /\ body = <<>>
      /\ rpc = IF kind = "recv_packet" THEN "elsewhere" ELSE "header"
      /\ received = <<>>
  BY DEF Init
<1>2. <<>> \in Seq(Byte) /\ Len(<<>>) = 0 /\ <<>> \in Seq(Packets) /\ <<>> \in Seq(Packet)
  BY EmptySeq
<1>3. StreamTypeOK BY <1>1, <1>2, Constants DEF StreamTypeOK, Sending
<1>4. SenderInv BY <1>1 DEF SenderInv, Sending
<1>5. ReaderInv BY <1>1, <1>2 DEF ReaderInv
<1>6. StreamInv
  <2>1. Mid = <<>> /\ Owed = <<>> BY <1>1 DEF Mid, Owed, Sending
  <2>2. Remaining = <<>>
    <3>1. Len(received) = 0 /\ Len(given) = 0 BY <1>1, <1>2
    <3>2. SubSeq(given, 0 + 1, 0) = <<>> BY SubSeqEmpty
    <3> QED BY <3>1, <3>2 DEF Remaining
  <2>3. <<>> \o (pipe \o <<>>) = <<>> BY <1>1, <1>2, ConcatEmptySeq
  <2>4. Stream(Mid \o (pipe \o <<>>), Remaining) BY <2>1, <2>2, <2>3, StreamEmpty
  <2>5. RestIs(<<>>) BY <1>1, <2>1, <2>4 DEF RestIs
  <2> QED BY <1>2, <2>5 DEF StreamInv
<1>7. GetsInv BY <1>1 DEF GetsInv, ConnectorGets
<1> QED BY <1>3, <1>4, <1>5, <1>6, <1>7 DEF Inv

LEMMA CallSendHolds ==
  ASSUME Inv, NEW p \in Packets, CallSend(p)
  PROVE  Inv'
<1>t. StreamTypeOK /\ SenderInv /\ ReaderInv /\ StreamInv /\ GetsInv BY DEF Inv
<1>1. /\ wpc = "idle" /\ wpc' = "header" /\ unsent' = Header(p) /\ given' = Append(given, p)
      /\ UNCHANGED <<sent, pipe, ending, kind, rpc, head, body, received>> /\ UNCHANGED receiverVars
  BY DEF CallSend, receiverVars
<1>2. given = sent /\ ending = "no" /\ ~Sending BY <1>1, <1>t DEF SenderInv, Sending
<1>3. given \in Seq(Packets) /\ given' \in Seq(Packets) /\ Len(given') = Len(given) + 1
      /\ given'[Len(given) + 1] = p /\ Len(given) \in Nat
  BY <1>t, <1>1, AppendProperties DEF StreamTypeOK
<1>4. given' # sent' BY <1>1, <1>2, <1>3
<1>5. Header(p) \in Seq(Byte) /\ Header(p) # <<>>
  <2>1. Header(p) \in Seq(Byte) /\ Len(Header(p)) > 3 BY HeaderOf
  <2> QED BY <2>1
<1>6. StreamTypeOK' BY <1>t, <1>1, <1>3, <1>5 DEF StreamTypeOK, Sending
<1>7. SenderInv' BY <1>t, <1>1, <1>2, <1>4 DEF SenderInv, Sending
<1>8. ReaderInv' /\ GetsInv' /\ Mid' = Mid BY <1>t, <1>1, ReaderStays
<1>9. StreamInv'
  <2> SUFFICES ASSUME Attached' PROVE \E rest \in Seq(Byte) : RestIs(rest)' BY DEF StreamInv
  <2>1. Attached BY <1>1 DEF Attached
  <2>2. PICK rest \in Seq(Byte) : RestIs(rest) BY <1>t, <2>1 DEF StreamInv
  <2>3. rest = <<>> /\ Stream(Mid \o (pipe \o rest), Remaining)
    BY <1>2, <2>2 DEF RestIs, Owed
  <2>4. pipe \in Seq(Byte) /\ Mid \in Seq(Byte) BY <1>t, MidType DEF StreamTypeOK
  <2>5. pipe \o rest = pipe BY <2>3, <2>4, ConcatEmptySeq
  <2>6. Mid \o pipe \in Seq(Byte) BY <2>4, ConcatProperties
  <2>7. Wire(p) \in Seq(Byte) /\ Len(Wire(p)) > 3 BY WireOf
  <2>8. Last(given') = p BY <1>3 DEF Last
  <2>9. Owed' = Wire(p) BY <1>1, <2>8 DEF Owed, Sending, Later, Wire
  <2>10. Len(received) \in Nat /\ Len(received) <= Len(given)
    BY <1>2, <1>3, <1>t, <2>1, EmptySeq DEF ReaderInv, StreamTypeOK
  <2>11. Remaining \in Seq(Packets) /\ Remaining' = Append(Remaining, p)
    <3>1. SubSeq(Append(given, p), Len(received) + 1, Len(given) + 1) = Append(Remaining, p)
          /\ Remaining \in Seq(Packets)
      BY <1>3, <2>10, RemainingIs DEF Remaining
    <3>2. Remaining' = SubSeq(Append(given, p), Len(received) + 1, Len(given) + 1)
      BY <1>1, <1>3 DEF Remaining
    <3> QED BY <3>1, <3>2
  <2>12. Stream((Mid \o pipe) \o Wire(p), Append(Remaining, p))
    BY <2>3, <2>5, <2>6, <2>11, StreamGrows
  <2>13. (Mid \o pipe) \o Wire(p) = Mid \o (pipe \o Wire(p)) BY <2>4, <2>7, ConcatAssociative
  <2>14. Stream(Mid' \o (pipe' \o Wire(p)), Remaining')
    BY <1>1, <1>8, <2>11, <2>12, <2>13
  <2>15. Wire(p) # <<>> /\ Len(Wire(p)) <= Len(Wire(p)) BY <2>7
  <2>16. RestIs(Wire(p))' BY <1>4, <2>8, <2>9, <2>14, <2>15 DEF RestIs
  <2> QED BY <2>7, <2>16
<1> QED BY <1>6, <1>7, <1>8, <1>9 DEF Inv

(* What the kernel takes is the start of what is owed, and the rest of it  *)
(* is owed afterwards.                                                     *)
LEMMA KernelOwes ==
  ASSUME Inv, KernelTakes
  PROVE  /\ \E a \in Seq(Byte) : /\ pipe' = pipe \o a /\ Len(a) <= Window - Len(pipe)
                                 /\ Owed = a \o Owed'
         /\ Owed' \in Seq(Byte) /\ (given # sent' => Owed' # <<>>) /\ (given = sent' => Owed' = <<>>)
         /\ unsent' \in Seq(Byte) /\ Sending' = (unsent' # <<>>)
         /\ wpc' \in {"idle", "header", "payload"} /\ (wpc' = "idle" => given = sent')
         /\ wpc' # "idle" => given # sent' /\ given = Append(sent', Last(given))
         /\ sent' = sent \/ sent' = Append(sent, Last(given))
         /\ Last(given) \in Packets /\ ending = "no" /\ given # sent
<1>t. StreamTypeOK /\ SenderInv /\ ReaderInv /\ StreamInv /\ GetsInv BY DEF Inv
<1>1. /\ Sending /\ UNCHANGED <<given, ending>> /\ UNCHANGED receiverVars
      /\ UNCHANGED <<kind, rpc, head, body, received>>
  BY DEF KernelTakes, receiverVars
<1>2. PICK n \in 1..AtMost(Len(unsent), Window - Len(pipe)) :
        /\ pipe' = pipe \o SubSeq(unsent, 1, n)
        /\ IF n = Len(unsent)
             THEN SendDone
             ELSE unsent' = SubSeq(unsent, n + 1, Len(unsent)) /\ UNCHANGED <<wpc, sent>>
  BY DEF KernelTakes
<1> DEFINE a == SubSeq(unsent, 1, n)
           b == SubSeq(unsent, n + 1, Len(unsent))
           p == Last(given)
<1>3. /\ unsent \in Seq(Byte) /\ pipe \in Seq(Byte) /\ Len(pipe) <= Window /\ Len(pipe) \in Nat
      /\ given \in Seq(Packets) /\ sent \in Seq(Packets)
  BY <1>t DEF StreamTypeOK
<1>4. n \in 1..Len(unsent) /\ n \in 0..Len(unsent) /\ n <= Window - Len(pipe)
  <2>1. Window - Len(pipe) \in Int BY <1>3, Constants
  <2> QED BY <2>1, <1>3, Taking
<1>5. a \in Seq(Byte) /\ Len(a) = n /\ b \in Seq(Byte) /\ Len(b) = Len(unsent) - n /\ a \o b = unsent
  BY <1>3, <1>4, Chunk
<1>6. pipe' = pipe \o a BY <1>2
<1>7. wpc # "gone" /\ ending = "no" /\ given # sent BY <1>1, <1>t DEF Sending, SenderInv
<1>8. p \in Packets /\ given = Append(sent, p) /\ p.payload \in Seq(Byte)
  BY <1>7, <1>t, InSend
<1>9. Owed \in Seq(Byte) /\ Later \in Seq(Byte) /\ Owed = unsent \o Later
  BY <1>1, <1>t, OwedType
<1>10. Last(given)' = p BY <1>1
<1> HIDE DEF a, b
<1>11. ASSUME n # Len(unsent)
       PROVE  /\ unsent' \in Seq(Byte) /\ unsent' # <<>> /\ wpc' = wpc /\ sent' = sent
              /\ Owed' \in Seq(Byte) /\ Owed' # <<>> /\ Owed = a \o Owed'
  <2>1. unsent' = b /\ wpc' = wpc /\ sent' = sent BY <1>2, <1>11 DEF b
  <2>2. Later' = Later /\ Sending' BY <2>1, <1>1, <1>10 DEF Later, Sending
  <2>3. Owed' = b \o Later BY <2>1, <2>2 DEF Owed
  <2>4. Len(b) > 0 BY <1>3, <1>4, <1>5, <1>11
  <2>5. Owed' \in Seq(Byte) /\ Owed' # <<>>
    <3>1. b \o Later \in Seq(Byte) /\ Len(b \o Later) = Len(b) + Len(Later)
      BY <1>5, <1>9, ConcatProperties
    <3>2. Len(b) \in Nat /\ Len(Later) \in Nat BY <1>5, <1>9
    <3>3. Len(b \o Later) > 0 BY <3>1, <3>2, <2>4
    <3>4. b \o Later # <<>> BY <3>3
    <3> QED BY <3>1, <3>4, <2>3
  <2>6. Owed = a \o Owed'
    <3>1. a \o (b \o Later) = (a \o b) \o Later
      <4>1. a \in Seq(Byte) /\ b \in Seq(Byte) /\ Later \in Seq(Byte) BY <1>5, <1>9
      <4> QED BY <4>1, Associative, Zenon
    <3>2. Owed = (a \o b) \o Later BY <1>5, <1>9, Zenon
    <3> QED BY <3>1, <3>2, <2>3, Zenon
  <2>7. unsent' \in Seq(Byte) /\ unsent' # <<>> BY <2>1, <2>4, <1>5
  <2> QED BY <2>1, <2>2, <2>5, <2>6, <2>7
<1>12. ASSUME n = Len(unsent) PROVE SendDone /\ a = unsent
  <2>1. Len(b) = 0 BY <1>3, <1>5, <1>12
  <2>2. b = <<>> BY <2>1, <1>5, EmptySeq
  <2>3. a \o <<>> = a BY <1>5, ConcatEmptySeq
  <2> QED BY <2>2, <2>3, <1>2, <1>5, <1>12
<1>13. ASSUME n = Len(unsent), wpc = "header", p.payload # <<>>
       PROVE  /\ unsent' \in Seq(Byte) /\ unsent' # <<>> /\ wpc' = "payload" /\ sent' = sent
              /\ Owed' \in Seq(Byte) /\ Owed' # <<>> /\ Owed = a \o Owed'
  <2>1. wpc' = "payload" /\ unsent' = p.payload /\ sent' = sent BY <1>12, <1>13 DEF SendDone
  <2>2. Later' = <<>> /\ Sending' BY <2>1 DEF Later, Sending
  <2>3. Owed' = p.payload \o <<>> BY <2>1, <2>2 DEF Owed
  <2>4. Owed' = p.payload BY <2>3, <1>8, ConcatEmptySeq
  <2>5. Later = p.payload BY <1>13 DEF Later
  <2>6. Owed = a \o Owed' BY <2>4, <2>5, <1>9, <1>12, <1>13
  <2> QED BY <2>1, <2>4, <2>6, <1>8, <1>13
<1>14. ASSUME n = Len(unsent), ~(wpc = "header" /\ p.payload # <<>>)
       PROVE  /\ unsent' = <<>> /\ wpc' = "idle" /\ sent' = given /\ sent' = Append(sent, p)
              /\ Owed' = <<>> /\ Owed = a \o Owed'
  <2>1. wpc' = "idle" /\ unsent' = <<>> /\ sent' = Append(sent, p) BY <1>12, <1>14 DEF SendDone
  <2>2. Owed' = <<>> BY <2>1 DEF Owed, Sending
  <2>3. Later = <<>> BY <1>14 DEF Later
  <2>4. Owed = a \o Owed' BY <2>2, <2>3, <1>9, <1>12, <1>14
  <2> QED BY <2>1, <2>2, <2>4, <1>8
<1>15. wpc \in {"header", "payload"} BY <1>1 DEF Sending
<1>16. Len(a) <= Window - Len(pipe) BY <1>4, <1>5
<1> HIDE DEF p
<1>17. CASE n # Len(unsent)
  BY <1>11, <1>17, <1>5, <1>6, <1>7, <1>8, <1>15, <1>16 DEF Sending, p
<1>18. CASE n = Len(unsent) /\ wpc = "header" /\ p.payload # <<>>
  BY <1>13, <1>18, <1>5, <1>6, <1>7, <1>8, <1>15, <1>16 DEF Sending, p
<1>19. CASE n = Len(unsent) /\ ~(wpc = "header" /\ p.payload # <<>>)
  <2>1. Owed' \in Seq(Byte) /\ unsent' \in Seq(Byte) BY <1>14, <1>19, EmptySeq
  <2>2. Sending' = (unsent' # <<>>) BY <1>14, <1>19 DEF Sending
  <2>3. wpc' = "idle" /\ sent' = given /\ sent' = Append(sent, p) /\ Owed' = <<>> /\ Owed = a \o Owed'
    BY <1>14, <1>19
  <2> QED BY <2>1, <2>2, <2>3, <1>5, <1>6, <1>7, <1>8, <1>16 DEF p
<1> QED BY <1>17, <1>18, <1>19

LEMMA KernelTakesHolds ==
  ASSUME Inv, KernelTakes
  PROVE  Inv'
<1>t. StreamTypeOK /\ SenderInv /\ ReaderInv /\ StreamInv /\ GetsInv BY DEF Inv
<1>1. /\ UNCHANGED <<given, ending>> /\ UNCHANGED receiverVars
      /\ UNCHANGED <<kind, rpc, head, body, received>>
  BY DEF KernelTakes, receiverVars
<1>2. PICK a \in Seq(Byte) : /\ pipe' = pipe \o a /\ Len(a) <= Window - Len(pipe)
                             /\ Owed = a \o Owed'
  BY KernelOwes
<1>3. /\ Owed' \in Seq(Byte) /\ (given # sent' => Owed' # <<>>) /\ (given = sent' => Owed' = <<>>)
      /\ unsent' \in Seq(Byte) /\ Sending' = (unsent' # <<>>)
      /\ wpc' \in {"idle", "header", "payload"} /\ (wpc' = "idle" => given = sent')
      /\ wpc' # "idle" => given # sent' /\ given = Append(sent', Last(given))
      /\ sent' = sent \/ sent' = Append(sent, Last(given))
      /\ Last(given) \in Packets /\ ending = "no" /\ given # sent
  BY KernelOwes
<1>4. pipe \in Seq(Byte) /\ given \in Seq(Packets) /\ sent \in Seq(Packets) BY <1>t DEF StreamTypeOK
<1>5. StreamTypeOK'
  <2>1. sent' \in Seq(Packets)
    <3>1. Append(sent, Last(given)) \in Seq(Packets) BY <1>3, <1>4, AppendProperties
    <3> QED BY <3>1, <1>3, <1>4
  <2>2. pipe' \in Seq(Byte) /\ Len(pipe') = Len(pipe) + Len(a) BY <1>2, <1>4, ConcatProperties
  <2>3. Len(pipe) \in Nat /\ Len(a) \in Nat BY <1>4
  <2>4. Len(pipe') <= Window BY <2>2, <2>3, <1>2, Constants
  <2>5. given' \in Seq(Packets) /\ ending' \in {"no", "fin", "reset"}
        /\ kind' \in {"recv_packet", "connector"}
        /\ rpc' \in {"elsewhere", "header", "payload", "closed", "null", "returned", "thrown", "left"}
        /\ head' \in Seq(Byte) /\ Len(head') <= 2 + SizeBytes /\ body' \in Seq(Byte)
        /\ received' \in Seq(Packet)
    BY <1>1, <1>t DEF StreamTypeOK
  <2> QED BY <2>1, <2>2, <2>4, <2>5, <1>3 DEF StreamTypeOK
<1>6. SenderInv'
  <2>1. (wpc' = "gone") = (ending' # "no") BY <1>1, <1>3
  <2>2. wpc' # "failed" BY <1>3
  <2>3. given' = sent' \/ \E q \in Packets : given' = Append(sent', q) BY <1>1, <1>3
  <2>4. wpc' = "idle" => given' = sent' BY <1>1, <1>3
  <2>5. Sending' => given' # sent' BY <1>1, <1>3 DEF Sending
  <2> QED BY <2>1, <2>2, <2>3, <2>4, <2>5 DEF SenderInv
<1>7. ReaderInv' /\ GetsInv' /\ Mid' = Mid
  <2>1. given' = given BY <1>1
  <2>2. sent' = sent \/ \E q \in Packets : sent' = Append(sent, q) BY <1>3
  <2> QED BY <2>1, <2>2, <1>1, <1>t, ReaderStays
<1>8. StreamInv'
  <2> SUFFICES ASSUME Attached' PROVE \E rest \in Seq(Byte) : RestIs(rest)' BY DEF StreamInv
  <2>1. Attached BY <1>1 DEF Attached
  <2>2. PICK rest \in Seq(Byte) : RestIs(rest) BY <1>t, <2>1 DEF StreamInv
  <2>3. rest = Owed /\ Stream(Mid \o (pipe \o Owed), Remaining) /\ Len(Owed) <= Len(Wire(Last(given)))
    BY <1>3, <2>2 DEF RestIs
  <2>4. pipe' \o Owed' = pipe \o Owed
    <3>1. (pipe \o a) \o Owed' = pipe \o (a \o Owed') BY <1>3, <1>4, Associative
    <3> QED BY <3>1, <1>2
  <2>5. Remaining' = Remaining /\ Last(given)' = Last(given) BY <1>1 DEF Remaining
  <2>6. Stream(Mid' \o (pipe' \o Owed'), Remaining') BY <2>3, <2>4, <2>5, <1>7
  <2>7. Len(Owed') <= Len(Wire(Last(given)))
    <3>1. Len(Owed) = Len(a) + Len(Owed') BY <1>2, <1>3, ConcatProperties
    <3>2. Len(a) \in Nat /\ Len(Owed') \in Nat /\ Len(Wire(Last(given))) \in Nat
      BY <1>3, WireOf
    <3> QED BY <3>1, <3>2, <2>3
  <2>8. PICK o \in Seq(Byte) : o = Owed' BY <1>3
  <2>9. RestIs(o)'
    <3>1. given' = given /\ ending' = "no" BY <1>1, <1>3
    <3>2. Stream(Mid' \o (pipe' \o o), Remaining') BY <2>6, <2>8
    <3>3. given' # sent' => o # <<>> BY <3>1, <2>8, <1>3
    <3>4. IF given' = sent' THEN o = <<>> ELSE Len(o) <= Len(Wire(Last(given)'))
      BY <3>1, <2>5, <2>7, <2>8, <1>3
    <3> QED BY <3>1, <3>2, <3>3, <3>4, <2>8 DEF RestIs
  <2> QED BY <2>9
<1> QED BY <1>5, <1>6, <1>7, <1>8 DEF Inv

LEMMA SendFailsHolds ==
  ASSUME Inv, SendFails
  PROVE  Inv'
<1>t. StreamTypeOK /\ SenderInv /\ ReaderInv /\ StreamInv /\ GetsInv BY DEF Inv
<1>1. /\ Sending /\ rpc = "left" /\ wpc' = "failed" /\ unsent' = <<>>
      /\ UNCHANGED <<given, sent, pipe, ending>> /\ UNCHANGED receiverVars
      /\ UNCHANGED <<kind, rpc, head, body, received>>
  BY DEF SendFails, receiverVars
<1>2. ending = "no" BY <1>1, <1>t DEF Sending, SenderInv
<1>3. StreamTypeOK' BY <1>1, <1>t, EmptySeq DEF StreamTypeOK, Sending
<1>4. SenderInv' BY <1>1, <1>2, <1>t DEF SenderInv, Sending
<1>5. ReaderInv' /\ GetsInv'
  <2>1. given' = given /\ sent' = sent BY <1>1
  <2> QED BY <2>1, <1>1, <1>t, ReaderStays
<1>6. StreamInv' BY <1>1 DEF StreamInv, Attached
<1> QED BY <1>3, <1>4, <1>5, <1>6 DEF Inv

LEMMA SenderEndsHolds ==
  ASSUME Inv, SenderEnds
  PROVE  Inv'
<1>t. StreamTypeOK /\ SenderInv /\ ReaderInv /\ StreamInv /\ GetsInv BY DEF Inv
<1>1. /\ wpc # "gone" /\ ending = "no" /\ wpc' = "gone" /\ unsent' = <<>>
      /\ \/ ending' = "fin" /\ pipe' = pipe
         \/ ending' = "reset" /\ \E k \in 0..Len(pipe) : pipe' = SubSeq(pipe, 1, k)
      /\ UNCHANGED <<given, sent>> /\ UNCHANGED receiverVars
      /\ UNCHANGED <<kind, rpc, head, body, received>>
  BY DEF SenderEnds, receiverVars
<1>2. pipe \in Seq(Byte) /\ Len(pipe) <= Window /\ Len(pipe) \in Nat BY <1>t DEF StreamTypeOK
<1>3. pipe' \in Seq(Byte) /\ Len(pipe') <= Window
  <2>1. CASE pipe' = pipe BY <2>1, <1>2
  <2>2. ASSUME NEW k \in 0..Len(pipe), pipe' = SubSeq(pipe, 1, k)
        PROVE  pipe' \in Seq(Byte) /\ Len(pipe') <= Window
    <3>1. pipe' \in Seq(Byte) /\ Len(pipe') = k BY <2>2, <1>2, Chunk
    <3> QED BY <3>1, <1>2, Constants
  <2> QED BY <2>1, <2>2, <1>1
<1>4. StreamTypeOK'
  <2>1. Sending' = (unsent' # <<>>) BY <1>1 DEF Sending
  <2>2. ending' \in {"no", "fin", "reset"} BY <1>1
  <2>3. given' \in Seq(Packets) /\ sent' \in Seq(Packets)
        /\ kind' \in {"recv_packet", "connector"}
        /\ rpc' \in {"elsewhere", "header", "payload", "closed", "null", "returned", "thrown", "left"}
        /\ head' \in Seq(Byte) /\ Len(head') <= 2 + SizeBytes /\ body' \in Seq(Byte)
        /\ received' \in Seq(Packet)
    BY <1>1, <1>t DEF StreamTypeOK
  <2>4. unsent' \in Seq(Byte) BY <1>1, EmptySeq
  <2> QED BY <2>1, <2>2, <2>3, <2>4, <1>1, <1>3 DEF StreamTypeOK
<1>5. SenderInv'
  <2>1. given' = sent' \/ \E p \in Packets : given' = Append(sent', p)
    BY <1>1, <1>t DEF SenderInv
  <2>2. ending' # "no" BY <1>1
  <2> QED BY <2>1, <2>2, <1>1 DEF SenderInv, Sending
<1>6. ReaderInv' /\ GetsInv' /\ Mid' = Mid
  <2>1. given' = given /\ sent' = sent BY <1>1
  <2> QED BY <2>1, <1>1, <1>t, ReaderStays
<1>7. StreamInv'
  <2> SUFFICES ASSUME Attached' PROVE \E rest \in Seq(Byte) : RestIs(rest)' BY DEF StreamInv
  <2>1. Attached BY <1>1 DEF Attached
  <2>2. PICK rest \in Seq(Byte) : RestIs(rest) BY <1>t, <2>1 DEF StreamInv
  <2>3. /\ Stream(Mid \o (pipe \o rest), Remaining) /\ (given # sent => rest # <<>>)
        /\ IF given = sent THEN rest = <<>> ELSE Len(rest) <= Len(Wire(Last(given)))
    BY <1>1, <2>2 DEF RestIs
  <2>4. Remaining' = Remaining /\ Last(given)' = Last(given) BY <1>1 DEF Remaining
  <2>5. CASE ending' = "fin" /\ pipe' = pipe
    <3>1. Stream(Mid' \o (pipe' \o rest), Remaining') BY <2>3, <2>4, <2>5, <1>6
    <3>2. RestIs(rest)' BY <2>3, <2>4, <2>5, <3>1, <1>1 DEF RestIs
    <3> QED BY <3>2
  <2>6. ASSUME NEW k \in 0..Len(pipe), ending' = "reset", pipe' = SubSeq(pipe, 1, k)
        PROVE  \E r \in Seq(Byte) : RestIs(r)'
    <3> DEFINE b == SubSeq(pipe, k + 1, Len(pipe))
    <3>1. pipe' \in Seq(Byte) /\ b \in Seq(Byte) /\ pipe' \o b = pipe
      BY <2>6, <1>2, Chunk
    <3> HIDE DEF b
    <3>2. b \o rest \in Seq(Byte) /\ Len(b \o rest) = Len(b) + Len(rest)
      BY <3>1, ConcatProperties
    <3>3. pipe' \o (b \o rest) = pipe \o rest
      <4>1. (pipe' \o b) \o rest = pipe' \o (b \o rest) BY <3>1, Associative
      <4> QED BY <4>1, <3>1
    <3>4. given # sent => b \o rest # <<>>
      <4> SUFFICES ASSUME given # sent PROVE b \o rest # <<>> OBVIOUS
      <4>1. rest # <<>> BY <2>3
      <4>2. Len(rest) \in Nat /\ Len(rest) > 0 /\ Len(b) \in Nat BY <4>1, <3>1, EmptySeq
      <4>3. Len(b \o rest) > 0 BY <4>2, <3>2
      <4> QED BY <4>3
    <3>5. Stream(Mid' \o (pipe' \o (b \o rest)), Remaining') BY <3>3, <2>3, <2>4, <1>6
    <3>6. PICK r \in Seq(Byte) : r = b \o rest BY <3>2
    <3>7. RestIs(r)' BY <3>4, <3>5, <3>6, <2>6, <1>1 DEF RestIs
    <3> QED BY <3>7
  <2> QED BY <2>5, <2>6, <1>1
<1> QED BY <1>4, <1>5, <1>6, <1>7 DEF Inv

-----------------------------------------------------------------------------
(* The steps of recv_packet. *)

LEMMA ReceiverType ==
  ASSUME StreamTypeOK, UNCHANGED senderVars, UNCHANGED <<ending, kind>>,
         pipe' \in Seq(Byte), Len(pipe') <= Window,
         rpc' \in {"elsewhere", "header", "payload", "closed", "null", "returned", "thrown", "left"},
         head' \in Seq(Byte), Len(head') <= 2 + SizeBytes, body' \in Seq(Byte),
         received' \in Seq(Packet)
  PROVE  StreamTypeOK'
<1>1. UNCHANGED <<wpc, given, unsent, sent, ending, kind>> BY DEF senderVars
<1>2. Sending' = Sending BY <1>1 DEF Sending
<1> QED BY <1>1, <1>2 DEF StreamTypeOK

(* A step of a reader leaves what the sender has. *)
LEMMA SenderStays ==
  ASSUME SenderInv, UNCHANGED senderVars, ending' = ending, wpc = "failed" => rpc' = "left"
  PROVE  SenderInv'
<1>1. UNCHANGED <<wpc, given, unsent, sent, ending>> BY DEF senderVars
<1>2. Sending' = Sending BY <1>1 DEF Sending
<1>3. wpc' = "failed" => rpc' = "left" BY <1>1
<1>4. given' = sent' \/ \E p \in Packets : given' = Append(sent', p) BY <1>1 DEF SenderInv
<1> QED BY <1>1, <1>2, <1>3, <1>4 DEF SenderInv

(* The first k bytes of s are read, after m and before r. *)
CutAt(s, k, a, b, m, r) ==
  /\ s \in Seq(Byte) /\ m \in Seq(Byte) /\ r \in Seq(Byte)
  /\ k \in 0..Len(s) /\ a = SubSeq(s, 1, k) /\ b = SubSeq(s, k + 1, Len(s))

Same(x, y) == x = y

LEMMA CutAtJoins ==
  ASSUME NEW s, NEW k, NEW a, NEW b, NEW m, NEW r, CutAt(s, k, a, b, m, r)
  PROVE  /\ a \in Seq(Byte) /\ b \in Seq(Byte) /\ Len(b) = Len(s) - k /\ k \in Nat
         /\ m \o a \in Seq(Byte) /\ Len(m \o a) = Len(m) + k /\ b \o r \in Seq(Byte)
         /\ Same((m \o a) \o (b \o r), m \o (s \o r))
<1>1. /\ s \in Seq(Byte) /\ m \in Seq(Byte) /\ r \in Seq(Byte)
      /\ k \in 0..Len(s) /\ Len(s) \in Nat
  BY DEF CutAt
<1>2. a \in Seq(Byte) /\ Len(a) = k /\ b \in Seq(Byte) /\ Len(b) = Len(s) - k
  BY <1>1, Chunk DEF CutAt
<1>3. a \o b = s BY <1>1, Chunk DEF CutAt
<1>4. b \o r \in Seq(Byte) /\ m \o a \in Seq(Byte) /\ Len(m \o a) = Len(m) + k
  BY <1>1, <1>2, Joined
<1>5. (m \o a) \o (b \o r) = m \o (a \o (b \o r)) BY <1>1, <1>2, <1>4, Associative
<1>6. (a \o b) \o r = a \o (b \o r) BY <1>1, <1>2, Associative
<1>7. Same((m \o a) \o (b \o r), m \o (s \o r)) BY <1>3, <1>5, <1>6 DEF Same
<1>8. k \in Nat BY <1>1
<1> QED BY <1>2, <1>4, <1>7, <1>8

LEMMA CutAtRead ==
  ASSUME StreamTypeOK, NEW k, NEW a, NEW m, NEW r, CutAt(pipe, k, a, pipe', m, r)
  PROVE  /\ pipe' \in Seq(Byte) /\ Len(pipe') <= Window /\ a \in Seq(Byte) /\ k \in Nat
         /\ m \o a \in Seq(Byte) /\ Len(m \o a) = Len(m) + k /\ pipe' \o r \in Seq(Byte)
         /\ Same((m \o a) \o (pipe' \o r), m \o (pipe \o r))
<1>1. Len(pipe) \in Nat /\ Len(pipe) <= Window BY DEF StreamTypeOK
<1>2. PICK b : b = pipe' OBVIOUS
<1>3. CutAt(pipe, k, a, b, m, r) BY <1>2
<1>4. a \in Seq(Byte) /\ b \in Seq(Byte) /\ Len(b) = Len(pipe) - k /\ k \in Nat
  BY <1>3, CutAtJoins
<1>5. m \o a \in Seq(Byte) /\ Len(m \o a) = Len(m) + k /\ b \o r \in Seq(Byte)
      /\ Same((m \o a) \o (b \o r), m \o (pipe \o r))
  BY <1>3, CutAtJoins
<1>6. Len(b) <= Window BY <1>1, <1>4, Constants
<1> QED BY <1>2, <1>4, <1>5, <1>6

LEMMA ReadOn ==
  ASSUME Inv, Attached, UNCHANGED senderVars, UNCHANGED <<ending, kind, received>>,
         NEW rest \in Seq(Byte), RestIs(rest), Mid' \o (pipe' \o rest) = Mid \o (pipe \o rest)
  PROVE  SenderInv' /\ StreamInv' /\ GetsInv'
<1>t. StreamTypeOK /\ SenderInv /\ ReaderInv /\ StreamInv /\ GetsInv BY DEF Inv
<1>1. UNCHANGED <<wpc, given, unsent, sent, ending>> BY DEF senderVars
<1>2. wpc # "failed" BY <1>t DEF SenderInv, Attached
<1>3. SenderInv' BY <1>t, <1>2, SenderStays
<1>4. GetsInv' BY <1>t, <1>1 DEF GetsInv, ConnectorGets
<1>5. RestIs(rest)'
  <2>1. Remaining' = Remaining BY <1>1 DEF Remaining
  <2>2. Owed' = Owed BY <1>1 DEF Owed, Later, Sending
  <2>3. Last(given') = Last(given) BY <1>1
  <2>4. Stream(Mid' \o (pipe' \o rest), Remaining') BY <2>1 DEF RestIs
  <2>5. given' # sent' => rest # <<>> BY <1>1 DEF RestIs
  <2>6. ending' # "reset" => IF given' = sent' THEN rest = <<>>
                                               ELSE Len(rest) <= Len(Wire(Last(given')))
    BY <1>1, <2>3 DEF RestIs
  <2>7. ending' = "no" => rest = Owed' BY <1>1, <2>2 DEF RestIs
  <2> QED BY <2>4, <2>5, <2>6, <2>7 DEF RestIs
<1> QED BY <1>3, <1>4, <1>5 DEF StreamInv

(* The packet whose bytes were all read was sent, and is the next one.     *)
LEMMA PacketRead ==
  ASSUME Inv, kind = "recv_packet", NEW rest \in Seq(Byte), RestIs(rest),
         NEW m \in Seq(Byte), NEW t \in Seq(Byte), m # <<>>,
         Stream(m \o (t \o rest), Remaining), Len(m) = Len(Wire(Remaining[1]))
  PROVE  /\ Remaining # <<>> /\ Remaining[1] \in Packets /\ Remaining \in Seq(Packets)
         /\ Len(received) \in Nat /\ Len(received) < Len(sent)
         /\ sent[Len(received) + 1] = Remaining[1]
         /\ Tail(Remaining) = SubSeq(given, Len(received) + 2, Len(given))
         /\ t \o rest \in Seq(Byte) /\ Stream(t \o rest, Tail(Remaining))
<1>t. StreamTypeOK /\ SenderInv /\ ReaderInv /\ GetsInv BY DEF Inv
<1> DEFINE n == Len(received)
           r == Remaining[1]
<1>1. /\ given \in Seq(Packets) /\ sent \in Seq(Packets) /\ n \in Nat /\ Len(sent) \in Nat
      /\ n <= Len(sent)
  BY <1>t DEF StreamTypeOK, ReaderInv
<1>2. given = sent \/ \E p \in Packets : given = Append(sent, p) BY <1>t DEF SenderInv
<1>3. ASSUME NEW p \in Packets, given = Append(sent, p)
      PROVE  /\ Len(given) = Len(sent) + 1 /\ given[Len(given)] = p
             /\ \A i \in 1..Len(sent) : given[i] = sent[i]
  BY <1>1, <1>3, AppendProperties
<1>4. n <= Len(given) /\ Len(given) \in Nat BY <1>1, <1>2, <1>3
<1>5. /\ Remaining \in Seq(Packets) /\ Len(Remaining) = Len(given) - n
      /\ Remaining # <<>> => /\ n + 1 \in 1..Len(given) /\ Remaining[1] = given[n + 1]
                             /\ Tail(Remaining) = SubSeq(given, n + 2, Len(given))
  BY <1>1, <1>4, RemainingIs DEF Remaining
<1>6. /\ t \o rest \in Seq(Byte) /\ Len(t \o rest) = Len(t) + Len(rest)
      /\ Len(t) \in Nat /\ Len(rest) \in Nat /\ Len(m) \in Nat
  BY ConcatProperties
<1>7. /\ Remaining # <<>> /\ r \in Packets /\ Stream(t \o rest, Tail(Remaining))
  BY <1>5, <1>6, Reads
<1>8. n < Len(sent)
  <2> SUFFICES ASSUME n = Len(sent) PROVE FALSE BY <1>1
  <2>1. given # sent BY <1>1, <1>5, <1>7
  <2>2. rest # <<>> BY <2>1 DEF RestIs
  <2>3. Len(Remaining) = 1 BY <2>1, <1>1, <1>2, <1>3, <1>5
  <2>4. Remaining = <<r>> BY <2>3, <1>5, <1>7
  <2>5. m \o (t \o rest) \in Seq(Byte) /\ Len(m \o (t \o rest)) = Len(m) + Len(t \o rest)
    BY <1>6, ConcatProperties
  <2>6. Len(m \o (t \o rest)) = Len(Wire(r)) BY <2>4, <2>5, <1>7, StreamOne
  <2>7. Len(rest) > 0 BY <2>2, EmptySeq
  <2> QED BY <2>5, <2>6, <2>7, <1>6
<1>9. sent[n + 1] = r
  <2>1. n + 1 \in 1..Len(sent) BY <1>1, <1>8
  <2> QED BY <2>1, <1>2, <1>3, <1>5, <1>7
<1> QED BY <1>1, <1>5, <1>6, <1>7, <1>8, <1>9

LEMMA ReturnHolds ==
  ASSUME Inv, Attached, kind = "recv_packet", UNCHANGED senderVars, UNCHANGED <<ending, kind>>,
         NEW rest \in Seq(Byte), RestIs(rest),
         NEW m \in Seq(Byte), m # <<>>, Stream(m \o (pipe' \o rest), Remaining),
         Len(m) = Len(Wire(Remaining[1])),
         pipe' \in Seq(Byte), Len(pipe') <= Window, head' \in Seq(Byte), body' \in Seq(Byte),
         Len(head') = HeaderSize, rpc' = "elsewhere", received' = Append(received, Remaining[1])
  PROVE  Inv'
<1>t. StreamTypeOK /\ SenderInv /\ ReaderInv /\ StreamInv /\ GetsInv BY DEF Inv
<1>1. UNCHANGED <<wpc, given, unsent, sent, ending, kind>> BY DEF senderVars
<1> DEFINE n == Len(received)
           r == Remaining[1]
<1>2. PICK t \in Seq(Byte) : t = pipe' OBVIOUS
<1>3. /\ Remaining # <<>> /\ r \in Packets /\ Remaining \in Seq(Packets)
      /\ n \in Nat /\ n < Len(sent) /\ sent[n + 1] = r
      /\ Tail(Remaining) = SubSeq(given, n + 2, Len(given))
      /\ t \o rest \in Seq(Byte) /\ Stream(t \o rest, Tail(Remaining))
  <2>1. Stream(m \o (t \o rest), Remaining) BY <1>2
  <2> QED BY <2>1, PacketRead
<1> HIDE DEF r
<1>4. received' = Append(received, r) BY DEF r
<1>5. r \in Packet /\ received \in Seq(Packet) BY <1>3, <1>t, OfPackets DEF StreamTypeOK
<1>6. /\ received' \in Seq(Packet) /\ Len(received') = n + 1 /\ received' # <<>>
      /\ \A i \in 1..n : received'[i] = received[i]
      /\ received'[n + 1] = r
  <2>1. /\ Append(received, r) \in Seq(Packet) /\ Len(Append(received, r)) = n + 1
        /\ Append(received, r) # <<>> /\ Append(received, r)[n + 1] = r
        /\ \A i \in 1..n : Append(received, r)[i] = received[i]
    BY <1>5, OneMore DEF n
  <2> QED BY <2>1, <1>4
<1> HIDE DEF n
<1>7. StreamTypeOK' BY <1>6, <1>t, Constants, ReceiverType
<1>8. SenderInv'
  <2>1. wpc # "failed" BY <1>t DEF SenderInv, Attached
  <2> QED BY <2>1, <1>t, SenderStays
<1>9. ReaderInv'
  <2>1. Len(received') <= Len(sent') BY <1>1, <1>3, <1>6, <1>t DEF StreamTypeOK
  <2>2. ASSUME NEW i \in 1..Len(received') PROVE received'[i] = sent'[i]
    <3>1. CASE i = n + 1 BY <3>1, <1>1, <1>3, <1>6
    <3>2. CASE i # n + 1
      <4>1. i \in 1..n BY <3>2, <1>3, <1>6
      <4>2. received[i] = sent[i] BY <4>1, <1>t DEF ReaderInv, n
      <4> QED BY <4>1, <4>2, <1>1, <1>6
    <3> QED BY <3>1, <3>2
  <2> QED BY <2>1, <2>2, <1>1 DEF ReaderInv
<1>10. StreamInv'
  <2>1. Remaining' = Tail(Remaining)
    <3>1. Remaining' = SubSeq(given, (n + 1) + 1, Len(given)) BY <1>1, <1>6 DEF Remaining
    <3>2. (n + 1) + 1 = n + 2 BY <1>3
    <3> QED BY <3>1, <3>2, <1>3
  <2>2. Mid' = <<>> BY DEF Mid
  <2>3. Mid' \o (pipe' \o rest) = t \o rest BY <2>2, <1>2, <1>3, ConcatEmptySeq
  <2>4. Stream(Mid' \o (pipe' \o rest), Remaining') BY <2>1, <2>3, <1>3
  <2>5. Owed' = Owed BY <1>1 DEF Owed, Later, Sending
  <2>6. Last(given') = Last(given) BY <1>1
  <2>7. given' # sent' => rest # <<>> BY <1>1 DEF RestIs
  <2>8. ending' # "reset" => IF given' = sent' THEN rest = <<>>
                                               ELSE Len(rest) <= Len(Wire(Last(given')))
    BY <1>1, <2>6 DEF RestIs
  <2>9. ending' = "no" => rest = Owed' BY <1>1, <2>5 DEF RestIs
  <2>10. RestIs(rest)' BY <2>4, <2>7, <2>8, <2>9 DEF RestIs
  <2> QED BY <2>10 DEF StreamInv
<1>11. GetsInv' BY <1>1 DEF GetsInv, ConnectorGets
<1> QED BY <1>7, <1>8, <1>9, <1>10, <1>11 DEF Inv

LEMMA WireLonger ==
  ASSUME NEW p \in Packets
  PROVE  HeaderSize <= Len(Wire(p)) /\ \A i \in 1..HeaderSize : i <= Len(Wire(p))
<1>1. Len(Wire(p)) = HeaderSize + Len(p.payload) BY WireOf
<1>2. Len(p.payload) \in Nat BY OfPackets
<1>3. HeaderSize \in Nat BY Constants
<1> DEFINE n == Len(p.payload)
           w == Len(Wire(p))
<1> HIDE DEF n, w
<1>4. w = HeaderSize + n /\ n \in Nat BY <1>1, <1>2 DEF n, w
<1>5. HeaderSize <= w /\ \A i \in 1..HeaderSize : i <= w BY <1>3, <1>4
<1> QED BY <1>5 DEF w

LEMMA RemainingType ==
  ASSUME StreamTypeOK, SenderInv, ReaderInv, kind = "recv_packet"
  PROVE  Remaining \in Seq(Packets)
<1>1. given \in Seq(Packets) /\ sent \in Seq(Packets) /\ Len(received) \in Nat
      /\ Len(received) <= Len(sent)
  BY DEF StreamTypeOK, ReaderInv
<1>2. Len(sent) <= Len(given)
  <2>1. ASSUME NEW q \in Packets, given = Append(sent, q) PROVE Len(sent) <= Len(given)
    <3>1. Len(given) = Len(sent) + 1 BY <1>1, <2>1, AppendProperties
    <3> QED BY <3>1, <1>1
  <2> QED BY <2>1, <1>1 DEF SenderInv
<1>3. Len(received) <= Len(given) BY <1>1, <1>2
<1> QED BY <1>1, <1>3, RemainingIs DEF Remaining

LEMMA RecvHeaderHolds ==
  ASSUME Inv, RecvHeader
  PROVE  Inv'
<1>t. StreamTypeOK /\ SenderInv /\ ReaderInv /\ StreamInv /\ GetsInv BY DEF Inv
<1>1. /\ kind = "recv_packet" /\ rpc = "header" /\ body' = <<>> /\ UNCHANGED senderVars
      /\ UNCHANGED <<ending, kind>> /\ UNCHANGED <<wpc, given, unsent, sent, ending, kind>>
  BY DEF RecvHeader, senderVars
<1> DEFINE got == IF Len(head) = HeaderSize THEN <<>> ELSE head
<1>2. PICK k \in 1..AtMost(Len(pipe), HeaderSize - Len(got)) :
        /\ pipe' = SubSeq(pipe, k + 1, Len(pipe))
        /\ head' = got \o SubSeq(pipe, 1, k)
  BY DEF RecvHeader
<1>3. got = Mid /\ Mid \in Seq(Byte) /\ Len(Mid) \in Nat BY <1>1, <1>t, MidType DEF Mid
<1>4. Attached BY <1>1 DEF Attached
<1>5. PICK rest \in Seq(Byte) : RestIs(rest) BY <1>4, <1>t DEF StreamInv
<1> HIDE DEF got
<1>6. k \in 1..Len(pipe) /\ k \in 0..Len(pipe) /\ k <= HeaderSize - Len(Mid)
  <2>1. HeaderSize - Len(Mid) \in Int /\ pipe \in Seq(Byte) BY <1>3, <1>t, Constants DEF StreamTypeOK
  <2> QED BY <2>1, <1>2, <1>3, Taking
<1>7. /\ pipe' \in Seq(Byte) /\ Len(pipe') <= Window
      /\ head' \in Seq(Byte) /\ Len(head') = Len(Mid) + k /\ k \in Nat
      /\ pipe' \o rest \in Seq(Byte)
      /\ head' \o (pipe' \o rest) = Mid \o (pipe \o rest)
  <2>1. PICK a : a = SubSeq(pipe, 1, k) OBVIOUS
  <2>2. CutAt(pipe, k, a, pipe', Mid, rest)
    BY <2>1, <1>2, <1>3, <1>6, <1>t DEF CutAt, StreamTypeOK
  <2>3. /\ pipe' \in Seq(Byte) /\ Len(pipe') <= Window /\ k \in Nat
        /\ Mid \o a \in Seq(Byte) /\ Len(Mid \o a) = Len(Mid) + k /\ pipe' \o rest \in Seq(Byte)
        /\ Same((Mid \o a) \o (pipe' \o rest), Mid \o (pipe \o rest))
    BY <2>2, <1>t, CutAtRead, Zenon
  <2>4. head' = Mid \o a BY <2>1, <1>2, <1>3
  <2> QED BY <2>3, <2>4 DEF Same
<1>8. Len(head') <= HeaderSize /\ Len(head') > 0 /\ head' # <<>> /\ Len(head') \in Nat
  BY <1>3, <1>6, <1>7, Constants
<1>9. Stream(head' \o (pipe' \o rest), Remaining) BY <1>5, <1>7 DEF RestIs
<1>10. <<>> \in Seq(Byte) /\ Len(<<>>) = 0 BY EmptySeq
<1>11. CASE Len(head') < HeaderSize
  <2>1. rpc' = "header" /\ received' = received BY <1>11 DEF RecvHeader
  <2>2. StreamTypeOK' BY <2>1, <1>1, <1>7, <1>8, <1>10, <1>t, Constants, ReceiverType DEF StreamTypeOK
  <2>3. Mid' = head' BY <2>1, <1>8, <1>11 DEF Mid
  <2>4. SenderInv' /\ StreamInv' /\ GetsInv'
    <3>1. Mid' \o (pipe' \o rest) = Mid \o (pipe \o rest) BY <2>3, <1>7
    <3> QED BY <3>1, <2>1, <1>1, <1>4, <1>5, ReadOn
  <2>5. ReaderInv' BY <2>1, <1>1, <1>t DEF ReaderInv
  <2> QED BY <2>2, <2>4, <2>5 DEF Inv
<1>12. ASSUME Len(head') = HeaderSize
       PROVE  LET p == Remaining[1]
              IN /\ Remaining \in Seq(Packets) /\ Remaining # <<>> /\ p \in Packets /\ head' = Header(p)
                 /\ PayloadSize(head') = Len(p.payload)
  <2> DEFINE p == Remaining[1]
  <2>1. PICK m, t \in Seq(Byte) : m = head' /\ t = pipe' \o rest BY <1>7
  <2>2. Remaining \in Seq(Packets) BY <1>1, <1>t, RemainingType
  <2>3. /\ Remaining # <<>> /\ p \in Packets
        /\ \A j \in 1..Len(m) : j <= Len(Wire(p)) => m[j] = Wire(p)[j]
    <3>1. m # <<>> /\ Stream(m \o t, Remaining) BY <2>1, <1>8, <1>9
    <3> QED BY <3>1, <2>2, Reads
  <2> HIDE DEF p
  <2>4. Header(p) \in Seq(Byte) /\ Len(Header(p)) = HeaderSize BY <2>3, HeaderOf
  <2>5. \A i \in 1..HeaderSize : Wire(p)[i] = Header(p)[i] /\ i <= Len(Wire(p))
    <3>1. Len(Wire(p)) = HeaderSize + Len(p.payload) /\ Len(p.payload) \in Nat
          /\ \A i \in 1..HeaderSize : Wire(p)[i] = Header(p)[i]
      BY <2>3, WireOf, OfPackets
    <3>2. \A i \in 1..HeaderSize : i <= Len(Wire(p)) BY <2>3, WireLonger
    <3> QED BY <3>1, <3>2
  <2>6. m = Header(p)
    <3>1. Len(m) = HeaderSize BY <2>1, <1>12
    <3>2. \A i \in 1..Len(m) : m[i] = Header(p)[i] BY <3>1, <2>3, <2>5
    <3> QED BY <3>1, <3>2, <2>4, SeqEqual
  <2>7. PayloadSize(Header(p)) = Len(p.payload) BY <2>3, SizeRead
  <2> QED BY <2>1, <2>2, <2>3, <2>6, <2>7 DEF p
<1>13. CASE Len(head') = HeaderSize /\ PayloadSize(head') # 0
  <2>1. rpc' = "payload" /\ received' = received BY <1>13 DEF RecvHeader
  <2>2. StreamTypeOK' BY <2>1, <1>1, <1>7, <1>8, <1>10, <1>t, Constants, ReceiverType DEF StreamTypeOK
  <2>3. Mid' = head'
    <3>1. Mid' = head' \o <<>> BY <2>1, <1>1 DEF Mid
    <3> QED BY <3>1, <1>7, ConcatEmptySeq
  <2>4. SenderInv' /\ StreamInv' /\ GetsInv'
    <3>1. Mid' \o (pipe' \o rest) = Mid \o (pipe \o rest) BY <2>3, <1>7
    <3> QED BY <3>1, <2>1, <1>1, <1>4, <1>5, ReadOn
  <2>5. ReaderInv'
    <3>1. PayloadSize(head') \in Nat /\ Len(body') < PayloadSize(head')
      <4>1. PayloadSize(head') \in Nat BY <1>12, <1>13, OfPackets
      <4> QED BY <4>1, <1>1, <1>10, <1>13
    <3>2. PayloadSize(head)' = PayloadSize(head') BY DEF PayloadSize
    <3> QED BY <3>1, <3>2, <2>1, <1>1, <1>13, <1>t DEF ReaderInv
  <2> QED BY <2>2, <2>4, <2>5 DEF Inv
<1>14. CASE Len(head') = HeaderSize /\ PayloadSize(head') = 0
  <2> DEFINE p == Remaining[1]
  <2>1. /\ received' = Append(received, [type |-> head'[1], status |-> head'[2], payload |-> <<>>])
        /\ rpc' = "elsewhere"
    <3>1. ~(Len(head') < HeaderSize \/ PayloadSize(head') # 0)
      <4>1. ~(Len(head') < HeaderSize) BY <1>14, Constants
      <4> QED BY <4>1, <1>14, Zenon
    <3> DEFINE partly == Len(head') < HeaderSize \/ PayloadSize(head') # 0
               early == rpc' = (IF Len(head') < HeaderSize THEN "header" ELSE "payload")
                        /\ UNCHANGED received
    <3>2. IF partly THEN early ELSE Return(<<>>) BY DEF RecvHeader
    <3>3. ~partly BY <3>1
    <3> HIDE DEF partly, early
    <3>4. Return(<<>>) BY <3>2, <3>3
    <3> QED BY <3>4 DEF Return
  <2>2. p \in Packets /\ head' = Header(p) /\ Len(p.payload) = 0 /\ p.payload \in Seq(Byte)
    BY <1>12, <1>14, OfPackets
  <2> HIDE DEF p
  <2>3. p.payload = <<>> /\ head'[1] = p.type /\ head'[2] = p.status BY <2>2, HeaderOf, EmptySeq
  <2>4. p = [type |-> head'[1], status |-> head'[2], payload |-> <<>>]
    BY <2>2, <2>3, OfPackets DEF Packet
  <2>5. received' = Append(received, Remaining[1]) BY <2>1, <2>4 DEF p
  <2>6. Len(Wire(Remaining[1])) = Len(head')
    <3>1. Len(Wire(p)) = HeaderSize + Len(p.payload) BY <2>2, WireOf
    <3> QED BY <3>1, <2>2, <1>14, Constants DEF p
  <2>7. PICK m \in Seq(Byte) : m = head' BY <1>7
  <2>8. m # <<>> /\ Stream(m \o (pipe' \o rest), Remaining) /\ Len(m) = Len(Wire(Remaining[1]))
    BY <2>6, <2>7, <1>8, <1>9
  <2> QED BY <2>1, <2>5, <2>8, <1>1, <1>4, <1>5, <1>7, <1>10, <1>14, ReturnHolds
<1> QED BY <1>8, <1>11, <1>13, <1>14, Constants

LEMMA RecvPayloadHolds ==
  ASSUME Inv, RecvPayload
  PROVE  Inv'
<1>t. StreamTypeOK /\ SenderInv /\ ReaderInv /\ StreamInv /\ GetsInv BY DEF Inv
<1>1. /\ kind = "recv_packet" /\ rpc = "payload" /\ head' = head /\ UNCHANGED senderVars
      /\ UNCHANGED <<ending, kind>> /\ UNCHANGED <<wpc, given, unsent, sent, ending, kind>>
  BY DEF RecvPayload, senderVars
<1>2. PICK k \in 1..AtMost(Len(pipe), PayloadSize(head) - Len(body)) :
        /\ pipe' = SubSeq(pipe, k + 1, Len(pipe))
        /\ body' = body \o SubSeq(pipe, 1, k)
  BY DEF RecvPayload
<1>3. /\ Mid = head \o body /\ Mid \in Seq(Byte) /\ Len(Mid) \in Nat
      /\ head \in Seq(Byte) /\ body \in Seq(Byte) /\ pipe \in Seq(Byte)
      /\ Len(head) = HeaderSize /\ PayloadSize(head) \in Nat /\ Len(body) \in Nat
  BY <1>1, <1>t, MidType DEF Mid, StreamTypeOK, ReaderInv, Attached
<1>4. Attached BY <1>1 DEF Attached
<1>5. PICK rest \in Seq(Byte) : RestIs(rest) BY <1>4, <1>t DEF StreamInv
<1>6. k \in 1..Len(pipe) /\ k \in 0..Len(pipe) /\ k <= PayloadSize(head) - Len(body)
  <2>1. PayloadSize(head) - Len(body) \in Int BY <1>3
  <2> QED BY <2>1, <1>2, <1>3, Taking
<1>a. PICK a : a = SubSeq(pipe, 1, k) OBVIOUS
<1>b. body' = body \o a BY <1>a, <1>2
<1>7. /\ pipe' \in Seq(Byte) /\ Len(pipe') <= Window /\ a \in Seq(Byte)
      /\ body' \in Seq(Byte) /\ Len(body') = Len(body) + k /\ k \in Nat
      /\ pipe' \o rest \in Seq(Byte)
  <2>1. CutAt(pipe, k, a, pipe', body, rest) BY <1>a, <1>2, <1>3, <1>6 DEF CutAt
  <2>2. /\ pipe' \in Seq(Byte) /\ Len(pipe') <= Window /\ a \in Seq(Byte) /\ k \in Nat
        /\ body \o a \in Seq(Byte) /\ Len(body \o a) = Len(body) + k /\ pipe' \o rest \in Seq(Byte)
    BY <2>1, <1>t, CutAtRead, Zenon
  <2> QED BY <2>2, <1>b
<1>8. head \o body' \in Seq(Byte) /\ Len(head \o body') = HeaderSize + Len(body')
      /\ (head \o body') \o (pipe' \o rest) = Mid \o (pipe \o rest)
  <2>1. CutAt(pipe, k, a, pipe', Mid, rest) BY <1>a, <1>2, <1>3, <1>6 DEF CutAt
  <2>2. /\ Mid \o a \in Seq(Byte)
        /\ Same((Mid \o a) \o (pipe' \o rest), Mid \o (pipe \o rest))
    BY <2>1, <1>t, CutAtRead, Zenon
  <2>3. (head \o body) \o a = head \o (body \o a)
    <3>1. head \in Seq(Byte) /\ body \in Seq(Byte) /\ a \in Seq(Byte) BY <1>3, <1>7
    <3> QED BY <3>1, Associative
  <2>4. head \o body' = Mid \o a BY <2>3, <1>3, <1>b
  <2>5. Len(head \o body') = Len(head) + Len(body')
    <3>1. head \in Seq(Byte) /\ body' \in Seq(Byte) BY <1>3, <1>7
    <3> QED BY <3>1, Joined
  <2> QED BY <2>2, <2>4, <2>5, <1>3 DEF Same
<1>9. PICK m, t \in Seq(Byte) : m = head \o body' /\ t = pipe' \o rest BY <1>7, <1>8
<1>10. Stream(m \o t, Remaining) /\ m # <<>> /\ Len(m) = HeaderSize + Len(body') /\ Len(body') \in Nat
  <2>1. Len(body') \in Nat BY <1>3, <1>7
  <2>2. Len(m) > 0 BY <2>1, <1>8, <1>9, Constants
  <2>3. m # <<>> BY <2>2
  <2> QED BY <2>1, <2>3, <1>5, <1>8, <1>9 DEF RestIs
<1> DEFINE p == Remaining[1]
<1>11. /\ Remaining \in Seq(Packets) /\ Remaining # <<>> /\ p \in Packets
       /\ \A j \in 1..Len(m) : j <= Len(Wire(p)) => m[j] = Wire(p)[j]
  <2>1. Remaining \in Seq(Packets) BY <1>1, <1>t, RemainingType
  <2> QED BY <2>1, <1>10, Reads
<1> HIDE DEF p
<1>12. \A j \in 1..(HeaderSize + Len(body')) :
         m[j] = IF j <= HeaderSize THEN head[j] ELSE body'[j - HeaderSize]
  <2>1. PICK c \in Seq(Byte) : c = body' BY <1>7
  <2>2. \A j \in 1..(Len(head) + Len(c)) :
          (head \o c)[j] = IF j <= Len(head) THEN head[j] ELSE c[j - Len(head)]
    BY <1>3, ConcatProperties
  <2> QED BY <2>1, <2>2, <1>3, <1>9
<1>13. /\ Wire(p) \in Seq(Byte) /\ Len(Wire(p)) = HeaderSize + Len(p.payload)
       /\ Len(p.payload) \in Nat /\ p.payload \in Seq(Byte)
       /\ (\A i \in 1..HeaderSize : Wire(p)[i] = Header(p)[i])
       /\ \A i \in 1..Len(p.payload) : Wire(p)[HeaderSize + i] = p.payload[i]
  BY <1>11, WireOf, OfPackets
<1>14. head = Header(p)
  <2>1. Header(p) \in Seq(Byte) /\ Len(Header(p)) = HeaderSize BY <1>11, HeaderOf
  <2>2. ASSUME NEW i \in 1..HeaderSize PROVE head[i] = Header(p)[i]
    <3>1. i \in 1..(HeaderSize + Len(body')) /\ i \in 1..Len(m) /\ i <= HeaderSize
      BY <1>10, Constants
    <3>2. i <= Len(Wire(p)) BY <1>11, WireLonger
    <3>3. m[i] = head[i] BY <3>1, <1>12
    <3>4. m[i] = Wire(p)[i] BY <3>1, <3>2, <1>11
    <3> QED BY <3>3, <3>4, <1>13
  <2> QED BY <2>1, <2>2, <1>3, SeqEqual
<1>15. PayloadSize(head) = Len(p.payload) BY <1>11, <1>14, SizeRead
<1>16. Len(body') <= PayloadSize(head) BY <1>3, <1>6, <1>7
<1>17. CASE Len(body') < PayloadSize(head)
  <2>1. rpc' = "payload" /\ received' = received BY <1>17, <1>1 DEF RecvPayload
  <2>2. StreamTypeOK' BY <2>1, <1>1, <1>3, <1>7, <1>t, ReceiverType DEF StreamTypeOK
  <2>3. Mid' = head \o body' BY <2>1, <1>1 DEF Mid
  <2>4. SenderInv' /\ StreamInv' /\ GetsInv'
    <3>1. Mid' \o (pipe' \o rest) = Mid \o (pipe \o rest) BY <2>3, <1>8
    <3> QED BY <3>1, <2>1, <1>1, <1>4, <1>5, ReadOn
  <2>5. ReaderInv'
    <3>1. PayloadSize(head)' = PayloadSize(head) BY <1>1 DEF PayloadSize
    <3> QED BY <3>1, <2>1, <1>1, <1>3, <1>17, <1>t DEF ReaderInv
  <2> QED BY <2>2, <2>4, <2>5 DEF Inv
<1>18. CASE Len(body') = PayloadSize(head)
  <2>1. /\ received' = Append(received, [type |-> head[1], status |-> head[2], payload |-> body'])
        /\ rpc' = "elsewhere"
    <3>1. ~(Len(body') < PayloadSize(head)) BY <1>18, <1>3
    <3>2. Return(body') BY <3>1 DEF RecvPayload
    <3> QED BY <3>2, <1>1 DEF Return
  <2>2. body' = p.payload
    <3>1. PICK c \in Seq(Byte) : c = body' BY <1>7
    <3>2. ASSUME NEW i \in 1..Len(c) PROVE c[i] = p.payload[i]
      <4>1. /\ HeaderSize + i \in 1..(HeaderSize + Len(body')) /\ HeaderSize + i \in 1..Len(m)
            /\ HeaderSize + i <= Len(Wire(p)) /\ ~(HeaderSize + i <= HeaderSize)
            /\ (HeaderSize + i) - HeaderSize = i /\ i \in 1..Len(p.payload)
        BY <3>1, <1>10, <1>13, <1>15, <1>18, Constants
      <4>2. m[HeaderSize + i] = c[i] BY <4>1, <3>1, <1>12
      <4>3. m[HeaderSize + i] = Wire(p)[HeaderSize + i] BY <4>1, <1>11
      <4> QED BY <4>1, <4>2, <4>3, <1>13
    <3>3. Len(c) = Len(p.payload) BY <3>1, <1>15, <1>18
    <3> QED BY <3>1, <3>2, <3>3, <1>13, SeqEqual
  <2>3. head[1] = p.type /\ head[2] = p.status BY <1>11, <1>14, HeaderOf
  <2>4. p = [type |-> head[1], status |-> head[2], payload |-> body']
    BY <2>2, <2>3, <1>11, OfPackets DEF Packet
  <2>5. received' = Append(received, Remaining[1]) BY <2>1, <2>4 DEF p
  <2>6. Len(m) = Len(Wire(Remaining[1])) BY <1>10, <1>13, <1>15, <1>18 DEF p
  <2>7. Stream(m \o (pipe' \o rest), Remaining) BY <1>9, <1>10
  <2>8. head' \in Seq(Byte) /\ Len(head') = HeaderSize BY <1>1, <1>3
  <2> QED BY <2>1, <2>5, <2>6, <2>7, <2>8, <1>1, <1>4, <1>5, <1>7, <1>10, ReturnHolds
<1>19. Len(body') < PayloadSize(head) \/ Len(body') = PayloadSize(head) BY <1>3, <1>10, <1>16
<1> QED BY <1>17, <1>18, <1>19

(* Steps after which nobody reads. *)
LEMMA NoMoreReads ==
  ASSUME Inv, UNCHANGED senderVars, UNCHANGED <<pipe, ending, kind, head, body, received>>,
         rpc' \in {"closed", "null", "thrown", "left"}, Attached \/ rpc' = "left"
  PROVE  Inv'
<1>t. StreamTypeOK /\ SenderInv /\ ReaderInv /\ StreamInv /\ GetsInv BY DEF Inv
<1>1. UNCHANGED <<wpc, given, unsent, sent, pipe, ending, kind, head, body, received>>
  BY DEF senderVars
<1>2. ~Attached' BY DEF Attached
<1>3. StreamTypeOK' BY <1>1, <1>t, ReceiverType DEF StreamTypeOK
<1>4. SenderInv'
  <2>1. wpc = "failed" => rpc' = "left" BY <1>t DEF SenderInv, Attached
  <2> QED BY <2>1, <1>1, <1>t, SenderStays
<1>5. ReaderInv' BY <1>1, <1>2, <1>t DEF ReaderInv, Attached
<1>6. StreamInv' BY <1>2 DEF StreamInv
<1>7. GetsInv' BY <1>1, <1>t DEF GetsInv, ConnectorGets
<1> QED BY <1>3, <1>4, <1>5, <1>6, <1>7 DEF Inv

LEMMA FailsHold ==
  ASSUME Inv, RecvFails \/ ConnectorFails \/ ReceiverLeaves
  PROVE  Inv'
<1>1. CASE RecvFails BY <1>1, NoMoreReads DEF RecvFails, Reading, Attached
<1>2. CASE ConnectorFails BY <1>2, NoMoreReads DEF ConnectorFails, Reading, Attached
<1>3. CASE ReceiverLeaves BY <1>3, NoMoreReads DEF ReceiverLeaves
<1> QED BY <1>1, <1>2, <1>3

-----------------------------------------------------------------------------
(* The steps of the Java connector. *)

LEMMA LowestByte ==
  ASSUME NEW n \in Nat
  PROVE  n % Base \in Nat /\ n % Base <= n
<1>1. Base \in Nat \ {0} BY Constants
<1> DEFINE l == n % Base
           d == n \div Base
<1>2. l \in Nat /\ d \in Nat /\ n = (Base * d) + l BY <1>1, Dividing
<1> HIDE DEF l, d
<1>3. Base * d \in Nat BY <1>1, <1>2
<1> DEFINE q == Base * d
<1> HIDE DEF q
<1>4. q \in Nat /\ n = q + l BY <1>2, <1>3 DEF q
<1>5. l <= n BY <1>2, <1>4
<1> QED BY <1>2, <1>5 DEF l

(* What it takes for a text: the bytes after the third.                    *)
LEMMA ConnectorText ==
  ASSUME NEW p \in Packets, NEW b \in Seq(Byte), Len(b) = Len(p.payload) % Base,
         \A j \in 1..Len(b) : b[j] = Wire(p)[3 + j]
  PROVE  /\ b = SubSeq(Tail(SizeField(Len(p.payload))) \o p.payload, 1, Len(p.payload) % Base)
         /\ Len(p.payload) > 0 /\ p.payload[1] # 0 => b # p.payload
<1> DEFINE n == Len(p.payload)
           f == SizeField(n)
           u == Tail(f)
           l == n % Base
<1>1. n \in Nat /\ p.payload \in Seq(Byte) BY OfPackets
<1>2. l \in Nat /\ l <= n
  <2> HIDE DEF n
  <2> QED BY <1>1, LowestByte
<1>3. f \in Seq(Byte) /\ Len(f) = SizeBytes /\ f # <<>>
  <2>1. f \in Seq(Byte) /\ Len(f) = SizeBytes BY <1>1, Fields
  <2> HIDE DEF f
  <2> QED BY <2>1, Constants
<1>4. /\ \A i \in 1..HeaderSize : Wire(p)[i] = Header(p)[i]
      /\ \A i \in 1..n : Wire(p)[HeaderSize + i] = p.payload[i]
  BY WireOf
<1>5. \A i \in 1..SizeBytes : Header(p)[i + 2] = f[i] BY HeaderOf
<1> HIDE DEF f
<1>6. u \in Seq(Byte) /\ Len(u) = SizeBytes - 1 /\ \A i \in 1..Len(u) : u[i] = f[i + 1]
  BY <1>3, HeadTailProperties
<1> HIDE DEF u
<1>7. /\ u \o p.payload \in Seq(Byte) /\ Len(u \o p.payload) = Len(u) + n
      /\ \A i \in 1..(Len(u) + n) :
           (u \o p.payload)[i] = IF i <= Len(u) THEN u[i] ELSE p.payload[i - Len(u)]
  BY <1>1, <1>6, ConcatProperties
<1> DEFINE c == u \o p.payload
<1> HIDE DEF n, l, c
<1>8. l <= Len(u) + n BY <1>1, <1>2, <1>6, Constants
<1>9. \A j \in 1..l : c[j] = Wire(p)[3 + j]
  <2> SUFFICES ASSUME NEW j \in 1..l PROVE c[j] = Wire(p)[3 + j] OBVIOUS
  <2>1. j \in 1..(Len(u) + n) BY <1>2, <1>8, <1>1, <1>6, Constants
  <2>2. CASE j <= Len(u)
    <3>1. j + 1 \in 1..SizeBytes /\ j \in 1..Len(u) /\ (j + 1) + 2 = 3 + j /\ 3 + j \in 1..HeaderSize
      BY <2>2, <1>2, <1>6, Constants
    <3>2. c[j] = u[j] BY <2>1, <2>2, <1>7 DEF c
    <3>3. u[j] = f[j + 1] BY <3>1, <1>6
    <3>4. Header(p)[(j + 1) + 2] = f[j + 1] BY <3>1, <1>5
    <3>5. Wire(p)[3 + j] = Header(p)[3 + j] BY <3>1, <1>4
    <3> QED BY <3>1, <3>2, <3>3, <3>4, <3>5
  <2>3. CASE ~(j <= Len(u))
    <3>1. j - Len(u) \in 1..n /\ HeaderSize + (j - Len(u)) = 3 + j
      BY <2>1, <2>3, <1>1, <1>2, <1>6, Constants
    <3>2. c[j] = p.payload[j - Len(u)] BY <2>1, <2>3, <1>7 DEF c
    <3>3. Wire(p)[HeaderSize + (j - Len(u))] = p.payload[j - Len(u)] BY <3>1, <1>4
    <3> QED BY <3>1, <3>2, <3>3
  <2> QED BY <2>2, <2>3
<1>10. c \in Seq(Byte) /\ Len(c) = Len(u) + n BY <1>7 DEF c
<1>11. l \in 0..Len(c) BY <1>2, <1>8, <1>10
<1>12. b = SubSeq(c, 1, l)
  <2>1. SubSeq(c, 1, l) \in Seq(Byte) /\ Len(SubSeq(c, 1, l)) = l BY <1>10, <1>11, Chunk
  <2>2. \A i \in 1..l : SubSeq(c, 1, l)[i] = c[i]
    <3>1. 1 \in Int /\ l \in Int /\ \A i \in 1..l : c[i] \in Byte
      BY <1>2, <1>10, <1>11, ElementOfSeq
    <3>2. \A i \in 1..(l - 1 + 1) : SubSeq(c, 1, l)[i] = c[1 + i - 1] BY <3>1, SubSeqProperties
    <3>3. l - 1 + 1 = l /\ \A i \in 1..l : 1 + i - 1 = i BY <1>2
    <3> QED BY <3>2, <3>3
  <2>3. Len(b) = l BY DEF l, n
  <2>4. \A i \in 1..l : b[i] = SubSeq(c, 1, l)[i] BY <2>2, <2>3, <1>9
  <2> QED BY <2>1, <2>3, <2>4, SeqEqual
<1>13. ASSUME n > 0, p.payload[1] # 0, b = p.payload PROVE FALSE
  <2>1. l = n /\ Len(b) = l BY <1>13 DEF l, n
  <2>2. n < Base BY <2>1, <1>1, Dividing, Constants DEF l
  <2>3. f[2] = (n \div Power[1]) % Base
    <3>1. 2 \in 1..SizeBytes /\ 2 - 1 = 1 BY Constants
    <3> QED BY <3>1, <1>1, Fields DEF f
  <2>4. Power[1] = Base
    <3>1. 1 \in Nat \ {0} /\ 1 - 1 = 0 OBVIOUS
    <3>2. Power[1] = Base * Power[0] /\ Power[0] = 1 BY <3>1, PowerDef
    <3> QED BY <3>2, Constants
  <2>5. n \div Base = 0 /\ 0 % Base = 0 BY <2>2, <1>1, Constants
  <2>6. f[2] = 0 BY <2>3, <2>4, <2>5
  <2>7. b[1] = Wire(p)[3 + 1] /\ Wire(p)[3 + 1] = Header(p)[2 + 2]
    <3>1. 1 \in 1..Len(b) BY <2>1, <1>1, <1>13
    <3>2. 3 + 1 \in 1..HeaderSize /\ 3 + 1 = 2 + 2 BY Constants
    <3> QED BY <3>1, <3>2, <1>4
  <2>8. Header(p)[2 + 2] = f[2]
    <3>1. 2 \in 1..SizeBytes BY Constants
    <3> QED BY <3>1, <1>5
  <2> QED BY <2>6, <2>7, <2>8, <1>13
<1>14. n > 0 /\ p.payload[1] # 0 => b # p.payload BY <1>13
<1> QED BY <1>12, <1>14 DEF c, l, u, f, n

LEMMA FirstByte ==
  ASSUME NEW s \in Seq(Byte), s # <<>>, NEW h \in Seq(Byte)
  PROVE  /\ 1 \in 0..Len(s) /\ Tail(s) = SubSeq(s, 1 + 1, Len(s))
         /\ Append(h, s[1]) = h \o SubSeq(s, 1, 1)
<1>1. Len(s) \in Nat /\ Len(s) > 0 BY EmptySeq
<1>2. 1 \in 0..Len(s) /\ 1 \in 1..Len(s) /\ Len(s) \in 1..Len(s) /\ 1 \in 1..1 BY <1>1
<1>3. s[1] \in Byte BY <1>2, ElementOfSeq
<1>4. SubSeq(s, 1, Len(s)) = s BY SubSeqFull
<1>5. Tail(SubSeq(s, 1, Len(s))) = SubSeq(s, 1 + 1, Len(s)) BY <1>2, HeadTailOfSubSeq
<1>6. SubSeq(s, 1, 1) = <<s[1]>>
  <2>1. SubSeq(s, 1, 1) = <<s[1]>> \o SubSeq(s, 1 + 1, 1) BY <1>2, SubSeqRecursiveFirst
  <2>2. SubSeq(s, 1 + 1, 1) = <<>>
    <3>1. 1 + 1 \in Int /\ 1 \in Int /\ 1 < 1 + 1 OBVIOUS
    <3> QED BY <3>1, SubSeqEmpty
  <2>3. <<s[1]>> \in Seq(Byte) BY <1>3
  <2>4. <<s[1]>> \o <<>> = <<s[1]>> BY <2>3, ConcatEmptySeq
  <2> QED BY <2>1, <2>2, <2>4
<1>7. Append(h, s[1]) = h \o <<s[1]>> BY <1>3, AppendIsConcat
<1> QED BY <1>2, <1>4, <1>5, <1>6, <1>7

(* A call that returns.                                                    *)
LEMMA AnswerHolds ==
  ASSUME Inv, Attached, kind = "connector", UNCHANGED senderVars, UNCHANGED <<ending, kind>>,
         NEW m \in Seq(Byte), NEW t \in Seq(Byte), Stream(m \o t, Remaining),
         NEW h \in Seq(Byte), NEW b \in Seq(Byte), head' = h, Len(h) = 3, Len(b) = h[3],
         m = h \o b, ConnectorReturns(b)
  PROVE  SenderInv' /\ ReaderInv' /\ StreamInv' /\ GetsInv'
<1>t. StreamTypeOK /\ SenderInv /\ ReaderInv /\ StreamInv /\ GetsInv BY DEF Inv
<1>1. UNCHANGED <<wpc, given, unsent, sent, ending, kind>> BY DEF senderVars
<1>2. /\ received' = Append(received, [type |-> h[1], status |-> h[2], payload |-> b])
      /\ rpc' = "returned" /\ received = <<>>
  BY <1>t DEF ConnectorReturns, ReaderInv
<1> DEFINE a == [type |-> h[1], status |-> h[2], payload |-> b]
<1>3. received' = <<a>> BY <1>2
<1>4. SenderInv'
  <2>1. wpc # "failed" BY <1>t DEF SenderInv, Attached
  <2> QED BY <2>1, <1>t, SenderStays
<1>5. ~Attached' /\ kind' = "connector" BY <1>1, <1>2 DEF Attached
<1>6. ReaderInv' BY <1>5 DEF ReaderInv
<1>7. StreamInv' BY <1>5 DEF StreamInv
<1>8. given \in Seq(Packets) /\ Remaining = given
  <2>1. given \in Seq(Packets) BY <1>t DEF StreamTypeOK
  <2>2. Len(received) = 0 BY <1>2, EmptySeq
  <2>3. Remaining = SubSeq(given, 0 + 1, Len(given)) BY <2>2 DEF Remaining
  <2>4. 0 + 1 = 1 OBVIOUS
  <2> QED BY <2>1, <2>3, <2>4, SubSeqFull
<1> DEFINE p == given[1]
           n == Len(p.payload)
<1>9. /\ m \in Seq(Byte) /\ Len(m) = 3 + Len(b) /\ Len(b) \in Nat
      /\ \A j \in 1..(3 + Len(b)) : m[j] = IF j <= 3 THEN h[j] ELSE b[j - 3]
  <2>1. /\ Len(h \o b) = Len(h) + Len(b)
        /\ \A j \in 1..(Len(h) + Len(b)) : (h \o b)[j] = IF j <= Len(h) THEN h[j] ELSE b[j - Len(h)]
    BY Parts
  <2>2. Len(h) = 3 /\ m = h \o b /\ Len(b) \in Nat OBVIOUS
  <2> QED BY <2>1, <2>2
<1>10. m # <<>>
  <2>1. Len(m) > 0 BY <1>9
  <2> QED BY <2>1
<1>11. /\ given # <<>> /\ p \in Packets
       /\ \A j \in 1..Len(m) : j <= Len(Wire(p)) => m[j] = Wire(p)[j]
  BY <1>8, <1>10, Reads
<1> HIDE DEF p
<1>12. /\ \A i \in 1..HeaderSize : Wire(p)[i] = Header(p)[i] /\ i <= Len(Wire(p))
       /\ Len(Wire(p)) = HeaderSize + n /\ n \in Nat /\ Len(Wire(p)) \in Nat
  <2>1. /\ \A i \in 1..HeaderSize : Wire(p)[i] = Header(p)[i]
        /\ Len(Wire(p)) = HeaderSize + n /\ Len(Wire(p)) \in Nat
    BY <1>11, WireOf
  <2>2. \A i \in 1..HeaderSize : i <= Len(Wire(p)) BY <1>11, WireLonger
  <2>3. n \in Nat BY <1>11, OfPackets
  <2> QED BY <2>1, <2>2, <2>3
<1>13. \A j \in 1..3 : h[j] = Header(p)[j]
  <2> SUFFICES ASSUME NEW j \in 1..3 PROVE h[j] = Header(p)[j] OBVIOUS
  <2>1. j \in 1..(3 + Len(b)) /\ j <= 3 /\ j \in 1..HeaderSize BY <1>9, Constants
  <2>2. m[j] = h[j] BY <2>1, <1>9
  <2>3. j \in 1..Len(m) /\ j <= Len(Wire(p)) BY <2>1, <1>9, <1>12
  <2>4. m[j] = Wire(p)[j] BY <2>3, <1>11
  <2> QED BY <2>1, <2>2, <2>4, <1>12
<1>14. h[1] = p.type /\ h[2] = p.status /\ h[3] = n % Base
  <2>1. Header(p)[1] = p.type /\ Header(p)[2] = p.status
        /\ \A i \in 1..SizeBytes : Header(p)[i + 2] = SizeField(n)[i]
    BY <1>11, HeaderOf
  <2>2. SizeField(n)[1] = n % Base BY <1>12, Fields
  <2>3. 1 \in 1..SizeBytes /\ 1 + 2 = 3 BY Constants
  <2>4. Header(p)[3] = n % Base BY <2>1, <2>2, <2>3
  <2>5. 1 \in 1..3 /\ 2 \in 1..3 /\ 3 \in 1..3 OBVIOUS
  <2> QED BY <2>1, <2>4, <2>5, <1>13
<1>15. \A j \in 1..Len(b) : b[j] = Wire(p)[3 + j]
  <2> SUFFICES ASSUME NEW j \in 1..Len(b) PROVE b[j] = Wire(p)[3 + j] OBVIOUS
  <2>1. n % Base \in Nat /\ n % Base <= n BY <1>12, LowestByte
  <2>2. Len(b) <= n
    <3>1. Len(b) = n % Base BY <1>14
    <3> QED BY <3>1, <2>1
  <2>3. 3 + j \in 1..(3 + Len(b)) /\ ~(3 + j <= 3) /\ (3 + j) - 3 = j /\ 3 + j \in 1..Len(m)
    BY <1>9
  <2>4. 3 + j <= HeaderSize + n 
    <3>1. Len(b) \in Nat /\ n \in Nat /\ j \in Nat /\ j <= Len(b) BY <1>9, <1>12
    <3> HIDE DEF n
    <3> DEFINE l == Len(b)
    <3> HIDE DEF l
    <3>2. l \in Nat /\ l <= n /\ j <= l BY <3>1, <2>2 DEF l
    <3> QED BY <3>1, <3>2, Constants
  <2>5. 3 + j <= Len(Wire(p)) BY <2>4, <1>12
  <2>6. m[3 + j] = b[j] BY <2>3, <1>9
  <2>7. m[3 + j] = Wire(p)[3 + j] BY <2>3, <2>5, <1>11
  <2> QED BY <2>6, <2>7
<1>16. /\ b = SubSeq(Tail(SizeField(n)) \o p.payload, 1, n % Base)
       /\ n > 0 /\ p.payload[1] # 0 => b # p.payload
  <2>1. Len(b) = n % Base BY <1>14
  <2> QED BY <2>1, <1>11, <1>15, ConnectorText
<1>17. GetsInv'
  <2>1. received'[1] = a /\ a.type = h[1] /\ a.status = h[2] /\ a.payload = b BY <1>3
  <2>2. given'[1] = p /\ given' # <<>> BY <1>1, <1>11 DEF p
  <2> HIDE DEF a, n
  <2>3. /\ received'[1].type = p.type /\ received'[1].status = p.status
        /\ received'[1].payload = b
    BY <2>1, <1>14
  <2>4. /\ received'[1].payload = SubSeq(Tail(SizeField(n)) \o p.payload, 1, n % Base)
        /\ n > 0 /\ p.payload[1] # 0 => received'[1].payload # p.payload
    BY <2>3, <1>16
  <2>5. ConnectorGets' BY <2>2, <2>3, <2>4 DEF ConnectorGets, n
  <2> QED BY <2>2, <2>5 DEF GetsInv
<1> QED BY <1>4, <1>6, <1>7, <1>17

LEMMA ConnectorHeaderHolds ==
  ASSUME Inv, ConnectorReadsHeader
  PROVE  Inv'
<1>t. StreamTypeOK /\ SenderInv /\ ReaderInv /\ StreamInv /\ GetsInv BY DEF Inv
<1>1. /\ kind = "connector" /\ rpc = "header" /\ pipe # <<>>
      /\ head' = Append(head, pipe[1]) /\ pipe' = Tail(pipe) /\ UNCHANGED senderVars
      /\ UNCHANGED <<ending, kind, body>> /\ UNCHANGED <<wpc, given, unsent, sent, ending, kind>>
  BY DEF ConnectorReadsHeader, senderVars
<1>2. Attached BY <1>1 DEF Attached
<1>3. /\ received = <<>> /\ Len(head) < 3 /\ body = <<>> /\ head \in Seq(Byte) /\ pipe \in Seq(Byte)
      /\ Len(head) \in Nat /\ Len(<<>>) = 0 /\ <<>> \in Seq(Byte)
  BY <1>1, <1>2, <1>t DEF ReaderInv, StreamTypeOK
<1>4. PICK rest \in Seq(Byte) : RestIs(rest) BY <1>2, <1>t DEF StreamInv
<1>5. 1 \in 0..Len(pipe) /\ pipe' = SubSeq(pipe, 1 + 1, Len(pipe)) /\ head' = head \o SubSeq(pipe, 1, 1)
  BY <1>1, <1>3, FirstByte
<1>6. Mid = head BY <1>1, <1>3, Constants DEF Mid
<1>7. /\ pipe' \in Seq(Byte) /\ Len(pipe') <= Window /\ pipe' \o rest \in Seq(Byte)
      /\ head' \in Seq(Byte) /\ Len(head') = Len(head) + 1
      /\ head' \o (pipe' \o rest) = Mid \o (pipe \o rest)
  <2>1. PICK k \in 0..Len(pipe) : k = 1 BY <1>5
  <2>2. PICK a : a = SubSeq(pipe, 1, k) OBVIOUS
  <2>3. pipe' = SubSeq(pipe, k + 1, Len(pipe)) /\ head' = head \o a /\ head \in Seq(Byte)
    BY <2>1, <2>2, <1>3, <1>5
  <2>4. CutAt(pipe, k, a, pipe', head, rest) BY <2>2, <2>3, <1>3 DEF CutAt
  <2>5. /\ pipe' \in Seq(Byte) /\ Len(pipe') <= Window /\ pipe' \o rest \in Seq(Byte)
        /\ head \o a \in Seq(Byte) /\ Len(head \o a) = Len(head) + k
        /\ Same((head \o a) \o (pipe' \o rest), head \o (pipe \o rest))
    BY <2>4, <1>t, CutAtRead, Zenon
  <2> QED BY <2>1, <2>3, <2>5, <1>6 DEF Same
<1>8. Len(head') <= 3 /\ Len(head') \in Nat BY <1>3, <1>7
<1>9. ASSUME received' \in Seq(Packet), rpc' \in {"header", "payload", "returned"}
      PROVE  StreamTypeOK'
  <2>1. Len(head') <= 2 + SizeBytes BY <1>8, Constants
  <2>2. body' \in Seq(Byte) BY <1>1, <1>3
  <2> QED BY <2>1, <2>2, <1>1, <1>7, <1>9, <1>t, ReceiverType
<1>10. received \in Seq(Packet) BY <1>t DEF StreamTypeOK
<1>11. Len(head') = 3 => head'[3] \in Byte /\ Byte \subseteq Nat
  <2> SUFFICES ASSUME Len(head') = 3 PROVE head'[3] \in Byte /\ Byte \subseteq Nat OBVIOUS
  <2>1. PICK h \in Seq(Byte) : h = head' BY <1>7
  <2>2. 3 \in 1..Len(h)
    <3>1. Len(h) = 3 BY <2>1
    <3> QED BY <3>1
  <2>3. h[3] \in Byte BY <2>2, ElementOfSeq
  <2> QED BY <2>1, <2>3, Constants DEF Byte
<1>12. CASE Len(head') < 3
  <2>1. rpc' = "header" /\ received' = received BY <1>12, <1>1 DEF ConnectorReadsHeader
  <2>2. Mid' = head' BY <2>1, <1>12, <1>8, Constants DEF Mid
  <2>3. SenderInv' /\ StreamInv' /\ GetsInv'
    <3>1. Mid' \o (pipe' \o rest) = Mid \o (pipe \o rest) BY <2>2, <1>7
    <3> QED BY <3>1, <2>1, <1>1, <1>2, <1>4, ReadOn
  <2>4. ReaderInv' BY <2>1, <1>1, <1>3, <1>12 DEF ReaderInv
  <2>5. StreamTypeOK' BY <2>1, <1>9, <1>10
  <2> QED BY <2>3, <2>4, <2>5 DEF Inv
<1>13. CASE Len(head') = 3 /\ head'[3] # 0
  <2>1. rpc' = "payload" /\ received' = received
    <3>1. ~(Len(head') < 3) BY <1>13
    <3> QED BY <3>1, <1>13 DEF ConnectorReadsHeader
  <2>2. Mid' = head'
    <3>1. Mid' = head' \o <<>> BY <2>1, <1>1, <1>3 DEF Mid
    <3> QED BY <3>1, <1>7, ConcatEmptySeq
  <2>3. SenderInv' /\ StreamInv' /\ GetsInv'
    <3>1. Mid' \o (pipe' \o rest) = Mid \o (pipe \o rest) BY <2>2, <1>7
    <3> QED BY <3>1, <2>1, <1>1, <1>2, <1>4, ReadOn
  <2>4. ReaderInv'
    <3>1. Len(body') < head'[3] BY <1>1, <1>3, <1>11, <1>13
    <3> QED BY <3>1, <2>1, <1>1, <1>3, <1>13 DEF ReaderInv
  <2>5. StreamTypeOK' BY <2>1, <1>9, <1>10
  <2> QED BY <2>3, <2>4, <2>5 DEF Inv
<1>14. CASE Len(head') = 3 /\ head'[3] = 0
  <2>1. ConnectorReturns(<<>>)
    <3>1. ~(Len(head') < 3) BY <1>14
    <3> QED BY <3>1, <1>14 DEF ConnectorReadsHeader
  <2>2. PICK h \in Seq(Byte) : h = head' BY <1>7
  <2>3. PICK b \in Seq(Byte) : b = <<>> BY <1>3
  <2>4. PICK t \in Seq(Byte) : t = pipe' \o rest BY <1>7
  <2>5. h \o b = h BY <2>3, ConcatEmptySeq
  <2>6. Stream(h \o t, Remaining) BY <2>2, <2>4, <1>4, <1>7 DEF RestIs
  <2>7. SenderInv' /\ ReaderInv' /\ StreamInv' /\ GetsInv'
    <3>1. Len(h) = 3 /\ Len(b) = h[3] BY <2>2, <2>3, <1>3, <1>14
    <3>2. ConnectorReturns(b) BY <2>1, <2>3
    <3> QED BY <3>1, <3>2, <2>2, <2>5, <2>6, <1>1, <1>2, AnswerHolds
  <2>8. StreamTypeOK'
    <3>1. received' = <<[type |-> h[1], status |-> h[2], payload |-> b]>> /\ rpc' = "returned"
      BY <2>1, <2>2, <2>3, <1>3 DEF ConnectorReturns
    <3>2. h[1] \in Byte /\ h[2] \in Byte
      <4>1. 1 \in 1..Len(h) /\ 2 \in 1..Len(h) BY <2>2, <1>14
      <4> QED BY <4>1, ElementOfSeq
    <3>3. [type |-> h[1], status |-> h[2], payload |-> b] \in Packet BY <3>2 DEF Packet
    <3> QED BY <3>1, <3>3, <1>9
  <2> QED BY <2>7, <2>8 DEF Inv
<1>15. Len(head') < 3 \/ Len(head') = 3
  <2>1. PICK l \in Nat : l = Len(head') BY <1>8
  <2>2. l <= 3 BY <2>1, <1>8
  <2>3. l < 3 \/ l = 3 BY <2>2
  <2> QED BY <2>1, <2>3
<1> QED BY <1>12, <1>13, <1>14, <1>15

LEMMA ConnectorPayloadHolds ==
  ASSUME Inv, ConnectorReadsPayload
  PROVE  Inv'
<1>t. StreamTypeOK /\ SenderInv /\ ReaderInv /\ StreamInv /\ GetsInv BY DEF Inv
<1>1. /\ kind = "connector" /\ rpc = "payload" /\ head' = head /\ UNCHANGED senderVars
      /\ UNCHANGED <<ending, kind>> /\ UNCHANGED <<wpc, given, unsent, sent, ending, kind>>
  BY DEF ConnectorReadsPayload, senderVars
<1>2. PICK k \in 1..AtMost(Len(pipe), head[3] - Len(body)) :
        /\ pipe' = SubSeq(pipe, k + 1, Len(pipe))
        /\ body' = body \o SubSeq(pipe, 1, k)
  BY DEF ConnectorReadsPayload
<1>3. Attached BY <1>1 DEF Attached
<1>4. /\ received = <<>> /\ Len(head) = 3 /\ Len(body) < head[3]
      /\ head \in Seq(Byte) /\ pipe \in Seq(Byte) /\ body \in Seq(Byte) /\ Len(body) \in Nat
  BY <1>1, <1>3, <1>t DEF ReaderInv, StreamTypeOK
<1>5. \A i \in 1..3 : head[i] \in Byte
  <2>1. \A i \in 1..3 : i \in 1..Len(head) BY <1>4
  <2> QED BY <2>1, <1>4, ElementOfSeq
<1>6. head[3] \in Nat /\ head[1] \in Byte /\ head[2] \in Byte
  <2>1. 1 \in 1..3 /\ 2 \in 1..3 /\ 3 \in 1..3 OBVIOUS
  <2> QED BY <2>1, <1>5, Constants DEF Byte
<1>7. PICK rest \in Seq(Byte) : RestIs(rest) BY <1>3, <1>t DEF StreamInv
<1>8. k \in 1..Len(pipe) /\ k \in 0..Len(pipe) /\ k <= head[3] - Len(body)
  <2>1. head[3] - Len(body) \in Int BY <1>4, <1>6
  <2> QED BY <2>1, <1>2, <1>4, Taking
<1>9. Mid = head \o body /\ Mid \in Seq(Byte) BY <1>1, <1>t, MidType DEF Mid
<1>a. PICK a : a = SubSeq(pipe, 1, k) OBVIOUS
<1>b. body' = body \o a BY <1>a, <1>2
<1>10. /\ pipe' \in Seq(Byte) /\ Len(pipe') <= Window /\ a \in Seq(Byte)
       /\ body' \in Seq(Byte) /\ Len(body') = Len(body) + k /\ k \in Nat
       /\ pipe' \o rest \in Seq(Byte)
  <2>1. CutAt(pipe, k, a, pipe', body, rest) BY <1>a, <1>2, <1>4, <1>8 DEF CutAt
  <2>2. /\ pipe' \in Seq(Byte) /\ Len(pipe') <= Window /\ a \in Seq(Byte) /\ k \in Nat
        /\ body \o a \in Seq(Byte) /\ Len(body \o a) = Len(body) + k /\ pipe' \o rest \in Seq(Byte)
    BY <2>1, <1>t, CutAtRead, Zenon
  <2> QED BY <2>2, <1>b
<1>11. (head \o body') \o (pipe' \o rest) = Mid \o (pipe \o rest)
  <2>1. CutAt(pipe, k, a, pipe', Mid, rest) BY <1>a, <1>2, <1>4, <1>8, <1>9 DEF CutAt
  <2>2. Same((Mid \o a) \o (pipe' \o rest), Mid \o (pipe \o rest))
    BY <2>1, <1>t, CutAtRead, Zenon
  <2>3. (head \o body) \o a = head \o (body \o a)
    <3>1. head \in Seq(Byte) /\ body \in Seq(Byte) /\ a \in Seq(Byte) BY <1>4, <1>10
    <3> QED BY <3>1, Associative
  <2>4. Mid \o a = head \o body' BY <2>3, <1>9, <1>b
  <2> QED BY <2>2, <2>4 DEF Same
<1>12. ASSUME received' \in Seq(Packet), rpc' \in {"payload", "returned"}
       PROVE  StreamTypeOK'
  <2>1. head' \in Seq(Byte) /\ Len(head') <= 2 + SizeBytes BY <1>1, <1>4, Constants
  <2> QED BY <2>1, <1>1, <1>10, <1>12, <1>t, ReceiverType
<1>13. Len(body') <= head[3] /\ Len(body') \in Nat BY <1>4, <1>6, <1>8, <1>10
<1>14. CASE Len(body') < head[3]
  <2>1. rpc' = "payload" /\ received' = received BY <1>14, <1>1 DEF ConnectorReadsPayload
  <2>2. Mid' = head \o body' BY <2>1, <1>1 DEF Mid
  <2>3. SenderInv' /\ StreamInv' /\ GetsInv'
    <3>1. Mid' \o (pipe' \o rest) = Mid \o (pipe \o rest) BY <2>2, <1>11
    <3> QED BY <3>1, <2>1, <1>1, <1>3, <1>7, ReadOn
  <2>4. ReaderInv' BY <2>1, <1>1, <1>4, <1>14 DEF ReaderInv
  <2>5. received \in Seq(Packet) BY <1>t DEF StreamTypeOK
  <2>6. StreamTypeOK' BY <2>1, <2>5, <1>12
  <2> QED BY <2>3, <2>4, <2>6 DEF Inv
<1>15. CASE Len(body') = head[3]
  <2>1. ConnectorReturns(body')
    <3>1. ~(Len(body') < head[3]) BY <1>13, <1>15
    <3> QED BY <3>1 DEF ConnectorReadsPayload
  <2>2. PICK h \in Seq(Byte) : h = head BY <1>4
  <2>3. PICK b \in Seq(Byte) : b = body' BY <1>10
  <2>4. PICK t \in Seq(Byte) : t = pipe' \o rest BY <1>10
  <2>5. PICK m \in Seq(Byte) : m = h \o b
    <3>1. h \o b \in Seq(Byte) BY Joined
    <3> QED BY <3>1
  <2>6. Stream(m \o t, Remaining) BY <2>2, <2>3, <2>4, <2>5, <1>7, <1>11 DEF RestIs
  <2>7. SenderInv' /\ ReaderInv' /\ StreamInv' /\ GetsInv'
    <3>1. Len(h) = 3 /\ Len(b) = h[3] /\ head' = h BY <2>2, <2>3, <1>1, <1>4, <1>15
    <3>2. ConnectorReturns(b) BY <2>1, <2>3
    <3> QED BY <3>1, <3>2, <2>5, <2>6, <1>1, <1>3, AnswerHolds
  <2>8. StreamTypeOK'
    <3>1. received' = <<[type |-> head[1], status |-> head[2], payload |-> b]>> /\ rpc' = "returned"
      BY <2>1, <2>3, <1>1, <1>4 DEF ConnectorReturns
    <3>2. [type |-> head[1], status |-> head[2], payload |-> b] \in Packet BY <1>6 DEF Packet
    <3> QED BY <3>1, <3>2, <1>12
  <2> QED BY <2>7, <2>8 DEF Inv
<1>16. Len(body') < head[3] \/ Len(body') = head[3] BY <1>6, <1>13
<1> QED BY <1>14, <1>15, <1>16

-----------------------------------------------------------------------------

LEMMA StutterHolds ==
  ASSUME Inv, UNCHANGED vars
  PROVE  Inv'
<1>1. UNCHANGED <<wpc, given, unsent, sent, pipe, ending, kind, rpc, head, body, received>>
  BY DEF vars, senderVars, receiverVars
<1>2. StreamTypeOK' BY <1>1 DEF Inv, StreamTypeOK, Sending
<1>3. SenderInv' BY <1>1 DEF Inv, SenderInv, Sending
<1>4. ReaderInv' BY <1>1 DEF Inv, ReaderInv, Attached, PayloadSize
<1>5. StreamInv'
  <2>1. Mid' = Mid /\ Remaining' = Remaining /\ Owed' = Owed /\ Attached' = Attached
    BY <1>1 DEF Mid, Remaining, Owed, Later, Sending, Attached
  <2>2. ASSUME NEW rest \in Seq(Byte), RestIs(rest) PROVE RestIs(rest)'
    BY <1>1, <2>1, <2>2 DEF RestIs
  <2> QED BY <2>1, <2>2 DEF Inv, StreamInv
<1>6. GetsInv' BY <1>1 DEF Inv, GetsInv, ConnectorGets
<1> QED BY <1>2, <1>3, <1>4, <1>5, <1>6 DEF Inv

LEMMA CallHolds ==
  ASSUME Inv, CallRecvPacket
  PROVE  Inv'
<1>t. StreamTypeOK /\ SenderInv /\ ReaderInv /\ StreamInv /\ GetsInv BY DEF Inv
<1>1. /\ UNCHANGED <<wpc, given, unsent, sent, pipe, ending, kind, head, body, received>>
      /\ rpc = "elsewhere" /\ rpc' = "header"
  BY DEF CallRecvPacket, senderVars
<1>2. StreamTypeOK' BY <1>1, <1>t, ReceiverType DEF StreamTypeOK, Sending
<1>3. SenderInv'
  <2>1. wpc # "failed" BY <1>1, <1>t DEF SenderInv
  <2>2. UNCHANGED senderVars /\ ending' = ending BY DEF CallRecvPacket
  <2> QED BY <2>1, <2>2, <1>t, SenderStays
<1>4. ReaderInv' BY <1>1, <1>t DEF ReaderInv, Attached
<1>5. StreamInv'
  <2>1. Mid' = Mid /\ Remaining' = Remaining /\ Owed' = Owed /\ Attached
    BY <1>1 DEF Mid, Remaining, Owed, Later, Sending, Attached
  <2>2. ASSUME NEW rest \in Seq(Byte), RestIs(rest) PROVE RestIs(rest)'
    BY <1>1, <2>1, <2>2 DEF RestIs
  <2> QED BY <1>t, <2>1, <2>2 DEF StreamInv
<1>6. GetsInv' BY <1>1, <1>t DEF GetsInv, ConnectorGets
<1> QED BY <1>2, <1>3, <1>4, <1>5, <1>6 DEF Inv

LEMMA NextHolds == Inv /\ [Next]_vars => Inv'
<1> SUFFICES ASSUME Inv, [Next]_vars PROVE Inv' OBVIOUS
<1>1. CASE \E p \in Packets : CallSend(p) BY <1>1, CallSendHolds
<1>2. CASE Kernel BY <1>2, KernelTakesHolds, SendFailsHolds DEF Kernel
<1>3. CASE SenderEnds BY <1>3, SenderEndsHolds
<1>4. CASE Receive
  BY <1>4, RecvHeaderHolds, RecvPayloadHolds, FailsHold, ConnectorHeaderHolds,
     ConnectorPayloadHolds DEF Receive
<1>5. CASE ReceiverLeaves BY <1>5, FailsHold
<1>6. CASE UNCHANGED vars BY <1>6, StutterHolds
<1>7. CASE CallRecvPacket BY <1>7, CallHolds
<1> QED BY <1>1, <1>2, <1>3, <1>4, <1>5, <1>6, <1>7 DEF Next

LEMMA InvHolds == Spec => []Inv
BY InitHolds, NextHolds, PTL DEF Spec

(* What is under way and what either side holds of it is a sequence of     *)
(* bytes, a header is never longer than it is read, and something is left  *)
(* to send exactly during a send.                                          *)
THEOREM StreamTypeCorrect == Spec => []StreamTypeOK
<1>1. Inv => StreamTypeOK BY DEF Inv
<1> QED BY <1>1, InvHolds, PTL

(* The Java connector never returns the text of an answer that has one:    *)
(* for any packets, any size of size_t and however the bytes come, it      *)
(* returns the upper bytes of the size and the start of the text, as many  *)
(* of both as the lowest byte says.                                        *)
THEOREM ConnectorGetsHolds == Spec => []ConnectorGets
<1>1. Inv => ConnectorGets BY DEF Inv, GetsInv
<1> QED BY <1>1, InvHolds, PTL

-----------------------------------------------------------------------------
(* The refinement. *)

(* A reader that has not got a whole packet has read less than one.        *)
LEMMA MidShort ==
  ASSUME Inv, Attached, kind = "recv_packet", NEW t \in Seq(Byte), Stream(Mid \o t, Remaining),
         Remaining # <<>>
  PROVE  Remaining[1] \in Packets /\ Len(Mid) \in Nat /\ Len(Mid) < Len(Wire(Remaining[1]))
<1>t. StreamTypeOK /\ SenderInv /\ ReaderInv BY DEF Inv
<1>1. Remaining \in Seq(Packets) /\ Mid \in Seq(Byte) /\ Len(Mid) \in Nat
  BY <1>t, RemainingType, MidType
<1> DEFINE p == Remaining[1]
<1>2. p \in Packets BY <1>1, EmptySeq, ElementOfSeq
<1> HIDE DEF p
<1>3. HeaderSize <= Len(Wire(p)) /\ (\A i \in 1..HeaderSize : i <= Len(Wire(p)))
      /\ Len(Wire(p)) \in Nat
  BY <1>2, WireLonger, WireOf
<1>4. head \in Seq(Byte) /\ body \in Seq(Byte) /\ Len(head) \in Nat /\ Len(body) \in Nat
      /\ Len(head) <= HeaderSize
  BY <1>t DEF StreamTypeOK, HeaderSize
<1>5. CASE rpc \in {"elsewhere", "header"}
  <2>1. Len(Mid) < HeaderSize
    <3>1. CASE Len(head) = HeaderSize
      <4>1. Mid = <<>> BY <3>1, <1>5 DEF Mid
      <4>2. Len(Mid) = 0 BY <4>1, EmptySeq
      <4> QED BY <4>2, Constants
    <3>2. CASE Len(head) # HeaderSize
      <4>1. Mid = head BY <3>2, <1>5 DEF Mid
      <4> QED BY <4>1, <3>2, <1>4, Constants
    <3> QED BY <3>1, <3>2
  <2> DEFINE w == Len(Wire(p))
  <2>2. HeaderSize <= w /\ w \in Nat BY <1>3
  <2> HIDE DEF w
  <2>3. Len(Mid) < w BY <2>1, <2>2, <1>1, Constants
  <2> QED BY <2>3, <1>1, <1>2 DEF p, w
<1>6. CASE rpc = "payload"
  <2>1. /\ Mid = head \o body /\ Len(head) = HeaderSize /\ Len(body) < PayloadSize(head)
        /\ PayloadSize(head) \in Nat
    BY <1>6, <1>t DEF Mid, ReaderInv
  <2>2. /\ Len(Mid) = HeaderSize + Len(body)
        /\ \A j \in 1..(HeaderSize + Len(body)) :
             Mid[j] = IF j <= HeaderSize THEN head[j] ELSE body[j - HeaderSize]
    BY <2>1, <1>4, Parts
  <2>3. Mid # <<>>
    <3>1. Len(Mid) > 0 BY <2>2, <1>4, Constants
    <3> QED BY <3>1
  <2>4. \A j \in 1..Len(Mid) : j <= Len(Wire(p)) => Mid[j] = Wire(p)[j]
    BY <2>3, <1>1, Reads DEF p
  <2>5. Header(p) \in Seq(Byte) /\ Len(Header(p)) = HeaderSize
        /\ \A i \in 1..HeaderSize : Wire(p)[i] = Header(p)[i]
    BY <1>2, HeaderOf, WireOf
  <2>6. \A i \in 1..HeaderSize : head[i] = Header(p)[i]
    <3> SUFFICES ASSUME NEW i \in 1..HeaderSize PROVE head[i] = Header(p)[i] OBVIOUS
    <3>1. i \in 1..(HeaderSize + Len(body)) /\ i <= HeaderSize BY <1>4, Constants
    <3>2. Mid[i] = head[i] BY <3>1, <2>2
    <3>3. i \in 1..Len(Mid) /\ i <= Len(Wire(p)) BY <3>1, <2>2, <1>3
    <3>4. Mid[i] = Wire(p)[i] BY <3>3, <2>4
    <3> QED BY <3>2, <3>4, <2>5
  <2>7. head = Header(p) BY <2>1, <2>5, <2>6, <1>4, SeqEqual
  <2>8. PayloadSize(head) = Len(p.payload) BY <2>7, <1>2, SizeRead
  <2>9. Len(Wire(p)) = HeaderSize + Len(p.payload) BY <1>2, WireOf
  <2>10. Len(Mid) < Len(Wire(p))
    <3>1. Len(Wire(p)) = HeaderSize + PayloadSize(head) BY <2>8, <2>9
    <3> DEFINE w == Len(Wire(p))
    <3> HIDE DEF w
    <3>2. w = HeaderSize + PayloadSize(head) BY <3>1 DEF w
    <3>3. Len(Mid) < w BY <3>2, <2>1, <2>2, <1>4, Constants
    <3> QED BY <3>3 DEF w
  <2> QED BY <2>10, <1>1, <1>2 DEF p
<1> QED BY <1>5, <1>6 DEF Attached

(* The stream ends in order only between two packets, or in one that was   *)
(* not sent whole: what was sent whole was returned.                       *)
LEMMA NothingLost ==
  ASSUME Inv, Attached, kind = "recv_packet", pipe = <<>>, ending = "fin"
  PROVE  received = sent
<1>t. StreamTypeOK /\ SenderInv /\ ReaderInv /\ StreamInv BY DEF Inv
<1>1. PICK rest \in Seq(Byte) : RestIs(rest) BY <1>t DEF StreamInv
<1>2. /\ Stream(Mid \o rest, Remaining)
      /\ IF given = sent THEN rest = <<>> ELSE Len(rest) <= Len(Wire(Last(given)))
  <2>1. pipe \o rest = rest BY ConcatEmptySeq
  <2> QED BY <2>1, <1>1 DEF RestIs
<1> DEFINE n == Len(received)
<1>3. /\ given \in Seq(Packets) /\ sent \in Seq(Packets) /\ received \in Seq(Packet)
      /\ n \in Nat /\ Len(sent) \in Nat /\ Len(given) \in Nat
      /\ n <= Len(sent) /\ \A i \in 1..n : received[i] = sent[i]
  BY <1>t DEF StreamTypeOK, ReaderInv
<1>4. Len(given) = Len(sent) \/ (given # sent /\ Len(given) = Len(sent) + 1)
  <2>1. CASE given = sent BY <2>1
  <2>2. CASE given # sent BY <2>2, <1>t, InSend
  <2> QED BY <2>1, <2>2
<1>5. /\ Remaining \in Seq(Packets) /\ Len(Remaining) = Len(given) - n
      /\ \A i \in 1..(Len(given) - n) : Remaining[i] = given[n + i]
  <2>1. n <= Len(given) BY <1>3, <1>4
  <2> QED BY <2>1, <1>3, RemainingIs DEF Remaining
<1> HIDE DEF n
<1>6. n = Len(sent)
  <2> SUFFICES ASSUME n < Len(sent) PROVE FALSE BY <1>3
  <2>1. Len(Remaining) > 0 BY <1>3, <1>4, <1>5
  <2>2. Remaining # <<>> BY <2>1, EmptySeq
  <2>3. Remaining[1] \in Packets /\ Len(Mid) \in Nat /\ Len(Mid) < Len(Wire(Remaining[1]))
    BY <2>2, <1>2, MidShort
  <2>4. Mid \in Seq(Byte) /\ Mid \o rest \in Seq(Byte) /\ Len(Mid \o rest) = Len(Mid) + Len(rest)
        /\ Len(rest) \in Nat
    BY <1>t, MidType, Joined
  <2>5. CASE given = sent
    <3>1. rest = <<>> BY <2>5, <1>2
    <3>2. Len(Mid \o rest) = Len(Mid)
      <4>1. Len(rest) = 0 BY <3>1, EmptySeq
      <4> QED BY <4>1, <2>3, <2>4
    <3>3. Len(Wire(Remaining[1])) <= Len(Mid \o rest) BY <2>2, <2>4, <1>2, <1>5, StreamFirst
    <3>4. Len(Wire(Remaining[1])) \in Nat BY <2>3, WireOf
    <3> QED BY <3>2, <3>3, <3>4, <2>3
  <2>6. CASE given # sent
    <3>1. Len(given) = Len(sent) + 1 /\ Last(given) \in Packets /\ given[Len(given)] = Last(given)
      BY <2>6, <1>t, InSend
    <3>2. Len(Remaining) > 1 /\ Len(Remaining) \in 1..(Len(given) - n)
          /\ n + Len(Remaining) = Len(given)
      BY <3>1, <1>3, <1>5
    <3>3. Remaining[Len(Remaining)] = Last(given) BY <3>1, <3>2, <1>5
    <3>4. Len(Wire(Remaining[1])) + Len(Wire(Remaining[Len(Remaining)])) <= Len(Mid \o rest)
      BY <3>2, <2>4, <1>2, <1>5, StreamEnds
    <3>5. Len(Wire(Last(given))) \in Nat /\ Len(Wire(Remaining[1])) \in Nat
      BY <3>1, <2>3, WireOf
    <3>6. Len(rest) <= Len(Wire(Last(given))) BY <2>6, <1>2
    <3>7. Len(Wire(Remaining[1])) + Len(Wire(Last(given))) <= Len(Mid) + Len(rest)
      BY <3>3, <3>4, <2>4
    <3> DEFINE w == Len(Wire(Remaining[1]))
               v == Len(Wire(Last(given)))
               m == Len(Mid)
               r == Len(rest)
    <3>8. w + v <= m + r /\ r <= v /\ m < w /\ w \in Nat /\ v \in Nat /\ m \in Nat /\ r \in Nat
      BY <3>5, <3>6, <3>7, <2>3, <2>4
    <3> HIDE DEF w, v, m, r
    <3> QED BY <3>8
  <2> QED BY <2>5, <2>6
<1>7. sent \in Seq(Packet)
  <2>1. \A i \in 1..Len(sent) : sent[i] \in Packet
    <3> SUFFICES ASSUME NEW i \in 1..Len(sent) PROVE sent[i] \in Packet OBVIOUS
    <3>1. sent[i] \in Packets BY <1>3, ElementOfSeq
    <3> QED BY <3>1, OfPackets
  <2> QED BY <2>1, <1>3
<1> QED BY <1>3, <1>6, <1>7, SeqEqual DEF n

LEMMA QueueInitial == Init => Queue!QueueInit
BY DEF Init, Queue!QueueInit, Taken, WriterSide, ReaderSide

(* What recv_packet returned last is the packet that was the next to take. *)
LEMMA Returned ==
  ASSUME Inv, Inv', Attached, Attached', kind = "recv_packet", UNCHANGED senderVars,
         UNCHANGED <<ending, kind>>, NEW a, received' = Append(received, a)
  PROVE  Queue!Take
<1>1. sent' = sent /\ ending' = ending /\ kind' = kind BY DEF senderVars
<1>2. received \in Seq(Packet) /\ received' \in Seq(Packet) BY DEF Inv, StreamTypeOK
<1> DEFINE n == Len(received)
<1>3. Len(received') = n + 1 /\ received'[n + 1] = a /\ n \in Nat BY <1>2
<1>4. Len(received') <= Len(sent) /\ \A i \in 1..Len(received') : received'[i] = sent[i]
  BY <1>1 DEF Inv, ReaderInv
<1>5. Len(sent) \in Nat BY DEF Inv, StreamTypeOK
<1>6. n < Len(sent) /\ a = sent[n + 1]
  <2>1. n + 1 \in 1..Len(received') BY <1>3
  <2> QED BY <2>1, <1>3, <1>4, <1>5
<1>7. Taken = received /\ Taken' = received' BY <1>1 DEF Taken
<1>8. WriterSide' = WriterSide BY <1>1 DEF WriterSide
<1>9. ReaderSide = "up" /\ ReaderSide' = "up" BY <1>1 DEF ReaderSide, Attached
<1> QED BY <1>1, <1>6, <1>7, <1>8, <1>9 DEF Queue!Take

LEMMA QueueSteps == Inv /\ Inv' /\ [Next]_vars => [Queue!QueueNext]_(Queue!queueVars)
<1> SUFFICES ASSUME Inv, Inv', [Next]_vars PROVE [Queue!QueueNext]_(Queue!queueVars) OBVIOUS
<1>t. StreamTypeOK /\ SenderInv /\ ReaderInv BY DEF Inv
<1>s. ASSUME UNCHANGED <<sent, received, ending, kind>>, ReaderSide' = ReaderSide
      PROVE  UNCHANGED Queue!queueVars
  <2>1. Taken' = Taken /\ WriterSide' = WriterSide BY <1>s DEF Taken, WriterSide
  <2> QED BY <2>1, <1>s DEF Queue!queueVars
<1>r. ASSUME rpc' = rpc, kind' = kind PROVE ReaderSide' = ReaderSide BY <1>r DEF ReaderSide
<1>1. ASSUME NEW p \in Packets, CallSend(p) PROVE UNCHANGED Queue!queueVars
  <2>1. UNCHANGED <<sent, received, ending, kind, rpc>> BY <1>1 DEF CallSend, receiverVars
  <2> QED BY <2>1, <1>s, <1>r
<1>2. CASE KernelTakes
  <2>1. UNCHANGED <<received, ending, kind, rpc>> BY <1>2 DEF KernelTakes, receiverVars
  <2>2. /\ sent' = sent \/ sent' = Append(sent, Last(given))
        /\ Last(given) \in Packets /\ ending = "no"
    BY <1>2, KernelOwes
  <2>3. CASE sent' = sent BY <2>1, <2>3, <1>s, <1>r
  <2>4. CASE sent' = Append(sent, Last(given))
    <3>1. Taken' = Taken /\ WriterSide = "up" /\ WriterSide' = WriterSide
      BY <2>1, <2>2 DEF Taken, WriterSide
    <3>2. ReaderSide' = ReaderSide BY <2>1, <1>r
    <3>3. Queue!Put(Last(given)) BY <2>4, <3>1, <3>2 DEF Queue!Put
    <3> QED BY <3>3, <2>2 DEF Queue!QueueNext
  <2> QED BY <2>2, <2>3, <2>4
<1>3. CASE SendFails
  <2>1. UNCHANGED <<sent, received, ending, kind, rpc>> BY <1>3 DEF SendFails, receiverVars
  <2> QED BY <2>1, <1>s, <1>r
<1>4. CASE SenderEnds
  <2>1. UNCHANGED <<sent, received, kind, rpc>> /\ ending = "no" /\ ending' \in {"fin", "reset"}
    BY <1>4 DEF SenderEnds, receiverVars
  <2>2. Taken' = Taken /\ WriterSide = "up" /\ WriterSide' \in {"left", "reset"}
    BY <2>1 DEF Taken, WriterSide
  <2>3. ReaderSide' = ReaderSide BY <2>1, <1>r
  <2>4. Queue!Stop BY <2>1, <2>2, <2>3 DEF Queue!Stop
  <2> QED BY <2>4 DEF Queue!QueueNext
<1>5. ASSUME RecvHeader \/ RecvPayload PROVE [Queue!QueueNext]_(Queue!queueVars)
  <2>1. /\ kind = "recv_packet" /\ rpc \in {"header", "payload"}
        /\ UNCHANGED senderVars /\ UNCHANGED <<ending, kind, sent>>
    BY <1>5 DEF RecvHeader, RecvPayload, senderVars
  <2>2. \/ received' = received /\ rpc' \in {"header", "payload"}
        \/ \E a : received' = Append(received, a) /\ rpc' = "elsewhere"
    <3>1. CASE RecvHeader BY <3>1 DEF RecvHeader, Return
    <3>2. CASE RecvPayload BY <3>2 DEF RecvPayload, Return
    <3> QED BY <3>1, <3>2, <1>5
  <2>3. CASE received' = received /\ rpc' \in {"header", "payload"}
    <3>1. ReaderSide' = ReaderSide BY <2>1, <2>3 DEF ReaderSide
    <3> QED BY <3>1, <2>1, <2>3, <1>s
  <2>4. ASSUME NEW a, received' = Append(received, a), rpc' = "elsewhere" PROVE Queue!Take
    <3>1. Attached /\ Attached' BY <2>1, <2>4 DEF Attached
    <3> QED BY <3>1, <2>1, <2>4, Returned
  <2> QED BY <2>2, <2>3, <2>4 DEF Queue!QueueNext
<1>6. CASE RecvFails
  <2>1. /\ kind = "recv_packet" /\ Attached /\ pipe = <<>> /\ ending # "no"
        /\ rpc' \in {"closed", "null"} /\ UNCHANGED <<sent, received, ending, kind>>
    BY <1>6 DEF RecvFails, Reading, Attached, senderVars
  <2>2. ending \in {"fin", "reset"} BY <2>1, <1>t DEF StreamTypeOK
  <2>3. ending = "fin" => received = sent BY <2>1, NothingLost
  <2>4. /\ Taken = received /\ Taken' = Taken /\ WriterSide' = WriterSide
        /\ WriterSide = "reset" \/ (WriterSide = "left" /\ Taken = sent)
    BY <2>1, <2>2, <2>3 DEF Taken, WriterSide
  <2>5. ReaderSide = "up" /\ ReaderSide' = "ended" BY <2>1 DEF ReaderSide, Attached
  <2>6. Queue!End BY <2>1, <2>4, <2>5 DEF Queue!End
  <2> QED BY <2>6 DEF Queue!QueueNext
<1>7. ASSUME ConnectorReadsHeader \/ ConnectorReadsPayload \/ ConnectorFails
      PROVE  UNCHANGED Queue!queueVars
  <2>1. /\ kind = "connector" /\ kind' = kind /\ sent' = sent /\ ending' = ending
        /\ rpc \in {"header", "payload"}
    BY <1>7 DEF ConnectorReadsHeader, ConnectorReadsPayload, ConnectorFails, Reading, senderVars
  <2>2. rpc' \in {"header", "payload", "returned", "thrown"}
    <3>1. CASE ConnectorReadsHeader
      <4>1. UNCHANGED rpc \/ rpc' = "payload" \/ rpc' = "returned"
        BY <3>1 DEF ConnectorReadsHeader, ConnectorReturns
      <4> QED BY <4>1, <2>1
    <3>2. CASE ConnectorReadsPayload BY <3>2, <2>1 DEF ConnectorReadsPayload, ConnectorReturns
    <3>3. CASE ConnectorFails BY <3>3 DEF ConnectorFails
    <3> QED BY <3>1, <3>2, <3>3, <1>7
  <2>3. ReaderSide = "up" /\ ReaderSide' = "up" BY <2>1, <2>2 DEF ReaderSide
  <2>4. Taken = <<>> /\ Taken' = <<>> /\ WriterSide' = WriterSide BY <2>1 DEF Taken, WriterSide
  <2> QED BY <2>1, <2>3, <2>4 DEF Queue!queueVars
<1>8. CASE ReceiverLeaves
  <2>1. /\ rpc \in {"elsewhere", "header", "payload", "returned"} /\ rpc' = "left"
        /\ UNCHANGED <<sent, received, ending, kind>>
    BY <1>8 DEF ReceiverLeaves, senderVars
  <2>2. Taken' = Taken /\ WriterSide' = WriterSide BY <2>1 DEF Taken, WriterSide
  <2>3. ReaderSide = "up" /\ ReaderSide' = "left" BY <2>1 DEF ReaderSide
  <2>4. Queue!Leave BY <2>1, <2>2, <2>3 DEF Queue!Leave
  <2> QED BY <2>4 DEF Queue!QueueNext
<1>9. CASE UNCHANGED vars
  <2>1. UNCHANGED <<sent, received, ending, kind, rpc>>
    BY <1>9 DEF vars, senderVars, receiverVars
  <2> QED BY <2>1, <1>s, <1>r
<1>10. CASE CallRecvPacket
  <2>1. UNCHANGED <<sent, received, ending, kind>> /\ rpc = "elsewhere" /\ rpc' = "header"
    BY <1>10 DEF CallRecvPacket, senderVars
  <2>2. ReaderSide' = ReaderSide BY <2>1 DEF ReaderSide
  <2> QED BY <2>1, <2>2, <1>s
<1> QED BY <1>1, <1>2, <1>3, <1>4, <1>5, <1>6, <1>7, <1>8, <1>9, <1>10 DEF Next, Kernel, Receive

(* However the kernel cuts the bytes of send_packet and wherever either    *)
(* side ends, recv_packet returns the packets that were sent whole, in     *)
(* order and once, and NULL only after a reset or when all of them were    *)
(* returned: for any packets whose size fits a size_t, and any window.     *)
THEOREM StreamImplementsQueue == Spec => ImplementsQueue
<1>1. Inv /\ Inv' /\ [Next]_vars => [Queue!QueueNext]_(Queue!queueVars) BY QueueSteps
<1> QED BY <1>1, QueueInitial, InitHolds, NextHolds, PTL DEF Spec, ImplementsQueue, Queue!QueueSpec
=============================================================================
