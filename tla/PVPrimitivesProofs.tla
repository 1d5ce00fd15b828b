------------------------- MODULE PVPrimitivesProofs -------------------------
(* Sizes, strings, statuses and bit sets are read back as they were        *)
(* written, for every choice of the limits of a size, of the bits in a     *)
(* byte and the bytes in a long, and whatever follows them on the wire.    *)
EXTENDS PVPrimitives, SequenceTheorems, WellFoundedInduction, TLAPS

(* Reading off the first element of a sequence. *)
LEMMA FirstAndRest ==
  ASSUME NEW S, NEW t \in S, NEW in \in Seq(S)
  PROVE  /\ <<t>> \o in \in Seq(S)
         /\ <<t>> \o in # <<>>
         /\ Head(<<t>> \o in) = t
         /\ Tail(<<t>> \o in) = in
  <1> DEFINE s == <<t>> \o in
  <1>1. <<t>> \in Seq(S) /\ Len(<<t>>) = 1 /\ <<t>>[1] = t  OBVIOUS
  <1>2. /\ s \in Seq(S) /\ Len(s) = 1 + Len(in)
        /\ \A i \in 1..(1 + Len(in)) : s[i] = IF i <= 1 THEN <<t>>[i] ELSE in[i - 1]
    BY <1>1, ConcatProperties
  <1>3. Len(in) \in Nat  BY LenProperties
  <1> HIDE DEF s
  <1>4. s # <<>> /\ Head(s) = t
    BY <1>1, <1>2, <1>3
  <1>5. /\ Tail(s) \in Seq(S) /\ Len(Tail(s)) = Len(in)
        /\ \A i \in 1..Len(in) : Tail(s)[i] = s[i + 1]
    BY <1>2, <1>3, <1>4, HeadTailProperties
  <1>6. \A i \in 1..Len(in) : Tail(s)[i] = in[i]
    BY <1>2, <1>3, <1>5
  <1>7. Tail(s) = in
    BY <1>5, <1>6, SeqEqual
  <1> QED  BY <1>2, <1>4, <1>7 DEF s

(* Reading what was written with the width it was written with. *)
LEMMA ReadFirst ==
  ASSUME NEW S, NEW in \in Seq(S), NEW w, NEW n, Token(w, n) \in S
  PROVE  Read(w, <<Token(w, n)>> \o in) = Got(n, in)
  <1>1. /\ <<Token(w, n)>> \o in # <<>>
        /\ Head(<<Token(w, n)>> \o in) = Token(w, n)
        /\ Tail(<<Token(w, n)>> \o in) = in
    BY FirstAndRest
  <1>2. Token(w, n).w = w /\ Token(w, n).n = n  BY DEF Token
  <1> QED  BY <1>1, <1>2 DEF Read

(* What PVSize.PVDecode makes of a first byte below the limit, of a 32-bit  *)
(* part and of a 64-bit part.                                              *)
LEMMA DecodeForms ==
  ASSUME NEW x, NEW n \in Int, NEW r, Read(1, x) = Got(n, r)
  PROVE  /\ n = Max8 + 1 => SizeDecode(x) = Got(-1, r)
         /\ n \notin {Max8, Max8 + 1} => SizeDecode(x) = Got(n, r)
         /\ \A m \in Int : \A q : n = Max8 /\ Read(4, r) = Got(m, q) =>
              SizeDecode(x) = IF m = Max32 THEN Read(8, q) ELSE Got(m, q)
  <1>1. \A y, z : Got(y, z).ok = TRUE /\ Got(y, z).v = y /\ Got(y, z).rest = z
    BY DEF Got
  <1>2. Max8 \in Nat  BY SizeAssumption
  <1>3. n = Max8 + 1 => SizeDecode(x) = Got(-1, r)
    BY <1>1, <1>2 DEF SizeDecode
  <1>4. n \notin {Max8, Max8 + 1} => SizeDecode(x) = Got(n, r)
    BY <1>1, <1>2 DEF SizeDecode
  <1>5. ASSUME NEW m \in Int, NEW q, n = Max8, Read(4, r) = Got(m, q)
        PROVE  SizeDecode(x) = IF m = Max32 THEN Read(8, q) ELSE Got(m, q)
    <2>1. CASE m = Max32
      BY <1>1, <1>2, <1>5, <2>1 DEF SizeDecode
    <2>2. CASE m # Max32
      BY <1>1, <1>2, <1>5, <2>2 DEF SizeDecode
    <2> QED  BY <2>1, <2>2
  <1> QED  BY <1>3, <1>4, <1>5

(* A sequence of two is two sequences of one. *)
LEMMA Pair ==
  ASSUME NEW S, NEW a \in S, NEW t \in Seq(S), NEW b \in S
  PROVE  <<a, b>> \o t = <<a>> \o (<<b>> \o t)
  <1>1. /\ <<a>> \in Seq(S) /\ <<b>> \in Seq(S) /\ <<a, b>> \in Seq(S)
        /\ Len(<<a>>) = 1 /\ Len(<<b>>) = 1 /\ Len(<<a, b>>) = 2
        /\ <<a>>[1] = a /\ <<b>>[1] = b /\ <<a, b>>[1] = a /\ <<a, b>>[2] = b
    OBVIOUS
  <1>2. <<a>> \o <<b>> \in Seq(S) /\ Len(<<a>> \o <<b>>) = 2
    BY <1>1, ConcatProperties
  <1>3. (<<a>> \o <<b>>)[1] = a /\ (<<a>> \o <<b>>)[2] = b
    BY <1>1, ConcatProperties
  <1>4. \A i \in 1..2 : <<a, b>>[i] = (<<a>> \o <<b>>)[i]
    BY <1>1, <1>3
  <1>5. <<a, b>> = <<a>> \o <<b>>
    BY <1>1, <1>2, <1>4, SeqEqual
  <1> QED  BY <1>1, <1>5, ConcatAssociative

(* A sequence of three is three sequences of one. *)
LEMMA Triple ==
  \A S : \A a, b, c \in S, t \in Seq(S) : <<a, b, c>> \o t = <<a>> \o (<<b>> \o (<<c>> \o t))
  <1> SUFFICES ASSUME NEW S, NEW a \in S, NEW b \in S, NEW c \in S, NEW t \in Seq(S)
               PROVE  <<a, b, c>> \o t = <<a>> \o (<<b>> \o (<<c>> \o t))
    OBVIOUS
  <1>1. /\ <<a, b>> \in Seq(S) /\ <<c>> \in Seq(S) /\ <<a, b, c>> \in Seq(S)
        /\ Len(<<a, b>>) = 2 /\ Len(<<c>>) = 1 /\ Len(<<a, b, c>>) = 3
        /\ <<a, b>>[1] = a /\ <<a, b>>[2] = b /\ <<c>>[1] = c
        /\ <<a, b, c>>[1] = a /\ <<a, b, c>>[2] = b /\ <<a, b, c>>[3] = c
    OBVIOUS
  <1>2. <<a, b>> \o <<c>> \in Seq(S) /\ Len(<<a, b>> \o <<c>>) = 3
    BY <1>1, ConcatProperties
  <1>3. (<<a, b>> \o <<c>>)[1] = a /\ (<<a, b>> \o <<c>>)[2] = b /\ (<<a, b>> \o <<c>>)[3] = c
    BY <1>1, ConcatProperties
  <1>4. \A i \in 1..3 : <<a, b, c>>[i] = (<<a, b>> \o <<c>>)[i]
    BY <1>1, <1>3
  <1>5. <<a, b, c>> = <<a, b>> \o <<c>>
    BY <1>1, <1>2, <1>4, SeqEqual
  <1>6. <<a, b, c>> \o t = <<a, b>> \o (<<c>> \o t)
    BY <1>1, <1>5, ConcatAssociative
  <1> DEFINE u == <<c>> \o t
  <1>7. u \in Seq(S)  BY FirstAndRest
  <1> HIDE DEF u
  <1>8. <<a, b>> \o u = <<a>> \o (<<b>> \o u)  BY <1>7, Pair
  <1> QED  BY <1>6, <1>8 DEF u

(* A size, and -1 for "no size", is read back as it was written, and the   *)
(* reader stops where the size ends: the limits of the three forms that    *)
(* PVSize.PVEncode chooses from are those by which PVDecode tells them     *)
(* apart.                                                                  *)
THEOREM SizesReadBack ==
  ASSUME NEW v \in Int, v >= -1, NEW S, NEW in \in Seq(S)
  PROVE  SizeDecode(SizeEncode(v) \o in) = Got(v, in)
  <1> DEFINE a == Byte(IF v < 0 THEN Max8 + 1 ELSE IF v < Max8 THEN v ELSE Max8)
             b == Token(4, IF v < Max32 THEN v ELSE Max32)
             c == Token(8, v)
             T == S \cup {a, b, c}
             in2 == <<c>> \o in
             in1 == <<b>> \o in
             in12 == <<b>> \o in2
  <1>0. Max8 \in Nat /\ Max32 \in Nat /\ Max8 < Max32  BY SizeAssumption
  <1>1. in \in Seq(T)  BY SeqMonotonic
  <1>2. in1 \in Seq(T) /\ in2 \in Seq(T)
    BY <1>1, FirstAndRest
  <1>3. in12 \in Seq(T)
    BY <1>2, FirstAndRest
  <1>4. ASSUME NEW x \in Seq(T)
        PROVE  /\ Read(1, <<a>> \o x) = Got(a.n, x)
               /\ Read(4, <<b>> \o x) = Got(b.n, x)
               /\ Read(8, <<c>> \o x) = Got(c.n, x)
    <2>1. /\ a = Token(1, a.n) /\ a \in T
          /\ b = Token(4, b.n) /\ b \in T
          /\ c = Token(8, c.n) /\ c \in T
      BY DEF Byte, Token
    <2> HIDE DEF a, b, c
    <2> QED  BY <2>1, ReadFirst
  <1>6. CASE v < 0
    <2>1. v = -1  BY <1>6
    <2>2. SizeEncode(v) = <<a>> /\ a.n = Max8 + 1
      BY <1>0, <1>6 DEF SizeEncode, Byte, Token
    <2> HIDE DEF a, b, c
    <2>3. Read(1, <<a>> \o in) = Got(Max8 + 1, in)  BY <1>1, <1>4, <2>2
    <2>4. SizeDecode(<<a>> \o in) = Got(-1, in)  BY <1>0, <2>3, DecodeForms
    <2> QED  BY <2>1, <2>2, <2>4
  <1>7. CASE 0 <= v /\ v < Max8
    <2>1. SizeEncode(v) = <<a>> /\ a.n = v
      BY <1>0, <1>7 DEF SizeEncode, Byte, Token
    <2>2. v \notin {Max8, Max8 + 1}  BY <1>0, <1>7
    <2> HIDE DEF a, b, c
    <2>3. Read(1, <<a>> \o in) = Got(v, in)  BY <1>1, <1>4, <2>1
    <2>4. SizeDecode(<<a>> \o in) = Got(v, in)  BY <2>2, <2>3, DecodeForms
    <2> QED  BY <2>1, <2>4
  <1>8. CASE Max8 <= v /\ v < Max32
    <2>1. SizeEncode(v) = <<a, b>> /\ a.n = Max8 /\ b.n = v
      BY <1>0, <1>8 DEF SizeEncode, Byte, Token
    <2>2. a \in T /\ b \in T  OBVIOUS
    <2> HIDE DEF a, b, c, T
    <2>3. <<a, b>> \o in = <<a>> \o in1
      BY <1>1, <2>2, Pair
    <2>4. Read(1, <<a>> \o in1) = Got(Max8, in1) /\ Read(4, in1) = Got(v, in)
      BY <1>1, <1>2, <1>4, <2>1
    <2>5. v # Max32  BY <1>0, <1>8
    <2> HIDE DEF in1
    <2>6. SizeDecode(<<a>> \o in1) = Got(v, in)  BY <1>0, <2>4, <2>5, DecodeForms
    <2> QED  BY <2>1, <2>3, <2>6
  <1>9. CASE Max32 <= v
    <2>1. SizeEncode(v) = <<a, b, c>> /\ a.n = Max8 /\ b.n = Max32 /\ c.n = v
      BY <1>0, <1>9 DEF SizeEncode, Byte, Token
    <2>2. a \in T /\ b \in T /\ c \in T  OBVIOUS
    <2> HIDE DEF a, b, c, T
    <2>3. <<a, b, c>> \o in = <<a>> \o in12
      BY <1>1, <2>2, Triple
    <2>4. /\ Read(1, <<a>> \o in12) = Got(Max8, in12)
          /\ Read(4, in12) = Got(Max32, in2)
          /\ Read(8, in2) = Got(v, in)
      BY <1>1, <1>2, <1>3, <1>4, <2>1
    <2> HIDE DEF in12, in2
    <2>5. SizeDecode(<<a>> \o in12) = Got(v, in)  BY <1>0, <2>4, DecodeForms
    <2> QED  BY <2>1, <2>3, <2>5
  <1> QED  BY <1>0, <1>6, <1>7, <1>8, <1>9

(* Tokens that hold numbers, which a size is written as. *)
Numbers == [w : Int, n : Int]

LEMMA SizeSeq ==
  ASSUME NEW v \in Int, NEW T, Numbers \subseteq T
  PROVE  SizeEncode(v) \in Seq(T)
  <1>1. \A w, n \in Int : Token(w, n) \in T  BY DEF Token, Numbers
  <1>2. \A n \in Int : Byte(n) \in T  BY <1>1 DEF Byte
  <1>3. Max8 \in Int /\ Max32 \in Int /\ Max8 + 1 \in Int
    BY SizeAssumption
  <1>4. /\ <<Byte(Max8 + 1)>> \in Seq(T) /\ <<Byte(v)>> \in Seq(T)
        /\ <<Byte(Max8), Token(4, v)>> \in Seq(T)
        /\ <<Byte(Max8), Token(4, Max32), Token(8, v)>> \in Seq(T)
    BY <1>1, <1>2, <1>3
  <1>5. SizeEncode(v) \in {<<Byte(Max8 + 1)>>, <<Byte(v)>>, <<Byte(Max8), Token(4, v)>>,
                           <<Byte(Max8), Token(4, Max32), Token(8, v)>>}
    BY <1>3 DEF SizeEncode
  <1> QED  BY <1>4, <1>5

----------------------------------------------------------------------------
(* Arithmetic. *)

LEMMA DivMod ==
  ASSUME NEW a \in Nat, NEW d \in Nat \ {0}
  PROVE  /\ a \div d \in Nat /\ a % d \in 0..(d - 1)
         /\ a = (a \div d) * d + (a % d)
  OBVIOUS

LEMMA MulMono ==
  ASSUME NEW a \in Int, NEW b \in Int, NEW d \in Nat, a <= b
  PROVE  a * d <= b * d
  OBVIOUS
LEMMA MulMono1 ==
  ASSUME NEW a \in Int, NEW b \in Int, NEW d \in Nat \ {0}, a * d < b * d
  PROVE  a < b
<1> SUFFICES ASSUME b <= a PROVE FALSE
  OBVIOUS
<1> QED BY MulMono
LEMMA Distr ==
  ASSUME NEW a \in Int, NEW b \in Int, NEW d \in Int
  PROVE  (a + b) * d = a * d + b * d /\ (a - b) * d = a * d - b * d /\ a * d \in Int
  OBVIOUS

(* The unique quotient: b in the q-th block of d. *)
LEMMA Block ==
  ASSUME NEW b \in Nat, NEW d \in Nat \ {0}, NEW m \in Nat, b < m * d
  PROVE  b \div d \in 0..(m - 1)
<1>1. b \div d \in Nat /\ b = (b \div d) * d + (b % d) /\ b % d \in 0..(d - 1)
  BY DivMod
<1>2. (b \div d) * d < m * d
  <2> (b \div d) * d \in Int
   BY <1>1
  <2> QED BY <1>1
<1>3. b \div d < m
  BY <1>1, <1>2, MulMono1
<1> QED BY <1>1, <1>3

----------------------------------------------------------------------------
LEMMA LeastElement ==
  ASSUME NEW T, T \subseteq Nat, T # {}
  PROVE  \E x \in T : \A y \in T : x <= y
  <1> DEFINE R == OpToRel(<, Nat)
  <1>1. IsWellFoundedOn(R, Nat)  BY NatLessThanWellFounded
  <1>2. \A x, y \in Nat : y < x => <<y, x>> \in R  BY DEF OpToRel
  <1> HIDE DEF R
  <1>3. PICK x \in T : \A y \in T : <<y, x>> \notin R  BY <1>1, WFMin
  <1>4. ASSUME NEW y \in T PROVE x <= y
    <2>1. x \in Nat /\ y \in Nat /\ ~(y < x)  BY <1>2, <1>3
    <2> QED  BY <2>1
  <1> QED  BY <1>4

(* A bounded set of numbers has a greatest one. *)
LEMMA GreatestElement ==
  ASSUME NEW n \in Nat, NEW S, S \subseteq 0..n, S # {}
  PROVE  \E x \in S : \A y \in S : y <= x
  <1> DEFINE T == {n - y : y \in S}
  <1>1. T \subseteq Nat /\ T # {}
    <2>1. \A y \in S : n - y \in Nat  OBVIOUS
    <2> QED  BY <2>1
  <1>2. PICK m \in T : \A t \in T : m <= t
    <2> HIDE DEF T
    <2> QED  BY <1>1, LeastElement
  <1>3. PICK x \in S : m = n - x  BY <1>2
  <1>4. ASSUME NEW y \in S PROVE y <= x
    <2>1. n - y \in T /\ y \in 0..n /\ x \in 0..n  OBVIOUS
    <2>2. n - x <= n - y  BY <1>2, <1>3, <2>1
    <2> QED  BY <2>1, <2>2
  <1> QED  BY <1>4

LEMMA MaxLemma ==
  ASSUME NEW S, S \subseteq Int, NEW m \in S, \A y \in S : y <= m
  PROVE  Max(S) = m
  <1> DEFINE x == CHOOSE x \in S : \A y \in S : x >= y
  <1>1. x \in S /\ \A y \in S : x >= y
    <2>1. \A y \in S : m >= y  OBVIOUS
    <2> QED  BY <2>1
  <1>2. x = Max(S)  BY DEF Max
  <1> HIDE DEF x
  <1> QED  BY <1>1, <1>2

(* Taking a sequence apart where two were put together. *)
LEMMA TakeApart ==
  ASSUME NEW S, NEW s \in Seq(S), NEW t \in Seq(S)
  PROVE  /\ SubSeq(s \o t, 1, Len(s)) = s
         /\ SubSeq(s \o t, Len(s) + 1, Len(s \o t)) = t
  <1> DEFINE c == s \o t
             m == Len(s)
             n == Len(t)
  <1>1. m \in Nat /\ n \in Nat  BY LenProperties
  <1>2. /\ c \in Seq(S) /\ Len(c) = m + n
        /\ \A i \in 1..(m + n) : c[i] = IF i <= m THEN s[i] ELSE t[i - m]
    BY ConcatProperties
  <1>3. /\ \A i \in 1..m : s[i] \in S
        /\ \A i \in 1..n : t[i] \in S
        /\ \A i \in 1..(m + n) : c[i] \in S
    BY <1>2, ElementOfSeq
  <1> HIDE DEF c, m, n
  <1>4. SubSeq(c, 1, m) = s
    <2>1. /\ SubSeq(c, 1, m) \in Seq(S) /\ Len(SubSeq(c, 1, m)) = m
          /\ \A i \in 1..m : SubSeq(c, 1, m)[i] = c[i]
      <3>1. \A i \in 1..m : c[i] \in S  BY <1>1, <1>3
      <3>2. /\ SubSeq(c, 1, m) \in Seq(S) /\ Len(SubSeq(c, 1, m)) = IF 1 <= m THEN m - 1 + 1 ELSE 0
            /\ \A i \in 1..(m - 1 + 1) : SubSeq(c, 1, m)[i] = c[1 + i - 1]
        BY <1>1, <3>1, SubSeqProperties
      <3> QED  BY <1>1, <3>2
    <2>2. \A i \in 1..m : SubSeq(c, 1, m)[i] = s[i]  BY <1>1, <1>2, <2>1
    <2> QED  BY <2>1, <2>2, SeqEqual DEF m
  <1>5. SubSeq(c, m + 1, m + n) = t
    <2> DEFINE u == SubSeq(c, m + 1, m + n)
    <2>1. u \in Seq(S) /\ Len(u) = n /\ \A i \in 1..n : u[i] = c[m + i]
      <3>1. \A i \in (m + 1)..(m + n) : c[i] \in S  BY <1>1, <1>3
      <3>2. /\ u \in Seq(S)
            /\ Len(u) = IF m + 1 <= m + n THEN (m + n) - (m + 1) + 1 ELSE 0
            /\ \A i \in 1..((m + n) - (m + 1) + 1) : u[i] = c[(m + 1) + i - 1]
        BY <1>1, <3>1, SubSeqProperties
      <3> HIDE DEF u
      <3>3. (m + n) - (m + 1) + 1 = n /\ \A i \in 1..n : (m + 1) + i - 1 = m + i
        BY <1>1
      <3> QED  BY <1>1, <3>2, <3>3
    <2> HIDE DEF u
    <2>2. \A i \in 1..n : u[i] = t[i]  BY <1>1, <1>2, <2>1
    <2>3. u = t  BY <2>1, <2>2, SeqEqual DEF n
    <2> QED  BY <2>3 DEF u
  <1> QED  BY <1>2, <1>4, <1>5 DEF c, m, n

----------------------------------------------------------------------------
(* The parts that PVBitSet.PVEncode writes. *)

ByteCount(present) == (Len(present) + ByteBits - 1) \div ByteBits

Words(present) ==
  [i \in 1..Longs(ByteCount(present)) |->
     Token(WordBytes, Bits(present, (i - 1) * WordBits, WordBits))]

Bytes(present) ==
  [i \in 1..(ByteCount(present) % WordBytes) |->
     Byte(Bits(present, Longs(ByteCount(present)) * WordBits + (i - 1) * ByteBits, ByteBits))]

BitTokens == [w : Nat, n : SUBSET Int]

(* The bytes hold every bit, and are the longs and the bytes after them. *)
LEMMA CountLemma ==
  ASSUME NEW present \in Seq(BOOLEAN)
  PROVE  LET size == ByteCount(present)
             words == Longs(size)
         IN  /\ size \in Nat /\ words \in Nat
             /\ size % WordBytes \in Nat
             /\ size = words * WordBytes + (size % WordBytes)
             /\ Len(present) \in Nat /\ Len(present) <= size * ByteBits
  <1> DEFINE L == Len(present)
             size == ByteCount(present)
             words == Longs(size)
             a == L + ByteBits - 1
  <1>1. L \in Nat  BY LenProperties
  <1>2. ByteBits \in Nat \ {0} /\ WordBytes \in Nat \ {0}  BY BitsAssumption
  <1>3. a \in Nat  BY <1>1, <1>2
  <1>4. /\ a \div ByteBits \in Nat /\ a % ByteBits \in 0..(ByteBits - 1)
        /\ a = (a \div ByteBits) * ByteBits + (a % ByteBits)
    <2> HIDE DEF a
    <2> QED  BY <1>2, <1>3, DivMod
  <1>5. size = a \div ByteBits  BY DEF ByteCount
  <1>6. size \in Nat /\ L <= size * ByteBits
    <2>1. size * ByteBits \in Int /\ a = size * ByteBits + (a % ByteBits)
      BY <1>2, <1>4, <1>5
    <2> HIDE DEF size, L
    <2> QED  BY <1>1, <1>2, <1>4, <1>5, <2>1
  <1> HIDE DEF size
  <1>7. /\ words \in Nat /\ size % WordBytes \in 0..(WordBytes - 1)
        /\ size = words * WordBytes + (size % WordBytes)
    BY <1>2, <1>6, DivMod DEF Longs
  <1>8. size % WordBytes \in Nat  BY <1>2, <1>7
  <1> QED  BY <1>1, <1>6, <1>7, <1>8 DEF size

LEMMA WordsLemma ==
  ASSUME NEW present \in Seq(BOOLEAN)
  PROVE  LET words == Longs(ByteCount(present))
         IN  /\ Words(present) \in Seq(BitTokens) /\ Len(Words(present)) = words
             /\ \A i \in 1..words : Words(present)[i] =
                  Token(WordBytes, Bits(present, (i - 1) * WordBits, WordBits))
  <1> DEFINE words == Longs(ByteCount(present))
             B(i) == Bits(present, (i - 1) * WordBits, WordBits)
  <1>1. words \in Nat  BY CountLemma
  <1>2. \A i \in 1..words : Token(WordBytes, B(i)) \in BitTokens
    <2>1. \A i \in 1..words : B(i) \in SUBSET Int  BY DEF Bits
    <2>2. WordBytes \in Nat  BY BitsAssumption
    <2> HIDE DEF B
    <2> QED  BY <2>1, <2>2 DEF Token, BitTokens
  <1>3. Words(present) = [i \in 1..words |-> Token(WordBytes, B(i))]  BY DEF Words
  <1> HIDE DEF words, B
  <1>4. Words(present) \in [1..words -> BitTokens]  BY <1>2, <1>3
  <1>5. Words(present) \in Seq(BitTokens) /\ Len(Words(present)) = words  BY <1>1, <1>4
  <1>6. \A i \in 1..words : Words(present)[i] = Token(WordBytes, B(i))  BY <1>3
  <1> QED  BY <1>5, <1>6 DEF words, B

LEMMA BytesLemma ==
  ASSUME NEW present \in Seq(BOOLEAN)
  PROVE  LET words == Longs(ByteCount(present))
             bytes == ByteCount(present) % WordBytes
         IN  /\ Bytes(present) \in Seq(BitTokens) /\ Len(Bytes(present)) = bytes
             /\ \A i \in 1..bytes : Bytes(present)[i] =
                  Token(1, Bits(present, words * WordBits + (i - 1) * ByteBits, ByteBits))
  <1> DEFINE words == Longs(ByteCount(present))
             bytes == ByteCount(present) % WordBytes
             B(i) == Bits(present, words * WordBits + (i - 1) * ByteBits, ByteBits)
  <1>1. bytes \in Nat  BY CountLemma
  <1>2. \A i \in 1..bytes : Token(1, B(i)) \in BitTokens
    <2>1. \A i \in 1..bytes : B(i) \in SUBSET Int  BY DEF Bits
    <2> HIDE DEF B
    <2> QED  BY <2>1 DEF Token, BitTokens
  <1>3. Bytes(present) = [i \in 1..bytes |-> Token(1, B(i))]  BY DEF Bytes, Byte
  <1> HIDE DEF bytes, B
  <1>4. Bytes(present) \in [1..bytes -> BitTokens]  BY <1>2, <1>3
  <1>5. Bytes(present) \in Seq(BitTokens) /\ Len(Bytes(present)) = bytes  BY <1>1, <1>4
  <1>6. \A i \in 1..bytes : Bytes(present)[i] = Token(1, B(i))  BY <1>3
  <1> QED  BY <1>5, <1>6 DEF bytes, B

(* A bit is read from where it was written. *)
LEMMA BitLemma ==
  ASSUME NEW present \in Seq(BOOLEAN),
         NEW b \in 0..(ByteCount(present) * ByteBits - 1)
  PROVE  BitAt(Words(present) \o Bytes(present), Longs(ByteCount(present)), b)
           <=> Get(present, b)
  <1> DEFINE size == ByteCount(present)
             words == Longs(size)
             bytes == size % WordBytes
             ws == Words(present)
             bs == Bytes(present)
             tokens == ws \o bs
             D == WordBits
  <1>1. ByteBits \in Nat \ {0} /\ WordBytes \in Nat \ {0}  BY BitsAssumption
  <1>2. /\ size \in Nat /\ words \in Nat /\ bytes \in Nat
        /\ size = words * WordBytes + bytes
    BY CountLemma
  <1>3. D \in Nat \ {0} /\ D = ByteBits * WordBytes  BY <1>1 DEF WordBits
  <1>4. b \in Nat /\ b < size * ByteBits
    <2>1. size * ByteBits \in Int  BY <1>1, <1>2
    <2> HIDE DEF size
    <2> QED  BY <2>1 DEF size
  <1>5. /\ ws \in Seq(BitTokens) /\ Len(ws) = words
        /\ \A i \in 1..words : ws[i] = Token(WordBytes, Bits(present, (i - 1) * D, D))
    BY WordsLemma
  <1>6. /\ bs \in Seq(BitTokens) /\ Len(bs) = bytes
        /\ \A i \in 1..bytes : bs[i] = Token(1, Bits(present, words * D + (i - 1) * ByteBits, ByteBits))
    BY BytesLemma
  <1>7. \A i \in 1..(words + bytes) : tokens[i] = IF i <= words THEN ws[i] ELSE bs[i - words]
    <2> HIDE DEF size, words, bytes, ws, bs
    <2> QED  BY <1>5, <1>6, ConcatProperties
  <1>8. ASSUME NEW first \in Int, NEW n \in Int, NEW j \in 0..(n - 1)
        PROVE  j \in Bits(present, first, n) <=> Get(present, first + j)
    BY <1>8 DEF Bits
  <1>9. \A w, v : Token(w, v).n = v  BY DEF Token
  <1> HIDE DEF size, words, bytes, ws, bs, tokens, D
  <1>10. CASE b < words * D
    <2> DEFINE q == b \div D
               j == b % D
    <2>1. q \in 0..(words - 1)  BY <1>2, <1>3, <1>4, <1>10, Block
    <2>2. j \in 0..(D - 1) /\ b = q * D + j  BY <1>3, <1>4, DivMod
    <2> HIDE DEF q, j
    <2>3. /\ q + 1 \in 1..words /\ q + 1 \in 1..(words + bytes) /\ q + 1 <= words
          /\ (q + 1) - 1 = q /\ q * D \in Int
      BY <1>2, <1>3, <2>1
    <2>4. tokens[q + 1] = Token(WordBytes, Bits(present, q * D, D))
      BY <1>5, <1>7, <2>3
    <2>5. j \in tokens[q + 1].n <=> Get(present, b)
      <3>1. tokens[q + 1].n = Bits(present, q * D, D)  BY <1>9, <2>4
      <3>2. j \in Bits(present, q * D, D) <=> Get(present, q * D + j)
        <4>1. q * D \in Int /\ D \in Int /\ j \in 0..(D - 1)  BY <1>3, <2>2, <2>3
        <4> DEFINE f == q * D
        <4> HIDE DEF f
        <4> QED  BY <1>8, <4>1 DEF f
      <3> QED  BY <2>2, <3>1, <3>2
    <2>6. BitAt(tokens, words, b) <=> j \in tokens[q + 1].n
      BY <1>10 DEF BitAt, D, q, j
    <2> QED  BY <2>5, <2>6 DEF tokens, ws, bs, words, size
  <1>11. CASE ~(b < words * D)
    <2> DEFINE k == b \div ByteBits
               j == b % ByteBits
               i == k - words * WordBytes + 1
    <2>1. k \in 0..(size - 1)  BY <1>1, <1>2, <1>4, Block
    <2>2. j \in 0..(ByteBits - 1) /\ b = k * ByteBits + j  BY <1>1, <1>4, DivMod
    <2> HIDE DEF k, j
    <2>3. words * D = (words * WordBytes) * ByteBits /\ words * WordBytes \in Nat
      BY <1>1, <1>2, <1>3
    <2> DEFINE m == words * WordBytes
    <2>4. m \in Nat /\ words * D = m * ByteBits /\ size = m + bytes  BY <1>2, <2>3
    <2> HIDE DEF m
    <2>5. m <= k
      <3> SUFFICES ASSUME k + 1 <= m PROVE FALSE
        BY <2>1, <2>4
      <3>1. (k + 1) * ByteBits <= m * ByteBits
        BY <1>1, <2>1, <2>4, MulMono
      <3>2. (k + 1) * ByteBits = k * ByteBits + ByteBits /\ k * ByteBits \in Int /\ m * ByteBits \in Int
        BY <1>1, <2>1, <2>4
      <3>3. b < k * ByteBits + ByteBits  BY <1>1, <2>2, <3>2
      <3> DEFINE x == k * ByteBits
                 y == m * ByteBits
      <3>4. b >= y  BY <1>4, <1>11, <2>4, <3>2
      <3> HIDE DEF x, y
      <3>5. x \in Int /\ y \in Int /\ x + ByteBits <= y /\ b < x + ByteBits
        BY <3>1, <3>2, <3>3 DEF x, y
      <3> QED  BY <1>1, <1>4, <3>4, <3>5
    <2>6. i = k - m + 1  BY DEF m
    <2>7. i \in 1..bytes /\ i - 1 = k - m /\ words + i \in 1..(words + bytes)
          /\ ~(words + i <= words) /\ (words + i) - words = i
      BY <1>2, <2>1, <2>4, <2>5, <2>6
    <2>8. words * D + (i - 1) * ByteBits = k * ByteBits /\ k * ByteBits \in Int
      <3>1. (k - m) * ByteBits = k * ByteBits - m * ByteBits
            /\ k * ByteBits \in Int /\ m * ByteBits \in Int
        BY <1>1, <2>1, <2>4, Distr
      <3> QED  BY <2>4, <2>7, <3>1
    <2>9. words + k - words * WordBytes + 1 = words + i
      BY <1>2, <2>1, <2>4, <2>6 DEF m
    <2> HIDE DEF i
    <2>10. tokens[words + i] = Token(1, Bits(present, k * ByteBits, ByteBits))
      BY <1>6, <1>7, <2>7, <2>8
    <2>11. j \in tokens[words + i].n <=> Get(present, b)
      <3>1. tokens[words + i].n = Bits(present, k * ByteBits, ByteBits)  BY <1>9, <2>10
      <3>2. j \in Bits(present, k * ByteBits, ByteBits) <=> Get(present, k * ByteBits + j)
        <4>1. ByteBits \in Int /\ j \in 0..(ByteBits - 1)  BY <1>1, <2>2
        <4> DEFINE f == k * ByteBits
        <4> HIDE DEF f
        <4> QED  BY <1>8, <2>8, <4>1 DEF f
      <3> QED  BY <2>2, <3>1, <3>2
    <2>12. BitAt(tokens, words, b) <=> j \in tokens[words + k - words * WordBytes + 1].n
      BY <1>11 DEF BitAt, D, k, j
    <2> QED  BY <2>9, <2>11, <2>12 DEF tokens, ws, bs, words, size
  <1> QED  BY <1>10, <1>11

(* Cutting off after the last bit that is set. *)
LEMMA TrimLemma ==
  ASSUME NEW present \in Seq(BOOLEAN), NEW N \in Nat, Len(present) <= N
  PROVE  LET set == {b \in 0..(N - 1) : Get(present, b)}
         IN  [i \in 1..(Max(set \cup {-1}) + 1) |-> i - 1 \in set] = Trimmed(present)
  <1> DEFINE L == Len(present)
             set == {b \in 0..(N - 1) : Get(present, b)}
             P == {i \in DOMAIN present : present[i]} \cup {0}
  <1>1. /\ L \in Nat /\ DOMAIN present = 1..L
        /\ \A i \in 1..L : present[i] \in BOOLEAN
    BY LenProperties, ElementOfSeq
  <1>2. PICK m \in P : \A y \in P : y <= m
    <2>1. P \subseteq 0..L /\ P # {}  BY <1>1
    <2> HIDE DEF P, L
    <2> QED  BY <1>1, <2>1, GreatestElement
  <1>3. m \in 0..L  BY <1>1
  <1>4. Max(P) = m
    <2>1. P \subseteq Int  BY <1>1
    <2> HIDE DEF P
    <2> QED  BY <1>2, <2>1, MaxLemma
  <1>5. \A b \in Int : b \in set <=> b + 1 \in P /\ b >= 0
    <2>1. \A b \in Int : b \in set <=> b \in 0..(N - 1) /\ b < L /\ present[b + 1]
      BY DEF Get
    <2> QED  BY <1>1, <2>1
  <1>6. Max(set \cup {-1}) = m - 1
    <2>1. set \cup {-1} \subseteq Int  OBVIOUS
    <2>2. m - 1 \in set \cup {-1}
      <3> HIDE DEF set, P
      <3> QED  BY <1>2, <1>3, <1>5
    <2>3. ASSUME NEW y \in set \cup {-1} PROVE y <= m - 1
      <3>1. CASE y \in set
        <4>1. y \in Int  BY <2>1
        <4> HIDE DEF set, P
        <4>2. y + 1 \in P  BY <1>5, <3>1, <4>1
        <4>3. y + 1 <= m  BY <1>2, <4>2
        <4> QED  BY <1>3, <4>1, <4>3
      <3>2. CASE y = -1
        BY <1>3, <3>2
      <3> QED  BY <3>1, <3>2
    <2> DEFINE T == set \cup {-1}
    <2> HIDE DEF T
    <2>4. Max(T) = m - 1  BY <2>1, <2>2, <2>3, MaxLemma DEF T
    <2> QED  BY <2>4 DEF T
  <1>7. \A i \in 1..m : (i - 1 \in set) = present[i]
    <2>1. ASSUME NEW i \in 1..m PROVE (i - 1 \in set) = present[i]
      <3>1. i \in 1..L /\ i - 1 \in Int /\ (i - 1) + 1 = i /\ i - 1 >= 0 /\ i # 0  BY <1>3
      <3>2. i \in P <=> present[i]  BY <1>1, <3>1
      <3>3. i - 1 \in set <=> present[i]
        <4> HIDE DEF set, P
        <4> QED  BY <1>5, <3>1, <3>2
      <3>4. present[i] \in BOOLEAN  BY <1>1, <3>1
      <3> HIDE DEF set
      <3> QED  BY <3>3, <3>4
    <2> QED  BY <2>1
  <1>8. Trimmed(present) = SubSeq(present, 1, m)  BY <1>4 DEF Trimmed
  <1>9. SubSeq(present, 1, m) = [i \in 1..m |-> present[i]]
    <2>1. \A i \in 1..m : present[i] \in BOOLEAN  BY <1>1, <1>3
    <2> DEFINE t == SubSeq(present, 1, m)
    <2>2. /\ t \in Seq(BOOLEAN) /\ Len(t) = IF 1 <= m THEN m - 1 + 1 ELSE 0
          /\ \A i \in 1..(m - 1 + 1) : t[i] = present[1 + i - 1]
      BY <1>3, <2>1, SubSeqProperties
    <2> HIDE DEF t
    <2>3. Len(t) = m /\ \A i \in 1..m : t[i] = present[i]
      BY <1>1, <1>3, <2>2
    <2>4. t = [i \in 1..m |-> t[i]]
      BY <2>2, <2>3, LenProperties
    <2> QED  BY <2>3, <2>4 DEF t
  <1>10. (m - 1) + 1 = m  BY <1>3
  <1> HIDE DEF set, P
  <1>11. [i \in 1..m |-> i - 1 \in set] = [i \in 1..m |-> present[i]]
    BY <1>7
  <1> QED  BY <1>6, <1>8, <1>9, <1>10, <1>11 DEF set

(* A bit set is read back without the FALSE bits at its end, whatever its  *)
(* length and the number of bits in a byte and of bytes in a long, and the *)
(* reader stops where the bit set ends: PVBitSet.PVDecode takes as many    *)
(* longs and bytes as PVEncode wrote, and looks for each bit where it is.  *)
THEOREM BitSetsReadBack ==
  ASSUME NEW present \in Seq(BOOLEAN), NEW S, NEW in \in Seq(S)
  PROVE  BitSetDecode(BitSetEncode(present) \o in) = Got(Trimmed(present), in)
  <1> DEFINE size == ByteCount(present)
             words == Longs(size)
             bytes == size % WordBytes
             ws == Words(present)
             bs == Bytes(present)
             tokens == ws \o bs
             rest == tokens \o in
             T == S \cup BitTokens \cup Numbers
  <1>1. /\ size \in Nat /\ words \in Nat /\ bytes \in Nat
        /\ size = words * WordBytes + bytes
        /\ Len(present) \in Nat /\ Len(present) <= size * ByteBits
    BY CountLemma
  <1>2. /\ ws \in Seq(BitTokens) /\ Len(ws) = words
        /\ \A i \in 1..words : ws[i].w = WordBytes
    <2>1. /\ ws \in Seq(BitTokens) /\ Len(ws) = words
          /\ \A i \in 1..words : ws[i] = Token(WordBytes, Bits(present, (i - 1) * WordBits, WordBits))
      BY WordsLemma
    <2> HIDE DEF ws, words
    <2> QED  BY <2>1 DEF Token
  <1>3. /\ bs \in Seq(BitTokens) /\ Len(bs) = bytes
        /\ \A i \in 1..bytes : bs[i].w = 1
    <2>1. /\ bs \in Seq(BitTokens) /\ Len(bs) = bytes
          /\ \A i \in 1..bytes : bs[i] =
               Token(1, Bits(present, words * WordBits + (i - 1) * ByteBits, ByteBits))
      BY BytesLemma
    <2> HIDE DEF bs, bytes, words
    <2> QED  BY <2>1 DEF Token
  <1>4. BitSetEncode(present) = (SizeEncode(size) \o ws) \o bs
    BY DEF BitSetEncode, Words, Bytes, ByteCount, Longs
  <1>5. SizeEncode(size) \in Seq(T)
    <2>1. size \in Int /\ Numbers \subseteq T  BY <1>1
    <2> HIDE DEF T, size
    <2> QED  BY <2>1, SizeSeq
  <1>6. in \in Seq(T) /\ ws \in Seq(T) /\ bs \in Seq(T)
    <2>1. S \subseteq T /\ BitTokens \subseteq T  OBVIOUS
    <2> HIDE DEF T, ws, bs
    <2> QED  BY <1>2, <1>3, <2>1, SeqMonotonic
  <1> HIDE DEF T, ws, bs
  <1>7. /\ tokens \in Seq(T) /\ Len(tokens) = words + bytes
        /\ \A i \in 1..(words + bytes) : tokens[i] = IF i <= words THEN ws[i] ELSE bs[i - words]
    <2> HIDE DEF words, bytes
    <2> QED  BY <1>2, <1>3, <1>6, ConcatProperties
  <1>8. BitSetEncode(present) \o in = SizeEncode(size) \o rest
    <2> DEFINE sz == SizeEncode(size)
    <2> HIDE DEF sz
    <2>1. sz \in Seq(T)  BY <1>5 DEF sz
    <2>2. (sz \o ws) \o bs = sz \o tokens  BY <1>6, <2>1, ConcatAssociative, SMTT(40)
    <2>3. tokens \in Seq(T)  BY <1>7
    <2> HIDE DEF tokens
    <2>4. (sz \o tokens) \o in = sz \o rest  BY <1>6, <2>1, <2>3, ConcatAssociative, SMTT(40)
    <2> QED  BY <1>4, <2>2, <2>4 DEF sz
  <1>9. rest \in Seq(T) /\ Len(rest) = words + bytes + Len(in) /\ Len(in) \in Nat
    <2> HIDE DEF tokens, words, bytes
    <2> QED  BY <1>6, <1>7, ConcatProperties, LenProperties
  <1>10. /\ SubSeq(rest, 1, words + bytes) = tokens
         /\ SubSeq(rest, words + bytes + 1, Len(rest)) = in
    <2> HIDE DEF tokens, words, bytes
    <2>1. /\ SubSeq(rest, 1, Len(tokens)) = tokens
          /\ SubSeq(rest, Len(tokens) + 1, Len(rest)) = in
      BY <1>6, <1>7, TakeApart
    <2> QED  BY <1>7, <2>1
  <1>11. SizeDecode(SizeEncode(size) \o rest) = Got(size, rest)
    <2>1. size \in Int /\ size >= -1  BY <1>1
    <2> HIDE DEF rest, size
    <2> QED  BY <1>9, <2>1, SizesReadBack
  <1> HIDE DEF rest, tokens
  <1>12. words + size - words * WordBytes = words + bytes
    <2> DEFINE m == words * WordBytes
    <2>1. m \in Int /\ size = m + bytes  BY <1>1, BitsAssumption
    <2> HIDE DEF m, size, words, bytes
    <2>2. words + size - m = words + bytes  BY <1>1, <2>1
    <2> QED  BY <2>2 DEF m
  <1>13. \A i \in 1..(words + bytes) : tokens[i].w = IF i <= words THEN WordBytes ELSE 1
    <2> HIDE DEF words, bytes, size
    <2>1. ASSUME NEW i \in 1..(words + bytes) PROVE tokens[i].w = IF i <= words THEN WordBytes ELSE 1
      <3>1. CASE i <= words
        <4>1. i \in 1..words  BY <1>1, <3>1
        <4> QED  BY <1>2, <1>7, <3>1, <4>1
      <3>2. CASE ~(i <= words)
        <4>1. i - words \in 1..bytes  BY <1>1, <3>2
        <4> QED  BY <1>3, <1>7, <3>2, <4>1
      <3> QED  BY <3>1, <3>2
    <2> QED  BY <2>1
  <1> DEFINE set == {b \in 0..(size * ByteBits - 1) : BitAt(tokens, words, b)}
             seq == [i \in 1..(Max(set \cup {-1}) + 1) |-> i - 1 \in set]
  <1>14. set = {b \in 0..(size * ByteBits - 1) : Get(present, b)}
    BY BitLemma DEF tokens, ws, bs
  <1>15. seq = Trimmed(present)
    <2> DEFINE N == size * ByteBits
    <2> HIDE DEF size
    <2>1. N \in Nat /\ Len(present) <= N  BY <1>1, BitsAssumption
    <2> HIDE DEF N
    <2> QED  BY <1>14, <2>1, TrimLemma DEF N
  <1>16. /\ Got(size, rest).ok /\ Got(size, rest).v = size /\ Got(size, rest).rest = rest
    BY DEF Got
  <1>17. Len(rest) >= words + bytes
    <2> HIDE DEF size, words, bytes
    <2> QED  BY <1>1, <1>9
  <1>18. BitSetDecode(SizeEncode(size) \o rest) =
          Got(seq, SubSeq(rest, words + bytes + 1, Len(rest)))
    <2> DEFINE x == SizeEncode(size) \o rest
    <2>1. SizeDecode(x).ok /\ SizeDecode(x).v = size /\ SizeDecode(x).rest = rest
      BY <1>11, <1>16
    <2> HIDE DEF x, size, bytes
    <2>2. BitSetDecode(x) = Got(seq, SubSeq(rest, words + bytes + 1, Len(rest)))
      BY <1>10, <1>12, <1>13, <1>17, <2>1 DEF BitSetDecode
    <2> QED  BY <2>2 DEF x
  <1> QED  BY <1>8, <1>10, <1>15, <1>18

LEMMA GotFields ==
  ASSUME NEW r, NEW v, NEW rest, r = Got(v, rest)
  PROVE  r.ok /\ r.v = v /\ r.rest = rest
  BY DEF Got

(* The branches of TextDecode and StatusDecode. *)
LEMMA TextBranches ==
  ASSUME NEW in, NEW n, NEW rest, SizeDecode(in) = Got(n, rest)
  PROVE  TextDecode(in) = IF n = 0 THEN Got("", rest) ELSE Read(n, rest)
  <1> DEFINE size == SizeDecode(in)
  <1>1. size.ok /\ size.v = n /\ size.rest = rest  BY GotFields
  <1>2. TextDecode(in) = IF ~size.ok THEN Lost
                         ELSE IF size.v = 0 THEN Got("", size.rest) ELSE Read(size.v, size.rest)
    BY DEF TextDecode, TextRead
  <1> HIDE DEF size
  <1> QED  BY <1>1, <1>2, Zenon

LEMMA PlainStatus ==
  ASSUME NEW in, NEW rest, Read(1, in) = Got(255, rest)
  PROVE  StatusDecode(in) = Got(Status(0, "", ""), rest)
  <1> DEFINE type == Read(1, in)
  <1>1. type.ok /\ type.v = 255 /\ type.rest = rest  BY GotFields
  <1>2. type.ok /\ type.v = 255 => StatusDecode(in) = Got(Status(0, "", ""), type.rest)
    BY Zenon DEF StatusDecode
  <1> HIDE DEF type
  <1> QED  BY <1>1, <1>2, Zenon

LEMMA FullStatus ==
  ASSUME NEW in, NEW t, NEW m, NEW c, NEW rest, NEW more, NEW last, t # 255,
         Read(1, in) = Got(t, rest), TextDecode(rest) = Got(m, more), TextDecode(more) = Got(c, last)
  PROVE  StatusDecode(in) = Got(Status(t, m, c), last)
  <1> DEFINE type == Read(1, in)
             message == TextDecode(type.rest)
             callTree == TextDecode(more)
  <1>1. type.ok /\ type.v = t /\ type.rest = rest  BY GotFields
  <1>2. StatusDecode(in) = IF type.ok /\ type.v = 255 THEN Got(Status(0, "", ""), type.rest)
                           ELSE IF type.ok THEN StatusRead(type.v, message) ELSE Lost
    BY DEF StatusDecode
  <1> HIDE DEF type
  <1>3. message = Got(m, more)  BY <1>1
  <1> HIDE DEF message
  <1>4. message.ok /\ message.v = m /\ message.rest = more  BY <1>3, GotFields
  <1>5. callTree.ok /\ callTree.v = c /\ callTree.rest = last  BY GotFields
  <1>6. StatusRead(t, message) =
          IF message.ok /\ callTree.ok THEN Got(Status(t, message.v, callTree.v), callTree.rest)
          ELSE Lost
    BY <1>4, Zenon DEF StatusRead
  <1> HIDE DEF callTree
  <1>7. StatusRead(t, message) = Got(Status(t, m, c), last)
    BY <1>4, <1>5, <1>6, Zenon
  <1> QED  BY <1>1, <1>2, <1>7, Zenon

(* TLA+ counts the characters of a string, and only "" has none. *)
String(str) == Len(str) \in Nat /\ (Len(str) = 0 <=> str = "")

LEMMA TextSeq ==
  ASSUME NEW str, String(str), NEW T, Numbers \subseteq T, Token(Len(str), str) \in T
  PROVE  /\ SizeEncode(Len(str)) \in Seq(T)
         /\ (IF str = "" THEN <<>> ELSE <<Token(Len(str), str)>>) \in Seq(T)
         /\ TextEncode(str) \in Seq(T)
  <1> DEFINE t == Token(Len(str), str)
             size == SizeEncode(Len(str))
             text == IF str = "" THEN <<>> ELSE <<t>>
  <1>0. Len(str) \in Nat  BY Zenon DEF String
  <1>1. Len(str) \in Int  BY <1>0
  <1>2. size \in Seq(T)  BY <1>1, SizeSeq
  <1>3. text \in Seq(T)
    <2>1. t \in T  OBVIOUS
    <2> HIDE DEF t
    <2>2. <<>> \in Seq(T) /\ <<t>> \in Seq(T)  BY <2>1
    <2> QED  BY <2>2
  <1>4. TextEncode(str) = size \o text  BY DEF TextEncode
  <1> HIDE DEF size, text
  <1>5. size \o text \in Seq(T)  BY <1>2, <1>3, ConcatProperties
  <1> QED  BY <1>2, <1>3, <1>4, <1>5 DEF size, text

(* A string is read back by its length, the empty one included, and the    *)
(* reader stops where it ends (PVString.PVEncode, PVString.PVDecode).      *)
THEOREM TextsReadBack ==
  ASSUME NEW str, String(str), NEW S, NEW in \in Seq(S)
  PROVE  TextDecode(TextEncode(str) \o in) = Got(str, in)
  <1> DEFINE n == Len(str)
             size == SizeEncode(n)
             text == IF str = "" THEN <<>> ELSE <<Token(n, str)>>
             rest == text \o in
             T == S \cup Numbers \cup {Token(n, str)}
  <1>0. n \in Nat  BY Zenon DEF String
  <1>1. n = 0 <=> str = ""  BY Zenon DEF String
  <1>2. TextEncode(str) = size \o text  BY DEF TextEncode
  <1>3. S \subseteq T /\ Numbers \subseteq T /\ Token(n, str) \in T  OBVIOUS
  <1> HIDE DEF T
  <1>4. size \in Seq(T) /\ text \in Seq(T)
    BY <1>3, TextSeq
  <1>5. in \in Seq(T)  BY <1>3, SeqMonotonic
  <1>6. rest \in Seq(T) /\ TextEncode(str) \o in = size \o rest
    <2> HIDE DEF size, text
    <2> QED  BY <1>2, <1>4, <1>5, ConcatProperties, ConcatAssociative
  <1>7. SizeDecode(TextEncode(str) \o in) = Got(n, rest)
    <2> HIDE DEF n, rest
    <2>1. n \in Int /\ n >= -1  BY <1>0
    <2>2. SizeDecode(size \o rest) = Got(n, rest)
      BY <1>6, <2>1, SizesReadBack
    <2> QED  BY <1>6, <2>2
  <1>8. CASE n = 0
    <2>1. rest = in
      BY <1>1, <1>5, <1>8, ConcatEmptySeq
    <2> HIDE DEF n, rest
    <2>2. TextDecode(TextEncode(str) \o in) = Got("", in)
      BY <1>7, <1>8, <2>1, TextBranches, Zenon
    <2> QED  BY <1>1, <1>8, <2>2, Zenon
  <1>9. CASE n # 0
    <2>1. rest = <<Token(n, str)>> \o in
      BY <1>1, <1>9
    <2>2. Read(n, rest) = Got(str, in)
      <3> HIDE DEF n, rest
      <3> QED  BY <1>3, <1>5, <2>1, ReadFirst
    <2> HIDE DEF n, rest
    <2> QED  BY <1>7, <1>9, <2>2, TextBranches, Zenon
  <1> QED  BY <1>8, <1>9

(* A status is read back with its type and both texts: the single byte of  *)
(* a plain OK is not taken for the type of another status, nor does an OK  *)
(* with a message lose it (PVStatus.PVEncode, PVStatus.PVDecode).          *)
THEOREM StatusesReadBack ==
  ASSUME NEW type \in 0..254, NEW message, NEW callTree, String(message), String(callTree),
         NEW S, NEW in \in Seq(S)
  PROVE  StatusDecode(StatusEncode(Status(type, message, callTree)) \o in)
           = Got(Status(type, message, callTree), in)
  <1> DEFINE v == Status(type, message, callTree)
             m == TextEncode(message)
             c == TextEncode(callTree)
             x == StatusEncode(v) \o in
             last == c \o in
             rest == m \o last
             T == S \cup Numbers \cup {Token(Len(message), message), Token(Len(callTree), callTree)}
  <1>1. v.type = type /\ v.message = message /\ v.callTree = callTree
    BY DEF Status
  <1>2. /\ S \subseteq T /\ Numbers \subseteq T
        /\ Token(Len(message), message) \in T /\ Token(Len(callTree), callTree) \in T
    OBVIOUS
  <1>3. Token(1, type) \in T /\ Token(1, 255) \in T
    BY <1>2 DEF Token, Numbers
  <1> HIDE DEF T
  <1>4. m \in Seq(T)  BY <1>2, TextSeq
  <1>5. c \in Seq(T)  BY <1>2, TextSeq
  <1>6. in \in Seq(T)  BY <1>2, SeqMonotonic
  <1>7. last \in Seq(T)
    <2> HIDE DEF c
    <2> QED  BY <1>5, <1>6, ConcatProperties
  <1>8. rest \in Seq(T)
    <2> HIDE DEF m, last
    <2> QED  BY <1>4, <1>7, ConcatProperties
  <1>9. CASE type = 0 /\ message = "" /\ callTree = ""
    <2>1. StatusEncode(v) = <<Token(1, 255)>>
      BY <1>1, <1>9 DEF StatusEncode, Byte
    <2>2. Read(1, x) = Got(255, in)
      BY <1>3, <1>6, <2>1, ReadFirst
    <2> HIDE DEF x
    <2>3. StatusDecode(x) = Got(Status(0, "", ""), in)
      BY <2>2, PlainStatus
    <2> QED  BY <1>9, <2>3, Zenon DEF x
  <1>10. CASE ~(type = 0 /\ message = "" /\ callTree = "")
    <2> DEFINE t == <<Token(1, type)>>
    <2>1. StatusEncode(v) = (t \o m) \o c
      BY <1>1, <1>10 DEF StatusEncode, Byte
    <2>2. t \in Seq(T)  BY <1>3
    <2>3. x = t \o rest
      <3> DEFINE tm == t \o m
      <3> HIDE DEF v, t, m, c
      <3>1. tm \in Seq(T)  BY <1>4, <2>2, ConcatProperties
      <3>2. tm \o last = t \o rest
        <4> HIDE DEF last
        <4> QED  BY <1>4, <1>7, <2>2, ConcatAssociative
      <3> HIDE DEF tm
      <3>3. (tm \o c) \o in = tm \o last
        BY <1>5, <1>6, <3>1, ConcatAssociative
      <3> QED  BY <2>1, <3>2, <3>3 DEF tm
    <2>4. Read(1, x) = Got(type, rest)
      <3> HIDE DEF x, rest
      <3> QED  BY <1>3, <1>8, <2>3, ReadFirst
    <2>5. TextDecode(rest) = Got(message, last)
      <3> HIDE DEF last
      <3> QED  BY <1>7, TextsReadBack
    <2>6. TextDecode(last) = Got(callTree, in)
      BY TextsReadBack
    <2>7. type # 255  OBVIOUS
    <2> HIDE DEF x, rest, last
    <2>8. StatusDecode(x) = Got(Status(type, message, callTree), in)
      BY <2>4, <2>5, <2>6, <2>7, FullStatus
    <2> QED  BY <2>8 DEF x
  <1> QED  BY <1>9, <1>10
============================================================================
