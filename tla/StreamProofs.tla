---------------------------- MODULE StreamProofs ----------------------------
(***************************************************************************)
(* Proofs about what a TCP connection carries, for any number of messages, *)
(* of any length, cut by the network anywhere:                             *)
(*                                                                         *)
(* Framing: the head of a frame is read back as it was written, whatever   *)
(* the radix, and so the payloads come out as they went in: the codec      *)
(* implements Channel.                                                     *)
(*                                                                         *)
(* SecureStream: both sides take up the key at the same place of the       *)
(* stream, and then no message is missing from what is received.           *)
(*                                                                         *)
(* PortForward: wherever the two sides turn raw, all the data the          *)
(* applications send gets through, in order, and messages are never taken  *)
(* for data nor data for messages.                                         *)
(***************************************************************************)
EXTENDS Framing, SecureStream, PortForward, SequenceTheorems, TLAPS
-----------------------------------------------------------------------------
(* Framing: the head of a frame.                                           *)

\* Division with a remainder, by an integer that is not a literal.
LEMMA Division ==
  ASSUME NEW R \in Nat, R > 0, NEW h \in Nat
  PROVE  /\ h \div R \in Nat
         /\ h % R \in 0 .. R - 1
         /\ h = (h % R) + R * (h \div R)
  OBVIOUS

LEMMA Monotone ==
  ASSUME NEW R \in Nat, NEW a \in Nat, NEW b \in Nat, a <= b
  PROVE  R * a <= R * b
  OBVIOUS

\* A product bounds the quotient.
LEMMA Quotient ==
  ASSUME NEW R \in Nat, R > 0, NEW m \in Nat, NEW h \in Nat, h < R * m
  PROVE  h \div R < m
<1> DEFINE q == h \div R
<1>1. q \in Nat /\ h % R \in Nat /\ h = (h % R) + R * q
  BY Division
<1> HIDE DEF q
<1>2. SUFFICES ASSUME q >= m PROVE FALSE
  BY <1>1 DEF q
<1>3. R * m <= R * q
  BY <1>1, <1>2, Monotone
<1>4. R * m \in Nat /\ R * q \in Nat
  BY <1>1
<1> QED BY <1>1, <1>3, <1>4

\* A byte of its own.
LEMMA Small ==
  ASSUME NEW R \in Nat, R > 0, NEW q \in Nat, q < R
  PROVE  q % R = q
<1>1. q \div R \in Nat /\ q % R \in 0 .. R - 1 /\ q = (q % R) + R * (q \div R)
  BY Division
<1>2. q < R * 1
  OBVIOUS
<1>3. q \div R < 1
  BY <1>2, Quotient
<1>4. q \div R = 0
  BY <1>1, <1>3
<1> QED BY <1>1, <1>4

LEMMA Quarters ==
  Quarter \in Nat /\ Radix = 4 * Quarter /\ Quarter > 0
  BY FramingAssumption DEF Quarter

\* The width, less one, is what the first byte has in its lowest bits.
LEMMA Width ==
  ASSUME NEW n \in Nat, NEW k \in 0 .. 3
  PROVE  Byte1(4 * n + k) % 4 = k
<1> DEFINE q == (4 * n + k) \div Radix
<1>1. q \in Nat /\ Byte1(4 * n + k) \in Nat /\ 4 * n + k = Byte1(4 * n + k) + Radix * q
  BY Division, FramingAssumption DEF Byte1
<1> HIDE DEF q
<1>2. Radix * q = 4 * (Quarter * q)
  BY <1>1, Quarters
<1> DEFINE x == Quarter * q
<1>3. x \in Nat
  BY <1>1, Quarters
<1>4. Byte1(4 * n + k) = 4 * (n - x) + k
  BY <1>1, <1>2, <1>3
<1> HIDE DEF x
<1>5. (4 * (n - x) + k) % 4 = k
  BY <1>3
<1> QED BY <1>4, <1>5

\* What the bytes stand for.
LEMMA Bytes4 ==
  ASSUME NEW h \in Nat
  PROVE  /\ h < Radix => h = Byte1(h)
         /\ h < Radix * Radix => h = Byte1(h) + Radix * Byte2(h)
         /\ h < Radix * (Radix * Radix) =>
              h = Byte1(h) + Radix * (Byte2(h) + Radix * Byte3(h))
         /\ h < Radix * (Radix * (Radix * Radix)) =>
              h = Byte1(h) + Radix * (Byte2(h) + Radix * (Byte3(h) + Radix * Byte4(h)))
<1> DEFINE q == h \div Radix
           r == q \div Radix
           s == r \div Radix
<1>0. Radix \in Nat /\ Radix > 0 /\ Radix * Radix \in Nat /\ Radix * (Radix * Radix) \in Nat
  BY FramingAssumption
<1>1. q \in Nat /\ h = Byte1(h) + Radix * q
  BY <1>0, Division DEF Byte1
<1>2. r \in Nat /\ q = Byte2(h) + Radix * r
  BY <1>0, <1>1, Division DEF Byte2
<1>3. s \in Nat /\ r = Byte3(h) + Radix * s
  BY <1>0, <1>2, Division DEF Byte3
<1>4. ASSUME h < Radix PROVE h = Byte1(h)
  BY <1>0, <1>4, Small DEF Byte1
<1>5. ASSUME h < Radix * Radix PROVE q = Byte2(h)
  <2>1. q < Radix
    BY <1>0, <1>5, Quotient
  <2> QED BY <1>0, <1>1, <2>1, Small DEF Byte2
<1>6. ASSUME h < Radix * (Radix * Radix) PROVE r = Byte3(h)
  <2>1. q < Radix * Radix
    BY <1>0, <1>6, Quotient
  <2>2. r < Radix
    BY <1>0, <1>1, <2>1, Quotient
  <2> QED BY <1>0, <1>2, <2>2, Small DEF Byte3
<1>7. ASSUME h < Radix * (Radix * (Radix * Radix)) PROVE s = Byte4(h)
  <2>1. q < Radix * (Radix * Radix)
    BY <1>0, <1>7, Quotient
  <2>2. r < Radix * Radix
    BY <1>0, <1>1, <2>1, Quotient
  <2>3. s < Radix
    BY <1>0, <1>2, <2>2, Quotient
  <2> QED BY <1>0, <1>3, <2>3, Small DEF Byte4
<1> HIDE DEF q, r, s
<1> QED BY <1>1, <1>2, <1>3, <1>4, <1>5, <1>6, <1>7

\* A length that fits a width leaves room for the two bits.
LEMMA Room ==
  ASSUME NEW n \in Nat, NEW k \in 0 .. 3
  PROVE  /\ Fits1(n) => 4 * n + k < Radix
         /\ Fits2(n) => 4 * n + k < Radix * Radix
         /\ Fits3(n) => 4 * n + k < Radix * (Radix * Radix)
         /\ Fits4(n) => 4 * n + k < Radix * (Radix * (Radix * Radix))
<1>1. Quarter \in Nat /\ Radix \in Nat /\ Radix = 4 * Quarter
  BY Quarters, FramingAssumption
<1>2. ASSUME NEW m \in Nat, n < m PROVE 4 * n + k < 4 * m
  BY <1>2
<1>3. /\ Quarter * Radix \in Nat /\ Quarter * Radix * Radix \in Nat
      /\ Quarter * Radix * Radix * Radix \in Nat
  BY <1>1
<1>4. 4 * (Quarter * Radix) = Radix * Radix
  BY <1>1
<1>5. 4 * (Quarter * Radix * Radix) = Radix * (Radix * Radix)
  BY <1>1, <1>3, <1>4
<1>6. 4 * (Quarter * Radix * Radix * Radix) = Radix * (Radix * (Radix * Radix))
  BY <1>1, <1>3, <1>4, <1>5
<1>7. Fits1(n) => 4 * n + k < Radix
  BY <1>1, <1>2 DEF Fits1
<1>8. Fits2(n) => 4 * n + k < Radix * Radix
  BY <1>2, <1>3, <1>4 DEF Fits2
<1>9. Fits3(n) => 4 * n + k < Radix * (Radix * Radix)
  BY <1>2, <1>3, <1>5 DEF Fits3
<1>10. Fits4(n) => 4 * n + k < Radix * (Radix * (Radix * Radix))
  BY <1>2, <1>3, <1>6 DEF Fits4
<1> QED BY <1>7, <1>8, <1>9, <1>10

\* What fits a width fits the wider ones.
LEMMA Nested ==
  ASSUME NEW n \in Nat
  PROVE  (Fits1(n) => Fits2(n)) /\ (Fits2(n) => Fits3(n)) /\ (Fits3(n) => Fits4(n))
<1>1. Quarter \in Nat /\ Radix \in Nat /\ Radix >= 1
  BY Quarters, FramingAssumption
<1>2. ASSUME NEW m \in Nat PROVE m <= m * Radix
  <2>1. m * 1 <= m * Radix
    BY <1>1, Monotone
  <2> QED BY <2>1
<1>3. /\ Quarter * Radix \in Nat /\ Quarter * Radix * Radix \in Nat
      /\ Quarter * Radix * Radix * Radix \in Nat
  BY <1>1
<1>4. /\ Quarter <= Quarter * Radix
      /\ Quarter * Radix <= Quarter * Radix * Radix
      /\ Quarter * Radix * Radix <= Quarter * Radix * Radix * Radix
  BY <1>1, <1>2, <1>3
<1> QED BY <1>1, <1>3, <1>4 DEF Fits1, Fits2, Fits3, Fits4

\* The receiver reads the length that was written, and knows from the first byte
\* how many belong to it, for every length that can be sent: the two ends of a
\* stream stay in step.
THEOREM HeadRoundTrip ==
  ASSUME NEW n \in Nat, Fits4(n)
  PROVE  /\ DecodeHead(EncodeHead(n)) = n
         /\ HeadLength(EncodeHead(n)[1]) = Len(EncodeHead(n))
<1> DEFINE e == EncodeHead(n)
<1>0. \A k \in 0 .. 3 : 4 * n + k \in Nat /\ (4 * n + k) \div 4 = n
  OBVIOUS
<1>1. CASE Fits1(n)
  <2>0. Fits2(n) /\ Fits3(n)
    BY <1>1, Nested
  <2>1. e = <<Byte1(4 * n)>> /\ Len(e) = 1 /\ e[1] = Byte1(4 * n)
    BY <1>1, <2>0 DEF EncodeHead
  <2>2. 4 * n = Byte1(4 * n) /\ Byte1(4 * n) % 4 = 0
    BY <1>1, Room, Bytes4, Width
  <2> QED BY <2>1, <2>2, <1>0 DEF DecodeHead, HeadLength
<1>2. CASE ~Fits1(n) /\ Fits2(n)
  <2> DEFINE h == 4 * n + 1
  <2>0. Fits3(n)
    BY <1>2, Nested
  <2>1. e = <<Byte1(h), Byte2(h)>> /\ Len(e) = 2 /\ e[1] = Byte1(h) /\ e[2] = Byte2(h)
    BY <1>2, <2>0 DEF EncodeHead
  <2>2. h \in Nat /\ h \div 4 = n /\ h = Byte1(h) + Radix * Byte2(h) /\ Byte1(h) % 4 = 1
    BY <1>0, <1>2, Room, Bytes4, Width
  <2> HIDE DEF h, e
  <2> QED BY <2>1, <2>2 DEF DecodeHead, HeadLength, e
<1>3. CASE ~Fits2(n) /\ Fits3(n)
  <2> DEFINE h == 4 * n + 2
  <2>0. ~Fits1(n)
    BY <1>3, Nested
  <2>1. /\ e = <<Byte1(h), Byte2(h), Byte3(h)>> /\ Len(e) = 3
        /\ e[1] = Byte1(h) /\ e[2] = Byte2(h) /\ e[3] = Byte3(h)
    BY <1>3, <2>0 DEF EncodeHead
  <2>2. /\ h \in Nat /\ h \div 4 = n /\ Byte1(h) % 4 = 2
        /\ h = Byte1(h) + Radix * (Byte2(h) + Radix * Byte3(h))
    BY <1>0, <1>3, Room, Bytes4, Width
  <2> HIDE DEF h, e
  <2> QED BY <2>1, <2>2 DEF DecodeHead, HeadLength, e
<1>4. CASE ~Fits3(n)
  <2> DEFINE h == 4 * n + 3
  <2>0. ~Fits1(n) /\ ~Fits2(n)
    BY <1>4, Nested
  <2>1. /\ e = <<Byte1(h), Byte2(h), Byte3(h), Byte4(h)>> /\ Len(e) = 4
        /\ e[1] = Byte1(h) /\ e[2] = Byte2(h) /\ e[3] = Byte3(h) /\ e[4] = Byte4(h)
    BY <1>4, <2>0 DEF EncodeHead
  <2>2. /\ h \in Nat /\ h \div 4 = n /\ Byte1(h) % 4 = 3
        /\ h = Byte1(h) + Radix * (Byte2(h) + Radix * (Byte3(h) + Radix * Byte4(h)))
    BY <1>0, <1>4, Room, Bytes4, Width
  <2> HIDE DEF h, e
  <2> QED BY <2>1, <2>2 DEF DecodeHead, HeadLength, e
<1> QED BY <1>1, <1>2, <1>3, <1>4

-----------------------------------------------------------------------------
(* Framing: the payloads come out as they went in.                         *)

\* Concatenation, by its algebra alone.
Cat(a, b) == a \o b

LEMMA CatType ==
  ASSUME NEW S, NEW a \in Seq(S), NEW b \in Seq(S)
  PROVE  Cat(a, b) \in Seq(S) /\ Len(Cat(a, b)) = Len(a) + Len(b)
BY ConcatProperties DEF Cat

LEMMA CatAssociative ==
  ASSUME NEW S, NEW a \in Seq(S), NEW b \in Seq(S), NEW c \in Seq(S)
  PROVE  Cat(Cat(a, b), c) = Cat(a, Cat(b, c))
BY ConcatAssociative DEF Cat

LEMMA CatCancel ==
  ASSUME NEW S, NEW a \in Seq(S), NEW b \in Seq(S), NEW c \in Seq(S), Cat(a, b) = Cat(a, c)
  PROVE  b = c
BY ConcatSimplifications DEF Cat

LEMMA CatEmpty ==
  ASSUME NEW S, NEW a \in Seq(S)
  PROVE  Cat(a, <<>>) = a /\ Cat(<<>>, a) = a /\ <<>> \in Seq(S)
BY ConcatEmptySeq, EmptySeq DEF Cat

LEMMA CatAt ==
  ASSUME NEW S, NEW a \in Seq(S), NEW b \in Seq(S)
  PROVE  \A i \in 1 .. Len(a) : Cat(a, b)[i] = a[i]
<1>1. Len(a) \in Nat /\ Len(b) \in Nat
  BY LenProperties
<1> QED BY <1>1, ConcatProperties DEF Cat

\* A sequence cut in two.
LEMMA Cut ==
  ASSUME NEW S, NEW a \in Seq(S), NEW n \in 0 .. Len(a)
  PROVE  /\ SubSeq(a, 1, n) \in Seq(S) /\ Len(SubSeq(a, 1, n)) = n
         /\ SubSeq(a, n + 1, Len(a)) \in Seq(S)
         /\ a = Cat(SubSeq(a, 1, n), SubSeq(a, n + 1, Len(a)))
         /\ \A i \in 1 .. n : SubSeq(a, 1, n)[i] = a[i]
<1>0. Len(a) \in Nat /\ n \in Nat
  BY LenProperties
<1>1. /\ SubSeq(a, 1, n) \in Seq(S) /\ Len(SubSeq(a, 1, n)) = n
      /\ SubSeq(a, n + 1, Len(a)) \in Seq(S)
      /\ \A i \in 1 .. n : SubSeq(a, 1, n)[i] = a[i]
  BY <1>0, SubSeqProperties
<1>2. CASE n = 0
  <2>1. SubSeq(a, 1, n) = <<>> /\ SubSeq(a, n + 1, Len(a)) = a
    BY <1>2, <1>0, SubSeqEmpty, SubSeqFull
  <2> QED BY <1>1, <2>1, CatEmpty
<1>3. CASE n # 0
  <2>1. 1 \in 1 .. Len(a) + 1 /\ n \in 1 - 1 .. Len(a) /\ Len(a) \in n .. Len(a)
    BY <1>0
  <2>2. SubSeq(a, 1, n) \o SubSeq(a, n + 1, Len(a)) = SubSeq(a, 1, Len(a))
    BY <2>1, ConcatAdjacentSubSeq
  <2> QED BY <1>1, <2>2, SubSeqFull DEF Cat
<1> QED BY <1>2, <1>3

\* The beginning of what arrives, once all of it has arrived, and what is left.
LEMMA Beginning ==
  ASSUME NEW S, NEW a \in Seq(S), NEW b \in Seq(S), NEW h \in Seq(S), NEW r \in Seq(S),
         Cat(a, b) = Cat(h, r), Len(a) >= Len(h)
  PROVE  /\ SubSeq(a, 1, Len(h)) = h
         /\ SubSeq(a, Len(h) + 1, Len(a)) \in Seq(S)
         /\ Cat(SubSeq(a, Len(h) + 1, Len(a)), b) = r
<1>1. Len(a) \in Nat /\ Len(h) \in 0 .. Len(a)
  BY LenProperties
<1>2. PICK c \in Seq(S) : c = SubSeq(a, Len(h) + 1, Len(a))
  BY <1>1, Cut
<1>3. PICK d \in Seq(S) : d = SubSeq(a, 1, Len(h))
  BY <1>1, Cut
<1>4. Len(d) = Len(h) /\ a = Cat(d, c) /\ \A i \in 1 .. Len(h) : d[i] = a[i]
  BY <1>1, <1>2, <1>3, Cut
<1>5. \A i \in 1 .. Len(h) : Cat(a, b)[i] = a[i] /\ Cat(h, r)[i] = h[i]
  BY <1>1, CatAt
<1>6. d = h
  BY <1>4, <1>5, SeqEqual
<1>7. Cat(h, Cat(c, b)) = Cat(h, r)
  BY <1>4, <1>6, CatAssociative
<1>8. Cat(c, b) = r
  BY <1>7, CatType, CatCancel
<1> QED BY <1>2, <1>3, <1>6, <1>8

LEMMA PrefixIs ==
  ASSUME NEW S, NEW a \in Seq(S), NEW b \in Seq(S), Len(a) <= Len(b),
         \A i \in 1 .. Len(a) : a[i] = b[i]
  PROVE  IsPrefix(a, b)
<1>1. PICK n \in Nat : n = Len(a) /\ n \in 0 .. Len(a) /\ n \in 0 .. Len(b)
  BY LenProperties
<1>2. PICK x \in Seq(S) : x = SubSeq(a, 1, n) /\ Len(x) = n /\ \A i \in 1 .. n : x[i] = a[i]
  BY <1>1, Cut
<1>3. PICK y \in Seq(S) : y = SubSeq(b, 1, n) /\ Len(y) = n /\ \A i \in 1 .. n : y[i] = b[i]
  BY <1>1, Cut
<1>4. \A i \in 1 .. n : x[i] = y[i]
  BY <1>1, <1>2, <1>3
<1>5. x = y
  BY <1>2, <1>3, <1>4, SeqEqual
<1> QED BY <1>1, <1>2, <1>3, <1>5 DEF IsPrefix

LEMMA PrefixOfCat ==
  ASSUME NEW S, NEW a \in Seq(S), NEW c \in Seq(S)
  PROVE  IsPrefix(a, Cat(a, c))
<1>1. PICK b \in Seq(S) : b = Cat(a, c) /\ Len(b) = Len(a) + Len(c)
  BY CatType
<1>2. Len(a) <= Len(b)
  BY <1>1, LenProperties
<1>3. \A i \in 1 .. Len(a) : a[i] = b[i]
  BY <1>1, CatAt
<1> QED BY <1>1, <1>2, <1>3, PrefixIs

FrameOf(payload) == Cat(EncodeHead(Len(payload)), payload)

\* How far both sides are.
FramingShape ==
  /\ framed \in Seq(Seq(Bytes)) /\ decoded \in Seq(Seq(Bytes))
  /\ rawOut \in BOOLEAN /\ rawIn \in BOOLEAN
  /\ rawSent \in Seq(Bytes) /\ pipe \in Seq(Bytes) /\ src \in Seq(Bytes) /\ rawGot \in Seq(Bytes)
  /\ \A i \in 1 .. Len(framed) : Len(framed[i]) \in Lengths /\ Fits4(Len(framed[i]))
  /\ Len(decoded) <= Len(framed) /\ Len(framed) <= MaxFrames
  /\ \A i \in 1 .. Len(decoded) : decoded[i] = framed[i]
  /\ IF rawOut THEN Len(framed) = MaxFrames ELSE rawSent = <<>>
  /\ IF rawIn THEN Len(decoded) = MaxFrames /\ need = Head0 ELSE rawGot = <<>>
  /\ need # Head0 =>
       Len(decoded) < Len(framed) /\ need = <<Len(framed[Len(decoded) + 1])>>

\* What has been sent from frame k on, for every k: the frame and all that comes
\* after it.  What is still to be decoded is such a tail.
Tails(tail) ==
  /\ \A k \in 1 .. Len(framed) : tail[k] = Cat(FrameOf(framed[k]), tail[k + 1])
  /\ tail[Len(framed) + 1] = rawSent

ToDecode(tail) ==
  /\ rawIn => rawSent = Cat(rawGot, Cat(src, pipe))
  /\ ~rawIn /\ need = Head0 => Cat(src, pipe) = tail[Len(decoded) + 1]
  /\ ~rawIn /\ need # Head0 =>
       Cat(src, pipe) = Cat(framed[Len(decoded) + 1], tail[Len(decoded) + 2])

FramingInv ==
  /\ FramingShape
  /\ \E tail \in [Nat -> Seq(Bytes)] : Tails(tail) /\ ToDecode(tail)

LEMMA HeadIsBytes ==
  ASSUME NEW n \in Nat, Fits4(n)
  PROVE  EncodeHead(n) \in Seq(Bytes) /\ Len(EncodeHead(n)) \in Nat \ {0}
<1>0. \A k \in 0 .. 3 : 4 * n + k \in Nat
  OBVIOUS
<1>1. \A h \in Nat : Byte1(h) \in Bytes /\ Byte2(h) \in Bytes /\ Byte3(h) \in Bytes
                  /\ Byte4(h) \in Bytes
  <2> SUFFICES ASSUME NEW h \in Nat
               PROVE  Byte1(h) \in Bytes /\ Byte2(h) \in Bytes /\ Byte3(h) \in Bytes
                   /\ Byte4(h) \in Bytes
    OBVIOUS
  <2>0. Radix \in Nat /\ Radix > 0
    BY FramingAssumption
  <2>1. h \div Radix \in Nat
    BY <2>0, Division
  <2>2. (h \div Radix) \div Radix \in Nat
    BY <2>0, <2>1, Division
  <2>3. ((h \div Radix) \div Radix) \div Radix \in Nat
    BY <2>0, <2>2, Division
  <2> QED BY <2>0, <2>1, <2>2, <2>3, Division DEF Byte1, Byte2, Byte3, Byte4, Bytes
<1>a. /\ Byte1(4 * n) \in Bytes
      /\ Byte1(4 * n + 1) \in Bytes /\ Byte2(4 * n + 1) \in Bytes
      /\ Byte1(4 * n + 2) \in Bytes /\ Byte2(4 * n + 2) \in Bytes /\ Byte3(4 * n + 2) \in Bytes
      /\ Byte1(4 * n + 3) \in Bytes /\ Byte2(4 * n + 3) \in Bytes /\ Byte3(4 * n + 3) \in Bytes
      /\ Byte4(4 * n + 3) \in Bytes
  BY <1>0, <1>1
<1>2. CASE Fits1(n)
  BY <1>2, <1>a, Nested DEF EncodeHead
<1>3. CASE ~Fits1(n) /\ Fits2(n)
  BY <1>3, <1>a, Nested DEF EncodeHead
<1>4. CASE ~Fits2(n) /\ Fits3(n)
  BY <1>4, <1>a, Nested DEF EncodeHead
<1>5. CASE ~Fits3(n)
  BY <1>5, <1>a, Nested DEF EncodeHead
<1> QED BY <1>2, <1>3, <1>4, <1>5

LEMMA FramingInitHolds == FramingInit => FramingInv
<1> SUFFICES ASSUME FramingInit PROVE FramingInv
  OBVIOUS
<1> DEFINE tail == [k \in Nat |-> <<>>]
<1>1. FramingShape
  <2>1. <<>> \in Seq(Bytes) /\ <<>> \in Seq(Seq(Bytes)) /\ Len(<<>>) = 0
    BY EmptySeq
  <2>2. 0 <= MaxFrames /\ 0 <= 0 /\ (\A i \in 1 .. 0 : FALSE)
    BY FramingAssumption
  <2>3. Len(decoded) = 0 /\ Len(framed) = 0 /\ framed = <<>> /\ decoded = <<>>
    BY <2>1 DEF FramingInit
  <2>4. /\ Len(decoded) <= Len(framed) /\ Len(framed) <= MaxFrames
        /\ \A i \in 1 .. Len(framed) : FALSE
        /\ \A i \in 1 .. Len(decoded) : FALSE
    BY <2>2, <2>3
  <2> QED BY <2>1, <2>3, <2>4 DEF FramingInit, FramingShape
<1>2. tail \in [Nat -> Seq(Bytes)]
  BY EmptySeq
<1>3. Tails(tail)
  BY EmptySeq DEF FramingInit, Tails
<1>4. ToDecode(tail)
  <2>1. Cat(<<>>, <<>>) = <<>> /\ Len(<<>>) = 0
    BY EmptySeq, CatEmpty
  <2>2. Cat(src, pipe) = <<>> /\ Len(decoded) + 1 \in Nat /\ ~rawIn /\ need = Head0
    BY <2>1 DEF FramingInit
  <2>3. tail[Len(decoded) + 1] = <<>>
    BY <2>2
  <2> QED BY <2>2, <2>3 DEF ToDecode
<1> QED BY <1>1, <1>2, <1>3, <1>4 DEF FramingInv

\* The steps keep the invariant.  The types used throughout:
LEMMA ShapeFacts ==
  ASSUME FramingShape
  PROVE  /\ Len(framed) \in Nat /\ Len(decoded) \in Nat /\ MaxFrames \in Nat
         /\ \A k \in 1 .. Len(framed) :
              /\ framed[k] \in Seq(Bytes) /\ Len(framed[k]) \in Nat /\ Fits4(Len(framed[k]))
              /\ EncodeHead(Len(framed[k])) \in Seq(Bytes)
              /\ Len(EncodeHead(Len(framed[k]))) \in Nat \ {0}
              /\ FrameOf(framed[k]) \in Seq(Bytes)
<1>1. Len(framed) \in Nat /\ Len(decoded) \in Nat /\ MaxFrames \in Nat
  BY LenProperties, FramingAssumption DEF FramingShape
<1>2. SUFFICES ASSUME NEW k \in 1 .. Len(framed)
      PROVE  /\ framed[k] \in Seq(Bytes) /\ Len(framed[k]) \in Nat /\ Fits4(Len(framed[k]))
             /\ EncodeHead(Len(framed[k])) \in Seq(Bytes)
             /\ Len(EncodeHead(Len(framed[k]))) \in Nat \ {0}
             /\ FrameOf(framed[k]) \in Seq(Bytes)
  BY <1>1
<1>3. framed[k] \in Seq(Bytes) /\ Len(framed[k]) \in Nat /\ Fits4(Len(framed[k]))
  BY ElementOfSeq, FramingAssumption DEF FramingShape
<1>4. PICK p \in Seq(Bytes) : p = framed[k]
  BY <1>3
<1>5. EncodeHead(Len(p)) \in Seq(Bytes) /\ Len(EncodeHead(Len(p))) \in Nat \ {0}
  BY <1>3, <1>4, HeadIsBytes
<1>6. FrameOf(p) \in Seq(Bytes)
  BY <1>5, CatType DEF FrameOf
<1> QED BY <1>3, <1>4, <1>5, <1>6

\* Whatever is sent is added at the end of every tail.
Longer(tail, new) ==
  [k \in Nat |-> IF k <= Len(framed) + 1 THEN Cat(tail[k], new) ELSE <<>>]

LEMMA LongerTails ==
  ASSUME FramingShape, NEW tail \in [Nat -> Seq(Bytes)], Tails(tail), ToDecode(tail),
         NEW new \in Seq(Bytes)
  PROVE  /\ Longer(tail, new) \in [Nat -> Seq(Bytes)]
         /\ \A k \in 1 .. Len(framed) :
              Longer(tail, new)[k] = Cat(FrameOf(framed[k]), Longer(tail, new)[k + 1])
         /\ Longer(tail, new)[Len(framed) + 1] = Cat(rawSent, new)
         /\ Longer(tail, new)[Len(framed) + 2] = <<>>
         /\ rawIn => Cat(rawSent, new) = Cat(rawGot, Cat(src, Cat(pipe, new)))
         /\ ~rawIn /\ need = Head0 =>
              Cat(src, Cat(pipe, new)) = Longer(tail, new)[Len(decoded) + 1]
         /\ ~rawIn /\ need # Head0 =>
              Cat(src, Cat(pipe, new))
                = Cat(framed[Len(decoded) + 1], Longer(tail, new)[Len(decoded) + 2])
<1> DEFINE n == Len(framed)
           long == Longer(tail, new)
<1>0. n \in Nat /\ Len(decoded) \in Nat /\ Len(decoded) <= n
  BY ShapeFacts DEF FramingShape
<1>1. long \in [Nat -> Seq(Bytes)]
  <2>1. \A k \in Nat : Cat(tail[k], new) \in Seq(Bytes)
    BY CatType
  <2> QED BY <2>1, CatEmpty DEF Longer
<1>2. \A k \in 1 .. n + 1 : long[k] = Cat(tail[k], new)
  BY <1>0 DEF Longer
<1>3. \A k \in 1 .. n : long[k] = Cat(FrameOf(framed[k]), long[k + 1])
  <2> SUFFICES ASSUME NEW k \in 1 .. n PROVE long[k] = Cat(FrameOf(framed[k]), long[k + 1])
    OBVIOUS
  <2>0. k \in 1 .. n + 1 /\ k + 1 \in 1 .. n + 1 /\ k \in Nat /\ k + 1 \in Nat
    BY <1>0
  <2>1. long[k] = Cat(tail[k], new) /\ long[k + 1] = Cat(tail[k + 1], new)
    BY <1>2, <2>0
  <2>2. tail[k] = Cat(FrameOf(framed[k]), tail[k + 1])
    BY DEF Tails
  <2>3. FrameOf(framed[k]) \in Seq(Bytes) /\ tail[k + 1] \in Seq(Bytes)
    BY <2>0, ShapeFacts
  <2>4. Cat(Cat(FrameOf(framed[k]), tail[k + 1]), new)
          = Cat(FrameOf(framed[k]), Cat(tail[k + 1], new))
    BY <2>3, CatAssociative
  <2> QED BY <2>1, <2>2, <2>4
<1>4. long[n + 1] = Cat(rawSent, new)
  <2>1. n + 1 \in 1 .. n + 1 /\ tail[n + 1] = rawSent
    BY <1>0 DEF Tails
  <2> QED BY <1>2, <2>1
<1>5. long[n + 2] = <<>>
  BY <1>0 DEF Longer
<1>6. src \in Seq(Bytes) /\ pipe \in Seq(Bytes) /\ rawGot \in Seq(Bytes)
  BY DEF FramingShape
<1>7. Cat(src, Cat(pipe, new)) = Cat(Cat(src, pipe), new) /\ Cat(src, pipe) \in Seq(Bytes)
  BY <1>6, CatAssociative, CatType
<1>8. ASSUME rawIn
      PROVE  Cat(rawSent, new) = Cat(rawGot, Cat(src, Cat(pipe, new)))
  <2>1. rawSent = Cat(rawGot, Cat(src, pipe))
    BY <1>8 DEF ToDecode
  <2>2. Cat(Cat(rawGot, Cat(src, pipe)), new) = Cat(rawGot, Cat(Cat(src, pipe), new))
    BY <1>6, <1>7, CatAssociative
  <2> QED BY <1>7, <2>1, <2>2
<1>9. ASSUME ~rawIn, need = Head0
      PROVE  Cat(src, Cat(pipe, new)) = long[Len(decoded) + 1]
  <2>1. Cat(src, pipe) = tail[Len(decoded) + 1]
    BY <1>9 DEF ToDecode
  <2>2. Len(decoded) + 1 \in 1 .. n + 1
    BY <1>0
  <2> QED BY <1>2, <1>7, <2>1, <2>2
<1>10. ASSUME ~rawIn, need # Head0
       PROVE  Cat(src, Cat(pipe, new)) = Cat(framed[Len(decoded) + 1], long[Len(decoded) + 2])
  <2>1. Cat(src, pipe) = Cat(framed[Len(decoded) + 1], tail[Len(decoded) + 2])
    BY <1>0, <1>10 DEF ToDecode
  <2>0. Len(decoded) < n
    BY <1>10 DEF FramingShape
  <2>2. Len(decoded) + 2 \in 1 .. n + 1 /\ Len(decoded) + 1 \in 1 .. n /\ Len(decoded) + 2 \in Nat
    <3>1. PICK d \in Nat, m \in Nat : d = Len(decoded) /\ m = n
      BY <1>0
    <3>2. d < m
      BY <2>0, <3>1
    <3>3. d + 2 \in 1 .. m + 1 /\ d + 1 \in 1 .. m /\ d + 2 \in Nat
      BY <3>2
    <3> QED BY <3>1, <3>3
  <2>3. framed[Len(decoded) + 1] \in Seq(Bytes) /\ tail[Len(decoded) + 2] \in Seq(Bytes)
    BY <2>2, ShapeFacts
  <2>4. Cat(Cat(framed[Len(decoded) + 1], tail[Len(decoded) + 2]), new)
          = Cat(framed[Len(decoded) + 1], Cat(tail[Len(decoded) + 2], new))
    <3>1. PICK p \in Seq(Bytes), r \in Seq(Bytes) :
            p = framed[Len(decoded) + 1] /\ r = tail[Len(decoded) + 2]
      BY <2>3
    <3>2. Cat(Cat(p, r), new) = Cat(p, Cat(r, new))
      BY CatAssociative
    <3> QED BY <3>1, <3>2
  <2> QED BY <1>2, <1>7, <2>1, <2>2, <2>4
<1> HIDE DEF long, n
<1> QED BY <1>1, <1>3, <1>4, <1>5, <1>8, <1>9, <1>10 DEF long, n

LEMMA AppendIsCat ==
  ASSUME NEW S, NEW s \in Seq(S), NEW x \in S
  PROVE  Append(s, x) = Cat(s, <<x>>)
BY AppendIsConcat DEF Cat

LEMMA OneMore ==
  ASSUME NEW S, NEW s \in Seq(S), NEW x \in S
  PROVE  /\ <<x>> \in Seq(S) /\ Append(s, x) = Cat(s, <<x>>)
         /\ Append(s, x) \in Seq(S) /\ Len(Append(s, x)) = Len(s) + 1
         /\ Append(s, x)[Len(s) + 1] = x
         /\ \A i \in 1 .. Len(s) : Append(s, x)[i] = s[i]
<1>1. <<x>> \in Seq(S)
  <2>1. Append(<<>>, x) \in Seq(S)
    BY EmptySeq, AppendProperties
  <2> QED BY <2>1
<1>2. Append(s, x) = Cat(s, <<x>>)
  BY AppendIsCat
<1>3. Len(s) \in Nat
  BY LenProperties
<1> QED BY <1>1, <1>2, <1>3, AppendProperties

\* What keeps the invariant, taken apart.
LEMMA StepKeeps ==
  ASSUME FramingShape', NEW long \in [Nat -> Seq(Bytes)],
         \A k \in 1 .. Len(framed)' : long[k] = Cat(FrameOf(framed'[k]), long[k + 1]),
         long[Len(framed)' + 1] = rawSent',
         rawIn' => rawSent' = Cat(rawGot', Cat(src', pipe')),
         ~rawIn' /\ need' = Head0 => Cat(src', pipe') = long[Len(decoded)' + 1],
         ~rawIn' /\ need' # Head0 =>
           Cat(src', pipe') = Cat(framed'[Len(decoded)' + 1], long[Len(decoded)' + 2])
  PROVE  FramingInv'
<1>1. Tails(long)'
  BY DEF Tails, FrameOf
<1>2. ToDecode(long)'
  BY DEF ToDecode, Head0
<1> QED BY <1>1, <1>2 DEF FramingInv

LEMMA EncodeKeeps == ASSUME FramingInv, NEW n \in Lengths, Encode(n) PROVE FramingInv'
<1> PICK tail \in [Nat -> Seq(Bytes)] : Tails(tail) /\ ToDecode(tail)
  BY DEF FramingInv
<1>0. PICK m \in Nat, d \in Nat : m = Len(framed) /\ d = Len(decoded)
  BY ShapeFacts DEF FramingInv
<1> DEFINE load == [i \in 1 .. n |-> (Len(framed) + 2) % Radix]
<1>1. FramingShape /\ d <= m /\ m < MaxFrames /\ n \in Nat /\ MaxFrames \in Nat
      /\ Fits4(n) /\ framed \in Seq(Seq(Bytes)) /\ ~rawOut /\ rawSent = <<>>
  BY <1>0, FramingAssumption DEF FramingInv, FramingShape, Encode
<1>2. load \in Seq(Bytes) /\ Len(load) = n
  <2>1. (Len(framed) + 2) % Radix \in Bytes
    <3>1. (m + 2) % Radix \in Bytes
      <4>1. m + 2 \in Nat /\ Radix \in Nat /\ Radix > 0
        BY FramingAssumption
      <4>2. (m + 2) % Radix \in Nat /\ (m + 2) % Radix < Radix
        BY <4>1, Division
      <4> QED BY <4>1, <4>2 DEF Bytes
    <3> QED BY <1>0, <3>1
  <2> QED BY <1>1, <2>1
<1>3. PICK payload \in Seq(Bytes) : payload = load /\ Len(payload) = n
  BY <1>2
<1>4. PICK frame \in Seq(Bytes) : frame = FrameOf(payload) /\ frame = Cat(EncodeHead(n), payload)
  BY <1>1, <1>3, HeadIsBytes, CatType DEF FrameOf
<1>5. /\ framed' = Append(framed, payload)
      /\ pipe' = Cat(pipe, frame)
      /\ UNCHANGED <<rawOut, rawSent, src, need, rawIn, decoded, rawGot>>
  <2>1. pipe' = Cat(Cat(pipe, EncodeHead(n)), payload) /\ framed' = Append(framed, payload)
        /\ UNCHANGED <<rawOut, rawSent, src, need, rawIn, decoded, rawGot>>
    BY <1>3 DEF Encode, Cat
  <2>2. pipe \in Seq(Bytes) /\ EncodeHead(n) \in Seq(Bytes)
    BY <1>1, HeadIsBytes DEF FramingShape
  <2>3. Cat(Cat(pipe, EncodeHead(n)), payload) = Cat(pipe, frame)
    BY <1>4, <2>2, CatAssociative
  <2> QED BY <2>1, <2>3
<1>6. /\ framed' \in Seq(Seq(Bytes)) /\ Len(framed') = m + 1 /\ framed'[m + 1] = payload
      /\ \A i \in 1 .. m : framed'[i] = framed[i]
  BY <1>0, <1>1, <1>5, OneMore
<1>7. pipe \in Seq(Bytes) /\ pipe' \in Seq(Bytes)
  BY <1>1, <1>5, CatType DEF FramingShape
<1>8. \A i \in 1 .. m + 1 : i \in 1 .. m \/ i = m + 1
  OBVIOUS
<1>9. ~rawIn /\ rawGot = <<>>
  <2>1. rawIn => d = MaxFrames
    BY <1>0, <1>1 DEF FramingShape
  <2>2. ~rawIn
    BY <1>1, <2>1
  <2> QED BY <1>1, <2>2 DEF FramingShape
<1>10. need # Head0 => d < m /\ d + 1 \in 1 .. m /\ need = <<Len(framed[d + 1])>>
  <2>1. need # Head0 => d < m /\ need = <<Len(framed[d + 1])>>
    BY <1>0, <1>1 DEF FramingShape
  <2> QED BY <2>1
<1>11. FramingShape'
  <2>1. \A i \in 1 .. m + 1 : Len(framed'[i]) \in Lengths /\ Fits4(Len(framed'[i]))
    <3>1. \A i \in 1 .. m : Len(framed[i]) \in Lengths /\ Fits4(Len(framed[i]))
      BY <1>0, <1>1 DEF FramingShape
    <3> QED BY <1>1, <1>3, <1>6, <1>8, <3>1
  <2>2. \A i \in 1 .. d : decoded'[i] = framed'[i]
    <3>1. \A i \in 1 .. d : decoded[i] = framed[i] /\ i \in 1 .. m
      BY <1>0, <1>1 DEF FramingShape
    <3> QED BY <1>5, <1>6, <3>1
  <2>3. d <= m + 1 /\ m + 1 <= MaxFrames
    BY <1>1
  <2>4. need # Head0 => d < m + 1 /\ need = <<Len(framed'[d + 1])>>
    <3>1. d + 1 \in 1 .. m => framed'[d + 1] = framed[d + 1]
      BY <1>6
    <3>2. d < m => d < m + 1
      OBVIOUS
    <3> QED BY <1>10, <3>1, <3>2
  <2>5. Len(framed') = m + 1 /\ Len(decoded') = d
    BY <1>0, <1>5, <1>6
  <2>6. ~rawOut' /\ rawSent' = <<>> /\ ~rawIn' /\ rawGot' = <<>> /\ need' = need
        /\ framed' \in Seq(Seq(Bytes)) /\ decoded' \in Seq(Seq(Bytes))
        /\ rawOut' \in BOOLEAN /\ rawIn' \in BOOLEAN
        /\ rawSent' \in Seq(Bytes) /\ pipe' \in Seq(Bytes) /\ src' \in Seq(Bytes)
        /\ rawGot' \in Seq(Bytes)
    BY <1>1, <1>5, <1>6, <1>7, <1>9 DEF FramingShape
  <2> QED BY <2>1, <2>2, <2>3, <2>4, <2>5, <2>6 DEF FramingShape, Head0
<1>12. PICK long \in [Nat -> Seq(Bytes)] :
       /\ \A k \in 1 .. m : long[k] = Cat(FrameOf(framed[k]), long[k + 1])
       /\ long[m + 1] = Cat(rawSent, frame)
       /\ long[m + 2] = <<>>
       /\ need = Head0 => Cat(src, pipe') = long[d + 1]
       /\ need # Head0 => Cat(src, pipe') = Cat(framed[d + 1], long[d + 2])
  BY <1>0, <1>1, <1>5, <1>9, LongerTails
<1>13. \A k \in 1 .. m + 1 : long[k] = Cat(FrameOf(framed'[k]), long[k + 1])
  <2>1. long[m + 1] = Cat(frame, long[m + 2])
    BY <1>1, <1>4, <1>12, CatEmpty
  <2>2. (m + 1) + 1 = m + 2
    OBVIOUS
  <2>3. long[m + 1] = Cat(FrameOf(framed'[m + 1]), long[(m + 1) + 1])
    BY <1>4, <1>6, <2>1, <2>2
  <2>4. \A k \in 1 .. m : long[k] = Cat(FrameOf(framed'[k]), long[k + 1])
    BY <1>6, <1>12
  <2> QED BY <1>8, <2>3, <2>4
<1>14. long[(m + 1) + 1] = rawSent'
  BY <1>1, <1>5, <1>12
<1>15. need # Head0 => Cat(src', pipe') = Cat(framed'[d + 1], long[d + 2])
  BY <1>5, <1>6, <1>10, <1>12
<1> QED BY <1>0, <1>5, <1>6, <1>9, <1>11, <1>12, <1>13, <1>14, <1>15, StepKeeps

LEMMA EncodeRawKeeps == ASSUME FramingInv, EncodeRaw PROVE FramingInv'
<1> PICK tail \in [Nat -> Seq(Bytes)] : Tails(tail) /\ ToDecode(tail)
  BY DEF FramingInv
<1>1. PICK b \in {0, Radix - 1} : rawSent' = Append(rawSent, b) /\ pipe' = Append(pipe, b)
  BY DEF EncodeRaw
<1>2. b \in Bytes
  BY FramingAssumption DEF Bytes
<1>3. PICK new \in Seq(Bytes) : new = <<b>>
  BY <1>2, EmptySeq, OneMore
<1>4. /\ FramingShape /\ rawSent \in Seq(Bytes) /\ pipe \in Seq(Bytes) /\ rawOut
      /\ UNCHANGED <<framed, rawOut, src, need, rawIn, decoded, rawGot>>
  BY DEF FramingInv, FramingShape, EncodeRaw
<1>5. rawSent' = Cat(rawSent, new) /\ pipe' = Cat(pipe, new)
  <2>0. SUFFICES \A s \in Seq(Bytes) : Append(s, b) = Cat(s, <<b>>)
    BY <1>1, <1>3, <1>4
  <2>1. \A s \in Seq(Bytes) : Append(s, b) = Cat(s, <<b>>)
    BY <1>2, AppendIsCat
  <2> QED BY <2>1
<1>6. rawSent' \in Seq(Bytes) /\ pipe' \in Seq(Bytes)
  BY <1>4, <1>5, CatType
<1>7. FramingShape'
  BY <1>4, <1>6 DEF FramingShape
<1>8. PICK long \in [Nat -> Seq(Bytes)] :
      /\ \A k \in 1 .. Len(framed) : long[k] = Cat(FrameOf(framed[k]), long[k + 1])
      /\ long[Len(framed) + 1] = rawSent'
      /\ rawIn => rawSent' = Cat(rawGot, Cat(src, pipe'))
      /\ ~rawIn /\ need = Head0 => Cat(src, pipe') = long[Len(decoded) + 1]
      /\ ~rawIn /\ need # Head0 =>
           Cat(src, pipe') = Cat(framed[Len(decoded) + 1], long[Len(decoded) + 2])
  BY <1>4, <1>5, LongerTails
<1> QED BY <1>4, <1>7, <1>8, StepKeeps

LEMMA ArriveKeeps == ASSUME FramingInv, NEW k \in 1 .. Len(pipe), Arrive(k) PROVE FramingInv'
<1>1. PICK q \in Seq(Bytes), t \in Seq(Bytes) : q = src /\ t = pipe
  BY DEF FramingInv, FramingShape
<1>0. k \in 0 .. Len(t)
  BY <1>1, LenProperties
<1>2. PICK x \in Seq(Bytes) : x = SubSeq(t, 1, k)
  BY <1>0, Cut
<1>3. PICK y \in Seq(Bytes) : y = SubSeq(t, k + 1, Len(t))
  BY <1>0, Cut
<1>4. t = Cat(x, y)
  BY <1>0, <1>2, <1>3, Cut
<1>5. /\ src' = Cat(q, x) /\ pipe' = y
      /\ UNCHANGED <<framed, rawOut, rawSent, need, rawIn, decoded, rawGot>>
  BY <1>1, <1>2, <1>3 DEF Arrive, Cat
<1>6. Cat(Cat(q, x), y) = Cat(q, t) /\ Cat(q, x) \in Seq(Bytes)
  BY <1>4, CatAssociative, CatType
<1>7. FramingShape'
  BY <1>5, <1>6 DEF FramingInv, FramingShape
<1> PICK tail \in [Nat -> Seq(Bytes)] : Tails(tail) /\ ToDecode(tail)
  BY DEF FramingInv
<1>8. Tails(tail)' /\ ToDecode(tail)'
  BY <1>1, <1>5, <1>6 DEF Tails, ToDecode
<1> QED BY <1>7, <1>8 DEF FramingInv

LEMMA SetRawKeeps == ASSUME FramingInv, SetRawOut \/ SetRawIn PROVE FramingInv'
<1> PICK tail \in [Nat -> Seq(Bytes)] : Tails(tail) /\ ToDecode(tail)
  BY DEF FramingInv
<1>0. FramingShape /\ Len(framed) \in Nat /\ Len(decoded) \in Nat /\ MaxFrames \in Nat
  BY ShapeFacts DEF FramingInv
<1>1. CASE SetRawOut
  <2>1. FramingShape'
    BY <1>0, <1>1 DEF SetRawOut, FramingShape
  <2>2. Tails(tail)' /\ ToDecode(tail)'
    BY <1>1 DEF SetRawOut, Tails, ToDecode
  <2> QED BY <2>1, <2>2 DEF FramingInv
<1>2. CASE SetRawIn
  <2>1. Len(decoded) = MaxFrames /\ Len(framed) = Len(decoded) /\ need = Head0 /\ ~rawIn
        /\ rawGot = <<>>
    BY <1>0, <1>2 DEF SetRawIn, FramingShape
  <2>2. FramingShape'
    BY <1>0, <1>2, <2>1 DEF SetRawIn, FramingShape
  <2>3. rawSent = Cat(src, pipe) /\ Cat(src, pipe) \in Seq(Bytes)
    BY <1>0, <2>1, CatType DEF Tails, ToDecode, FramingShape
  <2>4. rawSent = Cat(rawGot, Cat(src, pipe))
    BY <2>1, <2>3, CatEmpty
  <2>5. Tails(tail)' /\ ToDecode(tail)'
    BY <1>2, <2>1, <2>4 DEF SetRawIn, Tails, ToDecode
  <2> QED BY <2>2, <2>5 DEF FramingInv
<1> QED BY <1>1, <1>2

LEMMA DecodeRawKeeps == ASSUME FramingInv, DecodeRaw PROVE FramingInv'
<1> PICK tail \in [Nat -> Seq(Bytes)] : Tails(tail) /\ ToDecode(tail)
  BY DEF FramingInv
<1>1. /\ FramingShape /\ rawIn /\ src' = <<>> /\ rawGot' = Cat(rawGot, src)
      /\ UNCHANGED <<framed, rawOut, rawSent, pipe, need, rawIn, decoded>>
      /\ src \in Seq(Bytes) /\ pipe \in Seq(Bytes) /\ rawGot \in Seq(Bytes)
  BY DEF FramingInv, FramingShape, DecodeRaw, SplitOff, Cat
<1>2. src' \in Seq(Bytes) /\ rawGot' \in Seq(Bytes)
  BY <1>1, CatType, CatEmpty
<1>3. FramingShape'
  BY <1>1, <1>2 DEF FramingShape
<1>4. rawSent' = Cat(rawGot', Cat(src', pipe'))
  <2>1. rawSent = Cat(rawGot, Cat(src, pipe))
    BY <1>1 DEF ToDecode
  <2>2. Cat(Cat(rawGot, src), pipe) = Cat(rawGot, Cat(src, pipe))
    BY <1>1, CatAssociative
  <2>3. Cat(<<>>, pipe) = pipe
    BY <1>1, CatEmpty
  <2> QED BY <1>1, <2>1, <2>2, <2>3
<1>5. Tails(tail)' /\ ToDecode(tail)'
  BY <1>1, <1>4 DEF Tails, ToDecode
<1> QED BY <1>3, <1>5 DEF FramingInv

\* decode_data on what has come of the next payload
DataStep(tail, rest) ==
  /\ FramingShape /\ ~rawIn /\ Tails(tail) /\ Len(decoded) < Len(framed)
  /\ Cat(rest, pipe) = Cat(framed[Len(decoded) + 1], tail[Len(decoded) + 2])
  /\ Data(Len(framed[Len(decoded) + 1]), rest)
  /\ UNCHANGED <<framed, rawOut, rawSent, pipe, rawIn, rawGot>>

LEMMA DataKeeps ==
  ASSUME NEW tail \in [Nat -> Seq(Bytes)], NEW rest \in Seq(Bytes), DataStep(tail, rest)
  PROVE  FramingInv'
<1>0. /\ FramingShape /\ ~rawIn /\ Tails(tail) /\ Len(decoded) < Len(framed)
      /\ UNCHANGED <<framed, rawOut, rawSent, pipe, rawIn, rawGot>>
  BY DEF DataStep
<1>1. PICK m \in Nat, d \in Nat : m = Len(framed) /\ d = Len(decoded)
  BY <1>0, ShapeFacts
<1>2. d < m /\ m <= MaxFrames /\ MaxFrames \in Nat
  BY <1>0, <1>1, FramingAssumption DEF FramingShape
<1>3. d + 1 \in 1 .. m /\ d + 1 \in Nat /\ d + 2 \in Nat /\ (d + 1) + 1 = d + 2
  BY <1>2
<1>4. PICK p \in Seq(Bytes) : p = framed[d + 1]
  BY <1>0, <1>1, <1>3, ShapeFacts
<1>5. PICK r \in Seq(Bytes) : r = tail[d + 2]
  BY <1>3
<1>6. PICK w \in Seq(Bytes) : w = pipe
  BY <1>0 DEF FramingShape
<1>7. Cat(rest, w) = Cat(p, r) /\ Data(Len(p), rest)
  BY <1>1, <1>4, <1>5, <1>6 DEF DataStep
<1>8. Len(p) \in Nat /\ Len(rest) \in Nat
  BY LenProperties
<1>9. /\ \A k \in 1 .. m : tail[k] = Cat(FrameOf(framed[k]), tail[k + 1])
      /\ tail[m + 1] = rawSent
  BY <1>0, <1>1 DEF Tails
<1>10. /\ framed \in Seq(Seq(Bytes)) /\ decoded \in Seq(Seq(Bytes))
       /\ rawOut \in BOOLEAN /\ rawIn \in BOOLEAN
       /\ rawSent \in Seq(Bytes) /\ pipe \in Seq(Bytes) /\ rawGot \in Seq(Bytes)
       /\ \A i \in 1 .. m : Len(framed[i]) \in Lengths /\ Fits4(Len(framed[i]))
       /\ \A i \in 1 .. d : decoded[i] = framed[i]
       /\ IF rawOut THEN m = MaxFrames ELSE rawSent = <<>>
       /\ rawGot = <<>>
  BY <1>0, <1>1 DEF FramingShape
<1>11. CASE Len(rest) < Len(p)
  <2>1. need' = <<Len(p)>> /\ src' = rest /\ decoded' = decoded
    BY <1>7, <1>11 DEF Data
  <2>2. Len(framed') = m /\ Len(decoded') = d /\ need' = <<Len(framed'[d + 1])>>
    BY <1>0, <1>1, <1>4, <2>1
  <2>3. FramingShape'
    BY <1>0, <1>2, <1>10, <2>1, <2>2 DEF FramingShape
  <2>4. Cat(src', pipe') = Cat(framed'[d + 1], tail[d + 2])
    BY <1>0, <1>4, <1>5, <1>6, <1>7, <2>1
  <2>5. need' # Head0
    BY <2>1 DEF Head0
  <2> QED BY <1>0, <1>9, <2>1, <2>2, <2>3, <2>4, <2>5, StepKeeps
<1>12. CASE Len(rest) >= Len(p)
  <2>0. /\ SubSeq(rest, 1, Len(p)) = p
        /\ SubSeq(rest, Len(p) + 1, Len(rest)) \in Seq(Bytes)
        /\ Cat(SubSeq(rest, Len(p) + 1, Len(rest)), w) = r
    <3>1. Cat(rest, w) = Cat(p, r)
      BY <1>7
    <3>2. SubSeq(rest, 1, Len(p)) = p
      BY <3>1, <1>12, Beginning
    <3>3. SubSeq(rest, Len(p) + 1, Len(rest)) \in Seq(Bytes)
      BY <3>1, <1>12, Beginning
    <3>4. Cat(SubSeq(rest, Len(p) + 1, Len(rest)), w) = r
      BY <3>1, <1>12, Beginning
    <3> QED BY <3>2, <3>3, <3>4
  <2>1. PICK e \in Seq(Bytes) : e = SubSeq(rest, Len(p) + 1, Len(rest))
    BY <2>0
  <2>2. Cat(e, w) = r
    BY <2>0, <2>1
  <2>a. ~(Len(rest) < Len(p))
    BY <1>8, <1>12
  <2>3. need' = Head0 /\ decoded' = Append(decoded, p) /\ src' = e
    BY <1>7, <2>a, <2>0, <2>1 DEF Data
  <2>4. /\ decoded' \in Seq(Seq(Bytes)) /\ Len(decoded') = d + 1
        /\ decoded'[d + 1] = p /\ \A i \in 1 .. d : decoded'[i] = decoded[i]
    BY <1>1, <1>10, <2>3, OneMore
  <2>5. \A i \in 1 .. d + 1 : decoded'[i] = framed'[i]
    <3>1. \A i \in 1 .. d + 1 : i \in 1 .. d \/ i = d + 1
      OBVIOUS
    <3> QED BY <1>0, <1>4, <1>10, <2>4, <3>1
  <2>6. Len(framed') = m /\ d + 1 <= m
    BY <1>0, <1>1, <1>2
  <2>7. FramingShape'
    BY <1>0, <1>2, <1>10, <2>3, <2>4, <2>5, <2>6 DEF FramingShape
  <2>8. Cat(src', pipe') = tail[(d + 1) + 1]
    BY <1>0, <1>3, <1>5, <1>6, <2>2, <2>3
  <2> QED BY <1>0, <1>9, <2>3, <2>4, <2>6, <2>7, <2>8, StepKeeps
<1> QED BY <1>8, <1>11, <1>12

LEMMA DecodeKeeps == ASSUME FramingInv, Decode PROVE FramingInv'
<1> PICK tail \in [Nat -> Seq(Bytes)] : Tails(tail) /\ ToDecode(tail)
  BY DEF FramingInv
<1>1. PICK m \in Nat, d \in Nat : m = Len(framed) /\ d = Len(decoded)
  BY ShapeFacts DEF FramingInv
<1>2. /\ FramingShape /\ ~rawIn /\ d < MaxFrames /\ d <= m
      /\ UNCHANGED <<framed, rawOut, rawSent, pipe, rawIn, rawGot>>
  BY <1>1 DEF FramingInv, FramingShape, Decode
<1>3. PICK q \in Seq(Bytes), w \in Seq(Bytes) : q = src /\ w = pipe
  BY <1>2 DEF FramingShape
<1>4. CASE need # Head0
  <2>1. d < m /\ need = <<Len(framed[d + 1])>>
    BY <1>1, <1>2, <1>4 DEF FramingShape
  <2>2. Data(Len(framed[d + 1]), src)
    BY <1>4, <2>1 DEF Decode
  <2>3. Cat(q, pipe) = Cat(framed[d + 1], tail[d + 2])
    BY <1>1, <1>2, <1>3, <1>4 DEF ToDecode
  <2>4. DataStep(tail, q)
    BY <1>1, <1>2, <1>3, <2>1, <2>2, <2>3 DEF DataStep
  <2> QED BY <2>4, DataKeeps
<1>5. CASE need = Head0
  <2>1. /\ HeadArrived /\ Cat(q, w) = tail[d + 1]
        /\ Data(DecodeHead(SubSeq(src, 1, HeadLength(src[1]))), PastHead)
    BY <1>1, <1>2, <1>3, <1>5 DEF Decode, PartArrived, ToDecode
  <2>2. Len(q) \in Nat \ {0} /\ Len(q) >= HeadLength(q[1])
    BY <1>3, <2>1, LenProperties, EmptySeq DEF HeadArrived
  <2>3. d < m
    <3>1. SUFFICES ASSUME d = m PROVE FALSE
      BY <1>2
    <3>2. tail[d + 1] = rawSent /\ rawSent = <<>>
      BY <1>1, <1>2, <3>1, FramingAssumption DEF Tails, FramingShape
    <3>3. Len(Cat(q, w)) = 0 /\ Len(w) \in Nat /\ Len(Cat(q, w)) = Len(q) + Len(w)
      BY <2>1, <3>2, EmptySeq, LenProperties, CatType
    <3>4. PICK i \in Nat, j \in Nat : i = Len(q) /\ j = Len(w)
      BY <2>2, <3>3
    <3>5. i # 0 /\ i + j = 0
      BY <2>2, <3>3, <3>4
    <3> QED BY <3>5
  <2>4. d + 1 \in 1 .. m /\ d + 1 \in Nat /\ d + 2 \in Nat /\ (d + 1) + 1 = d + 2
    BY <2>3
  <2>5. PICK p \in Seq(Bytes), h \in Seq(Bytes) :
          /\ p = framed[d + 1] /\ h = EncodeHead(Len(p)) /\ Len(h) \in Nat \ {0}
          /\ Len(p) \in Nat /\ Fits4(Len(p))
    BY <1>1, <1>2, <2>4, ShapeFacts
  <2>6. PICK r \in Seq(Bytes) : r = tail[d + 2]
    BY <2>4
  <2>7. tail[d + 1] = Cat(Cat(h, p), r)
    BY <1>1, <2>4, <2>5, <2>6 DEF Tails, FrameOf
  <2>8. PICK pr \in Seq(Bytes) : pr = Cat(p, r)
    BY CatType
  <2>9. Cat(q, w) = Cat(h, pr)
    BY <2>1, <2>7, <2>8, CatAssociative
  <2>10. q[1] = h[1]
    <3>0. \A i \in Nat \ {0} : 1 \in 1 .. i
      OBVIOUS
    <3>1. 1 \in 1 .. Len(q) /\ 1 \in 1 .. Len(h)
      BY <2>2, <2>5, <3>0
    <3>2. Cat(q, w)[1] = q[1] /\ Cat(h, pr)[1] = h[1]
      BY <3>1, CatAt
    <3> QED BY <2>9, <3>2
  <2>11. HeadLength(h[1]) = Len(h) /\ DecodeHead(h) = Len(p)
    BY <2>5, HeadRoundTrip
  <2>12. Len(q) >= Len(h)
    BY <2>2, <2>10, <2>11
  <2>a. /\ SubSeq(q, 1, Len(h)) = h
        /\ SubSeq(q, Len(h) + 1, Len(q)) \in Seq(Bytes)
        /\ Cat(SubSeq(q, Len(h) + 1, Len(q)), w) = pr
    <3>1. SubSeq(q, 1, Len(h)) = h
      BY <2>9, <2>12, Beginning
    <3>2. SubSeq(q, Len(h) + 1, Len(q)) \in Seq(Bytes)
      BY <2>9, <2>12, Beginning
    <3>3. Cat(SubSeq(q, Len(h) + 1, Len(q)), w) = pr
      BY <2>9, <2>12, Beginning
    <3> QED BY <3>1, <3>2, <3>3
  <2>13. PICK c \in Seq(Bytes) : c = SubSeq(q, Len(h) + 1, Len(q))
    BY <2>a
  <2>14. SubSeq(q, 1, Len(h)) = h /\ Cat(c, w) = pr
    BY <2>a, <2>13
  <2>15. Data(Len(p), c)
    BY <1>3, <2>1, <2>10, <2>11, <2>13, <2>14 DEF PastHead
  <2>16. Cat(c, pipe) = Cat(framed[d + 1], tail[d + 2])
    BY <1>3, <2>5, <2>6, <2>8, <2>14
  <2>17. DataStep(tail, c)
    BY <1>1, <1>2, <2>3, <2>5, <2>15, <2>16 DEF DataStep
  <2> QED BY <2>17, DataKeeps
<1> QED BY <1>4, <1>5

LEMMA FramingStepKeeps == ASSUME FramingInv, [FramingNext]_framingVars PROVE FramingInv'
<1>1. CASE \E n \in Lengths : Encode(n)
  BY <1>1, EncodeKeeps
<1>2. CASE EncodeRaw
  BY <1>2, EncodeRawKeeps
<1>3. CASE SetRawOut \/ SetRawIn
  BY <1>3, SetRawKeeps
<1>4. CASE Decode
  BY <1>4, DecodeKeeps
<1>5. CASE DecodeRaw
  BY <1>5, DecodeRawKeeps
<1>6. CASE FramingDeliver
  BY <1>6, ArriveKeeps DEF FramingDeliver
<1>7. CASE UNCHANGED framingVars
  <2> PICK tail \in [Nat -> Seq(Bytes)] : Tails(tail) /\ ToDecode(tail)
    BY DEF FramingInv
  <2>1. FramingShape'
    BY <1>7 DEF FramingInv, FramingShape, framingVars
  <2>2. Tails(tail)' /\ ToDecode(tail)'
    BY <1>7 DEF framingVars, Tails, ToDecode
  <2> QED BY <2>1, <2>2 DEF FramingInv
<1> QED BY <1>1, <1>2, <1>3, <1>4, <1>5, <1>6, <1>7
    DEF FramingNext, FramingSend, FramingReceive

LEMMA FramingInvHolds == FramingSpec => []FramingInv
BY FramingInitHolds, FramingStepKeeps, PTL DEF FramingSpec

\* The buffers hold bytes and the decoder waits for a head or for a payload of a
\* length that is sent, in every reachable state.
THEOREM FramingTypes == FramingSpec => []FramingTypeOK
<1>1. FramingInv => FramingTypeOK
  <2> SUFFICES ASSUME FramingInv PROVE FramingTypeOK
    OBVIOUS
  <2>1. PICK m \in Nat, d \in Nat : m = Len(framed) /\ d = Len(decoded)
    BY ShapeFacts DEF FramingInv
  <2>2. need # Head0 => d + 1 \in 1 .. m /\ need = <<Len(framed[d + 1])>>
    <3>1. need # Head0 => d < m /\ need = <<Len(framed[d + 1])>>
      BY <2>1 DEF FramingInv, FramingShape
    <3> QED BY <3>1
  <2>3. need \in {Head0} \cup {<<n>> : n \in Lengths}
    BY <2>1, <2>2 DEF FramingInv, FramingShape
  <2>4. /\ framed \in Seq(Seq(Bytes)) /\ decoded \in Seq(Seq(Bytes))
        /\ rawOut \in BOOLEAN /\ rawIn \in BOOLEAN
        /\ rawSent \in Seq(Bytes) /\ pipe \in Seq(Bytes) /\ src \in Seq(Bytes)
        /\ rawGot \in Seq(Bytes)
    BY DEF FramingInv, FramingShape
  <2>5. {rawSent, pipe, src, rawGot} \subseteq Seq(Bytes)
    BY <2>4
  <2> QED BY <2>3, <2>4, <2>5 DEF FramingTypeOK
<1> QED BY <1>1, FramingInvHolds, PTL

LEMMA PrefixesHold == ASSUME FramingInv PROVE FramesPreserved
<1> PICK tail \in [Nat -> Seq(Bytes)] : Tails(tail) /\ ToDecode(tail)
  BY DEF FramingInv
<1>0. FramingShape
  BY DEF FramingInv
<1>1. IsPrefix(decoded, framed)
  <2>1. PICK m \in Nat, d \in Nat : m = Len(framed) /\ d = Len(decoded)
    BY <1>0, ShapeFacts
  <2>2. d \in 0 .. m /\ \A i \in 1 .. d : decoded[i] = framed[i]
    BY <1>0, <2>1 DEF FramingShape
  <2>3. PICK a \in Seq(Seq(Bytes)), b \in Seq(Seq(Bytes)) : a = decoded /\ b = framed
    BY <1>0 DEF FramingShape
  <2>4. Len(a) <= Len(b) /\ \A i \in 1 .. Len(a) : a[i] = b[i]
    BY <2>1, <2>2, <2>3
  <2> QED BY <2>3, <2>4, PrefixIs
<1>2. IsPrefix(rawGot, rawSent)
  <2>1. PICK a \in Seq(Bytes), q \in Seq(Bytes), w \in Seq(Bytes) :
          a = rawGot /\ q = src /\ w = pipe
    BY <1>0 DEF FramingShape
  <2>2. PICK b \in Seq(Bytes) : b = rawSent
    BY <1>0 DEF FramingShape
  <2>3. PICK c \in Seq(Bytes) : b = Cat(a, c)
    <3>1. CASE rawIn
      <4>1. b = Cat(a, Cat(q, w))
        BY <2>1, <2>2, <3>1 DEF ToDecode
      <4> QED BY <4>1, CatType
    <3>2. CASE ~rawIn
      <4>1. a = <<>>
        BY <1>0, <2>1, <3>2 DEF FramingShape
      <4> QED BY <4>1, CatEmpty
    <3> QED BY <3>1, <3>2
  <2>4. IsPrefix(a, b)
    BY <2>3, PrefixOfCat
  <2> QED BY <2>1, <2>2, <2>4
<1> QED BY <1>1, <1>2 DEF FramesPreserved

\* The payloads come out of decode as they went into encode, in order and whole,
\* and after set_raw the bytes do: for every width of the head, every length of a
\* payload and every way the network cuts the stream.
THEOREM FramesAlwaysPreserved == FramingSpec => []FramesPreserved
<1>1. FramingInv => FramesPreserved
  BY PrefixesHold
<1> QED BY <1>1, FramingInvHolds, PTL

\* A sequence that begins another one, nothing following it, is the longer one.
LEMMA NothingFollows ==
  ASSUME NEW q \in Seq(Bytes), NEW h \in Seq(Bytes), NEW r \in Seq(Bytes),
         Cat(q, <<>>) = Cat(h, r)
  PROVE  Len(q) >= Len(h) /\ \A i \in 1 .. Len(h) : q[i] = h[i]
<1>1. q = Cat(h, r)
  BY CatEmpty
<1>2. Len(q) = Len(h) + Len(r)
  BY <1>1, CatType
<1>3. Len(h) \in Nat /\ Len(r) \in Nat /\ Len(q) \in Nat
  BY LenProperties
<1>4. Len(q) >= Len(h)
  BY <1>2, <1>3
<1>5. \A i \in 1 .. Len(h) : Cat(h, r)[i] = h[i]
  BY CatAt
<1> QED BY <1>1, <1>4, <1>5

\* A part of a frame that is under way is there once nothing else is.
LEMMA PartIsThere ==
  ASSUME FramingInv, pipe = <<>>, ~rawIn, Len(decoded) < Len(framed)
  PROVE  PartArrived
<1> PICK tail \in [Nat -> Seq(Bytes)] : Tails(tail) /\ ToDecode(tail)
  BY DEF FramingInv
<1>1. PICK m \in Nat, d \in Nat : m = Len(framed) /\ d = Len(decoded)
  BY ShapeFacts DEF FramingInv
<1>2. FramingShape /\ d < m
  BY <1>1 DEF FramingInv
<1>3. PICK q \in Seq(Bytes) : q = src
  BY <1>2 DEF FramingShape
<1>4. d + 1 \in 1 .. m /\ d + 1 \in Nat /\ d + 2 \in Nat /\ (d + 1) + 1 = d + 2
  BY <1>2
<1>5. PICK p \in Seq(Bytes), h \in Seq(Bytes) :
        /\ p = framed[d + 1] /\ h = EncodeHead(Len(p)) /\ Len(h) \in Nat \ {0}
        /\ Len(p) \in Nat /\ Fits4(Len(p))
  BY <1>1, <1>2, <1>4, ShapeFacts
<1>6. PICK r \in Seq(Bytes) : r = tail[d + 2]
  BY <1>4
<1>7. CASE need # Head0
  <2>1. need = <<Len(p)>>
    BY <1>1, <1>2, <1>5, <1>7 DEF FramingShape
  <2>2. Cat(q, <<>>) = Cat(p, r)
    BY <1>1, <1>3, <1>5, <1>6, <1>7 DEF ToDecode
  <2>3. Len(q) >= Len(p)
    BY <2>2, NothingFollows
  <2> QED BY <1>3, <1>7, <2>1, <2>3 DEF PartArrived
<1>8. CASE need = Head0
  <2>1. Cat(q, <<>>) = tail[d + 1]
    BY <1>1, <1>3, <1>8 DEF ToDecode
  <2>2. tail[d + 1] = Cat(Cat(h, p), r)
    BY <1>1, <1>4, <1>5, <1>6 DEF Tails, FrameOf
  <2>3. PICK pr \in Seq(Bytes) : pr = Cat(p, r)
    BY CatType
  <2>4. Cat(q, <<>>) = Cat(h, pr)
    BY <2>1, <2>2, <2>3, CatAssociative
  <2>5. Len(q) >= Len(h) /\ \A i \in 1 .. Len(h) : q[i] = h[i]
    BY <2>4, NothingFollows
  <2>6. 1 \in 1 .. Len(h) /\ Len(q) \in Nat
    BY <1>5, LenProperties
  <2>7. q[1] = h[1] /\ Len(q) # 0
    BY <1>5, <2>5, <2>6
  <2>8. HeadLength(q[1]) = Len(h)
    BY <1>5, <2>7, HeadRoundTrip
  <2>9. q # <<>>
    BY <2>7
  <2> QED BY <1>3, <1>8, <2>5, <2>8, <2>9 DEF PartArrived, HeadArrived
<1> QED BY <1>7, <1>8

\* The decoder never sits on a frame that has arrived: with nothing under way and
\* nothing left to do, all that was encoded has been decoded, whatever the lengths
\* and wherever the stream was cut.
THEOREM NothingEverStuck == FramingSpec => []NothingStuck
<1>1. FramingInv => NothingStuck
  <2> SUFFICES ASSUME FramingInv, pipe = <<>>, ~CanReceive
               PROVE  decoded = framed /\ rawGot = rawSent
    BY DEF NothingStuck
  <2> PICK tail \in [Nat -> Seq(Bytes)] : Tails(tail) /\ ToDecode(tail)
    BY DEF FramingInv
  <2>1. PICK m \in Nat, d \in Nat : m = Len(framed) /\ d = Len(decoded)
    BY ShapeFacts DEF FramingInv
  <2>2. FramingShape /\ d <= m /\ m <= MaxFrames /\ MaxFrames \in Nat
    BY <2>1, FramingAssumption DEF FramingInv, FramingShape
  <2>3. PICK a \in Seq(Seq(Bytes)), b \in Seq(Seq(Bytes)) : a = decoded /\ b = framed
    BY <2>2 DEF FramingShape
  <2>4. d = m => decoded = framed
    <3>1. SUFFICES ASSUME d = m PROVE a = b
      BY <2>3
    <3>2. Len(a) = Len(b) /\ \A i \in 1 .. Len(a) : a[i] = b[i]
      BY <2>1, <2>2, <2>3, <3>1 DEF FramingShape
    <3> QED BY <3>2, SeqEqual
  <2>5. CASE rawIn
    <3>1. src = <<>> /\ d = m
      BY <2>1, <2>2, <2>5 DEF CanReceive, FramingShape
    <3>2. rawSent = Cat(rawGot, Cat(<<>>, <<>>)) /\ rawGot \in Seq(Bytes)
      BY <2>2, <2>5, <3>1 DEF ToDecode, FramingShape
    <3>3. rawSent = rawGot
      BY <3>2, CatEmpty
    <3> QED BY <2>4, <3>1, <3>3
  <2>6. CASE ~rawIn
    <3>1. d < MaxFrames /\ ~PartArrived
      BY <2>1, <2>6 DEF CanReceive
    <3>2. d = m
      BY <2>1, <2>2, <2>6, <3>1, PartIsThere
    <3>3. rawSent = <<>> /\ rawGot = <<>>
      BY <2>1, <2>2, <2>6, <3>1, <3>2 DEF FramingShape
    <3> QED BY <2>4, <3>2, <3>3
  <2> QED BY <2>5, <2>6
<1> QED BY <1>1, FramingInvHolds, PTL

-----------------------------------------------------------------------------
(* Framing: the stream is two channels.                                    *)

\* A sequence begins with itself, also when something is added.
LEMMA AppendIsLonger ==
  ASSUME NEW S, NEW s \in Seq(S), NEW x \in S
  PROVE  IsPrefix(s, Append(s, x)) /\ Len(Append(s, x)) = Len(s) + 1
<1>1. IsPrefix(s, Cat(s, <<x>>))
  BY OneMore, PrefixOfCat
<1> QED BY <1>1, OneMore

\* The channels mean the same by a prefix.
LEMMA SamePrefix ==
  \A s, t : /\ Payloads!IsPrefix(s, t) <=> IsPrefix(s, t)
            /\ RawBytes!IsPrefix(s, t) <=> IsPrefix(s, t)
BY DEF IsPrefix, Payloads!IsPrefix, RawBytes!IsPrefix

\* encode sends one payload.
LEMMA EncodeSends ==
  ASSUME FramingInv, NEW n \in Lengths, Encode(n)
  PROVE  Payloads!Send /\ UNCHANGED RawBytes!channelVars
<1>1. framed \in Seq(Seq(Bytes)) /\ n \in Nat
  BY FramingAssumption DEF FramingInv, FramingShape
<1> DEFINE v == (Len(framed) + 2) % Radix
<1>2. v \in Bytes
  <2>1. Len(framed) + 2 \in Nat /\ Radix \in Nat /\ Radix > 0
    BY <1>1, LenProperties, FramingAssumption
  <2> QED BY <2>1, Division DEF Bytes
<1> HIDE DEF v
<1>3. [i \in 1 .. n |-> v] \in Seq(Bytes)
  BY <1>1, <1>2
<1>4. framed' = Append(framed, [i \in 1 .. n |-> v]) /\ UNCHANGED <<decoded, rawSent, rawGot>>
  BY DEF Encode, v
<1> QED BY <1>1, <1>3, <1>4, AppendIsLonger, SamePrefix DEF Payloads!Send, RawBytes!channelVars

\* decode gives the next payload, or none.
LEMMA DecodeDelivers ==
  ASSUME FramingInv, FramingInv', FramesPreserved', Decode
  PROVE  Payloads!Deliver /\ UNCHANGED RawBytes!channelVars
<1>1. /\ decoded \in Seq(Seq(Bytes)) /\ decoded' \in Seq(Seq(Bytes))
      /\ \A i \in 1 .. Len(decoded) : decoded[i] = framed[i]
      /\ \A i \in 1 .. Len(decoded') : decoded'[i] = framed[i]
      /\ framed' = framed /\ rawSent' = rawSent /\ rawGot' = rawGot
  BY DEF FramingInv, FramingShape, Decode
<1>2. PICK d \in Nat, e \in Nat : d = Len(decoded) /\ e = Len(decoded')
  BY <1>1, LenProperties
<1>3. \/ decoded' = decoded
      \/ \E x : decoded' = Append(decoded, x)
  BY DEF Decode, Data
<1>4. d <= e
  BY <1>1, <1>2, <1>3
<1>5. IsPrefix(decoded, decoded')
  <2>1. \A i \in 1 .. d : i \in 1 .. e /\ decoded[i] = decoded'[i]
    BY <1>1, <1>2, <1>4
  <2>2. PICK a \in Seq(Seq(Bytes)), b \in Seq(Seq(Bytes)) : a = decoded /\ b = decoded'
    BY <1>1
  <2>3. Len(a) <= Len(b) /\ \A i \in 1 .. Len(a) : a[i] = b[i]
    BY <1>2, <1>4, <2>1, <2>2
  <2>4. IsPrefix(a, b)
    BY <2>3, PrefixIs
  <2> QED BY <2>2, <2>4
<1> QED BY <1>1, <1>5, SamePrefix DEF FramesPreserved, Payloads!Deliver, RawBytes!channelVars

\* A raw encode sends a byte, a raw decode gives all that has come.
LEMMA RawSends ==
  ASSUME FramingInv, EncodeRaw
  PROVE  RawBytes!Send /\ UNCHANGED Payloads!channelVars
<1>1. rawSent \in Seq(Bytes) /\ 0 \in Bytes /\ Radix - 1 \in Bytes
  BY FramingAssumption DEF FramingInv, FramingShape, Bytes
<1>2. PICK b \in {0, Radix - 1} : rawSent' = Append(rawSent, b)
  BY DEF EncodeRaw
<1> QED BY <1>1, <1>2, AppendIsLonger, SamePrefix DEF EncodeRaw, RawBytes!Send, Payloads!channelVars

LEMMA RawDelivers ==
  ASSUME FramingInv, FramesPreserved', DecodeRaw
  PROVE  RawBytes!Deliver /\ UNCHANGED Payloads!channelVars
<1>1. rawGot \in Seq(Bytes) /\ src \in Seq(Bytes) /\ rawGot' = Cat(rawGot, src)
      /\ rawSent' = rawSent /\ framed' = framed /\ decoded' = decoded
  BY DEF FramingInv, FramingShape, DecodeRaw, SplitOff, Cat
<1>2. IsPrefix(rawGot, rawGot')
  BY <1>1, PrefixOfCat
<1> QED BY <1>1, <1>2, SamePrefix DEF FramesPreserved, RawBytes!Deliver, Payloads!channelVars

\* Encoder, network and decoder implement two channels, one for the payloads and
\* one for the bytes after set_raw: every step sends, delivers or is not seen.
THEOREM FramingImplementsChannels == FramingSpec => ImplementsChannels
<1>1. FramingInit => Payloads!Init /\ RawBytes!Init
  BY DEF FramingInit, Payloads!Init, RawBytes!Init
<1>2. ASSUME FramingInv, FramingInv', FramesPreserved', [FramingNext]_framingVars
      PROVE  /\ Payloads!Send \/ Payloads!Deliver \/ UNCHANGED Payloads!channelVars
             /\ RawBytes!Send \/ RawBytes!Deliver \/ UNCHANGED RawBytes!channelVars
  <2>1. CASE \E n \in Lengths : Encode(n)
    BY <1>2, <2>1, EncodeSends
  <2>2. CASE Decode
    BY <1>2, <2>2, DecodeDelivers
  <2>3. CASE EncodeRaw
    BY <1>2, <2>3, RawSends
  <2>4. CASE DecodeRaw
    BY <1>2, <2>4, RawDelivers
  <2>5. CASE SetRawOut \/ SetRawIn \/ FramingDeliver \/ UNCHANGED framingVars
    BY <2>5 DEF SetRawOut, SetRawIn, FramingDeliver, Arrive, framingVars,
                Payloads!channelVars, RawBytes!channelVars
  <2> QED BY <1>2, <2>1, <2>2, <2>3, <2>4, <2>5 DEF FramingNext, FramingSend, FramingReceive
<1>3. FramingInv /\ FramingInv' /\ FramesPreserved' /\ [FramingNext]_framingVars
      => /\ [Payloads!Send \/ Payloads!Deliver]_(Payloads!channelVars)
         /\ [RawBytes!Send \/ RawBytes!Deliver]_(RawBytes!channelVars)
  BY <1>2
<1> QED
  BY <1>1, <1>3, FramingInvHolds, FramesAlwaysPreserved, PTL
     DEF FramingSpec, ImplementsChannels, Payloads!Spec, RawBytes!Spec

-----------------------------------------------------------------------------
(* SecureStream.                                                           *)
-----------------------------------------------------------------------------
(* The invariant.                                                          *)

\* How far the handshake is.
Handshake ==
  /\ trusts => secure
  /\ stage["ctl"] = "greet" =>
       ~key["ctl"] /\ given["ctl"] = 0 /\ got["ctl"] = <<>> /\ wire["ctl"] = <<>>
  /\ stage["srv"] \in {"greet", "answer"} =>
       ~key["srv"] /\ given["srv"] = 0 /\ got["srv"] = <<>>
  /\ stage["srv"] = "greet" => wire["srv"] = <<>> /\ ~key["ctl"]
  /\ stage["ctl"] = "greet" /\ trusts =>
       /\ stage["srv"] # "open" /\ given["srv"] = 0
       /\ wire["srv"] = <<>> \/ wire["srv"] = <<Unsealed("SignedId")>>

\* The answer on its way says whether there is a key; messages follow it.
KeyAnswers ==
  stage["srv"] \in {"greet", "answer"} =>
    /\ wire["ctl"] = <<>> => ~key["ctl"]
    /\ wire["ctl"] # <<>> => (key["ctl"] <=> wire["ctl"][1].kind = "PublicKey")
    /\ \A i \in 2 .. Len(wire["ctl"]) : wire["ctl"][i].kind = "Message"

\* The controlled side has a key only if the other one has, and no message or
\* open stage of it lacks the key then.
Agreed ==
  /\ key["srv"] => key["ctl"]
  /\ key["ctl"] /\ (given["srv"] > 0 \/ stage["srv"] = "open") => key["srv"]

\* A frame carries the number of its message as the nonce, if its side has a key.
Numbered(e, frame) ==
  IF frame.kind = "Message"
    THEN frame.number \in 1 .. given[e] /\ frame.nonce = IF key[e] THEN frame.number ELSE 0
    ELSE frame.nonce = 0

FramesNumbered == \A e \in Sides : \A i \in 1 .. Len(wire[e]) : Numbered(e, wire[e][i])

\* Nothing of the handshake is left for a side that has its key.
OnlyMessages ==
  \A e \in Sides : key[e] => \A i \in 1 .. Len(wire[Peer(e)]) : wire[Peer(e)][i].kind = "Message"

Counted == \A e \in Sides : key[e] => sealed[e] = given[e]

Gapless ==
  \A e \in Sides : key[e] =>
    /\ Len(got[e]) <= given[Peer(e)]
    /\ \A i \in 1 .. Len(got[e]) : got[e][i] = i
    /\ stage[e] = "open" => opened[e] = Len(got[e])

SecureInv ==
  /\ SecureTypeOK /\ Handshake /\ KeyAnswers /\ Agreed /\ FramesNumbered /\ OnlyMessages
  /\ Counted /\ Gapless /\ ~confused

-----------------------------------------------------------------------------
(* Sequences.                                                              *)

LEMMA Appending ==
  ASSUME NEW S, NEW s \in Seq(S), NEW x \in S
  PROVE  /\ Append(s, x) \in Seq(S) /\ Append(s, x) # <<>>
         /\ Len(Append(s, x)) = Len(s) + 1 /\ Append(s, x)[Len(s) + 1] = x
         /\ \A i \in 1 .. Len(s) : Append(s, x)[i] = s[i]
  OBVIOUS

LEMMA Taking ==
  ASSUME NEW S, NEW s \in Seq(S), s # <<>>
  PROVE  /\ Tail(s) \in Seq(S) /\ Len(s) \in Nat /\ Len(s) >= 1
         /\ Len(Tail(s)) = Len(s) - 1
         /\ Head(s) = s[1] /\ s[1] \in S
         /\ \A i \in 1 .. Len(Tail(s)) : Tail(s)[i] = s[i + 1]
  BY EmptySeq, HeadTailProperties

LEMMA SidesFacts == \A e \in Sides : Peer(e) \in Sides /\ Peer(e) # e /\ Peer(Peer(e)) = e
  BY DEF Sides, Peer

\* A greeting is a frame, and no message.
LEMMA Greeting ==
  ASSUME NEW kind \in Greetings
  PROVE  /\ Unsealed(kind) \in SecureFrames
         /\ Unsealed(kind).kind = kind /\ kind # "Message" /\ Unsealed(kind).nonce = 0
  BY DEF Unsealed, SecureFrames, Greetings

-----------------------------------------------------------------------------
(* The steps of the handshake.                                             *)

LEMMA InitHolds == SecureInit => SecureInv
<1> SUFFICES ASSUME SecureInit PROVE SecureInv
  OBVIOUS
<1>1. <<>> \in Seq(SecureFrames) /\ <<>> \in Seq(Nat) /\ Len(<<>>) = 0 /\ 0 \in 0 .. MaxSends
  BY SecureStreamAssumption
<1>2. SecureTypeOK
  BY <1>1 DEF SecureInit, SecureTypeOK, Sides, SecurePhases
<1>3. Handshake /\ KeyAnswers /\ Agreed /\ Counted /\ Gapless /\ ~confused
  BY <1>1 DEF SecureInit, Handshake, KeyAnswers, Agreed, Counted, Gapless, Sides
<1>4. FramesNumbered /\ OnlyMessages
  BY <1>1 DEF SecureInit, FramesNumbered, OnlyMessages, Sides
<1> QED BY <1>2, <1>3, <1>4 DEF SecureInv

LEMMA OfferKeeps == ASSUME SecureInv, OfferKey PROVE SecureInv'
<1> USE DEF SecureInv
<1> DEFINE f == Unsealed("SignedId")
<1>1. f \in SecureFrames /\ f.kind = "SignedId" /\ f.nonce = 0
  BY Greeting DEF Greetings
<1>2. CASE secure
  <2>1. wire["srv"] = <<>> /\ ~key["ctl"] /\ ~key["srv"] /\ given["srv"] = 0 /\ got["srv"] = <<>>
    BY DEF OfferKey, Handshake
  <2>2. wire' = [wire EXCEPT !["srv"] = <<f>>] /\ stage' = [stage EXCEPT !["srv"] = "answer"]
    BY <1>2, <2>1 DEF OfferKey, Greeted, Enter, SecureTypeOK
  <2>3. <<f>> \in Seq(SecureFrames) /\ Len(<<f>>) = 1 /\ <<f>>[1] = f
    BY <1>1
  <2> HIDE DEF f
  <2>4. SecureTypeOK'
    BY <2>2, <2>3 DEF OfferKey, SecureTypeOK, Sides, SecurePhases
  <2>5. Handshake' /\ KeyAnswers' /\ Agreed' /\ Counted' /\ Gapless' /\ ~confused'
    BY <2>1, <2>2 DEF OfferKey, SecureTypeOK, Sides, Handshake, KeyAnswers, Agreed, Counted, Gapless, f
  <2>6. FramesNumbered' /\ OnlyMessages'
    BY <1>1, <2>1, <2>2, <2>3
    DEF OfferKey, SecureTypeOK, Sides, FramesNumbered, Numbered, OnlyMessages, Peer
  <2> QED BY <2>4, <2>5, <2>6
<1>3. CASE ~secure
  <2>1. stage' = [stage EXCEPT !["srv"] = "open"] /\ UNCHANGED <<trusts, secure, verified, wire, key, sealed, opened, given, got, lost, confused>>
    BY <1>3 DEF OfferKey, Enter
  <2>2. ~trusts /\ ~key["ctl"] /\ ~key["srv"] /\ stage["srv"] = "greet"
    BY <1>3 DEF OfferKey, Handshake
  <2>3. SecureTypeOK'
    BY <2>1 DEF SecureTypeOK, Sides, SecurePhases
  <2>4. Handshake' /\ KeyAnswers' /\ Agreed' /\ Counted' /\ Gapless' /\ ~confused'
    BY <2>1, <2>2 DEF SecureTypeOK, Sides, Handshake, KeyAnswers, Agreed, Counted, Gapless
  <2>5. FramesNumbered' /\ OnlyMessages'
    BY <2>1 DEF FramesNumbered, Numbered, OnlyMessages
  <2> QED BY <2>3, <2>4, <2>5
<1> QED BY <1>2, <1>3

LEMMA DeclineKeeps == ASSUME SecureInv, DeclineKey PROVE SecureInv'
<1> USE DEF SecureInv
<1> DEFINE f == Unsealed("Nothing")
<1>1. f \in SecureFrames /\ f.kind = "Nothing" /\ f.nonce = 0
  BY Greeting DEF Greetings
<1>2. wire["ctl"] = <<>> /\ ~key["ctl"] /\ ~key["srv"] /\ given["ctl"] = 0 /\ got["ctl"] = <<>>
  BY DEF DeclineKey, Handshake, Agreed
<1>3. wire' = [wire EXCEPT !["ctl"] = <<f>>] /\ stage' = [stage EXCEPT !["ctl"] = "open"]
  BY <1>2 DEF DeclineKey, Greeted, Enter, SecureTypeOK
<1>4. <<f>> \in Seq(SecureFrames) /\ Len(<<f>>) = 1 /\ <<f>>[1] = f /\ <<f>> # <<>>
  BY <1>1
<1> HIDE DEF f
<1>5. SecureTypeOK'
  BY <1>3, <1>4 DEF DeclineKey, SecureTypeOK, Sides, SecurePhases
<1>6. Handshake' /\ Agreed' /\ Counted' /\ Gapless' /\ ~confused'
  BY <1>2, <1>3 DEF DeclineKey, SecureTypeOK, Sides, Handshake, Agreed, Counted, Gapless
<1>7. KeyAnswers'
  BY <1>1, <1>2, <1>3, <1>4 DEF DeclineKey, SecureTypeOK, Sides, KeyAnswers
<1>8. FramesNumbered' /\ OnlyMessages'
  BY <1>1, <1>2, <1>3, <1>4
  DEF DeclineKey, SecureTypeOK, Sides, FramesNumbered, Numbered, OnlyMessages, Peer
<1> QED BY <1>5, <1>6, <1>7, <1>8

LEMMA AnswerKeeps == ASSUME SecureInv, AnswerKey PROVE SecureInv'
<1> USE DEF SecureInv
<1> DEFINE signed == Head(wire["srv"]).kind = "SignedId" /\ verified
<1>1. PICK kind \in IF signed THEN {"PublicKey"} ELSE {"EmptyKey", "Nothing"} :
        wire' = [wire EXCEPT !["srv"] = Tail(@), !["ctl"] = Append(@, Unsealed(kind))]
  BY DEF AnswerKey
<1> DEFINE f == Unsealed(kind)
<1>2. f \in SecureFrames /\ f.kind = kind /\ f.nonce = 0 /\ kind # "Message"
  BY Greeting DEF Greetings
<1>3. /\ wire["ctl"] = <<>> /\ ~key["ctl"] /\ ~key["srv"]
      /\ given["ctl"] = 0 /\ got["ctl"] = <<>> /\ given["srv"] = 0
      /\ wire["srv"] = <<Unsealed("SignedId")>> /\ stage["srv"] \notin {"open", "greet"}
  BY DEF AnswerKey, Handshake, Agreed
<1>4. /\ wire' = [wire EXCEPT !["srv"] = <<>>, !["ctl"] = <<f>>]
      /\ key' = [key EXCEPT !["ctl"] = signed] /\ (signed <=> kind = "PublicKey")
      /\ stage' = [stage EXCEPT !["ctl"] = "open"]
      /\ UNCHANGED <<secure, trusts, verified, sealed, opened, given, got, lost, confused>>
  <2>1. Tail(wire["srv"]) = <<>> /\ Append(wire["ctl"], f) = <<f>>
    BY <1>3
  <2>2. wire' = [wire EXCEPT !["srv"] = <<>>, !["ctl"] = <<f>>]
    BY <1>1, <2>1 DEF SecureTypeOK, Sides
  <2>3. signed <=> kind = "PublicKey"
    OBVIOUS
  <2> QED BY <2>2, <2>3 DEF AnswerKey, Enter
<1>5. <<f>> \in Seq(SecureFrames) /\ Len(<<f>>) = 1 /\ <<f>>[1] = f /\ <<f>> # <<>>
  BY <1>2
<1> HIDE DEF f, signed
<1>6. SecureTypeOK'
  BY <1>3, <1>4, <1>5 DEF SecureTypeOK, Sides, SecurePhases
<1>7. Handshake' /\ Agreed' /\ ~confused'
  BY <1>3, <1>4 DEF SecureTypeOK, Sides, Handshake, Agreed
<1>8. KeyAnswers'
  BY <1>2, <1>3, <1>4, <1>5 DEF SecureTypeOK, Sides, KeyAnswers
<1>9. FramesNumbered' /\ OnlyMessages'
  BY <1>2, <1>3, <1>4, <1>5 DEF SecureTypeOK, Sides, FramesNumbered, Numbered, OnlyMessages, Peer
<1>10. Counted' /\ Gapless'
  <2>1. sealed["ctl"] = 0 /\ opened["ctl"] = 0
    BY <1>3 DEF SecureTypeOK, Sides
  <2> QED BY <1>3, <1>4, <2>1 DEF SecureTypeOK, Sides, Counted, Gapless, Peer
<1> QED BY <1>6, <1>7, <1>8, <1>9, <1>10

LEMMA AcceptKeeps == ASSUME SecureInv, AcceptKey PROVE SecureInv'
<1> USE DEF SecureInv
<1>1. /\ wire["ctl"] \in Seq(SecureFrames) /\ wire["ctl"] # <<>>
      /\ stage["srv"] = "answer" /\ ~key["srv"]
      /\ given["srv"] = 0 /\ got["srv"] = <<>> /\ stage["ctl"] # "greet"
  BY DEF AcceptKey, SecureTypeOK, Sides, Handshake
<1>2. /\ wire' = [wire EXCEPT !["ctl"] = Tail(@)]
      /\ key' = [key EXCEPT !["srv"] = key["ctl"]]
      /\ stage' = [stage EXCEPT !["srv"] = "open"]
      /\ UNCHANGED <<secure, trusts, verified, sealed, opened, given, got, lost, confused>>
  <2>1. TakesKey(Head(wire["ctl"])) = key["ctl"]
    BY <1>1, Taking DEF TakesKey, KeyAnswers, SecureTypeOK, Sides
  <2> QED BY <2>1 DEF AcceptKey, Enter
<1>3. /\ Tail(wire["ctl"]) \in Seq(SecureFrames) /\ Len(wire["ctl"]) \in Nat
      /\ Len(Tail(wire["ctl"])) = Len(wire["ctl"]) - 1
      /\ \A i \in 1 .. Len(Tail(wire["ctl"])) : Tail(wire["ctl"])[i] = wire["ctl"][i + 1]
  BY <1>1, Taking
<1>4. SecureTypeOK'
  BY <1>1, <1>2, <1>3 DEF SecureTypeOK, Sides, SecurePhases
<1>5. Handshake' /\ KeyAnswers' /\ Agreed' /\ ~confused'
  BY <1>1, <1>2 DEF SecureTypeOK, Sides, Handshake, KeyAnswers, Agreed
<1>6. \A i \in 1 .. Len(wire["ctl"]) : i # 1 => wire["ctl"][i].kind = "Message"
  BY <1>1, <1>3 DEF KeyAnswers
<1>7. \A i \in 1 .. Len(wire["srv"]) : wire["srv"][i].kind # "Message"
  BY <1>1 DEF FramesNumbered, Numbered, Sides
<1>8. FramesNumbered'
  <2>1. (\A i \in 1 .. Len(wire["ctl"]) : Numbered("ctl", wire["ctl"][i]))'
    BY <1>2, <1>3 DEF SecureTypeOK, FramesNumbered, Numbered, Sides
  <2>2. (\A i \in 1 .. Len(wire["srv"]) : Numbered("srv", wire["srv"][i]))'
    BY <1>2, <1>7 DEF SecureTypeOK, FramesNumbered, Numbered, Sides
  <2> QED BY <2>1, <2>2 DEF FramesNumbered, Sides
<1>9. OnlyMessages'
  <2>1. \A i \in 1 .. Len(wire'["ctl"]) : wire'["ctl"][i].kind = "Message"
    BY <1>2, <1>3, <1>6 DEF SecureTypeOK, Sides
  <2>2. key'["ctl"] => \A i \in 1 .. Len(wire'["srv"]) : wire'["srv"][i].kind = "Message"
    BY <1>2 DEF SecureTypeOK, Sides, OnlyMessages, Peer
  <2> QED BY <2>1, <2>2 DEF OnlyMessages, Sides, Peer
<1>10. Counted' /\ Gapless'
  <2>1. sealed["srv"] = 0 /\ opened["srv"] = 0
    BY <1>1 DEF SecureTypeOK, Sides
  <2> QED BY <1>1, <1>2, <2>1 DEF SecureTypeOK, Sides, Counted, Gapless, Peer
<1> QED BY <1>4, <1>5, <1>8, <1>9, <1>10
-----------------------------------------------------------------------------
(* The steps of the open connection.                                       *)

LEMMA SendKeeps == ASSUME SecureInv, NEW e \in Sides, Send(e) PROVE SecureInv'
<1> USE DEF SecureInv
<1> DEFINE f == [kind |-> "Message", nonce |-> Nonce(e), number |-> given[e] + 1]
<1>1. /\ stage[e] = "open" /\ wire[e] \in Seq(SecureFrames)
      /\ given[e] \in Nat /\ sealed[e] \in Nat /\ given[e] + 1 \in 0 .. MaxSends
      /\ Nonce(e) \in Nat /\ f \in SecureFrames
  <2>1. stage[e] = "open" /\ wire[e] \in Seq(SecureFrames) /\ given[e] \in Nat /\ sealed[e] \in Nat
    BY SecureStreamAssumption DEF Send, SecureTypeOK
  <2>2. given[e] + 1 \in 0 .. MaxSends
    BY SecureStreamAssumption, <2>1 DEF Send
  <2>3. Nonce(e) \in Nat
    BY <2>1 DEF Nonce
  <2>4. f \in SecureFrames
    BY <2>1, <2>3 DEF SecureFrames
  <2> QED BY <2>1, <2>2, <2>3, <2>4
<1>2. /\ f.kind = "Message" /\ f.number = given[e] + 1
      /\ f.nonce = IF key[e] THEN given[e] + 1 ELSE 0
  BY DEF Nonce, Counted
<1> DEFINE w == Append(wire[e], f)
<1>3. /\ wire' = [wire EXCEPT ![e] = w]
      /\ given' = [given EXCEPT ![e] = given[e] + 1]
      /\ sealed' = [sealed EXCEPT ![e] = Nonce(e)]
      /\ UNCHANGED <<secure, trusts, verified, stage, key, opened, got, lost, confused>>
  BY DEF Send
<1>4. /\ w \in Seq(SecureFrames) /\ w # <<>> /\ Len(w) = Len(wire[e]) + 1
      /\ w[Len(wire[e]) + 1] = f /\ Len(wire[e]) \in Nat
      /\ \A i \in 1 .. Len(wire[e]) : w[i] = wire[e][i]
  BY <1>1, Appending
<1> HIDE DEF f, w
<1>5. SecureTypeOK'
  <2>1. ~key[e] => Nonce(e) = 0
    BY DEF Nonce
  <2> QED BY <1>1, <1>3, <1>4, <2>1 DEF SecureTypeOK
<1>6. Handshake' /\ Agreed' /\ ~confused'
  <2>1. e \in {"ctl", "srv"}
    BY DEF Sides
  <2> QED BY <1>1, <1>3, <2>1 DEF SecureTypeOK, Sides, Handshake, Agreed
<1>7. KeyAnswers'
  <2>1. CASE e = "srv"
    BY <1>1, <1>3, <2>1 DEF SecureTypeOK, Sides, KeyAnswers
  <2>2. CASE e = "ctl" /\ stage["srv"] \in {"greet", "answer"}
    <3>1. wire'["ctl"] = w /\ stage' = stage /\ key' = key
      BY <1>3, <2>2 DEF SecureTypeOK
    <3>2. CASE wire["ctl"] = <<>>
      <4>1. Len(w) = 1 /\ w[1] = f /\ ~key["ctl"]
        BY <1>4, <2>2, <3>2 DEF KeyAnswers
      <4>2. f.kind # "PublicKey" /\ \A i \in 2 .. Len(w) : FALSE
        BY <1>2, <4>1
      <4>3. w # <<>>
        BY <1>4
      <4> QED BY <3>1, <4>1, <4>2, <4>3 DEF KeyAnswers
    <3>3. CASE wire["ctl"] # <<>>
      <4>1. Len(wire["ctl"]) >= 1
        BY <1>1, <2>2, <3>3, Taking
      <4>2. w[1] = wire["ctl"][1]
        BY <1>4, <2>2, <4>1
      <4>3. ASSUME NEW i \in 2 .. Len(w) PROVE w[i].kind = "Message"
        <5>1. CASE i = Len(wire["ctl"]) + 1
          BY <1>2, <1>4, <2>2, <5>1
        <5>2. CASE i # Len(wire["ctl"]) + 1
          <6>1. i \in 2 .. Len(wire["ctl"]) /\ i \in 1 .. Len(wire["ctl"])
            BY <1>4, <2>2, <5>2
          <6> QED BY <1>4, <2>2, <6>1 DEF KeyAnswers
        <5> QED BY <5>1, <5>2
      <4> QED BY <1>4, <2>2, <3>1, <3>3, <4>2, <4>3 DEF KeyAnswers
    <3> QED BY <3>2, <3>3
  <2>3. CASE stage["srv"] \notin {"greet", "answer"}
    BY <1>3, <2>3 DEF KeyAnswers
  <2> QED BY <2>1, <2>2, <2>3 DEF Sides
<1>8. FramesNumbered'
  <2> SUFFICES ASSUME NEW d \in Sides, NEW i \in 1 .. Len(wire'[d])
               PROVE  Numbered(d, wire[d][i])'
    BY DEF FramesNumbered
  <2>1. CASE d # e
    BY <1>3, <2>1 DEF SecureTypeOK, FramesNumbered, Numbered
  <2>2. CASE d = e /\ i \in 1 .. Len(wire[e])
    <3>1. Numbered(e, wire[e][i]) /\ wire'[e][i] = wire[e][i]
      BY <1>3, <1>4, <2>2 DEF SecureTypeOK, FramesNumbered
    <3>2. given'[e] = given[e] + 1 /\ key' = key
      BY <1>3 DEF SecureTypeOK
    <3> QED BY <1>1, <2>2, <3>1, <3>2 DEF Numbered
  <2>3. CASE d = e /\ i = Len(wire[e]) + 1
    <3>1. wire'[e][i] = f /\ given'[e] = given[e] + 1 /\ key' = key
      BY <1>3, <1>4, <2>3 DEF SecureTypeOK
    <3> QED BY <1>1, <1>2, <2>3, <3>1 DEF Numbered
  <2>4. d = e => i \in 1 .. Len(wire[e]) \/ i = Len(wire[e]) + 1
    BY <1>3, <1>4 DEF SecureTypeOK
  <2> QED BY <2>1, <2>2, <2>3, <2>4
<1>9. OnlyMessages'
  <2> SUFFICES ASSUME NEW d \in Sides, key[d], NEW i \in 1 .. Len(wire'[Peer(d)])
               PROVE  wire'[Peer(d)][i].kind = "Message"
    BY <1>3 DEF OnlyMessages
  <2>1. CASE Peer(d) # e
    BY <1>3, <2>1 DEF SecureTypeOK, OnlyMessages
  <2>2. CASE Peer(d) = e
    <3>1. wire'[e] = w
      BY <1>3 DEF SecureTypeOK
    <3>2. CASE i = Len(wire[e]) + 1
      BY <1>2, <1>4, <2>2, <3>1, <3>2
    <3>3. CASE i # Len(wire[e]) + 1
      <4>1. i \in 1 .. Len(wire[e])
        BY <1>4, <2>2, <3>1, <3>3
      <4> QED BY <1>4, <2>2, <3>1, <4>1 DEF OnlyMessages
    <3> QED BY <3>2, <3>3
  <2> QED BY <2>1, <2>2
<1>10. Counted' /\ Gapless'
  <2>1. \A d \in Sides : /\ given'[d] >= given[d] /\ given[d] \in Nat /\ given'[d] \in Nat
                         /\ Peer(d) \in Sides /\ Len(got[d]) \in Nat
    BY <1>1, <1>3, SidesFacts DEF SecureTypeOK
  <2>2. Gapless'
    BY <1>3, <2>1 DEF Gapless
  <2>3. Counted'
    BY <1>1, <1>3 DEF Counted, SecureTypeOK, Nonce
  <2> QED BY <2>2, <2>3
<1> QED BY <1>5, <1>6, <1>7, <1>8, <1>9, <1>10

LEMMA TimesOutKeeps == ASSUME SecureInv, NEW e \in Sides, SendTimesOut(e) PROVE SecureInv'
<1> USE DEF SecureInv
<1>1. /\ stage[e] = "open" /\ given[e] \in Nat /\ sealed[e] \in Nat
      /\ given[e] + 1 \in 0 .. MaxSends /\ Nonce(e) \in Nat
  BY SecureStreamAssumption DEF SendTimesOut, SecureTypeOK, Nonce
<1>2. /\ given' = [given EXCEPT ![e] = given[e] + 1]
      /\ sealed' = [sealed EXCEPT ![e] = Nonce(e)]
      /\ lost' = lost \cup {e}
      /\ UNCHANGED <<secure, trusts, verified, stage, key, opened, wire, got, confused>>
  BY DEF SendTimesOut
<1>3. SecureTypeOK'
  <2>1. ~key[e] => Nonce(e) = 0
    BY DEF Nonce
  <2> QED BY <1>1, <1>2, <2>1 DEF SecureTypeOK
<1>4. Handshake' /\ Agreed' /\ KeyAnswers' /\ ~confused'
  <2>1. e \in {"ctl", "srv"}
    BY DEF Sides
  <2> QED BY <1>1, <1>2, <2>1 DEF SecureTypeOK, Sides, Handshake, Agreed, KeyAnswers
<1>5. \A d \in Sides : /\ given'[d] >= given[d] /\ given[d] \in Nat /\ given'[d] \in Nat
                       /\ Peer(d) \in Sides /\ Len(got[d]) \in Nat
  BY <1>1, <1>2, SidesFacts DEF SecureTypeOK
<1>6. FramesNumbered' /\ OnlyMessages'
  <2>1. FramesNumbered'
    BY <1>2, <1>5 DEF FramesNumbered, Numbered
  <2>2. OnlyMessages'
    BY <1>2 DEF OnlyMessages
  <2> QED BY <2>1, <2>2
<1>7. Counted' /\ Gapless'
  <2>1. Gapless'
    BY <1>2, <1>5 DEF Gapless
  <2>2. Counted'
    BY <1>1, <1>2 DEF Counted, SecureTypeOK, Nonce
  <2> QED BY <2>1, <2>2
<1> QED BY <1>3, <1>4, <1>6, <1>7

LEMMA ReceiveKeeps == ASSUME SecureInv, NEW e \in Sides, Receive(e) PROVE SecureInv'
<1> USE DEF SecureInv
<1> DEFINE p == Peer(e)
           frame == Head(wire[p])
           w == Tail(wire[p])
<1>1. p \in Sides /\ p # e /\ wire[p] \in Seq(SecureFrames) /\ wire[p] # <<>> /\ stage[e] = "open"
  BY SidesFacts DEF Receive, SecureTypeOK
<1>2. /\ w \in Seq(SecureFrames) /\ Len(wire[p]) \in Nat /\ Len(wire[p]) >= 1
      /\ Len(w) = Len(wire[p]) - 1
      /\ frame = wire[p][1] /\ frame \in SecureFrames
      /\ \A i \in 1 .. Len(w) : w[i] = wire[p][i + 1]
  BY <1>1, Taking
<1>3. Numbered(p, frame)
  BY <1>1, <1>2 DEF FramesNumbered
<1>4. /\ wire' = [wire EXCEPT ![p] = w]
      /\ confused' = (confused \/ (key[e] /\ frame.nonce = 0) \/ (~key[e] /\ frame.nonce # 0))
      /\ opened' = [opened EXCEPT ![e] =
                      IF key[e] /\ frame.kind # "Nothing" THEN @ + 1 ELSE @]
      /\ UNCHANGED <<secure, trusts, verified, key, sealed, given, lost>>
  BY DEF Receive
<1>5. \/ stage' = [stage EXCEPT ![e] = "closed"] /\ UNCHANGED got
      \/ /\ UNCHANGED stage
         /\ key[e] => Opens(e, frame)
         /\ got' = [got EXCEPT ![e] =
                      IF frame.kind = "Message" THEN Append(@, frame.number) ELSE @]
  BY DEF Receive, Enter
<1>6. frame.kind = "Message" => frame.number \in Nat /\ given[p] > 0 /\ given[p] \in Nat
  BY <1>1, <1>3 DEF Numbered, SecureTypeOK
\* The two sides read and write in the same mode.
<1>7. key[e] => frame.kind = "Message"
  BY <1>1, <1>2 DEF OnlyMessages
<1>8. key[e] => key[p]
  BY <1>1, <1>6, <1>7 DEF Agreed, Sides, Peer
<1>9. ~key[e] => ~key[p]
  BY <1>1 DEF Agreed, Sides, Peer
<1>10. ~confused'
  <2>1. key[e] => frame.nonce = frame.number /\ frame.number # 0
    BY <1>1, <1>3, <1>7, <1>8 DEF Numbered, SecureTypeOK
  <2>2. ~key[e] => frame.nonce = 0
    BY <1>3, <1>9 DEF Numbered
  <2> QED BY <1>4, <2>1, <2>2
<1> HIDE DEF p, frame, w
<1>11. SecureTypeOK'
  <2>1. got' \in [Sides -> Seq(Nat)] /\ stage' \in [Sides -> SecurePhases]
    <3>1. got[e] \in Seq(Nat) /\ (frame.kind = "Message" => Append(got[e], frame.number) \in Seq(Nat))
      BY <1>6 DEF SecureTypeOK
    <3>2. "closed" \in SecurePhases
      BY DEF SecurePhases
    <3> QED BY <1>5, <3>1, <3>2 DEF SecureTypeOK
  <2>2. opened' \in [Sides -> Nat] /\ wire' \in [Sides -> Seq(SecureFrames)]
    <3>1. opened \in [Sides -> Nat] /\ wire \in [Sides -> Seq(SecureFrames)]
      BY DEF SecureTypeOK
    <3>2. opened' \in [Sides -> Nat]
      BY <1>4, <3>1
    <3>3. wire' \in [Sides -> Seq(SecureFrames)]
      BY <1>1, <1>2, <1>4, <3>1
    <3> QED BY <3>2, <3>3
  <2>3. \A d \in Sides : ~key'[d] => sealed'[d] = 0 /\ opened'[d] = 0
    <3>1. ~key[e] => opened' = opened
      BY <1>4 DEF SecureTypeOK
    <3>2. \A d \in Sides : d # e => opened'[d] = opened[d]
      BY <1>4 DEF SecureTypeOK
    <3> QED BY <1>4, <3>1, <3>2 DEF SecureTypeOK
  <2>4. confused' \in BOOLEAN
    <3>1. confused \in BOOLEAN /\ key[e] \in BOOLEAN
      BY DEF SecureTypeOK
    <3> QED BY <1>4, <3>1
  <2> QED BY <1>4, <2>1, <2>2, <2>3, <2>4 DEF SecureTypeOK
<1>12. Handshake' /\ KeyAnswers' /\ Agreed'
  <2>1. CASE e = "ctl"
    <3>1. p = "srv"
      BY <2>1 DEF p, Peer
    <3>2. wire'["ctl"] = wire["ctl"] /\ stage'["srv"] = stage["srv"] /\ got'["srv"] = got["srv"]
          /\ stage'["ctl"] # "greet" /\ stage["ctl"] = "open"
      BY <1>1, <1>4, <1>5, <2>1, <3>1 DEF SecureTypeOK, Sides
    <3>3. stage["srv"] # "greet"
      BY <1>1, <3>1 DEF Handshake
    <3> QED BY <1>4, <3>2, <3>3 DEF Handshake, KeyAnswers, Agreed
  <2>2. CASE e = "srv"
    <3>1. stage'["srv"] \in {"open", "closed"} /\ stage["srv"] = "open"
      BY <1>1, <1>5, <2>2 DEF SecureTypeOK, Sides
    <3>2. p = "ctl"
      BY <2>2 DEF p, Peer
    <3>3. wire["ctl"] # <<>>
      BY <1>1, <3>2
    <3>4. stage["ctl"] # "greet" /\ stage'["ctl"] = stage["ctl"]
      BY <1>5, <2>2, <3>3 DEF Handshake, SecureTypeOK, Sides
    <3> QED BY <1>4, <3>1, <3>4 DEF Handshake, KeyAnswers, Agreed
  <2> QED BY <2>1, <2>2 DEF Sides
<1>13. FramesNumbered' /\ OnlyMessages'
  <2>1. \A d \in Sides : d # p => wire'[d] = wire[d]
    BY <1>4 DEF SecureTypeOK
  <2>2. wire'[p] = w
    BY <1>1, <1>4 DEF SecureTypeOK
  <2>3. \A i \in 1 .. Len(w) : i + 1 \in 1 .. Len(wire[p])
    BY <1>2
  <2>4. FramesNumbered'
    <3> SUFFICES ASSUME NEW d \in Sides, NEW i \in 1 .. Len(wire'[d])
                 PROVE  Numbered(d, wire[d][i])'
      BY DEF FramesNumbered
    <3>1. CASE d = p
      <4>1. wire'[d][i] = wire[p][i + 1] /\ Numbered(p, wire[p][i + 1])
        BY <1>1, <1>2, <2>2, <2>3, <3>1 DEF FramesNumbered
      <4> QED BY <1>4, <3>1, <4>1 DEF Numbered
    <3>2. CASE d # p
      BY <1>4, <2>1, <3>2 DEF FramesNumbered, Numbered
    <3> QED BY <3>1, <3>2
  <2>5. OnlyMessages'
    <3> SUFFICES ASSUME NEW d \in Sides, key[d], NEW i \in 1 .. Len(wire'[Peer(d)])
                 PROVE  wire'[Peer(d)][i].kind = "Message"
      BY <1>4 DEF OnlyMessages
    <3>1. CASE Peer(d) = p
      BY <1>2, <2>2, <2>3, <3>1 DEF OnlyMessages
    <3>2. CASE Peer(d) # p
      BY <2>1, <3>2, SidesFacts DEF OnlyMessages
    <3> QED BY <3>1, <3>2
  <2> QED BY <2>4, <2>5
<1>14. Counted'
  BY <1>4 DEF Counted
<1>15. Gapless'
  <2> SUFFICES ASSUME NEW d \in Sides, key[d]
               PROVE  /\ Len(got'[d]) <= given[Peer(d)]
                      /\ \A i \in 1 .. Len(got'[d]) : got'[d][i] = i
                      /\ stage'[d] = "open" => opened'[d] = Len(got'[d])
    BY <1>4 DEF Gapless
  <2>1. CASE d # e
    BY <1>4, <1>5, <2>1 DEF Gapless, SecureTypeOK
  <2>2. CASE d = e /\ stage' = [stage EXCEPT ![e] = "closed"] /\ UNCHANGED got
    BY <2>2 DEF Gapless, SecureTypeOK
  <2>3. CASE d = e /\ UNCHANGED stage /\ Opens(e, frame)
              /\ got' = [got EXCEPT ![e] =
                          IF frame.kind = "Message" THEN Append(@, frame.number) ELSE @]
    <3>1. frame.kind = "Message" /\ key[p]
      BY <1>7, <1>8, <2>3
    <3>2. got'[e] = Append(got[e], frame.number) /\ opened'[e] = opened[e] + 1 /\ got[e] \in Seq(Nat)
      BY <1>4, <2>3, <3>1 DEF SecureTypeOK
    <3>3. opened[e] = Len(got[e]) /\ \A i \in 1 .. Len(got[e]) : got[e][i] = i
      BY <1>1, <2>3 DEF Gapless
    <3>4. frame.number = Len(got[e]) + 1 /\ frame.number <= given[p]
      BY <1>1, <1>3, <2>3, <3>1, <3>3 DEF Numbered, Opens, SecureTypeOK
    <3>5. /\ Len(got'[e]) = Len(got[e]) + 1 /\ Len(got[e]) \in Nat
          /\ got'[e][Len(got[e]) + 1] = frame.number
          /\ \A i \in 1 .. Len(got[e]) : got'[e][i] = got[e][i]
      BY <1>6, <3>1, <3>2, Appending
    <3>6. Len(got'[e]) <= given[Peer(e)]
      BY <3>4, <3>5 DEF p
    <3>7. \A i \in 1 .. Len(got'[e]) : got'[e][i] = i
      BY <3>3, <3>4, <3>5
    <3> QED BY <2>3, <3>2, <3>3, <3>5, <3>6, <3>7
  <2> QED BY <1>5, <2>1, <2>2, <2>3
<1> QED BY <1>10, <1>11, <1>12, <1>13, <1>14, <1>15

LEMMA CloseKeeps == ASSUME SecureInv, NEW e \in Sides, Close(e) PROVE SecureInv'
<1> USE DEF SecureInv
<1>1. /\ stage' = [stage EXCEPT ![e] = "closed"] /\ e \in {"ctl", "srv"}
      /\ UNCHANGED <<secure, trusts, verified, key, sealed, opened, wire, given, got, lost, confused>>
  BY DEF Close, Enter, Sides
<1>2. SecureTypeOK'
  BY <1>1 DEF SecureTypeOK, SecurePhases
<1>3. Handshake' /\ KeyAnswers' /\ Agreed' /\ ~confused'
  BY <1>1 DEF SecureTypeOK, Sides, Handshake, KeyAnswers, Agreed
<1>4. FramesNumbered' /\ OnlyMessages' /\ Counted'
  BY <1>1 DEF FramesNumbered, Numbered, OnlyMessages, Counted
<1>5. Gapless'
  BY <1>1 DEF SecureTypeOK, Gapless
<1> QED BY <1>2, <1>3, <1>4, <1>5

-----------------------------------------------------------------------------
LEMMA SecureStep == SecureInv /\ [SecureNext]_secureVars => SecureInv'
<1> SUFFICES ASSUME SecureInv, [SecureNext]_secureVars PROVE SecureInv'
  OBVIOUS
<1>1. CASE OfferKey
  BY <1>1, OfferKeeps
<1>2. CASE DeclineKey
  BY <1>2, DeclineKeeps
<1>3. CASE AnswerKey
  BY <1>3, AnswerKeeps
<1>4. CASE AcceptKey
  BY <1>4, AcceptKeeps
<1>5. ASSUME NEW e \in Sides, Send(e) \/ SendTimesOut(e) \/ Receive(e) \/ Close(e)
      PROVE  SecureInv'
  BY <1>5, SendKeeps, TimesOutKeeps, ReceiveKeeps, CloseKeeps
<1>6. CASE UNCHANGED secureVars
  BY <1>6 DEF secureVars, SecureInv, SecureTypeOK, Handshake, KeyAnswers, Agreed, FramesNumbered,
              Numbered, OnlyMessages, Counted, Gapless
<1> QED BY <1>1, <1>2, <1>3, <1>4, <1>5, <1>6 DEF SecureNext

\* The variables keep their types.
THEOREM SecureTypes == SecureSpec => []SecureTypeOK
<1>1. SecureInv => SecureTypeOK
  BY DEF SecureInv
<1> QED BY <1>1, InitHolds, SecureStep, PTL DEF SecureSpec

\* No frame is read in another mode than it was written in, and with a key each
\* side gets a prefix of what the other one was given to send, whatever times out.
THEOREM StreamIsSealed == SecureSpec => []SealedWithoutGap
<1>1. SecureInv => SealedWithoutGap
  BY DEF SecureInv, SealedWithoutGap, Gapless
<1> QED BY <1>1, InitHolds, SecureStep, PTL DEF SecureSpec

-----------------------------------------------------------------------------
(* PortForward.                                                            *)
-----------------------------------------------------------------------------
(* The invariant.                                                          *)

\* PortForwardTypeOK, one fact for each variable.
ForwardTypes ==
  /\ portOpen \in BOOLEAN
  /\ client \in Phases /\ server \in Phases
  /\ logins \in 0 .. MaxLogins
  /\ appSent \in 0 .. MaxData /\ portSent \in 0 .. MaxData
  /\ buffer \in Seq(Items) /\ appGot \in Seq(Items) /\ portGot \in Seq(Items)
  /\ up \in Seq(Items) /\ down \in Seq(Items)
  /\ dialog \in BOOLEAN /\ socket \in BOOLEAN /\ authorized \in BOOLEAN
  /\ last_test_delay \in BOOLEAN /\ cm \in BOOLEAN /\ misread \in BOOLEAN
  /\ byHand \in BOOLEAN /\ talkedLate \in BOOLEAN
  /\ delays \in 0 .. MaxDelays /\ talk \in 0 .. MaxTalk
  /\ client = "raw" => buffer = <<>>

\* What a stream holds, by the kinds of its items.
Has(s, A) == \E i \in 1 .. Len(s) : s[i].kind \in A
Before(s, A, B) ==
  \A i, j \in 1 .. Len(s) : s[i].kind \in A /\ s[j].kind \in B => i < j
AtMostOne(s, A) ==
  \A i, j \in 1 .. Len(s) : s[i].kind \in A /\ s[j].kind \in A => i = j

\* messages first, and then the first n pieces of data
Ordered(s, n) ==
  \E k \in 0 .. Len(s) :
    /\ Len(s) = k + n
    /\ \A i \in 1 .. k : IsFrame(s[i])
    /\ \A i \in 1 .. n : s[k + i] = Piece(i)

\* The kinds of the items, by what they are part of.
Pieces == {"Data"}
Granted == {"LoginResponse"}
Tests == {"TestDelay"}
Dialogs == {"Hash", "LoginError"}
Requests == {"LoginRight", "LoginWrong"}
NoPassword == {"LoginEmpty"}
Logins == Requests \cup NoPassword

\* The n pieces the client has sent as they are.
UpStream(n) ==
  /\ n \in 0 .. appSent
  /\ Ordered(Cat(portGot, up), n)
  /\ client = "login" => n = 0
  /\ client = "raw" => n = appSent
  /\ n > 0 => authorized

\* Both directions: what was got and what is under way.
InOrder ==
  /\ \E n \in Nat : UpStream(n)
  /\ client = "login" => Ordered(buffer, appSent) /\ ~Has(buffer, Frames)
  /\ ~Has(up, Frames \ (Logins \cup Tests))
  /\ Ordered(Cat(appGot, down), portSent)
  /\ portSent > 0 => authorized
  /\ server = "login" => portGot = <<>> /\ portSent = 0
  /\ client = "login" => appGot = <<>>

\* How the switch goes on, on either side.
SwitchGoesOn ==
  /\ authorized => socket
  /\ server = "raw" => authorized
  /\ client = "raw" => authorized
  /\ Has(down, Granted) => authorized
  /\ authorized /\ client = "login" => Has(down, Granted)
  /\ server = "login" /\ authorized => last_test_delay
  /\ server = "login" /\ last_test_delay =>
       \/ Has(up, Tests)
       \/ client = "login" /\ Has(down, Tests)
       \/ client = "closed" /\ ~Has(up, Pieces)
  /\ Before(down, Tests, Granted)
  /\ ~misread

\* At most one password is being asked for, tried or answered.
OneLogin ==
  server # "closed" /\ ~byHand =>
    /\ AtMostOne(down, Dialogs) /\ AtMostOne(up, Requests)
    /\ ~(Has(down, Dialogs) /\ (Has(up, Requests) \/ dialog))
    /\ ~(Has(up, Requests) /\ dialog)
    /\ Before(up, NoPassword, Requests)
    /\ authorized => ~dialog /\ ~Has(down, Dialogs) /\ ~Has(up, Logins)
    /\ Has(down, Tests) \/ Has(up, Tests) => last_test_delay /\ server = "login"
    /\ ~(Has(down, Tests) /\ Has(up, Tests))
    /\ AtMostOne(down, Tests) /\ AtMostOne(up, Tests)
    /\ server = "raw" => ~Has(up, Frames)

\* Nothing but data comes after the login.
Quiet ==
  ~talkedLate =>
    /\ Before(down, Frames \ Granted, Granted)
    /\ AtMostOne(down, Granted)
    /\ client = "raw" => ~Has(down, Frames)
    /\ ~Has(appGot, Frames)

ForwardInv ==
  /\ ForwardTypes
  /\ InOrder /\ SwitchGoesOn /\ OneLogin /\ Quiet
  /\ ~byHand => ~Has(portGot, Frames)

-----------------------------------------------------------------------------
(* The kinds of the items of a stream.                                     *)

LEMMA ItemKinds ==
  /\ \A x \in Items : x.kind \in Frames \cup Pieces /\ (IsFrame(x) <=> x.kind \in Frames)
                      /\ (IsFrame(x) <=> x.kind \notin Pieces)
  /\ \A k \in Frames : Frame(k) \in Items /\ Frame(k).kind = k /\ IsFrame(Frame(k))
  /\ \A n \in 1 .. MaxData : Piece(n) \in Items /\ Piece(n).kind = "Data" /\ ~IsFrame(Piece(n))
BY DEF Items, IsFrame, Frames, Pieces, Frame, Piece

LEMMA HasAppend ==
  ASSUME NEW s \in Seq(Items), NEW x \in Items
  PROVE  /\ Append(s, x) \in Seq(Items)
         /\ \A A : Has(Append(s, x), A) <=> Has(s, A) \/ x.kind \in A
         /\ \A A, B : Before(s, A, B) /\ (x.kind \in A => ~Has(s, B) /\ x.kind \notin B)
                        => Before(Append(s, x), A, B)
         /\ \A A : AtMostOne(s, A) /\ (x.kind \in A => ~Has(s, A))
                        => AtMostOne(Append(s, x), A)
<1>1. PICK t \in Seq(Items) : t = Append(s, x)
  BY AppendProperties
<1>2. PICK n \in Nat : n = Len(s)
  BY LenProperties
<1>3. Len(t) = n + 1 /\ t[n + 1] = x /\ \A i \in 1 .. n : t[i] = s[i]
  BY <1>1, <1>2, AppendProperties
<1>4. \A i : i \in 1 .. n + 1 <=> i \in 1 .. n \/ i = n + 1
  OBVIOUS
<1>5. \A A : Has(t, A) <=> Has(s, A) \/ x.kind \in A
  BY <1>2, <1>3, <1>4 DEF Has
<1>6. ASSUME NEW A, NEW B, Before(s, A, B), x.kind \in A => ~Has(s, B) /\ x.kind \notin B
      PROVE  Before(t, A, B)
  <2> SUFFICES ASSUME NEW i \in 1 .. Len(t), NEW j \in 1 .. Len(t),
                      t[i].kind \in A, t[j].kind \in B
               PROVE  i < j
    BY DEF Before
  <2>1. CASE i = n + 1
    BY <1>2, <1>3, <1>4, <1>6, <2>1 DEF Has
  <2>2. CASE i \in 1 .. n /\ j = n + 1
    BY <2>2
  <2>3. CASE i \in 1 .. n /\ j \in 1 .. n
    BY <1>2, <1>3, <1>6, <2>3 DEF Before
  <2> QED BY <1>3, <1>4, <2>1, <2>2, <2>3
<1>7. ASSUME NEW A, AtMostOne(s, A), x.kind \in A => ~Has(s, A)
      PROVE  AtMostOne(t, A)
  <2> SUFFICES ASSUME NEW i \in 1 .. Len(t), NEW j \in 1 .. Len(t),
                      t[i].kind \in A, t[j].kind \in A
               PROVE  i = j
    BY DEF AtMostOne
  <2> QED BY <1>2, <1>3, <1>4, <1>7 DEF AtMostOne, Has
<1> QED BY <1>1, <1>5, <1>6, <1>7

LEMMA HasTail ==
  ASSUME NEW s \in Seq(Items), s # <<>>
  PROVE  /\ Tail(s) \in Seq(Items) /\ Head(s) \in Items
         /\ \A A : Has(s, A) <=> Head(s).kind \in A \/ Has(Tail(s), A)
         /\ \A A, B : Before(s, A, B) =>
              Before(Tail(s), A, B) /\ (Head(s).kind \in B => ~Has(Tail(s), A))
         /\ \A A : AtMostOne(s, A) =>
              AtMostOne(Tail(s), A) /\ (Head(s).kind \in A => ~Has(Tail(s), A))
<1>1. PICK t \in Seq(Items), n \in Nat : t = Tail(s) /\ n = Len(t)
  BY HeadTailProperties, LenProperties
<1>2. /\ Head(s) \in Items /\ Head(s) = s[1] /\ Len(s) = n + 1
      /\ \A i \in 1 .. n : t[i] = s[i + 1]
  BY <1>1, HeadTailProperties, LenProperties
<1>3. \A i \in 1 .. n : i + 1 \in 1 .. n + 1 /\ i + 1 # 1 /\ 1 < i + 1
  OBVIOUS
<1>4. \A i \in 1 .. n + 1 : i = 1 \/ \E j \in 1 .. n : i = j + 1
  <2> SUFFICES ASSUME NEW i \in 1 .. n + 1, i # 1 PROVE \E j \in 1 .. n : i = j + 1
    OBVIOUS
  <2>1. i - 1 \in 1 .. n /\ i = (i - 1) + 1
    OBVIOUS
  <2> QED BY <2>1
<1>5. \A A : Has(s, A) <=> Head(s).kind \in A \/ Has(t, A)
  <2> SUFFICES ASSUME NEW A PROVE Has(s, A) <=> Head(s).kind \in A \/ Has(t, A)
    OBVIOUS
  <2>0. 1 \in 1 .. n + 1
    OBVIOUS
  <2>1. ASSUME Has(s, A) PROVE Head(s).kind \in A \/ Has(t, A)
    <3>1. PICK i \in 1 .. n + 1 : s[i].kind \in A
      BY <1>2, <2>1 DEF Has
    <3> QED BY <1>1, <1>2, <1>4, <3>1 DEF Has
  <2>2. ASSUME Has(t, A) PROVE Has(s, A)
    <3>1. PICK i \in 1 .. n : t[i].kind \in A
      BY <1>1, <2>2 DEF Has
    <3>2. s[i + 1].kind \in A /\ i + 1 \in 1 .. Len(s)
      BY <1>2, <1>3, <3>1
    <3> QED BY <3>2 DEF Has
  <2>3. Head(s).kind \in A => Has(s, A)
    BY <1>2, <2>0 DEF Has
  <2> QED BY <2>1, <2>2, <2>3
<1>6. ASSUME NEW A, NEW B, Before(s, A, B)
      PROVE  Before(t, A, B) /\ (Head(s).kind \in B => ~Has(t, A))
  <2>1. ASSUME NEW i \in 1 .. n, NEW j \in 1 .. n, t[i].kind \in A, t[j].kind \in B
        PROVE  i < j
    <3>1. s[i + 1].kind \in A /\ s[j + 1].kind \in B /\ i + 1 \in 1 .. Len(s)
          /\ j + 1 \in 1 .. Len(s)
      BY <1>2, <1>3, <2>1
    <3>2. i + 1 < j + 1
      BY <1>6, <3>1 DEF Before
    <3> QED BY <3>2
  <2>2. ASSUME Head(s).kind \in B, NEW i \in 1 .. n, t[i].kind \in A PROVE FALSE
    <3>1. s[i + 1].kind \in A /\ s[1].kind \in B /\ i + 1 \in 1 .. Len(s) /\ 1 \in 1 .. Len(s)
      BY <1>2, <1>3, <2>2
    <3>2. i + 1 < 1
      BY <1>6, <3>1 DEF Before
    <3> QED BY <3>2
  <2> QED BY <1>1, <2>1, <2>2 DEF Before, Has
<1>7. ASSUME NEW A, AtMostOne(s, A)
      PROVE  AtMostOne(t, A) /\ (Head(s).kind \in A => ~Has(t, A))
  <2>1. ASSUME NEW i \in 1 .. n, NEW j \in 1 .. n, t[i].kind \in A, t[j].kind \in A
        PROVE  i = j
    <3>1. s[i + 1].kind \in A /\ s[j + 1].kind \in A /\ i + 1 \in 1 .. Len(s)
          /\ j + 1 \in 1 .. Len(s)
      BY <1>2, <1>3, <2>1
    <3>2. i + 1 = j + 1
      BY <1>7, <3>1 DEF AtMostOne
    <3> QED BY <3>2
  <2>2. ASSUME Head(s).kind \in A, NEW i \in 1 .. n, t[i].kind \in A PROVE FALSE
    <3>1. s[i + 1].kind \in A /\ s[1].kind \in A /\ i + 1 \in 1 .. Len(s) /\ 1 \in 1 .. Len(s)
      BY <1>2, <1>3, <2>2
    <3>2. i + 1 = 1
      BY <1>7, <3>1 DEF AtMostOne
    <3> QED BY <3>2
  <2> QED BY <1>1, <2>1, <2>2 DEF AtMostOne, Has
<1> QED BY <1>1, <1>2, <1>5, <1>6, <1>7

\* Data alone is added to a stream.
LEMMA HasCat ==
  ASSUME NEW s \in Seq(Items), NEW b \in Seq(Items), ~Has(b, Frames)
  PROVE  /\ Cat(s, b) \in Seq(Items)
         /\ \A A \in SUBSET Frames : Has(Cat(s, b), A) <=> Has(s, A)
         /\ \A A, B \in SUBSET Frames : Before(s, A, B) => Before(Cat(s, b), A, B)
         /\ \A A \in SUBSET Frames : AtMostOne(s, A) => AtMostOne(Cat(s, b), A)
<1>1. PICK t \in Seq(Items), n \in Nat, m \in Nat : t = Cat(s, b) /\ n = Len(s) /\ m = Len(b)
  BY CatType, LenProperties
<1>2. /\ Len(t) = n + m
      /\ \A i \in 1 .. n + m : t[i] = IF i <= n THEN s[i] ELSE b[i - n]
  BY <1>1, ConcatProperties DEF Cat
<1>3. \A i \in 1 .. n : i \in 1 .. n + m /\ t[i] = s[i]
  BY <1>2
<1>4. \A i \in 1 .. n + m : t[i].kind \in Frames => i \in 1 .. n /\ t[i] = s[i]
  <2> SUFFICES ASSUME NEW i \in 1 .. n + m, t[i].kind \in Frames, ~(i <= n) PROVE FALSE
    BY <1>3
  <2>1. i - n \in 1 .. m /\ t[i] = b[i - n]
    BY <1>2
  <2> QED BY <1>1, <2>1 DEF Has
<1>5. \A A \in SUBSET Frames : Has(t, A) <=> Has(s, A)
  BY <1>1, <1>2, <1>3, <1>4 DEF Has
<1>6. \A A, B \in SUBSET Frames : Before(s, A, B) => Before(t, A, B)
  BY <1>1, <1>2, <1>4 DEF Before
<1>7. \A A \in SUBSET Frames : AtMostOne(s, A) => AtMostOne(t, A)
  BY <1>1, <1>2, <1>4 DEF AtMostOne
<1> QED BY <1>1, <1>5, <1>6, <1>7

-----------------------------------------------------------------------------
(* Messages first, and then data.                                          *)

LEMMA OrderedMessage ==
  ASSUME NEW s \in Seq(Items), NEW x \in Items, IsFrame(x), Ordered(s, 0)
  PROVE  Ordered(Append(s, x), 0)
<1>1. PICK t \in Seq(Items), n \in Nat : t = Append(s, x) /\ n = Len(s)
  BY AppendProperties, LenProperties
<1>2. Len(t) = n + 1 /\ t[n + 1] = x /\ \A i \in 1 .. n : t[i] = s[i]
  BY <1>1, AppendProperties
<1>3. \A i \in 1 .. n : IsFrame(s[i])
  <2>1. PICK k \in 0 .. n : n = k + 0 /\ \A i \in 1 .. k : IsFrame(s[i])
    BY <1>1 DEF Ordered
  <2>2. n = k
    BY <2>1
  <2> QED BY <2>1, <2>2
<1>4. \A i \in 1 .. n + 1 : i \in 1 .. n \/ i = n + 1
  OBVIOUS
<1>5. \A i \in 1 .. n + 1 : IsFrame(t[i])
  BY <1>2, <1>3, <1>4
<1>6. n + 1 \in 0 .. n + 1 /\ n + 1 = (n + 1) + 0 /\ 1 .. 0 = {}
  OBVIOUS
<1> QED BY <1>1, <1>2, <1>5, <1>6 DEF Ordered

LEMMA OrderedPiece ==
  ASSUME NEW s \in Seq(Items), NEW m \in Nat, m + 1 \in 1 .. MaxData, Ordered(s, m)
  PROVE  Ordered(Append(s, Piece(m + 1)), m + 1)
<1>0. Piece(m + 1) \in Items
  BY ItemKinds
<1>1. PICK t \in Seq(Items), n \in Nat : t = Append(s, Piece(m + 1)) /\ n = Len(s)
  BY <1>0, AppendProperties, LenProperties
<1>2. Len(t) = n + 1 /\ t[n + 1] = Piece(m + 1) /\ \A i \in 1 .. n : t[i] = s[i]
  BY <1>0, <1>1, AppendProperties
<1>3. PICK k \in 0 .. n : /\ n = k + m /\ \A i \in 1 .. k : IsFrame(s[i])
                          /\ \A i \in 1 .. m : s[k + i] = Piece(i)
  BY <1>1 DEF Ordered
<1>4. n + 1 = k + (m + 1) /\ k \in 0 .. n + 1 /\ k + (m + 1) = n + 1
  BY <1>3
<1>5. \A i \in 1 .. k : IsFrame(t[i])
  <2>1. \A i \in 1 .. k : i \in 1 .. n
    BY <1>3
  <2> QED BY <1>2, <1>3, <2>1
<1>6. \A i \in 1 .. m + 1 : t[k + i] = Piece(i)
  <2>1. \A i \in 1 .. m : k + i \in 1 .. n
    BY <1>3
  <2>2. \A i \in 1 .. m + 1 : i \in 1 .. m \/ i = m + 1
    OBVIOUS
  <2>3. t[k + (m + 1)] = Piece(m + 1)
    BY <1>2, <1>4
  <2> QED BY <1>2, <1>3, <2>1, <2>2, <2>3
<1> QED BY <1>1, <1>2, <1>4, <1>5, <1>6 DEF Ordered

LEMMA OrderedTail ==
  ASSUME NEW s \in Seq(Items), s # <<>>, NEW m \in Nat, IsFrame(Head(s)), Ordered(s, m)
  PROVE  Ordered(Tail(s), m)
<1>1. PICK t \in Seq(Items), n \in Nat : t = Tail(s) /\ n = Len(t)
  BY HeadTailProperties, LenProperties
<1>2. Len(s) = n + 1 /\ \A i \in 1 .. n : t[i] = s[i + 1]
  BY <1>1, HeadTailProperties, LenProperties
<1>3. PICK k \in 0 .. n + 1 : /\ n + 1 = k + m /\ \A i \in 1 .. k : IsFrame(s[i])
                              /\ \A i \in 1 .. m : s[k + i] = Piece(i)
  BY <1>2 DEF Ordered
<1>4. k # 0
  <2> SUFFICES ASSUME k = 0 PROVE FALSE
    OBVIOUS
  <2>1. 1 \in 1 .. m /\ k + 1 = 1
    BY <1>3
  <2>2. s[1] = Piece(1)
    BY <1>3, <2>1
  <2> QED BY <2>2 DEF IsFrame, Piece
<1>5. k - 1 \in 0 .. n /\ n = (k - 1) + m
  BY <1>3, <1>4
<1>6. \A i \in 1 .. k - 1 : IsFrame(t[i])
  <2>1. \A i \in 1 .. k - 1 : i \in 1 .. n /\ i + 1 \in 1 .. k
    BY <1>3
  <2> QED BY <1>2, <1>3, <2>1
<1>7. \A i \in 1 .. m : t[(k - 1) + i] = Piece(i)
  <2>1. \A i \in 1 .. m : (k - 1) + i \in 1 .. n /\ ((k - 1) + i) + 1 = k + i
    BY <1>3, <1>4
  <2> QED BY <1>2, <1>3, <2>1
<1> QED BY <1>1, <1>5, <1>6, <1>7 DEF Ordered

\* As long as there is a message in the stream, the next item is one.
LEMMA OrderedHead ==
  ASSUME NEW s \in Seq(Items), NEW m \in Nat, Ordered(s, m), s # <<>>, Has(s, Frames) \/ m = 0
  PROVE  IsFrame(Head(s))
<1>1. PICK n \in Nat : n = Len(s) /\ n # 0
  BY LenProperties, EmptySeq
<1>2. PICK k \in 0 .. n : /\ n = k + m /\ \A i \in 1 .. k : IsFrame(s[i])
                          /\ \A i \in 1 .. m : s[k + i] = Piece(i)
  BY <1>1 DEF Ordered
<1>3. k # 0
  <2> SUFFICES ASSUME k = 0 PROVE FALSE
    OBVIOUS
  <2>1. m = n /\ m # 0 /\ \A i \in 1 .. n : k + i = i
    BY <1>1, <1>2
  <2>2. PICK i \in 1 .. n : s[i].kind \in Frames
    BY <1>1, <2>1 DEF Has
  <2>3. s[i] = Piece(i)
    BY <1>2, <2>1, <2>2
  <2> QED BY <2>2, <2>3 DEF Piece, Frames
<1>4. 1 \in 1 .. k
  BY <1>2, <1>3
<1> QED BY <1>2, <1>4

LEMMA OrderedNone ==
  ASSUME NEW s \in Seq(Items), Ordered(s, 0)
  PROVE  ~Has(s, Pieces)
<1>1. PICK n \in Nat : n = Len(s)
  BY LenProperties
<1>2. \A i \in 1 .. n : IsFrame(s[i])
  BY <1>1 DEF Ordered
<1> QED BY <1>1, <1>2 DEF Has, IsFrame, Pieces

LEMMA OrderedBuffer ==
  ASSUME NEW s \in Seq(Items), NEW b \in Seq(Items), NEW m \in Nat,
         Ordered(s, 0), Ordered(b, m), ~Has(b, Frames)
  PROVE  Ordered(Cat(s, b), m)
<1>1. PICK t \in Seq(Items), n \in Nat : t = Cat(s, b) /\ n = Len(s)
  BY CatType, LenProperties
<1>2. \A i \in 1 .. n : IsFrame(s[i])
  BY <1>1 DEF Ordered
<1>3. Len(b) = m /\ \A i \in 1 .. m : b[i] = Piece(i)
  <2>1. PICK k \in 0 .. Len(b) : /\ Len(b) = k + m /\ \A i \in 1 .. k : IsFrame(b[i])
                                 /\ \A i \in 1 .. m : b[k + i] = Piece(i)
    BY DEF Ordered
  <2>2. k = 0
    <3> SUFFICES ASSUME k # 0 PROVE FALSE
      OBVIOUS
    <3>1. 1 \in 1 .. k /\ 1 \in 1 .. Len(b)
      BY <2>1, LenProperties
    <3>2. b[1] \in Items /\ IsFrame(b[1])
      BY <2>1, <3>1, ElementOfSeq
    <3> QED BY <3>1, <3>2, ItemKinds DEF Has
  <2> QED BY <2>1, <2>2
<1>4. /\ Len(t) = n + m
      /\ \A i \in 1 .. n + m : t[i] = IF i <= n THEN s[i] ELSE b[i - n]
  BY <1>1, <1>3, ConcatProperties DEF Cat
<1>5. n \in 0 .. n + m /\ \A i \in 1 .. n : IsFrame(t[i])
  BY <1>2, <1>4
<1>6. \A i \in 1 .. m : t[n + i] = Piece(i)
  <2>1. \A i \in 1 .. m : n + i \in 1 .. n + m /\ ~(n + i <= n) /\ (n + i) - n = i
    OBVIOUS
  <2> QED BY <1>3, <1>4, <2>1
<1> QED BY <1>1, <1>4, <1>5, <1>6 DEF Ordered

\* What has been taken out of the stream.
LEMMA OrderedGot ==
  ASSUME NEW a \in Seq(Items), NEW b \in Seq(Items), NEW m \in Nat, NEW top \in Nat,
         m <= top, Ordered(Cat(a, b), m)
  PROVE  FromTheStart(a, top)
<1>1. PICK t \in Seq(Items), n \in Nat, l \in Nat : t = Cat(a, b) /\ n = Len(a) /\ l = Len(b)
  BY CatType, LenProperties
<1>2. Len(t) = n + l /\ \A i \in 1 .. n : t[i] = a[i]
  BY <1>1, CatType, CatAt
<1>3. PICK k \in 0 .. n + l : /\ n + l = k + m /\ \A i \in 1 .. k : IsFrame(t[i])
                              /\ \A i \in 1 .. m : t[k + i] = Piece(i)
  BY <1>1, <1>2 DEF Ordered
<1>4. CASE k <= n
  <2>1. k \in 0 .. n /\ n - k <= top
    BY <1>3, <1>4
  <2>2. \A i \in 1 .. k : i \in 1 .. n
    BY <1>4
  <2>3. \A i \in 1 .. n - k : k + i \in 1 .. n /\ i \in 1 .. m
    BY <1>3, <1>4
  <2> QED BY <1>1, <1>2, <1>3, <2>1, <2>2, <2>3 DEF FromTheStart
<1>5. CASE k > n
  <2>1. n \in 0 .. n /\ n - n <= top /\ 1 .. n - n = {}
    OBVIOUS
  <2>2. \A i \in 1 .. n : i \in 1 .. k
    BY <1>5
  <2> QED BY <1>1, <1>2, <1>3, <2>1, <2>2 DEF FromTheStart
<1> QED BY <1>3, <1>4, <1>5

\* An item goes from the stream to where it is wanted, or is added to the stream.
LEMMA CatMoves ==
  ASSUME NEW a \in Seq(Items), NEW s \in Seq(Items), s # <<>>
  PROVE  Cat(Append(a, Head(s)), Tail(s)) = Cat(a, s)
<1>0. PICK t \in Seq(Items), x \in Items : t = Tail(s) /\ x = Head(s)
  BY HeadTailProperties
<1>1. PICK n \in Nat : t = Tail(s) /\ n = Len(t) /\ x = Head(s) /\ x = s[1] /\ Len(s) = n + 1
  BY <1>0, HeadTailProperties, LenProperties
<1>2. \A i \in 1 .. n : t[i] = s[i + 1]
  BY <1>1, HeadTailProperties
<1>3. PICK one \in Seq(Items) : one = <<x>> /\ Len(one) = 1 /\ one[1] = x
  <2>1. <<x>> \in Seq(Items)
    BY OneMore, EmptySeq
  <2> QED BY <2>1
<1>4. s = Cat(one, t)
  <2>1. PICK u \in Seq(Items) : u = Cat(one, t) /\ Len(u) = 1 + n
    BY <1>1, <1>3, CatType
  <2>2. \A i \in 1 .. 1 + n : u[i] = IF i <= 1 THEN one[i] ELSE t[i - 1]
    BY <1>1, <1>3, <2>1, ConcatProperties DEF Cat
  <2>3. \A i \in 1 .. n + 1 : i = 1 \/ (i - 1 \in 1 .. n /\ (i - 1) + 1 = i /\ ~(i <= 1))
    OBVIOUS
  <2>4. \A i \in 1 .. Len(s) : s[i] = u[i]
    BY <1>1, <1>2, <1>3, <2>2, <2>3
  <2>5. Len(s) = Len(u)
    BY <1>1, <2>1
  <2>6. s = u
    BY <2>4, <2>5, SeqEqual
  <2> QED BY <2>1, <2>6
<1>5. Append(a, x) = Cat(a, one)
  BY <1>3, AppendIsCat
<1>6. Cat(Cat(a, one), t) = Cat(a, Cat(one, t))
  BY CatAssociative
<1> QED BY <1>1, <1>4, <1>5, <1>6

LEMMA CatGrows ==
  ASSUME NEW a \in Seq(Items), NEW s \in Seq(Items), NEW x \in Items
  PROVE  Cat(a, Append(s, x)) = Append(Cat(a, s), x)
<1>1. PICK one \in Seq(Items) : one = <<x>>
  BY OneMore, EmptySeq
<1>2. Append(s, x) = Cat(s, one) /\ Append(Cat(a, s), x) = Cat(Cat(a, s), one)
  BY <1>1, AppendIsCat, CatType
<1> QED BY <1>2, CatAssociative

-----------------------------------------------------------------------------
(* One step of either side.                                                *)

LEMMA Kinds ==
  /\ \A k : k \in Pieces <=> k = "Data"
  /\ \A k : k \in Granted <=> k = "LoginResponse"
  /\ \A k : k \in Tests <=> k = "TestDelay"
  /\ \A k : k \in Dialogs <=> k \in {"Hash", "LoginError"}
  /\ \A k : k \in Requests <=> k \in {"LoginRight", "LoginWrong"}
  /\ \A k : k \in NoPassword <=> k = "LoginEmpty"
  /\ \A k : k \in Logins <=> k \in {"LoginRight", "LoginWrong", "LoginEmpty"}
  /\ \A k : k \in Frames \ (Logins \cup Tests)
              <=> k \in {"Hash", "LoginResponse", "LoginError", "Misc"}
  /\ \A k : k \in Frames \ Granted
              <=> k \in {"Hash", "LoginRight", "LoginWrong", "LoginEmpty", "LoginError",
                         "TestDelay", "Misc"}
  /\ \A k : k \in Frames
              <=> k \in {"Hash", "LoginRight", "LoginWrong", "LoginEmpty", "LoginResponse",
                         "LoginError", "TestDelay", "Misc"}
BY DEF Pieces, Granted, Tests, Dialogs, Requests, NoPassword, Logins, Frames

\* One kind in two sets.
LEMMA HasParts ==
  ASSUME NEW s
  PROVE  /\ Has(s, Logins) <=> Has(s, Requests) \/ Has(s, NoPassword)
         /\ Has(s, Granted) \/ Has(s, Tests) \/ Has(s, Dialogs) \/ Has(s, Logins) => Has(s, Frames)
         /\ Has(s, Frames) <=> Has(s, Frames \ Granted) \/ Has(s, Granted)
         /\ Has(s, Frames) <=> Has(s, Frames \ (Logins \cup Tests)) \/ Has(s, Logins) \/ Has(s, Tests)
BY DEF Has, Granted, Tests, Dialogs, Requests, NoPassword, Logins, Frames

LEMMA ForwardTypesAreTypes == ForwardTypes <=> PortForwardTypeOK
BY DEF ForwardTypes, PortForwardTypeOK

\* No data goes up before the connection is let in.
LEMMA UpEmpty ==
  ASSUME ForwardTypes, InOrder, server = "login", ~authorized \/ client = "login"
  PROVE  ~Has(up, Pieces)
<1>1. PICK n \in Nat : UpStream(n)
  BY DEF InOrder
<1>2. n = 0
  BY <1>1 DEF UpStream
<1>3. PICK u \in Seq(Items) : u = up
  BY DEF ForwardTypes
<1>4. portGot = <<>> /\ Cat(<<>>, u) = u
  BY <1>3, CatEmpty DEF InOrder
<1>5. Ordered(u, 0)
  BY <1>1, <1>2, <1>3, <1>4 DEF UpStream
<1> QED BY <1>3, <1>5, OrderedNone

\* A message is added to what goes down.
LEMMA DownGrows ==
  ASSUME ForwardTypes, InOrder, portSent = 0, NEW x \in Items, IsFrame(x)
  PROVE  Ordered(Cat(appGot, Append(down, x)), 0)
<1>1. PICK a \in Seq(Items), d \in Seq(Items), c \in Seq(Items) :
        a = appGot /\ d = down /\ c = Cat(a, d)
  BY CatType DEF ForwardTypes
<1>2. Ordered(c, 0)
  BY <1>1 DEF InOrder
<1>3. Ordered(Append(c, x), 0)
  BY <1>2, OrderedMessage
<1>4. Cat(a, Append(d, x)) = Append(c, x)
  BY <1>1, CatGrows
<1> QED BY <1>1, <1>3, <1>4

LEMMA TestDelayTickKeeps == ASSUME ForwardInv, TestDelayTick PROVE ForwardInv'
<1> DEFINE x == Frame("TestDelay")
<1>0. /\ ForwardTypes /\ InOrder /\ SwitchGoesOn /\ OneLogin /\ Quiet
      /\ ~byHand => ~Has(portGot, Frames)
  BY DEF ForwardInv
<1>1. /\ server = "login" /\ ~last_test_delay /\ ~(socket /\ authorized) /\ delays < MaxDelays
      /\ last_test_delay' = TRUE /\ delays' = delays + 1 /\ down' = Append(down, x)
      /\ UNCHANGED <<portOpen, clientVars, server, socket, authorized, cm, talk, portSent,
                     portGot, byHand, talkedLate, up, misread>>
      /\ UNCHANGED <<client, logins, dialog, appSent, buffer, appGot>>
  BY DEF TestDelayTick, MayTest, clientVars
<1>2. x \in Items /\ x.kind = "TestDelay" /\ IsFrame(x) /\ down \in Seq(Items)
  BY <1>0, ItemKinds DEF Frames, ForwardTypes
<1> HIDE DEF x
<1>3. ~authorized /\ portSent = 0 /\ portSent' = 0 /\ ~Has(down, Granted) /\ client # "raw"
  BY <1>0, <1>1 DEF SwitchGoesOn, InOrder
<1>4. /\ down' \in Seq(Items)
      /\ \A A : Has(down', A) <=> Has(down, A) \/ "TestDelay" \in A
      /\ \A A, B : Before(down, A, B) /\ ("TestDelay" \in A => ~Has(down, B) /\ "TestDelay" \notin B)
           => Before(down', A, B)
      /\ \A A : AtMostOne(down, A) /\ ("TestDelay" \in A => ~Has(down, A)) => AtMostOne(down', A)
  BY <1>1, <1>2, HasAppend
<1>5. ForwardTypes'
  BY <1>0, <1>1, <1>4, PortForwardAssumption DEF ForwardTypes
<1>6. InOrder'
  <2>1. Ordered(Cat(appGot', down'), portSent')
    BY <1>0, <1>1, <1>2, <1>3, DownGrows
  <2>2. (\E n \in Nat : UpStream(n))'
    BY <1>0, <1>1 DEF InOrder, UpStream
  <2> QED BY <1>0, <1>1, <2>1, <2>2 DEF InOrder
<1>7. SwitchGoesOn'
  <2>1. (server = "login" /\ last_test_delay =>
           \/ Has(up, Tests)
           \/ client = "login" /\ Has(down, Tests)
           \/ client = "closed" /\ ~Has(up, Pieces))'
    <3>1. ~Has(up, Pieces)
      BY <1>0, <1>1, <1>3, UpEmpty
    <3> QED BY <1>0, <1>1, <1>3, <1>4, <3>1, Kinds DEF ForwardTypes, Phases
  <2> QED BY <1>0, <1>1, <1>3, <1>4, <2>1, Kinds DEF SwitchGoesOn
<1>8. OneLogin'
  BY <1>0, <1>1, <1>3, <1>4, Kinds DEF OneLogin
<1>9. Quiet'
  BY <1>0, <1>1, <1>3, <1>4, Kinds DEF Quiet
<1> QED BY <1>0, <1>1, <1>5, <1>6, <1>7, <1>8, <1>9 DEF ForwardInv

LEMMA CmTalksKeeps == ASSUME ForwardInv, CmTalks PROVE ForwardInv'
<1> DEFINE x == Frame("Misc")
<1>0. /\ ForwardTypes /\ InOrder /\ SwitchGoesOn /\ OneLogin /\ Quiet
      /\ ~byHand => ~Has(portGot, Frames)
  BY DEF ForwardInv
<1>1. /\ server = "login" /\ talk < MaxTalk /\ talk' = talk + 1
      /\ down' = Append(down, x) /\ talkedLate' = (talkedLate \/ authorized)
      /\ UNCHANGED <<portOpen, server, socket, authorized, last_test_delay, cm, delays,
                     portSent, portGot, byHand, up, misread>>
      /\ UNCHANGED <<client, logins, dialog, appSent, buffer, appGot>>
  BY DEF CmTalks, clientVars
<1>2. x \in Items /\ x.kind = "Misc" /\ IsFrame(x) /\ down \in Seq(Items)
  BY <1>0, ItemKinds DEF Frames, ForwardTypes
<1> HIDE DEF x
<1>3. portSent = 0 /\ portSent' = 0 /\ (~authorized => ~Has(down, Granted) /\ client # "raw")
  BY <1>0, <1>1 DEF SwitchGoesOn, InOrder
<1>4. /\ down' \in Seq(Items)
      /\ \A A : Has(down', A) <=> Has(down, A) \/ "Misc" \in A
      /\ \A A, B : Before(down, A, B) /\ ("Misc" \in A => ~Has(down, B) /\ "Misc" \notin B)
           => Before(down', A, B)
      /\ \A A : AtMostOne(down, A) /\ ("Misc" \in A => ~Has(down, A)) => AtMostOne(down', A)
  BY <1>1, <1>2, HasAppend
<1>5. ForwardTypes'
  BY <1>0, <1>1, <1>4, PortForwardAssumption DEF ForwardTypes
<1>6. InOrder'
  <2>1. Ordered(Cat(appGot', down'), portSent')
    BY <1>0, <1>1, <1>2, <1>3, DownGrows
  <2>2. (\E n \in Nat : UpStream(n))'
    BY <1>0, <1>1 DEF InOrder, UpStream
  <2> QED BY <1>0, <1>1, <2>1, <2>2 DEF InOrder
<1>7. SwitchGoesOn'
  BY <1>0, <1>1, <1>3, <1>4, Kinds DEF SwitchGoesOn
<1>8. OneLogin'
  BY <1>0, <1>1, <1>3, <1>4, Kinds DEF OneLogin
<1>9. Quiet'
  BY <1>0, <1>1, <1>3, <1>4, Kinds DEF Quiet
<1> QED BY <1>0, <1>1, <1>5, <1>6, <1>7, <1>8, <1>9 DEF ForwardInv

LEMMA AuthorizeKeeps == ASSUME ForwardInv, Authorize PROVE ForwardInv'
<1> DEFINE x == Frame("LoginResponse")
<1>0. /\ ForwardTypes /\ InOrder /\ SwitchGoesOn /\ OneLogin /\ Quiet
      /\ ~byHand => ~Has(portGot, Frames)
  BY DEF ForwardInv
<1>1. /\ server = "login" /\ socket /\ ~authorized /\ authorized' = TRUE
      /\ down' = Append(down, x) /\ server' = "raw" /\ byHand' = TRUE
      /\ UNCHANGED <<portOpen, socket, last_test_delay, cm, delays, talk, portSent,
                     portGot, talkedLate, up, misread>>
      /\ UNCHANGED <<client, logins, dialog, appSent, buffer, appGot>>
  BY DEF Authorize, clientVars
<1>2. x \in Items /\ x.kind = "LoginResponse" /\ IsFrame(x) /\ down \in Seq(Items)
  BY <1>0, ItemKinds DEF Frames, ForwardTypes
<1> HIDE DEF x
<1>3. portSent = 0 /\ portSent' = 0 /\ ~Has(down, Granted) /\ client # "raw"
  BY <1>0, <1>1 DEF SwitchGoesOn, InOrder
<1>4. /\ down' \in Seq(Items)
      /\ \A A : Has(down', A) <=> Has(down, A) \/ "LoginResponse" \in A
      /\ \A A, B : Before(down, A, B)
                   /\ ("LoginResponse" \in A => ~Has(down, B) /\ "LoginResponse" \notin B)
           => Before(down', A, B)
      /\ \A A : AtMostOne(down, A) /\ ("LoginResponse" \in A => ~Has(down, A))
           => AtMostOne(down', A)
  BY <1>1, <1>2, HasAppend
<1>5. ForwardTypes'
  BY <1>0, <1>1, <1>4, PortForwardAssumption DEF ForwardTypes, Phases
<1>6. InOrder'
  <2>1. Ordered(Cat(appGot', down'), portSent')
    BY <1>0, <1>1, <1>2, <1>3, DownGrows
  <2>2. (\E n \in Nat : UpStream(n))'
    BY <1>0, <1>1 DEF InOrder, UpStream
  <2> QED BY <1>0, <1>1, <2>1, <2>2 DEF InOrder
<1>7. SwitchGoesOn'
  BY <1>0, <1>1, <1>3, <1>4, Kinds DEF SwitchGoesOn
<1>8. OneLogin'
  BY <1>1 DEF OneLogin
<1>9. Quiet'
  BY <1>0, <1>1, <1>3, <1>4, Kinds DEF Quiet
<1> QED BY <1>0, <1>1, <1>5, <1>6, <1>7, <1>8, <1>9 DEF ForwardInv

LEMMA PortSendsKeeps == ASSUME ForwardInv, PortSends PROVE ForwardInv'
<1>0. /\ ForwardTypes /\ InOrder /\ SwitchGoesOn /\ OneLogin /\ Quiet
      /\ ~byHand => ~Has(portGot, Frames)
  BY DEF ForwardInv
<1>1. /\ server = "raw" /\ portSent < MaxData /\ portSent' = portSent + 1
      /\ down' = Append(down, Piece(portSent + 1))
      /\ UNCHANGED <<portOpen, server, socket, authorized, last_test_delay, cm, delays,
                     talk, portGot, byHand, talkedLate, up, misread>>
      /\ UNCHANGED <<client, logins, dialog, appSent, buffer, appGot>>
  BY DEF PortSends, clientVars
<1>a. PICK m \in Nat : m = portSent /\ m + 1 \in 1 .. MaxData /\ m + 1 > 0
  BY <1>0, <1>1, PortForwardAssumption DEF ForwardTypes
<1>2. PICK x \in Items : x = Piece(m + 1) /\ x.kind = "Data"
  BY <1>a, ItemKinds
<1>3. down \in Seq(Items) /\ appGot \in Seq(Items) /\ authorized
  BY <1>0, <1>1 DEF ForwardTypes, SwitchGoesOn
<1>4. /\ down' \in Seq(Items)
      /\ \A A : Has(down', A) <=> Has(down, A) \/ "Data" \in A
      /\ \A A, B : Before(down, A, B) /\ ("Data" \in A => ~Has(down, B) /\ "Data" \notin B)
           => Before(down', A, B)
      /\ \A A : AtMostOne(down, A) /\ ("Data" \in A => ~Has(down, A)) => AtMostOne(down', A)
  BY <1>1, <1>a, <1>2, <1>3, HasAppend
<1>5. ForwardTypes'
  BY <1>0, <1>1, <1>a, <1>4, PortForwardAssumption DEF ForwardTypes
<1>6. InOrder'
  <2>1. Ordered(Cat(appGot', down'), portSent')
    <3>1. PICK c \in Seq(Items) : c = Cat(appGot, down)
      BY <1>3, CatType
    <3>2. Ordered(Append(c, Piece(m + 1)), m + 1)
      BY <1>0, <1>a, <3>1, OrderedPiece DEF InOrder
    <3>3. Cat(appGot, Append(down, x)) = Append(c, x)
      BY <1>3, <3>1, CatGrows
    <3> QED BY <1>1, <1>a, <1>2, <3>2, <3>3
  <2>2. (\E n \in Nat : UpStream(n))'
    BY <1>0, <1>1 DEF InOrder, UpStream
  <2> QED BY <1>0, <1>1, <1>3, <2>1, <2>2 DEF InOrder
<1>7. SwitchGoesOn'
  BY <1>0, <1>1, <1>3, <1>4, Kinds DEF SwitchGoesOn
<1>8. OneLogin'
  BY <1>0, <1>1, <1>3, <1>4, Kinds DEF OneLogin
<1>9. Quiet'
  BY <1>0, <1>1, <1>3, <1>4, Kinds DEF Quiet
<1> QED BY <1>0, <1>1, <1>5, <1>6, <1>7, <1>8, <1>9 DEF ForwardInv

LEMMA ServerForwardsKeeps == ASSUME ForwardInv, ServerForwards PROVE ForwardInv'
<1>0. /\ ForwardTypes /\ InOrder /\ SwitchGoesOn /\ OneLogin /\ Quiet
      /\ ~byHand => ~Has(portGot, Frames)
  BY DEF ForwardInv
<1>1. /\ server = "raw" /\ up # <<>> /\ up' = Tail(up) /\ portGot' = Append(portGot, Head(up))
      /\ UNCHANGED <<portOpen, server, socket, authorized, last_test_delay, cm, delays,
                     talk, portSent, byHand, talkedLate, down, misread>>
      /\ UNCHANGED <<client, logins, dialog, appSent, buffer, appGot>>
  BY DEF ServerForwards, clientVars
<1>2. up \in Seq(Items) /\ portGot \in Seq(Items)
  BY <1>0 DEF ForwardTypes
<1>3. PICK x \in Items : x = Head(up) /\ up' \in Seq(Items)
  BY <1>1, <1>2, HasTail
<1>4. /\ \A A : Has(up, A) <=> x.kind \in A \/ Has(up', A)
      /\ \A A, B : Before(up, A, B) => Before(up', A, B) /\ (x.kind \in B => ~Has(up', A))
      /\ \A A : AtMostOne(up, A) => AtMostOne(up', A) /\ (x.kind \in A => ~Has(up', A))
  BY <1>1, <1>2, <1>3, HasTail
<1>a. /\ portGot' \in Seq(Items)
      /\ \A A : Has(portGot', A) <=> Has(portGot, A) \/ x.kind \in A
  BY <1>1, <1>2, <1>3, HasAppend
<1>5. ForwardTypes'
  BY <1>0, <1>1, <1>3, <1>a DEF ForwardTypes
<1>6. InOrder'
  <2>1. Cat(portGot', up') = Cat(portGot, up)
    BY <1>1, <1>2, CatMoves
  <2>2. (\E n \in Nat : UpStream(n))'
    BY <1>0, <1>1, <2>1 DEF InOrder, UpStream
  <2> QED BY <1>0, <1>1, <1>4, <2>2 DEF InOrder
<1>7. SwitchGoesOn'
  BY <1>0, <1>1 DEF SwitchGoesOn
<1>8. OneLogin'
  BY <1>0, <1>1, <1>4 DEF OneLogin
<1>9. Quiet'
  BY <1>0, <1>1 DEF Quiet
<1>10. (~byHand => ~Has(portGot, Frames))'
  BY <1>0, <1>1, <1>4, <1>a DEF OneLogin
<1> QED BY <1>5, <1>6, <1>7, <1>8, <1>9, <1>10 DEF ForwardInv

LEMMA ClosesKeeps == ASSUME ForwardInv, ServerCloses \/ ClientCloses PROVE ForwardInv'
<1>0. /\ ForwardTypes /\ InOrder /\ SwitchGoesOn /\ OneLogin /\ Quiet
      /\ ~byHand => ~Has(portGot, Frames)
  BY DEF ForwardInv
<1>1. CASE ServerCloses
  <2>1. /\ server' = "closed"
        /\ UNCHANGED <<portOpen, socket, authorized, last_test_delay, cm, delays, talk,
                       portSent, portGot, byHand, talkedLate, up, down, misread>>
        /\ UNCHANGED <<client, logins, dialog, appSent, buffer, appGot>>
    BY <1>1 DEF ServerCloses, clientVars
  <2>2. ForwardTypes'
    BY <1>0, <2>1 DEF ForwardTypes, Phases
  <2>3. (\E n \in Nat : UpStream(n))'
    BY <1>0, <2>1 DEF InOrder, UpStream
  <2>4. InOrder'
    BY <1>0, <2>1, <2>3 DEF InOrder
  <2> QED BY <1>0, <2>1, <2>2, <2>4 DEF ForwardInv, SwitchGoesOn, OneLogin, Quiet
<1>2. CASE ClientCloses
  <2>1. /\ client # "closed" /\ client' = "closed"
        /\ UNCHANGED <<portOpen, logins, dialog, appSent, buffer, appGot, up, down, misread>>
        /\ UNCHANGED <<server, socket, authorized, last_test_delay, cm, delays, talk,
                       portSent, portGot, byHand, talkedLate>>
    BY <1>2 DEF ClientCloses, serverVars
  <2>2. ForwardTypes'
    BY <1>0, <2>1 DEF ForwardTypes, Phases
  <2>3. (\E n \in Nat : UpStream(n))'
    BY <1>0, <2>1 DEF InOrder, UpStream
  <2>4. InOrder'
    BY <1>0, <2>1, <2>3 DEF InOrder
  <2>5. server = "login" /\ client = "login" => ~Has(up, Pieces)
    BY <1>0, UpEmpty
  <2>6. SwitchGoesOn'
    BY <1>0, <2>1, <2>5 DEF SwitchGoesOn, ForwardTypes, Phases
  <2> QED BY <1>0, <2>1, <2>2, <2>4, <2>6 DEF ForwardInv, OneLogin, Quiet
<1> QED BY <1>1, <1>2

\* The controlled side takes a message, and no data.
LEMMA UpTaken ==
  ASSUME ForwardTypes, InOrder, SwitchGoesOn, server = "login", up # <<>>
  PROVE  /\ IsFrame(Head(up)) /\ portGot = <<>>
         /\ \A n \in Nat : UpStream(n) => Ordered(Cat(portGot, Tail(up)), n)
<1>0. PICK u \in Seq(Items), n \in Nat : u = up /\ UpStream(n) /\ n \in 0 .. appSent
  BY DEF ForwardTypes, InOrder, UpStream
<1>1. portGot = <<>> /\ \A s \in Seq(Items) : Cat(<<>>, s) = s
  BY CatEmpty DEF InOrder
<1>2. Ordered(u, n)
  BY <1>0, <1>1 DEF UpStream
<1>3. PICK t \in Seq(Items), x \in Items : t = Tail(u) /\ x = Head(u)
  BY <1>0, HeadTailProperties
<1>4. IsFrame(x)
  <2>1. CASE n = 0
    BY <1>0, <1>2, <1>3, <2>1, OrderedHead
  <2>2. CASE n > 0
    <3>1. authorized /\ client # "login" /\ last_test_delay
      BY <1>0, <2>2 DEF UpStream, SwitchGoesOn
    <3>2. Has(up, Tests) \/ ~Has(up, Pieces)
      BY <3>1 DEF SwitchGoesOn
    <3>3. CASE Has(up, Tests)
      BY <1>0, <1>2, <1>3, <3>3, HasParts, OrderedHead
    <3>4. CASE ~Has(up, Pieces)
      <4>1. x.kind \notin Pieces
        BY <1>0, <1>3, <3>4, HasTail
      <4> QED BY <4>1, ItemKinds
    <3> QED BY <3>2, <3>3, <3>4
  <2> QED BY <1>0, <2>1, <2>2
<1>5. ASSUME NEW m \in Nat, UpStream(m) PROVE Ordered(Cat(portGot, Tail(up)), m)
  <2>1. Ordered(u, m)
    BY <1>0, <1>1, <1>5 DEF UpStream
  <2>2. Ordered(t, m)
    BY <1>0, <1>3, <1>4, <2>1, OrderedTail
  <2> QED BY <1>0, <1>1, <1>3, <2>2
<1> QED BY <1>0, <1>1, <1>3, <1>4, <1>5

\* The cases of what it does with the message.
LEMMA ServerReceivesKeeps == ASSUME ForwardInv, ServerReceives PROVE ForwardInv'
<1>0. /\ ForwardTypes /\ InOrder /\ SwitchGoesOn /\ OneLogin /\ Quiet
      /\ ~byHand => ~Has(portGot, Frames)
  BY DEF ForwardInv
<1>1. PICK x \in Items :
      /\ server = "login" /\ up # <<>> /\ up' = Tail(up) /\ x = Head(up)
      /\ IF IsLogin(x) /\ ~authorized
           THEN HandleLogin(x.kind)
           ELSE UNCHANGED <<socket, authorized, cm, down>>
      /\ last_test_delay' = Testing(x)
      /\ server' = IF Breaks(last_test_delay') THEN "raw" ELSE "login"
      /\ misread' = (misread \/ ~IsFrame(x))
      /\ UNCHANGED <<portOpen, delays, talk, portSent, portGot, byHand, talkedLate>>
      /\ UNCHANGED <<client, logins, dialog, appSent, buffer, appGot>>
  <2>1. Head(up) \in Items
    BY <1>0, HeadTailProperties DEF ServerReceives, ForwardTypes
  <2> QED BY <2>1 DEF ServerReceives, clientVars
<1>2. up \in Seq(Items) /\ up' \in Seq(Items)
  BY <1>0, <1>1, HasTail DEF ForwardTypes
<1>3. /\ \A A : Has(up, A) <=> x.kind \in A \/ Has(up', A)
      /\ \A A, B : Before(up, A, B) => Before(up', A, B) /\ (x.kind \in B => ~Has(up', A))
      /\ \A A : AtMostOne(up, A) => AtMostOne(up', A) /\ (x.kind \in A => ~Has(up', A))
  BY <1>1, <1>2, HasTail
<1>4. /\ IsFrame(x) /\ portGot = <<>> /\ portSent = 0 /\ portSent' = 0
      /\ \A n \in Nat : UpStream(n) => Ordered(Cat(portGot, up'), n)
      /\ ~misread /\ ~misread'
      /\ x.kind # "Data"
  BY <1>0, <1>1, UpTaken DEF InOrder, SwitchGoesOn, IsFrame
<1>5. last_test_delay' = (last_test_delay /\ x.kind # "TestDelay") /\ last_test_delay \in BOOLEAN
  BY <1>0, <1>1 DEF Testing, ForwardTypes
<1>6. ASSUME UNCHANGED <<socket, authorized, cm, down>>, ~IsLogin(x) \/ authorized
      PROVE  ForwardInv'
  <2>1. server' = IF socket /\ authorized /\ ~last_test_delay' THEN "raw" ELSE "login"
    BY <1>1, <1>6 DEF Breaks
  <2>2. ForwardTypes'
    BY <1>0, <1>1, <1>2, <1>4, <1>5, <1>6, <2>1 DEF ForwardTypes, Phases
  <2>3. InOrder'
    <3>1. PICK n \in Nat : UpStream(n)
      BY <1>0 DEF InOrder
    <3>2. UpStream(n)'
      BY <1>1, <1>4, <1>6, <3>1 DEF UpStream
    <3> QED BY <1>0, <1>1, <1>3, <1>4, <1>6, <3>2 DEF InOrder
  <2>4. SwitchGoesOn'
    BY <1>0, <1>1, <1>3, <1>4, <1>5, <1>6, <2>1, Kinds DEF SwitchGoesOn
  <2>5. OneLogin'
    <3>1. x.kind \notin Frames \ (Logins \cup Tests) /\ ~Has(up', Frames \ (Logins \cup Tests))
      BY <1>0, <1>3 DEF InOrder
    <3>2. ~byHand /\ authorized => ~Has(up', Logins)
      BY <1>0, <1>1, <1>3 DEF OneLogin
    <3>3. ~byHand /\ ~last_test_delay' => ~Has(up', Tests) /\ ~Has(down, Tests)
      BY <1>0, <1>1, <1>3, <1>5, Kinds DEF OneLogin
    <3>4. server' = "raw" /\ ~byHand => ~Has(up', Frames)
      BY <2>1, <3>1, <3>2, <3>3, HasParts
    <3>5. ~byHand /\ (Has(down, Tests) \/ Has(up', Tests)) => last_test_delay' /\ server' = "login"
      BY <1>1, <2>1, <3>3, <1>5
    <3> QED BY <1>0, <1>1, <1>3, <1>6, <3>4, <3>5 DEF OneLogin
  <2>6. Quiet'
    BY <1>0, <1>1, <1>6 DEF Quiet
  <2> QED BY <1>0, <1>1, <2>2, <2>3, <2>4, <2>5, <2>6 DEF ForwardInv
<1>7. ASSUME IsLogin(x), ~authorized, x.kind = "LoginEmpty" PROVE ForwardInv'
  <2>0. /\ socket' = TRUE /\ cm' = TRUE /\ authorized' = FALSE /\ down' = down
        /\ last_test_delay' = last_test_delay
        /\ server' = "login"
    BY <1>1, <1>5, <1>7 DEF HandleLogin, Breaks
  <2>2. ForwardTypes'
    BY <1>0, <1>1, <1>2, <1>4, <1>5, <2>0 DEF ForwardTypes, Phases
  <2>3. InOrder'
    <3>1. PICK n \in Nat : UpStream(n)
      BY <1>0 DEF InOrder
    <3>2. UpStream(n)'
      BY <1>1, <1>4, <1>7, <2>0, <3>1 DEF UpStream
    <3> QED BY <1>0, <1>1, <1>3, <1>4, <1>7, <2>0, <3>2 DEF InOrder
  <2>4. SwitchGoesOn'
    BY <1>0, <1>1, <1>3, <1>4, <1>7, <2>0, Kinds DEF SwitchGoesOn
  <2>5. OneLogin'
    BY <1>0, <1>1, <1>3, <1>7, <2>0, Kinds DEF OneLogin
  <2>6. Quiet'
    BY <1>0, <1>1, <2>0 DEF Quiet
  <2> QED BY <1>0, <1>1, <2>2, <2>3, <2>4, <2>5, <2>6 DEF ForwardInv
<1>8. ASSUME IsLogin(x), ~authorized, x.kind \in {"LoginRight", "LoginWrong"} PROVE ForwardInv'
  <2> DEFINE k == IF x.kind = "LoginRight" THEN "LoginResponse" ELSE "LoginError"
  <2>0. PICK y \in Items : y = Frame(k) /\ y.kind = k /\ IsFrame(y)
    BY ItemKinds DEF Frames
  <2>1. /\ socket' = TRUE /\ cm' = TRUE /\ authorized' = (x.kind = "LoginRight")
        /\ down' = Append(down, y)
        /\ last_test_delay' = last_test_delay
        /\ server' = IF authorized' /\ ~last_test_delay THEN "raw" ELSE "login"
    BY <1>1, <1>5, <1>8, <2>0 DEF HandleLogin, Breaks
  <2>a. down \in Seq(Items) /\ ~Has(down, Granted) /\ client # "raw"
    BY <1>0, <1>8 DEF ForwardTypes, SwitchGoesOn
  <2>b. /\ down' \in Seq(Items)
        /\ \A A : Has(down', A) <=> Has(down, A) \/ k \in A
        /\ \A A, B : Before(down, A, B) /\ (k \in A => ~Has(down, B) /\ k \notin B)
             => Before(down', A, B)
        /\ \A A : AtMostOne(down, A) /\ (k \in A => ~Has(down, A)) => AtMostOne(down', A)
    BY <2>0, <2>1, <2>a, HasAppend
  <2>2. ForwardTypes'
    BY <1>0, <1>1, <1>2, <1>4, <1>5, <2>1, <2>b DEF ForwardTypes, Phases
  <2>3. InOrder'
    <3>1. PICK n \in Nat : UpStream(n)
      BY <1>0 DEF InOrder
    <3>2. UpStream(n)'
      BY <1>1, <1>4, <1>8, <2>1, <3>1 DEF UpStream
    <3>3. Ordered(Cat(appGot', down'), portSent')
      BY <1>0, <1>1, <1>4, <2>0, <2>1, DownGrows
    <3> QED BY <1>0, <1>1, <1>3, <1>4, <2>1, <3>2, <3>3 DEF InOrder
  <2>4. SwitchGoesOn'
    <3>1. k \notin Tests /\ (k \in Granted <=> x.kind = "LoginRight") /\ x.kind \notin Tests
      BY <1>8, Kinds
    <3>2. Before(down', Tests, Granted)
      BY <1>0, <2>b, <3>1 DEF SwitchGoesOn
    <3>3. Has(down', Granted) <=> x.kind = "LoginRight"
      BY <2>a, <2>b, <3>1
    <3>4. Has(up', Tests) <=> Has(up, Tests)
      BY <1>3, <3>1
    <3>5. Has(down', Tests) <=> Has(down, Tests)
      BY <2>b, <3>1
    <3>6. Has(up', Pieces) => Has(up, Pieces)
      BY <1>3
    <3>7. server' = "raw" => authorized'
      BY <2>1
    <3>8. server' = "login" /\ authorized' => last_test_delay'
      BY <2>1
    <3>9. last_test_delay =>
            \/ Has(up', Tests)
            \/ client = "login" /\ Has(down', Tests)
            \/ client = "closed" /\ ~Has(up', Pieces)
      BY <1>0, <1>1, <3>4, <3>5, <3>6 DEF SwitchGoesOn
    <3>a. socket'
      BY <2>1
    <3>b. authorized' <=> x.kind = "LoginRight"
      BY <2>1
    <3>c. last_test_delay' <=> last_test_delay
      BY <2>1
    <3>10. /\ socket' /\ (authorized' <=> x.kind = "LoginRight") /\ client' = client /\ client # "raw"
           /\ (last_test_delay' <=> last_test_delay) /\ ~misread'
      BY <1>1, <1>4, <2>a, <3>a, <3>b, <3>c
    <3>11. (server = "login" /\ last_test_delay =>
              \/ Has(up, Tests)
              \/ client = "login" /\ Has(down, Tests)
              \/ client = "closed" /\ ~Has(up, Pieces))'
      BY <3>9, <3>10
    <3> QED BY <3>2, <3>3, <3>7, <3>8, <3>10, <3>11 DEF SwitchGoesOn
  <2>5. OneLogin'
    <3>1. x.kind \notin Frames \ (Logins \cup Tests) /\ ~Has(up', Frames \ (Logins \cup Tests))
      BY <1>0, <1>3 DEF InOrder
    <3>2. ~byHand => /\ ~Has(up', Requests) /\ ~Has(up', NoPassword)
                     /\ ~dialog /\ ~Has(down, Dialogs)
      BY <1>0, <1>1, <1>3, <1>8, Kinds DEF OneLogin
    <3>3. ~byHand /\ ~last_test_delay => ~Has(up', Tests) /\ ~Has(down', Tests)
      BY <1>0, <1>1, <1>3, <2>b, Kinds DEF OneLogin
    <3>4. server' = "raw" /\ ~byHand => ~Has(up', Frames)
      BY <2>1, <3>1, <3>2, <3>3, HasParts
    <3>5. ~byHand => /\ Before(up', NoPassword, Requests) /\ AtMostOne(up', Requests)
                     /\ AtMostOne(up', Tests) /\ AtMostOne(down', Tests)
                     /\ AtMostOne(down', Dialogs) /\ ~Has(up', Logins)
                     /\ ~(Has(down', Tests) /\ Has(up', Tests))
                     /\ (x.kind = "LoginRight" => ~Has(down', Dialogs))
      BY <1>0, <1>1, <1>3, <1>8, <2>b, <3>2, Kinds, HasParts DEF OneLogin
    <3>6. ~byHand /\ (Has(down', Tests) \/ Has(up', Tests)) => last_test_delay' /\ server' = "login"
      BY <1>5, <2>1, <3>3
    <3> QED BY <1>1, <2>1, <3>2, <3>4, <3>5, <3>6 DEF OneLogin
  <2>6. Quiet'
    BY <1>0, <1>1, <2>1, <2>a, <2>b, Kinds DEF Quiet
  <2> QED BY <1>0, <1>1, <2>2, <2>3, <2>4, <2>5, <2>6 DEF ForwardInv
<1>9. IsLogin(x) => x.kind \in {"LoginRight", "LoginWrong"} \/ x.kind = "LoginEmpty"
  BY DEF IsLogin
<1> QED BY <1>1, <1>6, <1>7, <1>8, <1>9

LEMMA LoginFailsKeeps == ASSUME ForwardInv, LoginFails PROVE ForwardInv'
<1>0. /\ ForwardTypes /\ InOrder /\ SwitchGoesOn /\ OneLogin /\ Quiet
      /\ ~byHand => ~Has(portGot, Frames)
  BY DEF ForwardInv
<1>1. PICK y \in Items : y = Frame("LoginError") /\ y.kind = "LoginError" /\ IsFrame(y)
  BY ItemKinds DEF Frames
<1>2. /\ server = "login" /\ up # <<>> /\ ~authorized
      /\ up' = Tail(up) /\ down' = Append(down, y) /\ server' = "closed"
      /\ UNCHANGED <<portOpen, socket, authorized, last_test_delay, cm, delays, talk,
                     portSent, portGot, byHand, talkedLate, misread>>
      /\ UNCHANGED <<client, logins, dialog, appSent, buffer, appGot>>
  BY <1>1 DEF LoginFails, clientVars
<1>3. up \in Seq(Items) /\ down \in Seq(Items) /\ up' \in Seq(Items)
      /\ \A A : Has(up, A) <=> Head(up).kind \in A \/ Has(up', A)
  BY <1>0, <1>2, HasTail DEF ForwardTypes
<1>4. /\ down' \in Seq(Items)
      /\ \A A : Has(down', A) <=> Has(down, A) \/ "LoginError" \in A
      /\ \A A, B : Before(down, A, B) /\ ("LoginError" \in A => ~Has(down, B) /\ "LoginError" \notin B)
           => Before(down', A, B)
      /\ \A A : AtMostOne(down, A) /\ ("LoginError" \in A => ~Has(down, A)) => AtMostOne(down', A)
  BY <1>1, <1>2, <1>3, HasAppend
<1>5. ~Has(down, Granted) /\ client # "raw" /\ portSent = 0
  BY <1>0, <1>2 DEF SwitchGoesOn, InOrder
<1>6. ForwardTypes'
  BY <1>0, <1>2, <1>3, <1>4 DEF ForwardTypes, Phases
<1>7. InOrder'
  <2>1. PICK n \in Nat : UpStream(n)
    BY <1>0 DEF InOrder
  <2>2. UpStream(n)'
    BY <1>0, <1>2, <2>1, UpTaken DEF UpStream
  <2>3. Ordered(Cat(appGot', down'), portSent')
    BY <1>0, <1>1, <1>2, <1>5, DownGrows
  <2> QED BY <1>0, <1>2, <1>3, <2>2, <2>3 DEF InOrder
<1>8. SwitchGoesOn'
  BY <1>0, <1>2, <1>4, <1>5, Kinds DEF SwitchGoesOn
<1>9. Quiet'
  BY <1>0, <1>2, <1>4, <1>5, Kinds DEF Quiet
<1>10. OneLogin'
  BY <1>2 DEF OneLogin
<1> QED BY <1>0, <1>2, <1>6, <1>7, <1>8, <1>9, <1>10 DEF ForwardInv

LEMMA ClientForwardsKeeps == ASSUME ForwardInv, ClientForwards PROVE ForwardInv'
<1>0. /\ ForwardTypes /\ InOrder /\ SwitchGoesOn /\ OneLogin /\ Quiet
      /\ ~byHand => ~Has(portGot, Frames)
  BY DEF ForwardInv
<1>1. /\ client = "raw" /\ down # <<>> /\ down' = Tail(down) /\ appGot' = Append(appGot, Head(down))
      /\ UNCHANGED <<portOpen, client, logins, dialog, appSent, buffer, up, misread>>
      /\ UNCHANGED <<server, socket, authorized, last_test_delay, cm, delays, talk,
                     portSent, portGot, byHand, talkedLate>>
  BY DEF ClientForwards, serverVars
<1>2. down \in Seq(Items) /\ appGot \in Seq(Items) /\ authorized
  BY <1>0, <1>1 DEF ForwardTypes, SwitchGoesOn
<1>3. PICK x \in Items : x = Head(down) /\ down' \in Seq(Items)
  BY <1>1, <1>2, HasTail
<1>4. /\ \A A : Has(down, A) <=> x.kind \in A \/ Has(down', A)
      /\ \A A, B : Before(down, A, B) => Before(down', A, B) /\ (x.kind \in B => ~Has(down', A))
      /\ \A A : AtMostOne(down, A) => AtMostOne(down', A) /\ (x.kind \in A => ~Has(down', A))
  BY <1>1, <1>2, <1>3, HasTail
<1>5. /\ appGot' \in Seq(Items)
      /\ \A A : Has(appGot', A) <=> Has(appGot, A) \/ x.kind \in A
  BY <1>1, <1>2, <1>3, HasAppend
<1>6. ForwardTypes'
  BY <1>0, <1>1, <1>3, <1>5 DEF ForwardTypes
<1>7. InOrder'
  <2>1. Cat(appGot', down') = Cat(appGot, down)
    BY <1>1, <1>2, CatMoves
  <2>2. (\E n \in Nat : UpStream(n))'
    BY <1>0, <1>1 DEF InOrder, UpStream
  <2> QED BY <1>0, <1>1, <2>1, <2>2 DEF InOrder
<1>8. SwitchGoesOn'
  BY <1>0, <1>1, <1>2, <1>4 DEF SwitchGoesOn
<1>9. OneLogin'
  BY <1>0, <1>1, <1>4 DEF OneLogin
<1>10. Quiet'
  BY <1>0, <1>1, <1>4, <1>5 DEF Quiet
<1> QED BY <1>0, <1>1, <1>6, <1>7, <1>8, <1>9, <1>10 DEF ForwardInv

LEMMA ApplicationSendsKeeps == ASSUME ForwardInv, ApplicationSends PROVE ForwardInv'
<1>0. /\ ForwardTypes /\ InOrder /\ SwitchGoesOn /\ OneLogin /\ Quiet
      /\ ~byHand => ~Has(portGot, Frames)
  BY DEF ForwardInv
<1>1. /\ client # "closed" /\ appSent < MaxData /\ appSent' = appSent + 1
      /\ IF client = "login"
           THEN buffer' = Append(buffer, Piece(appSent + 1)) /\ up' = up
           ELSE up' = Append(up, Piece(appSent + 1)) /\ buffer' = buffer
      /\ UNCHANGED <<portOpen, client, logins, dialog, appGot, down, misread>>
      /\ UNCHANGED <<server, socket, authorized, last_test_delay, cm, delays, talk,
                     portSent, portGot, byHand, talkedLate>>
  BY DEF ApplicationSends, serverVars
<1>2. PICK m \in Nat : m = appSent /\ m + 1 \in 1 .. MaxData /\ m + 1 > 0 /\ m + 1 \in Nat
                       /\ m \in 0 .. m + 1 /\ 0 \in 0 .. m + 1 /\ m + 1 \in 0 .. m + 1
  BY <1>0, <1>1, PortForwardAssumption DEF ForwardTypes
<1>3. PICK x \in Items : x = Piece(m + 1) /\ x.kind = "Data" /\ ~IsFrame(x)
  BY <1>2, ItemKinds
<1>4. up \in Seq(Items) /\ buffer \in Seq(Items) /\ portGot \in Seq(Items)
  BY <1>0 DEF ForwardTypes
<1>5. PICK n \in Nat : UpStream(n)
  BY <1>0 DEF InOrder
<1>6. CASE client = "login"
  <2>1. buffer' = Append(buffer, x) /\ up' = up
    BY <1>1, <1>2, <1>3, <1>6
  <2>2. /\ buffer' \in Seq(Items)
        /\ \A A : Has(buffer', A) <=> Has(buffer, A) \/ "Data" \in A
    BY <1>3, <1>4, <2>1, HasAppend
  <2>3. ForwardTypes'
    BY <1>0, <1>1, <1>2, <1>6, <2>1, <2>2 DEF ForwardTypes
  <2>4. Ordered(buffer', appSent')
    BY <1>0, <1>1, <1>2, <1>3, <1>4, <1>6, <2>1, OrderedPiece DEF InOrder
  <2>5. ~Has(buffer', Frames)
    BY <1>0, <1>6, <2>2, Kinds DEF InOrder
  <2>6. UpStream(n)'
    BY <1>1, <1>2, <1>5, <1>6, <2>1 DEF UpStream
  <2>7. InOrder'
    BY <1>0, <1>1, <2>1, <2>4, <2>5, <2>6 DEF InOrder
  <2> QED BY <1>0, <1>1, <2>1, <2>3, <2>7 DEF ForwardInv, SwitchGoesOn, OneLogin, Quiet
<1>7. CASE client = "raw"
  <2>1. buffer' = buffer /\ up' = Append(up, x) /\ authorized /\ n = m
    BY <1>0, <1>1, <1>2, <1>3, <1>5, <1>7 DEF SwitchGoesOn, UpStream
  <2>2. /\ up' \in Seq(Items)
        /\ \A A : Has(up', A) <=> Has(up, A) \/ "Data" \in A
        /\ \A A, B : Before(up, A, B) /\ ("Data" \in A => ~Has(up, B) /\ "Data" \notin B)
             => Before(up', A, B)
        /\ \A A : AtMostOne(up, A) /\ ("Data" \in A => ~Has(up, A)) => AtMostOne(up', A)
    BY <1>3, <1>4, <2>1, HasAppend
  <2>3. ForwardTypes'
    BY <1>0, <1>1, <1>2, <1>7, <2>1, <2>2 DEF ForwardTypes
  <2>4. Ordered(Cat(portGot', up'), m + 1)
    <3>1. PICK c \in Seq(Items) : c = Cat(portGot, up)
      BY <1>4, CatType
    <3>2. Ordered(Append(c, x), m + 1)
      BY <1>2, <1>3, <1>5, <2>1, <3>1, OrderedPiece DEF UpStream
    <3>3. Cat(portGot, Append(up, x)) = Append(c, x)
      BY <1>4, <3>1, CatGrows
    <3> QED BY <1>1, <2>1, <3>2, <3>3
  <2>5. UpStream(m + 1)'
    BY <1>1, <1>2, <1>7, <2>1, <2>4 DEF UpStream
  <2>6. InOrder'
    <3>1. ~Has(up', Frames \ (Logins \cup Tests))
      BY <1>0, <2>2, Kinds DEF InOrder
    <3> QED BY <1>0, <1>1, <1>2, <1>7, <2>1, <2>5, <3>1 DEF InOrder
  <2>7. SwitchGoesOn'
    BY <1>0, <1>1, <1>7, <2>1, <2>2, Kinds DEF SwitchGoesOn
  <2>8. OneLogin'
    BY <1>0, <1>1, <2>1, <2>2, Kinds DEF OneLogin
  <2> QED BY <1>0, <1>1, <2>3, <2>6, <2>7, <2>8 DEF ForwardInv, Quiet
<1> QED BY <1>0, <1>1, <1>6, <1>7 DEF ForwardTypes, Phases

\* The client adds a message to what goes up, before it is logged in.
LEMMA UpGrows ==
  ASSUME ForwardTypes, InOrder, client = "login", NEW x \in Items, x.kind \in Logins \cup Tests
  PROVE  /\ Ordered(Cat(portGot, Append(up, x)), 0)
         /\ ~Has(Append(up, x), Frames \ (Logins \cup Tests))
<1>0. PICK n \in Nat : UpStream(n)
  BY DEF InOrder
<1>1. PICK a \in Seq(Items), u \in Seq(Items), c \in Seq(Items) :
        a = portGot /\ u = up /\ c = Cat(a, u)
  BY CatType DEF ForwardTypes
<1>2. Ordered(c, 0) /\ IsFrame(x)
  BY <1>0, <1>1, ItemKinds DEF UpStream, Logins, Requests, NoPassword, Tests, Pieces
<1>3. Ordered(Append(c, x), 0)
  BY <1>2, OrderedMessage
<1>4. Cat(a, Append(u, x)) = Append(c, x)
  BY <1>1, CatGrows
<1>5. ~Has(Append(u, x), Frames \ (Logins \cup Tests))
  BY <1>1, HasAppend DEF InOrder
<1> QED BY <1>1, <1>3, <1>4, <1>5

LEMMA UserLogsInKeeps == ASSUME ForwardInv, UserLogsIn PROVE ForwardInv'
<1>0. /\ ForwardTypes /\ InOrder /\ SwitchGoesOn /\ OneLogin /\ Quiet
      /\ ~byHand => ~Has(portGot, Frames)
  BY DEF ForwardInv
<1>1. PICK k \in {"LoginRight", "LoginWrong"} : LogIn(k)
  BY DEF UserLogsIn
<1>2. PICK x \in Items : x = Frame(k) /\ x.kind = k /\ k \in Requests
  BY ItemKinds DEF Frames, Requests
<1>3. /\ client = "login" /\ dialog /\ dialog' = FALSE
      /\ logins < MaxLogins /\ logins' = logins + 1 /\ up' = Append(up, x)
      /\ UNCHANGED <<portOpen, client, appSent, buffer, appGot, down, misread>>
      /\ UNCHANGED <<server, socket, authorized, last_test_delay, cm, delays, talk,
                     portSent, portGot, byHand, talkedLate>>
  BY <1>1, <1>2 DEF UserLogsIn, LogIn, serverVars
<1>4. up \in Seq(Items)
  BY <1>0 DEF ForwardTypes
<1>5. /\ up' \in Seq(Items)
      /\ \A A : Has(up', A) <=> Has(up, A) \/ k \in A
      /\ \A A, B : Before(up, A, B) /\ (k \in A => ~Has(up, B) /\ k \notin B)
           => Before(up', A, B)
      /\ \A A : AtMostOne(up, A) /\ (k \in A => ~Has(up, A)) => AtMostOne(up', A)
  BY <1>2, <1>3, <1>4, HasAppend
<1>6. ForwardTypes'
  <2>1. logins' \in 0 .. MaxLogins
    BY <1>0, <1>3, PortForwardAssumption DEF ForwardTypes
  <2> QED BY <1>0, <1>3, <1>5, <2>1 DEF ForwardTypes
<1>7. InOrder'
  <2>1. PICK n \in Nat : UpStream(n)
    BY <1>0 DEF InOrder
  <2>2. Ordered(Cat(portGot', up'), 0) /\ ~Has(up', Frames \ (Logins \cup Tests))
    BY <1>0, <1>2, <1>3, UpGrows DEF Logins
  <2>3. UpStream(n)'
    BY <1>3, <2>1, <2>2 DEF UpStream
  <2> QED BY <1>0, <1>3, <2>2, <2>3 DEF InOrder
<1>8. SwitchGoesOn'
  BY <1>0, <1>2, <1>3, <1>5, Kinds DEF SwitchGoesOn
<1>9. OneLogin'
  <2> SUFFICES ASSUME server # "closed", ~byHand PROVE OneLogin'
    BY <1>3 DEF OneLogin
  <2>1. ~authorized /\ server # "raw" /\ ~Has(down, Dialogs) /\ ~Has(up, Requests)
    BY <1>0, <1>3 DEF OneLogin, SwitchGoesOn
  <2>2. k \in Requests /\ k \notin Tests /\ k \notin NoPassword
    BY <1>2, Kinds
  <2>3. /\ AtMostOne(up', Requests) /\ AtMostOne(up', Tests)
        /\ Before(up', NoPassword, Requests)
        /\ Has(up', Tests) <=> Has(up, Tests)
    <3>1. Before(up, NoPassword, Requests) /\ AtMostOne(up, Requests) /\ AtMostOne(up, Tests)
      BY <1>0 DEF OneLogin
    <3> QED BY <1>5, <2>1, <2>2, <3>1
  <2> QED BY <1>0, <1>3, <2>1, <2>3 DEF OneLogin
<1> QED BY <1>0, <1>3, <1>6, <1>7, <1>8, <1>9 DEF ForwardInv, Quiet

\* The controlling side takes a message, and no data.
LEMMA DownTaken ==
  ASSUME ForwardTypes, InOrder, SwitchGoesOn, client = "login", down # <<>>
  PROVE  /\ IsFrame(Head(down)) /\ appGot = <<>>
         /\ Ordered(Cat(appGot, Tail(down)), portSent)
<1>1. PICK d \in Seq(Items), n \in Nat : d = down /\ n = portSent
  BY PortForwardAssumption DEF ForwardTypes
<1>2. appGot = <<>> /\ \A s \in Seq(Items) : Cat(<<>>, s) = s
  BY CatEmpty DEF InOrder
<1>3. Ordered(d, n)
  BY <1>1, <1>2 DEF InOrder
<1>4. PICK t \in Seq(Items), x \in Items : t = Tail(d) /\ x = Head(d)
  BY <1>1, HeadTailProperties
<1>5. IsFrame(x)
  <2>1. n = 0 \/ Has(d, Granted)
    BY <1>1 DEF InOrder, SwitchGoesOn
  <2> QED BY <1>1, <1>3, <1>4, <2>1, HasParts, OrderedHead
<1>6. Ordered(t, n)
  BY <1>1, <1>3, <1>4, <1>5, OrderedTail
<1> QED BY <1>1, <1>2, <1>4, <1>5, <1>6

\* What every message does to what comes down.
ClientTook(x) ==
  /\ client = "login" /\ down # <<>> /\ down' = Tail(down) /\ x = Head(down)
  /\ misread' = (misread \/ ~IsFrame(x))
  /\ UNCHANGED <<portOpen, appSent, appGot>>
  /\ UNCHANGED <<server, socket, authorized, last_test_delay, cm, delays, talk,
                 portSent, portGot, byHand, talkedLate>>

TookFirst(x) ==
  /\ down \in Seq(Items) /\ down' \in Seq(Items)
  /\ \A A : Has(down, A) <=> x.kind \in A \/ Has(down', A)
  /\ \A A, B : Before(down, A, B) => Before(down', A, B) /\ (x.kind \in B => ~Has(down', A))
  /\ \A A : AtMostOne(down, A) => AtMostOne(down', A) /\ (x.kind \in A => ~Has(down', A))
  /\ IsFrame(x) /\ x.kind \in Frames /\ ~misread /\ ~misread' /\ appGot = <<>>
  /\ Ordered(Cat(appGot', down'), portSent')

LEMMA TookOne ==
  ASSUME ForwardTypes, InOrder, SwitchGoesOn, NEW x, ClientTook(x)
  PROVE  x \in Items /\ TookFirst(x)
<1>1. down \in Seq(Items) /\ down # <<>> /\ down' = Tail(down) /\ x = Head(down)
  BY DEF ForwardTypes, ClientTook
<1>2. /\ x \in Items /\ down' \in Seq(Items)
      /\ \A A : Has(down, A) <=> x.kind \in A \/ Has(down', A)
      /\ \A A, B : Before(down, A, B) => Before(down', A, B) /\ (x.kind \in B => ~Has(down', A))
      /\ \A A : AtMostOne(down, A) => AtMostOne(down', A) /\ (x.kind \in A => ~Has(down', A))
  BY <1>1, HasTail
<1>3. IsFrame(x) /\ appGot = <<>> /\ Ordered(Cat(appGot, down'), portSent)
  BY <1>1, DownTaken DEF ClientTook
<1>4. ~misread /\ ~misread' /\ x.kind \in Frames
  BY <1>2, <1>3, ItemKinds DEF SwitchGoesOn, ClientTook
<1> QED BY <1>1, <1>2, <1>3, <1>4 DEF TookFirst, ClientTook

\* handle_hash, and the reply to a TestDelay
LEMMA ReplyKeeps ==
  ASSUME ForwardInv, NEW x, ClientTook(x), NEW k \in Logins \cup Tests,
         up' = Append(up, Frame(k)), UNCHANGED <<client, buffer>>,
         \/ /\ x.kind = "Hash" /\ k \in Logins /\ dialog' = (k = "LoginEmpty")
            /\ logins < MaxLogins /\ logins' = logins + 1
         \/ x.kind = "TestDelay" /\ k = "TestDelay" /\ UNCHANGED <<logins, dialog>>
  PROVE  ForwardInv'
<1>0. /\ ForwardTypes /\ InOrder /\ SwitchGoesOn /\ OneLogin /\ Quiet
      /\ ~byHand => ~Has(portGot, Frames)
  BY DEF ForwardInv
<1>1. x \in Items /\ TookFirst(x) /\ up \in Seq(Items)
  BY <1>0, TookOne DEF ForwardTypes
<1>2. /\ client = "login" /\ down # <<>>
      /\ UNCHANGED <<portOpen, client, buffer, appSent, appGot>>
      /\ UNCHANGED <<server, socket, authorized, last_test_delay, cm, delays, talk,
                     portSent, portGot, byHand, talkedLate>>
  BY DEF ClientTook
<1>3. PICK y \in Items : y = Frame(k) /\ y.kind = k /\ up' = Append(up, y)
  BY ItemKinds DEF Logins, Requests, NoPassword, Tests, Frames
<1>4. /\ up' \in Seq(Items)
      /\ \A A : Has(up', A) <=> Has(up, A) \/ k \in A
      /\ \A A, B : Before(up, A, B) /\ (k \in A => ~Has(up, B) /\ k \notin B)
           => Before(up', A, B)
      /\ \A A : AtMostOne(up, A) /\ (k \in A => ~Has(up, A)) => AtMostOne(up', A)
  BY <1>1, <1>3, HasAppend
<1>5. ForwardTypes'
  <2>1. logins' \in 0 .. MaxLogins /\ dialog' \in BOOLEAN
    <3>1. logins \in 0 .. MaxLogins /\ dialog \in BOOLEAN /\ MaxLogins \in Nat
      BY <1>0, PortForwardAssumption DEF ForwardTypes
    <3>2. logins < MaxLogins => logins + 1 \in 0 .. MaxLogins
      BY <3>1
    <3>3. CASE x.kind = "Hash"
      BY <3>2, <3>3
    <3>4. CASE x.kind = "TestDelay"
      BY <3>1, <3>4
    <3> QED BY <3>3, <3>4
  <2>2. misread' \in BOOLEAN
    BY DEF ClientTook
  <2> QED BY <1>0, <1>1, <1>2, <1>4, <2>1, <2>2 DEF ForwardTypes, TookFirst
<1>6. InOrder'
  <2>1. PICK n \in Nat : UpStream(n)
    BY <1>0 DEF InOrder
  <2>2. Ordered(Cat(portGot', up'), 0) /\ ~Has(up', Frames \ (Logins \cup Tests))
    BY <1>0, <1>2, <1>3, UpGrows
  <2>3. UpStream(n)'
    BY <1>2, <2>1, <2>2 DEF UpStream
  <2> QED BY <1>0, <1>1, <1>2, <2>2, <2>3 DEF InOrder, TookFirst
<1>7. x.kind \notin Granted /\ (x.kind \in Tests <=> k \in Tests) /\ (k \in Tests => k = "TestDelay")
  BY Kinds
<1>8. SwitchGoesOn'
  <2>1. Before(down', Tests, Granted)
    BY <1>0, <1>1 DEF TookFirst, SwitchGoesOn
  <2>2. Has(down', Granted) <=> Has(down, Granted)
    BY <1>1, <1>7 DEF TookFirst
  <2>3. server = "login" /\ last_test_delay => Has(up', Tests) \/ Has(down', Tests)
    BY <1>0, <1>1, <1>2, <1>4, <1>7 DEF TookFirst, SwitchGoesOn
  <2>4. ~misread'
    BY <1>1 DEF TookFirst
  <2> QED BY <1>0, <1>2, <2>1, <2>2, <2>3, <2>4 DEF SwitchGoesOn
<1>9. OneLogin'
  <2> SUFFICES ASSUME server # "closed", ~byHand PROVE OneLogin'
    BY <1>2 DEF OneLogin
  <2>1. /\ AtMostOne(down', Dialogs) /\ AtMostOne(down', Tests)
        /\ AtMostOne(down, Dialogs) /\ AtMostOne(down, Tests)
    BY <1>0, <1>1 DEF OneLogin, TookFirst
  <2>2. CASE k \in Tests
    <3>1. x.kind \in Tests /\ k \notin Requests /\ k \notin NoPassword /\ k \notin Logins
          /\ x.kind \notin Dialogs /\ dialog' = dialog
      BY <1>7, <2>2, Kinds
    <3>2. Has(down, Tests) /\ ~Has(down', Tests) /\ ~Has(up, Tests)
          /\ last_test_delay /\ server = "login"
      BY <1>0, <1>1, <2>1, <3>1 DEF OneLogin, TookFirst
    <3>3. (Has(down', Dialogs) <=> Has(down, Dialogs)) /\ (Has(up', Requests) <=> Has(up, Requests))
          /\ (Has(up', Logins) <=> Has(up, Logins))
      BY <1>1, <1>4, <3>1 DEF TookFirst
    <3>4. Before(up', NoPassword, Requests) /\ AtMostOne(up', Requests) /\ AtMostOne(up', Tests)
      BY <1>0, <1>4, <3>1, <3>2 DEF OneLogin
    <3> QED BY <1>0, <1>2, <2>1, <3>1, <3>2, <3>3, <3>4 DEF OneLogin
  <2>3. CASE k \notin Tests
    <3>1. x.kind = "Hash" /\ x.kind \in Dialogs /\ x.kind \notin Tests /\ k \in Logins
          /\ (k \in Requests <=> k # "LoginEmpty") /\ (k \in NoPassword <=> k = "LoginEmpty")
          /\ (dialog' <=> k = "LoginEmpty")
      BY <1>7, <2>3, Kinds
    <3>2. /\ Has(down, Dialogs) /\ ~Has(down', Dialogs) /\ ~Has(up, Requests) /\ ~authorized
          /\ server # "raw" /\ ~dialog
      BY <1>0, <1>1, <2>1, <3>1 DEF OneLogin, SwitchGoesOn, TookFirst
    <3>3. (Has(down', Tests) <=> Has(down, Tests)) /\ (Has(up', Tests) <=> Has(up, Tests))
          /\ (Has(up', Requests) <=> k # "LoginEmpty")
      BY <1>1, <1>4, <2>3, <3>1, <3>2 DEF TookFirst
    <3>4. Before(up', NoPassword, Requests) /\ AtMostOne(up', Requests) /\ AtMostOne(up', Tests)
      <4>1. Before(up, NoPassword, Requests) /\ AtMostOne(up, Requests) /\ AtMostOne(up, Tests)
        BY <1>0 DEF OneLogin
      <4> QED BY <1>4, <2>3, <3>1, <3>2, <4>1
    <3> QED BY <1>0, <1>2, <2>1, <3>1, <3>2, <3>3, <3>4 DEF OneLogin
  <2> QED BY <2>2, <2>3
<1>10. Quiet'
  BY <1>0, <1>1, <1>2 DEF Quiet, TookFirst
<1> QED BY <1>0, <1>2, <1>5, <1>6, <1>8, <1>9, <1>10 DEF ForwardInv

\* handle_login_error, and messages without a meaning for the login
LEMMA OtherKeeps ==
  ASSUME ForwardInv, NEW x, ClientTook(x), x.kind # "LoginResponse", x.kind # "TestDelay",
         UNCHANGED <<logins, up, buffer>>,
         \/ x.kind = "LoginError" /\ dialog' = TRUE /\ UNCHANGED client
         \/ client' = "closed" /\ UNCHANGED dialog
         \/ UNCHANGED <<client, dialog>>
  PROVE  ForwardInv'
<1>0. /\ ForwardTypes /\ InOrder /\ SwitchGoesOn /\ OneLogin /\ Quiet
      /\ ~byHand => ~Has(portGot, Frames)
  BY DEF ForwardInv
<1>1. x \in Items /\ TookFirst(x)
  BY <1>0, TookOne
<1>2. /\ client = "login" /\ down # <<>> /\ client' \in {"login", "closed"} /\ dialog' \in BOOLEAN
      /\ UNCHANGED <<portOpen, logins, up, buffer, appSent, appGot>>
      /\ UNCHANGED <<server, socket, authorized, last_test_delay, cm, delays, talk,
                     portSent, portGot, byHand, talkedLate>>
  BY <1>0 DEF ClientTook, ForwardTypes
<1>3. ForwardTypes'
  <2>1. misread' \in BOOLEAN
    BY DEF ClientTook
  <2> QED BY <1>0, <1>1, <1>2, <2>1 DEF ForwardTypes, TookFirst, Phases
<1>4. InOrder'
  <2>1. PICK n \in Nat : UpStream(n)
    BY <1>0 DEF InOrder
  <2>2. UpStream(n)'
    BY <1>2, <2>1 DEF UpStream
  <2> QED BY <1>0, <1>1, <1>2, <2>2 DEF InOrder, TookFirst
<1>5. x.kind \notin Granted /\ x.kind \notin Tests
  BY Kinds
<1>6. SwitchGoesOn'
  <2>1. Before(down', Tests, Granted)
    BY <1>0, <1>1 DEF TookFirst, SwitchGoesOn
  <2>2. (Has(down', Granted) <=> Has(down, Granted)) /\ (Has(down', Tests) <=> Has(down, Tests))
    BY <1>1, <1>5 DEF TookFirst
  <2>3. server = "login" => ~Has(up, Pieces)
    BY <1>0, <1>2, UpEmpty
  <2>4. ~misread'
    BY <1>1 DEF TookFirst
  <2>5. server = "login" /\ last_test_delay =>
          \/ Has(up, Tests)
          \/ client' = "login" /\ Has(down', Tests)
          \/ client' = "closed" /\ ~Has(up, Pieces)
    BY <1>0, <1>2, <2>2, <2>3 DEF SwitchGoesOn
  <2> QED BY <1>0, <1>2, <2>1, <2>2, <2>4, <2>5 DEF SwitchGoesOn
<1>7. OneLogin'
  <2> SUFFICES ASSUME server # "closed", ~byHand PROVE OneLogin'
    BY <1>2 DEF OneLogin
  <2>1. /\ AtMostOne(down', Dialogs) /\ AtMostOne(down', Tests)
        /\ Has(down', Dialogs) => Has(down, Dialogs)
        /\ Has(down', Tests) <=> Has(down, Tests)
    BY <1>0, <1>1, <1>5 DEF OneLogin, TookFirst
  <2>2. dialog' => dialog \/ (Has(down, Dialogs) /\ ~Has(down', Dialogs))
    <3>1. dialog' /\ ~dialog => x.kind \in Dialogs
      BY <1>0, Kinds DEF ForwardTypes
    <3> QED BY <1>0, <1>1, <3>1 DEF OneLogin, TookFirst
  <2> QED BY <1>0, <1>2, <2>1, <2>2 DEF OneLogin
<1>8. Quiet'
  BY <1>0, <1>1, <1>2 DEF Quiet, TookFirst
<1> QED BY <1>0, <1>2, <1>3, <1>4, <1>6, <1>7, <1>8 DEF ForwardInv

\* The login is answered: raw from now on.
LEMMA GrantedKeeps ==
  ASSUME ForwardInv, NEW x, ClientTook(x), x.kind = "LoginResponse", client' = "raw",
         up' = Cat(up, buffer), buffer' = <<>>, UNCHANGED <<logins, dialog>>
  PROVE  ForwardInv'
<1>0. /\ ForwardTypes /\ InOrder /\ SwitchGoesOn /\ OneLogin /\ Quiet
      /\ ~byHand => ~Has(portGot, Frames)
  BY DEF ForwardInv
<1>1. x \in Items /\ TookFirst(x) /\ x.kind \in Granted
  BY <1>0, TookOne, Kinds
<1>2. /\ client = "login" /\ down # <<>>
      /\ UNCHANGED <<portOpen, logins, dialog, appSent, appGot>>
      /\ UNCHANGED <<server, socket, authorized, last_test_delay, cm, delays, talk,
                     portSent, portGot, byHand, talkedLate>>
  BY DEF ClientTook
<1>3. up \in Seq(Items) /\ buffer \in Seq(Items) /\ portGot \in Seq(Items)
      /\ ~Has(buffer, Frames) /\ Ordered(buffer, appSent)
  BY <1>0, <1>2 DEF ForwardTypes, InOrder
<1>4. /\ up' \in Seq(Items)
      /\ \A A \in SUBSET Frames : Has(up', A) <=> Has(up, A)
      /\ \A A, B \in SUBSET Frames : Before(up, A, B) => Before(up', A, B)
      /\ \A A \in SUBSET Frames : AtMostOne(up, A) => AtMostOne(up', A)
  BY <1>3, HasCat
<1>5. authorized /\ ~Has(down', Tests)
  BY <1>0, <1>1 DEF SwitchGoesOn, TookFirst
<1>6. ForwardTypes'
  <2>1. misread' \in BOOLEAN /\ buffer' \in Seq(Items)
    BY EmptySeq DEF ClientTook
  <2> QED BY <1>0, <1>1, <1>2, <1>4, <2>1 DEF ForwardTypes, TookFirst, Phases
<1>7. /\ Requests \in SUBSET Frames /\ NoPassword \in SUBSET Frames /\ Logins \in SUBSET Frames
      /\ Tests \in SUBSET Frames /\ Frames \in SUBSET Frames
      /\ Frames \ (Logins \cup Tests) \in SUBSET Frames
  BY DEF Requests, NoPassword, Logins, Tests, Frames
<1>8. InOrder'
  <2>1. PICK n \in Nat : UpStream(n)
    BY <1>0 DEF InOrder
  <2>2. Ordered(Cat(portGot, up), 0)
    BY <1>2, <2>1 DEF UpStream
  <2>3. PICK c \in Seq(Items), m \in Nat : c = Cat(portGot, up) /\ m = appSent
    BY <1>0, <1>3, CatType, PortForwardAssumption DEF ForwardTypes
  <2>4. Ordered(Cat(c, buffer), m)
    BY <1>3, <2>2, <2>3, OrderedBuffer
  <2>5. Cat(c, buffer) = Cat(portGot, Cat(up, buffer))
    BY <1>3, <2>3, CatAssociative
  <2>6. UpStream(m)'
    BY <1>2, <1>5, <2>3, <2>4, <2>5 DEF UpStream
  <2>7. ~Has(up', Frames \ (Logins \cup Tests))
    BY <1>0, <1>4, <1>7 DEF InOrder
  <2> QED BY <1>0, <1>1, <1>2, <1>5, <2>6, <2>7 DEF InOrder, TookFirst
<1>9. SwitchGoesOn'
  <2>1. Before(down', Tests, Granted)
    BY <1>0, <1>1 DEF TookFirst, SwitchGoesOn
  <2>2. server = "login" /\ last_test_delay => Has(up', Tests)
    <3>1. server = "login" /\ last_test_delay => Has(up, Tests) \/ Has(down, Tests)
      BY <1>0, <1>2 DEF SwitchGoesOn
    <3>2. ~Has(down, Tests)
      BY <1>1, <1>5, Kinds DEF TookFirst
    <3> QED BY <1>4, <1>7, <3>1, <3>2
  <2>3. ~misread'
    BY <1>1 DEF TookFirst
  <2> QED BY <1>0, <1>2, <1>5, <2>1, <2>2, <2>3 DEF SwitchGoesOn
<1>10. OneLogin'
  <2> SUFFICES ASSUME server # "closed", ~byHand PROVE OneLogin'
    BY <1>2 DEF OneLogin
  <2>1. /\ AtMostOne(down', Dialogs) /\ AtMostOne(down', Tests)
        /\ Has(down', Dialogs) => Has(down, Dialogs)
        /\ Has(down', Tests) => Has(down, Tests)
    BY <1>0, <1>1 DEF OneLogin, TookFirst
  <2>2. /\ AtMostOne(up', Requests) /\ AtMostOne(up', Tests) /\ Before(up', NoPassword, Requests)
        /\ Has(up', Requests) <=> Has(up, Requests)
        /\ Has(up', Tests) <=> Has(up, Tests)
        /\ Has(up', Logins) <=> Has(up, Logins)
        /\ Has(up', Frames) <=> Has(up, Frames)
    BY <1>0, <1>4, <1>7 DEF OneLogin
  <2> QED BY <1>0, <1>2, <2>1, <2>2 DEF OneLogin
<1>11. Quiet'
  <2> SUFFICES ASSUME ~talkedLate PROVE Quiet'
    BY <1>2 DEF Quiet
  <2>1. ~Has(down', Frames \ Granted) /\ ~Has(down', Granted)
        /\ Before(down', Frames \ Granted, Granted) /\ AtMostOne(down', Granted)
    BY <1>0, <1>1 DEF Quiet, TookFirst
  <2>2. ~Has(down', Frames)
    BY <2>1, HasParts
  <2> QED BY <1>0, <1>2, <2>1, <2>2 DEF Quiet
<1> QED BY <1>0, <1>2, <1>6, <1>8, <1>9, <1>10, <1>11 DEF ForwardInv

LEMMA ClientReceivesKeeps == ASSUME ForwardInv, ClientReceives PROVE ForwardInv'
<1> DEFINE x == Head(down)
<1>1. ClientTook(x)
  BY DEF ClientReceives, ClientTook, serverVars
<1> HIDE DEF x
<1>2. CASE x.kind = "Hash"
  <2>1. PICK k \in {"LoginRight", "LoginWrong", "LoginEmpty"} :
          /\ logins < MaxLogins /\ logins' = logins + 1 /\ up' = Append(up, Frame(k))
          /\ dialog' = (k = "LoginEmpty") /\ UNCHANGED <<client, buffer>>
    BY <1>2 DEF ClientReceives, LogIn, x
  <2>2. k \in Logins
    BY Kinds
  <2> QED BY <1>1, <1>2, <2>1, <2>2, ReplyKeeps
<1>3. CASE x.kind = "TestDelay"
  <2>1. up' = Append(up, Frame("TestDelay")) /\ UNCHANGED <<client, logins, dialog, buffer>>
        /\ "TestDelay" \in Tests
    BY <1>3, Kinds DEF ClientReceives, Reply, x
  <2> QED BY <1>1, <1>3, <2>1, ReplyKeeps
<1>4. CASE x.kind = "LoginError"
  <2>1. /\ \/ dialog' = TRUE /\ UNCHANGED client
           \/ client' = "closed" /\ UNCHANGED dialog
        /\ UNCHANGED <<logins, up, buffer>>
    BY <1>4 DEF ClientReceives, x
  <2> QED BY <1>1, <1>4, <2>1, OtherKeeps
<1>5. CASE x.kind = "LoginResponse"
  <2>1. client' = "raw" /\ up' = Cat(up, buffer) /\ buffer' = <<>> /\ UNCHANGED <<logins, dialog>>
    BY <1>5 DEF ClientReceives, Unsent, Cat, x
  <2> QED BY <1>1, <1>5, <2>1, GrantedKeeps
<1>6. CASE x.kind \notin {"Hash", "TestDelay", "LoginError", "LoginResponse"}
  <2>1. UNCHANGED <<client, logins, dialog, up, buffer>>
    BY <1>6 DEF ClientReceives, x
  <2> QED BY <1>1, <1>6, <2>1, OtherKeeps
<1> QED BY <1>2, <1>3, <1>4, <1>5, <1>6

LEMMA ForwardInitHolds == PortForwardInit => ForwardInv
<1> SUFFICES ASSUME PortForwardInit PROVE ForwardInv
  OBVIOUS
<1>1. PICK x \in Items : x = Frame("Hash") /\ x.kind = "Hash" /\ IsFrame(x)
  BY ItemKinds DEF Frames
<1>2. <<>> \in Seq(Items) /\ Len(<<>>) = 0 /\ 1 .. 0 = {} /\ 0 \in 0 .. 0 /\ 0 = 0 + 0
  BY EmptySeq
<1>3. \A A, B : ~Has(<<>>, A) /\ Before(<<>>, A, B) /\ AtMostOne(<<>>, A)
  BY <1>2 DEF Has, Before, AtMostOne
<1>4. Ordered(<<>>, 0)
  BY <1>2 DEF Ordered
<1>5. down = Append(<<>>, x)
  BY <1>1 DEF PortForwardInit
<1>6. /\ down \in Seq(Items)
      /\ \A A : Has(down, A) <=> "Hash" \in A
      /\ \A A, B : ("Hash" \in A => "Hash" \notin B) => Before(down, A, B)
      /\ \A A : AtMostOne(down, A)
  <2>1. PICK e \in Seq(Items) : e = <<>>
    BY <1>2
  <2>2. /\ Append(e, x) \in Seq(Items)
        /\ \A A : Has(Append(e, x), A) <=> Has(e, A) \/ x.kind \in A
        /\ \A A, B : Before(e, A, B) /\ (x.kind \in A => ~Has(e, B) /\ x.kind \notin B)
             => Before(Append(e, x), A, B)
        /\ \A A : AtMostOne(e, A) /\ (x.kind \in A => ~Has(e, A)) => AtMostOne(Append(e, x), A)
    BY HasAppend
  <2>3. down = Append(e, x)
    BY <1>5, <2>1
  <2>4. \A A, B : ~Has(e, A) /\ Before(e, A, B) /\ AtMostOne(e, A)
    BY <1>3, <2>1
  <2> QED BY <1>1, <2>2, <2>3, <2>4
<1>7. Ordered(down, 0)
  BY <1>1, <1>2, <1>4, <1>5, OrderedMessage
<1>8. ForwardTypes
  <2>1. 0 \in 0 .. MaxLogins /\ 0 \in 0 .. MaxData /\ 0 \in 0 .. MaxDelays /\ 0 \in 0 .. MaxTalk
    <3>1. MaxLogins \in Nat /\ MaxData \in Nat /\ MaxDelays \in Nat /\ MaxTalk \in Nat
      BY PortForwardAssumption
    <3> QED BY <3>1
  <2> QED BY <1>2, <1>6, <2>1 DEF PortForwardInit, ForwardTypes, Phases
<1>9. InOrder
  <2>1. Cat(appGot, down) = down /\ Cat(portGot, up) = <<>>
    BY <1>2, <1>6, CatEmpty DEF PortForwardInit
  <2>2. UpStream(0)
    BY <1>2, <1>4, <2>1 DEF PortForwardInit, UpStream
  <2> QED BY <1>3, <1>4, <1>7, <2>1, <2>2 DEF PortForwardInit, InOrder
<1>10. SwitchGoesOn
  BY <1>6, Kinds DEF PortForwardInit, SwitchGoesOn
<1>11. OneLogin
  BY <1>3, <1>6, Kinds DEF PortForwardInit, OneLogin
<1>12. Quiet
  BY <1>3, <1>6, Kinds DEF PortForwardInit, Quiet
<1> QED BY <1>3, <1>8, <1>9, <1>10, <1>11, <1>12 DEF PortForwardInit, ForwardInv

LEMMA ForwardStepKeeps == ASSUME ForwardInv, [PortForwardNext]_forwardVars PROVE ForwardInv'
<1>1. CASE ClientStep
  BY <1>1, ApplicationSendsKeeps, UserLogsInKeeps, ClientReceivesKeeps, ClientForwardsKeeps,
     ClosesKeeps DEF ClientStep
<1>2. CASE ServerStep
  BY <1>2, TestDelayTickKeeps, ServerReceivesKeeps, LoginFailsKeeps, AuthorizeKeeps, CmTalksKeeps,
     PortSendsKeeps, ServerForwardsKeeps, ClosesKeeps DEF ServerStep
<1>3. CASE UNCHANGED forwardVars
  <2>1. (\E n \in Nat : UpStream(n))'
    BY <1>3 DEF ForwardInv, InOrder, UpStream, forwardVars, clientVars, serverVars
  <2> QED BY <1>3, <2>1 DEF ForwardInv, ForwardTypes, InOrder, SwitchGoesOn, OneLogin, Quiet, forwardVars,
                          clientVars, serverVars
<1> QED BY <1>1, <1>2, <1>3 DEF PortForwardNext

LEMMA ForwardInvHolds == PortForwardSpec => []ForwardInv
BY ForwardInitHolds, ForwardStepKeeps, PTL DEF PortForwardSpec

\* The streams hold messages and the pieces the applications send, and the
\* controlling side's buffer is empty once it is raw.
THEOREM PortForwardTypes == PortForwardSpec => []PortForwardTypeOK
<1>1. ForwardInv => PortForwardTypeOK
  BY ForwardTypesAreTypes DEF ForwardInv
<1> QED BY <1>1, ForwardInvHolds, PTL

\* However many pieces the applications send, however often the login is tried
\* and wherever the switch to raw falls on either side: what the other end gets
\* begins with the first piece and misses none, no data is taken for a message,
\* and no message gets into the data unless the user let the connection in by
\* hand or the connection manager talked to a peer that was logged in.
THEOREM DataAlwaysPassesThrough == PortForwardSpec => []DataPassesThrough
<1>1. ForwardInv => DataPassesThrough
  <2> SUFFICES ASSUME ForwardInv PROVE DataPassesThrough
    OBVIOUS
  <2>1. ForwardTypes /\ InOrder /\ ~misread
    BY DEF ForwardInv, SwitchGoesOn
  <2>2. FromTheStart(portGot, appSent)
    <3>1. PICK n \in Nat : UpStream(n)
      BY <2>1 DEF InOrder
    <3> QED BY <2>1, <3>1, PortForwardAssumption, OrderedGot DEF ForwardTypes, UpStream
  <2>3. FromTheStart(appGot, portSent)
    BY <2>1, PortForwardAssumption, OrderedGot DEF ForwardTypes, InOrder
  <2>4. \A s \in Seq(Items) : ~Has(s, Frames) => \A i \in DOMAIN s : ~IsFrame(s[i])
    <3> SUFFICES ASSUME NEW s \in Seq(Items), NEW i \in 1 .. Len(s), ~Has(s, Frames)
                 PROVE  ~IsFrame(s[i])
      BY LenProperties
    <3>1. s[i] \in Items /\ s[i].kind \notin Frames
      BY ElementOfSeq DEF Has
    <3> QED BY <3>1, ItemKinds
  <2>5. ~byHand => NoReplyInjected
    BY <2>1, <2>4 DEF ForwardInv, ForwardTypes, NoReplyInjected
  <2>6. ~talkedLate => \A i \in DOMAIN appGot : ~IsFrame(appGot[i])
    BY <2>1, <2>4 DEF ForwardInv, ForwardTypes, Quiet
  <2> QED BY <2>1, <2>2, <2>3, <2>5, <2>6 DEF DataPassesThrough
<1> QED BY <1>1, ForwardInvHolds, PTL
=============================================================================
