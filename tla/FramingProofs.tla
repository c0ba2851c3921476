---------------------------- MODULE FramingProofs ----------------------------
(***************************************************************************)
(* Proofs about Framing, for every limit, every stream of bytes and every  *)
(* chunking of it, whatever payloads decode to.                            *)
(***************************************************************************)
EXTENDS Framing, Integers, SequenceTheorems, TLAPS

Cuts   == INSTANCE LeftFold WITH Op <- Cut
Figure == INSTANCE LeftFold WITH Op <- AddDigit

-------------------------------------------------------------------------------
(* Parts of sequences.                                                     *)

LEMMA PartOf ==
  ASSUME NEW S, NEW s \in Seq(S), NEW m \in Nat, m >= 1,
         NEW n \in Nat, n <= Len(s), m <= n + 1
  PROVE  /\ SubSeq(s, m, n) \in Seq(S)
         /\ Len(SubSeq(s, m, n)) = n - m + 1
         /\ \A i \in 1 .. n - m + 1 : SubSeq(s, m, n)[i] = s[m + i - 1]
<1>1. \A i \in m .. n : s[i] \in S
  OBVIOUS
<1> QED
  BY <1>1, SubSeqProperties

-------------------------------------------------------------------------------
(* Numbers: a number with more digits is greater.                          *)

LEMMA FrontOf ==
  ASSUME NEW s \in Seq(Byte), s # << >>
  PROVE  /\ Front(s) \in Seq(Byte) /\ Len(Front(s)) = Len(s) - 1
         /\ Len(s) \in Nat /\ Len(s) >= 1
         /\ \A i \in 1 .. Len(s) - 1 : Front(s)[i] = s[i]
<1>1. Len(s) \in Nat /\ Len(s) >= 1
  OBVIOUS
<1> PICK k : k = Len(s) - 1
  OBVIOUS
<1>2. k \in Nat /\ k <= Len(s) /\ 1 <= k + 1 /\ k - 1 + 1 = k
  BY <1>1
<1>3. /\ SubSeq(s, 1, k) \in Seq(Byte) /\ Len(SubSeq(s, 1, k)) = k - 1 + 1
      /\ \A i \in 1 .. k - 1 + 1 : SubSeq(s, 1, k)[i] = s[1 + i - 1]
  BY <1>2, PartOf
<1>4. \A i \in 1 .. k : 1 + i - 1 = i
  BY <1>2
<1>5. \A i \in 1 .. k : SubSeq(s, 1, k)[i] = s[i]
  BY <1>2, <1>3, <1>4
<1> QED
  BY <1>1, <1>2, <1>3, <1>5 DEF Front

LEMMA NumberIsFold ==
  ASSUME NEW s  PROVE Number(s) = Figure!Folded(0, s)
BY DEF Number, Figure!Folded, Figure!FoldLeft, FoldLeft, MapThenFoldSet,
       Figure!MapThenFoldSet, Max, Figure!Max

LEMMA NumberOfMore ==
  ASSUME NEW s \in Seq(Byte), s # << >>
  PROVE  Number(s) = Number(Front(s)) * 10 + (s[Len(s)] - 48)
<1> PICK f : f = Front(s)
  OBVIOUS
<1> PICK n : n = Len(s) - 1
  OBVIOUS
<1>1. /\ n \in Nat /\ n + 1 = Len(s) /\ DOMAIN f = 1 .. n /\ DOMAIN s = 1 .. n + 1
      /\ \A i \in 1 .. n : s[i] = f[i]
  BY FrontOf
<1>2. Number(s) = AddDigit(Number(f), s[n + 1])
  BY ONLY <1>1, NumberIsFold, Figure!FoldedMore
<1> QED
  BY <1>1, <1>2 DEF AddDigit, Zero

LEMMA NumberOfNone == Number(<< >>) = 0
BY NumberIsFold, Figure!FoldedEmpty

LEMMA NumberIsNat ==
  ASSUME NEW s \in Seq(Byte), AllDigits(s)
  PROVE  Number(s) \in Nat
<1> DEFINE T == {n \in Nat : \A t \in Seq(Byte) :
                               Len(t) = n /\ AllDigits(t) => Number(t) \in Nat}
<1>1. 0 \in T
  <2> SUFFICES ASSUME NEW t \in Seq(Byte), Len(t) = 0  PROVE Number(t) \in Nat
    OBVIOUS
  <2>1. t = << >>
    OBVIOUS
  <2> QED
    BY <2>1, NumberOfNone
<1>2. ASSUME NEW n \in Nat, n \in T  PROVE n + 1 \in T
  <2> SUFFICES ASSUME NEW t \in Seq(Byte), Len(t) = n + 1, AllDigits(t)
               PROVE  Number(t) \in Nat
    OBVIOUS
  <2>1. t # << >> /\ DOMAIN t = 1 .. n + 1
    OBVIOUS
  <2>2. /\ Front(t) \in Seq(Byte) /\ Len(Front(t)) = n
        /\ \A i \in 1 .. n : Front(t)[i] = t[i]
    <3>1. Len(t) - 1 = n
      OBVIOUS
    <3> QED
      BY <2>1, <3>1, FrontOf
  <2>3. DOMAIN Front(t) = 1 .. n
    BY <2>2
  <2>4. AllDigits(Front(t)) /\ IsDigit(t[n + 1])
    BY <2>1, <2>2, <2>3 DEF AllDigits
  <2>5. Number(Front(t)) \in Nat
    BY <1>2, <2>2, <2>4
  <2>6. t[n + 1] \in Byte
    BY <2>1
  <2>7. t[n + 1] - 48 \in Nat
    <3> PICK x : x = t[n + 1]
      OBVIOUS
    <3>1. x \in 0 .. 255 /\ 48 <= x
      BY <2>4, <2>6 DEF IsDigit, Byte
    <3> QED
      BY <3>1
  <2> QED
    BY <2>1, <2>5, <2>7, NumberOfMore
<1> HIDE DEF T
<1>3. Len(s) \in T
  BY <1>1, <1>2, Figure!Inductive
<1> QED
  BY <1>3 DEF T

\* What Decimal is defined to be.
Written(f, n) ==
  IF n < 10 THEN << 48 + n >> ELSE Append(f[n \div 10], 48 + (n % 10))

LEMMA DecimalDef ==
  Decimal = CHOOSE f : f = [n \in Nat |-> Written(f, n)]
BY DEF Decimal, Written, Zero

LEMMA TenthOf ==
  ASSUME NEW n \in Nat, n >= 10
  PROVE  /\ n \div 10 \in Nat /\ n \div 10 < n
         /\ n < 10 * (n \div 10) + 10
OBVIOUS

\* A function that is so defined of the numbers up to k.
Good(g, k) == \A n \in Nat : n <= k => g[n] = Written(g, n)

LEMMA GoodAgree ==
  ASSUME NEW g, NEW h, NEW k \in Nat, Good(g, k), Good(h, k)
  PROVE  g[k] = h[k]
<1> DEFINE T == {n \in Nat : \A m \in Nat : m <= n /\ m <= k => g[m] = h[m]}
<1>1. 0 \in T
  <2>1. g[0] = Written(g, 0) /\ h[0] = Written(h, 0)
    BY DEF Good
  <2>2. g[0] = h[0]
    BY <2>1 DEF Written
  <2> QED
    BY <2>2
<1>2. ASSUME NEW n \in Nat, n \in T  PROVE n + 1 \in T
  <2> SUFFICES ASSUME n + 1 <= k  PROVE g[n + 1] = h[n + 1]
    BY <1>2
  <2>1. g[n + 1] = Written(g, n + 1) /\ h[n + 1] = Written(h, n + 1)
    BY DEF Good
  <2>2. CASE n + 1 < 10
    BY <2>1, <2>2 DEF Written
  <2>3. CASE n + 1 >= 10
    <3> PICK d : d = (n + 1) \div 10
      OBVIOUS
    <3>1. d \in Nat /\ d <= n
      BY <2>3, TenthOf
    <3>2. g[d] = h[d]
      BY <1>2, <3>1
    <3> QED
      BY <2>1, <2>3, <3>2 DEF Written
  <2> QED
    BY <2>2, <2>3
<1> HIDE DEF T
<1>3. k \in T
  BY <1>1, <1>2, Figure!Inductive
<1> QED
  BY <1>3 DEF T

LEMMA GoodExists ==
  ASSUME NEW k \in Nat  PROVE \E g : Good(g, k)
<1> DEFINE T == {n \in Nat : \E g : Good(g, n)}
<1>1. 0 \in T
  <2>1. Good([n \in Nat |-> << 48 + n >>], 0)
    BY DEF Good, Written
  <2> QED
    BY <2>1
<1>2. ASSUME NEW n \in Nat, n \in T  PROVE n + 1 \in T
  <2>1. PICK g : Good(g, n)
    BY <1>2
  <2> DEFINE h == [m \in Nat |-> IF m <= n THEN g[m] ELSE Written(g, m)]
  <2>2. \A m \in Nat : m <= n => h[m] = g[m]
    OBVIOUS
  <2>3. \A m \in Nat : m <= n + 1 => h[m] = Written(g, m)
    BY <2>1 DEF Good
  <2> HIDE DEF h
  <2>4. ASSUME NEW m \in Nat, m <= n + 1  PROVE Written(g, m) = Written(h, m)
    <3>1. CASE m < 10
      BY <3>1 DEF Written
    <3>2. CASE m >= 10
      <4> PICK d : d = m \div 10
        OBVIOUS
      <4>1. d \in Nat /\ d < m
        BY <3>2, TenthOf
      <4>2. g[d] = h[d]
        BY <2>2, <2>4, <4>1
      <4> QED
        BY <3>2, <4>2 DEF Written
    <3> QED
      BY <3>1, <3>2
  <2>5. Good(h, n + 1)
    BY <2>3, <2>4 DEF Good
  <2> QED
    BY <2>5
<1> HIDE DEF T
<1>3. k \in T
  BY <1>1, <1>2, Figure!Inductive
<1> QED
  BY <1>3 DEF T

LEMMA DecimalOf == ASSUME NEW n \in Nat  PROVE Decimal[n] = Written(Decimal, n)
<1> DEFINE G(m) == CHOOSE g : Good(g, m)
           h == [m \in Nat |-> G(m)[m]]
<1>1. ASSUME NEW m \in Nat  PROVE Good(G(m), m)
  BY GoodExists
<1> HIDE DEF G
<1>2. ASSUME NEW m \in Nat  PROVE h[m] = Written(h, m)
  <2>1. G(m)[m] = Written(G(m), m)
    BY <1>1 DEF Good
  <2>2. CASE m < 10
    BY <2>1, <2>2 DEF Written
  <2>3. CASE m >= 10
    <3> PICK d : d = m \div 10
      OBVIOUS
    <3>1. d \in Nat /\ d < m
      BY <2>3, TenthOf
    <3>2. Good(G(m), d) /\ Good(G(d), d)
      BY <1>1, <3>1 DEF Good
    <3>3. G(m)[d] = G(d)[d]
      BY <3>1, <3>2, GoodAgree
    <3>4. h[d] = G(m)[d]
      BY <3>1, <3>3
    <3> QED
      BY <2>1, <2>3, <3>4 DEF Written
  <2> QED
    BY <2>2, <2>3
<1>3. h = [m \in Nat |-> h[m]]
  OBVIOUS
<1> HIDE DEF h
<1>4. h = [m \in Nat |-> Written(h, m)]
  BY <1>2, <1>3
<1>5. Decimal = [m \in Nat |-> Written(Decimal, m)]
  BY <1>4, DecimalDef
<1> QED
  BY <1>5

\* Without a leading zero, a digit more is a greater number.
LongerIsGreater(n) ==
  /\ Len(Decimal[n]) \in Nat /\ Len(Decimal[n]) >= 1
  /\ Decimal[n] \in Seq(Nat)
  /\ \A s \in Seq(Byte) :
       /\ AllDigits(s) /\ s[1] # 48 /\ Len(s) > Len(Decimal[n])
       => Number(s) > n

LEMMA AppendDigit ==
  ASSUME NEW s \in Seq(Byte), AllDigits(s), Len(s) >= 2, s[1] # 48
  PROVE  /\ Front(s) \in Seq(Byte) /\ AllDigits(Front(s)) /\ Front(s)[1] # 48
         /\ Len(Front(s)) = Len(s) - 1
         /\ Number(Front(s)) \in Nat
         /\ Number(s) >= 10 * Number(Front(s))
<1>1. /\ s # << >> /\ Len(s) \in Nat /\ DOMAIN s = 1 .. Len(s)
  OBVIOUS
<1>2. /\ Front(s) \in Seq(Byte) /\ Len(Front(s)) = Len(s) - 1
      /\ \A i \in 1 .. Len(s) - 1 : Front(s)[i] = s[i]
  BY <1>1, FrontOf
<1>3. DOMAIN Front(s) = 1 .. Len(s) - 1
  BY <1>2
<1>4. AllDigits(Front(s)) /\ Front(s)[1] # 48
  BY <1>1, <1>2, <1>3 DEF AllDigits
<1>5. Number(Front(s)) \in Nat
  BY <1>2, <1>4, NumberIsNat
<1> PICK x : x = s[Len(s)]
  OBVIOUS
<1>6. x \in 0 .. 255 /\ x >= 48
  BY <1>1 DEF AllDigits, IsDigit, Byte
<1>7. Number(s) = Number(Front(s)) * 10 + (x - 48)
  BY <1>1, NumberOfMore
<1>8. Number(s) >= 10 * Number(Front(s))
  BY <1>5, <1>6, <1>7
<1> QED
  BY <1>2, <1>4, <1>5, <1>8

LEMMA DigitOf ==
  ASSUME NEW s \in Seq(Byte), AllDigits(s), NEW i \in 1 .. Len(s)
  PROVE  s[i] \in 48 .. 57
<1>1. DOMAIN s = 1 .. Len(s) /\ s[i] \in Byte
  OBVIOUS
<1>2. 48 <= s[i] /\ s[i] <= 57
  BY <1>1 DEF AllDigits, IsDigit
<1> PICK x : x = s[i]
  OBVIOUS
<1>3. x \in 0 .. 255 /\ 48 <= x /\ x <= 57
  BY <1>1, <1>2 DEF Byte
<1>4. x \in 48 .. 57
  BY ONLY <1>3
<1> QED
  BY <1>4

LEMMA NotEmpty ==
  ASSUME NEW S, NEW s \in Seq(S), Len(s) # 0
  PROVE  s # << >> /\ DOMAIN s = 1 .. Len(s) /\ Len(s) \in Nat /\ Len(s) >= 1
OBVIOUS

LEMMA NumberPositive ==
  ASSUME NEW s \in Seq(Byte), AllDigits(s), Len(s) >= 1, s[1] # 48
  PROVE  Number(s) \in Nat /\ Number(s) >= 1
<1> DEFINE T == {n \in Nat : \A t \in Seq(Byte) :
                  Len(t) = n + 1 /\ AllDigits(t) /\ t[1] # 48 => Number(t) >= 1}
<1>1. 0 \in T
  <2> SUFFICES ASSUME NEW t \in Seq(Byte), Len(t) = 1, AllDigits(t), t[1] # 48
               PROVE  Number(t) >= 1
    OBVIOUS
  <2>1. t # << >> /\ Front(t) = << >> /\ DOMAIN t = 1 .. 1
    <3>1. t # << >> /\ Len(t) - 1 = 0
      <4>1. Len(t) # 0 /\ Len(t) - 1 = 0
        OBVIOUS
      <4> QED
        BY <4>1, NotEmpty
    <3>2. Front(t) \in Seq(Byte) /\ Len(Front(t)) = 0
      BY <3>1, FrontOf
    <3> QED
      BY <3>1, <3>2, NotEmpty
  <2> PICK x : x = t[1]
    OBVIOUS
  <2>2. x \in 48 .. 57 /\ x # 48
    <3>1. 1 \in 1 .. Len(t)
      OBVIOUS
    <3> QED
      BY <3>1, DigitOf
  <2>3. Number(t) = 0 * 10 + (x - 48)
    BY <2>1, NumberOfMore, NumberOfNone
  <2> QED
    BY <2>2, <2>3
<1>2. ASSUME NEW n \in Nat, n \in T  PROVE n + 1 \in T
  <2> SUFFICES ASSUME NEW t \in Seq(Byte), Len(t) = n + 2, AllDigits(t), t[1] # 48
               PROVE  Number(t) >= 1
    OBVIOUS
  <2>1. Len(t) >= 2 /\ Len(t) - 1 = n + 1
    OBVIOUS
  <2>2. /\ Front(t) \in Seq(Byte) /\ AllDigits(Front(t)) /\ Front(t)[1] # 48
        /\ Len(Front(t)) = n + 1
    BY <2>1, AppendDigit
  <2>3. Number(Front(t)) >= 1 /\ Number(Front(t)) \in Nat
    BY <1>2, <2>2, NumberIsNat
  <2>4. Number(t) >= 10 * Number(Front(t)) /\ Number(t) \in Nat
    BY <2>1, AppendDigit, NumberIsNat
  <2> QED
    BY <2>3, <2>4
<1> HIDE DEF T
<1>3. Len(s) - 1 \in Nat
  OBVIOUS
<1>4. Len(s) - 1 \in T
  BY <1>1, <1>2, <1>3, Figure!Inductive
<1>5. Len(s) = (Len(s) - 1) + 1
  OBVIOUS
<1>6. Number(s) >= 1
  BY <1>4, <1>5 DEF T
<1> QED
  BY <1>6, NumberIsNat

LEMMA MoreDigits == ASSUME NEW n \in Nat  PROVE LongerIsGreater(n)
<1> DEFINE T == {k \in Nat : \A m \in Nat : m <= k => LongerIsGreater(m)}
<1>1. ASSUME NEW m \in Nat, m < 10  PROVE LongerIsGreater(m)
  <2>1. Decimal[m] = << 48 + m >>
    BY <1>1, DecimalOf DEF Written
  <2>2. Len(Decimal[m]) = 1 /\ Decimal[m] \in Seq(Nat)
    BY <2>1
  <2>3. ASSUME NEW s \in Seq(Byte), AllDigits(s), s[1] # 48, Len(s) > 1
        PROVE  Number(s) > m
    <3>1. /\ Front(s) \in Seq(Byte) /\ AllDigits(Front(s)) /\ Front(s)[1] # 48
          /\ Len(Front(s)) >= 1
      <4>1. Len(s) >= 2 /\ Len(s) - 1 >= 1
        BY <2>3
      <4> QED
        BY <2>3, <4>1, AppendDigit
    <3>2. Number(Front(s)) \in Nat /\ Number(Front(s)) >= 1
      BY <3>1, NumberPositive
    <3>3. Number(s) >= 10 * Number(Front(s)) /\ Number(s) \in Nat
      <4>1. Len(s) >= 2
        BY <2>3
      <4> QED
        BY <2>3, <4>1, AppendDigit, NumberIsNat
    <3> QED
      BY <1>1, <3>2, <3>3
  <2> QED
    BY <2>2, <2>3 DEF LongerIsGreater
<1>2. ASSUME NEW m \in Nat, m >= 10, LongerIsGreater(m \div 10)
      PROVE  LongerIsGreater(m)
  <2> PICK d : d = m \div 10
    OBVIOUS
  <2>1. d \in Nat /\ m < 10 * d + 10 /\ LongerIsGreater(d)
    BY <1>2, TenthOf
  <2>2. m % 10 \in Nat
    OBVIOUS
  <2>3. Decimal[m] = Append(Decimal[d], 48 + (m % 10))
    <3>1. Decimal[m] = Written(Decimal, m) /\ ~(m < 10)
      BY <1>2, DecimalOf
    <3> QED
      BY <3>1 DEF Written
  <2>4. Decimal[m] \in Seq(Nat) /\ Len(Decimal[m]) = Len(Decimal[d]) + 1
    BY <2>1, <2>2, <2>3 DEF LongerIsGreater
  <2>5. ASSUME NEW s \in Seq(Byte), AllDigits(s), s[1] # 48,
               Len(s) > Len(Decimal[m])
        PROVE  Number(s) > m
    <3>1. Len(s) >= 2
      BY <2>1, <2>4, <2>5 DEF LongerIsGreater
    <3>2. /\ Front(s) \in Seq(Byte) /\ AllDigits(Front(s)) /\ Front(s)[1] # 48
          /\ Len(Front(s)) = Len(s) - 1
          /\ Number(Front(s)) \in Nat
          /\ Number(s) >= 10 * Number(Front(s))
      BY <2>5, <3>1, AppendDigit
    <3>3. Number(Front(s)) > d
      BY <2>1, <2>4, <2>5, <3>2 DEF LongerIsGreater
    <3>4. Number(s) \in Nat
      BY <2>5, NumberIsNat
    <3> QED
      BY <2>1, <3>2, <3>3, <3>4
  <2> QED
    BY <2>1, <2>4, <2>5 DEF LongerIsGreater
<1>3. 0 \in T
  BY <1>1
<1>4. ASSUME NEW k \in Nat, k \in T  PROVE k + 1 \in T
  <2>1. CASE k + 1 < 10
    BY <1>1, <1>4, <2>1
  <2>2. CASE k + 1 >= 10
    <3> PICK d : d = (k + 1) \div 10
      OBVIOUS
    <3>1. d \in Nat /\ d <= k
      BY <2>2, TenthOf
    <3>2. LongerIsGreater(d)
      BY <1>4, <3>1
    <3>3. LongerIsGreater(k + 1)
      BY <1>2, <2>2, <3>2
    <3> QED
      BY <1>4, <3>3
  <2> QED
    BY <2>1, <2>2
<1> HIDE DEF T
<1>5. n \in T
  BY <1>3, <1>4, Figure!Inductive
<1> QED
  BY <1>5 DEF T

-------------------------------------------------------------------------------
(* What is taken off a buffer, and off a buffer of which more has arrived. *)

LEMMA PartOfMore ==
  ASSUME NEW S, NEW b \in Seq(S), NEW c \in Seq(S), NEW m \in Nat, m >= 1,
         NEW n \in Nat, n <= Len(b), m <= n + 1
  PROVE  SubSeq(b \o c, m, n) = SubSeq(b, m, n)
<1> DEFINE d == b \o c
<1>1. /\ d \in Seq(S) /\ Len(d) = Len(b) + Len(c) /\ Len(b) \in Nat /\ Len(c) \in Nat
      /\ \A i \in 1 .. Len(b) : d[i] = b[i]
  BY ConcatProperties
<1> HIDE DEF d
<1>2. n <= Len(d)
  BY <1>1
<1>3. /\ SubSeq(b, m, n) \in Seq(S) /\ Len(SubSeq(b, m, n)) = n - m + 1
      /\ \A i \in 1 .. n - m + 1 : SubSeq(b, m, n)[i] = b[m + i - 1]
  BY PartOf
<1>4. /\ SubSeq(d, m, n) \in Seq(S) /\ Len(SubSeq(d, m, n)) = n - m + 1
      /\ \A i \in 1 .. n - m + 1 : SubSeq(d, m, n)[i] = d[m + i - 1]
  BY <1>1, <1>2, PartOf
<1>5. \A i \in 1 .. n - m + 1 : m + i - 1 \in 1 .. Len(b)
  BY <1>1
<1>6. \A i \in 1 .. n - m + 1 : SubSeq(d, m, n)[i] = SubSeq(b, m, n)[i]
  BY <1>1, <1>3, <1>4, <1>5
<1>7. SubSeq(d, m, n) = SubSeq(b, m, n)
  BY <1>3, <1>4, <1>6, SeqEqual
<1> QED
  BY <1>7 DEF d

LEMMA RestOfMore ==
  ASSUME NEW S, NEW b \in Seq(S), NEW c \in Seq(S), NEW m \in Nat, m >= 1,
         m <= Len(b) + 1
  PROVE  SubSeq(b \o c, m, Len(b \o c)) = SubSeq(b, m, Len(b)) \o c
<1> DEFINE d == b \o c
           r == SubSeq(b, m, Len(b))
           e == SubSeq(d, m, Len(d))
<1>1. /\ d \in Seq(S) /\ Len(d) = Len(b) + Len(c) /\ Len(b) \in Nat /\ Len(c) \in Nat
      /\ \A i \in 1 .. Len(b) + Len(c) :
           d[i] = IF i <= Len(b) THEN b[i] ELSE c[i - Len(b)]
  BY ConcatProperties
<1> HIDE DEF d
<1>2. /\ r \in Seq(S) /\ Len(r) = Len(b) - m + 1
      /\ \A i \in 1 .. Len(b) - m + 1 : r[i] = b[m + i - 1]
  BY <1>1, PartOf
<1>3. /\ e \in Seq(S) /\ Len(e) = Len(d) - m + 1
      /\ \A i \in 1 .. Len(d) - m + 1 : e[i] = d[m + i - 1]
  BY <1>1, PartOf
<1> HIDE DEF r, e
<1>4. /\ r \o c \in Seq(S) /\ Len(r \o c) = Len(r) + Len(c)
      /\ \A i \in 1 .. Len(r) + Len(c) :
           (r \o c)[i] = IF i <= Len(r) THEN r[i] ELSE c[i - Len(r)]
  BY <1>2, ConcatProperties
<1>5. Len(e) = Len(r \o c)
  BY <1>1, <1>2, <1>3, <1>4
<1>6. ASSUME NEW i \in 1 .. Len(e)  PROVE e[i] = (r \o c)[i]
  <2>1. e[i] = d[m + i - 1] /\ m + i - 1 \in 1 .. Len(b) + Len(c)
        /\ i \in 1 .. Len(r) + Len(c)
    BY <1>1, <1>2, <1>3
  <2>2. CASE i <= Len(r)
    <3>1. i \in 1 .. Len(b) - m + 1 /\ m + i - 1 <= Len(b)
      BY <1>1, <1>2, <2>2
    <3>2. (r \o c)[i] = r[i]
      BY <1>4, <2>1, <2>2
    <3>3. d[m + i - 1] = b[m + i - 1]
      BY <1>1, <2>1, <3>1
    <3> QED
      BY <1>2, <2>1, <3>1, <3>2, <3>3
  <2>3. CASE i > Len(r)
    <3>1. (m + i - 1) - Len(b) = i - Len(r) /\ ~(m + i - 1 <= Len(b)) /\ ~(i <= Len(r))
      BY <1>1, <1>2, <2>3
    <3> QED
      BY <1>1, <1>4, <2>1, <3>1
  <2>4. i \in Nat /\ Len(r) \in Nat
    BY <1>2, <1>3
  <2>5. i <= Len(r) \/ i > Len(r)
    BY <2>4
  <2> QED
    BY <2>2, <2>3, <2>5
<1>7. e = r \o c
  BY <1>3, <1>4, <1>5, <1>6, SeqEqual
<1> QED
  BY <1>7 DEF d, e, r

\* The first colon of a buffer.
ColonAt(b, k) ==
  k \in 1 .. Len(b) /\ b[k] = Colon /\ \A j \in 1 .. k - 1 : b[j] # Colon

NoColon(b) == \A j \in 1 .. Len(b) : b[j] # Colon

LEMMA ColonOrNot ==
  ASSUME NEW b \in Seq(Byte)
  PROVE  NoColon(b) \/ \E k : ColonAt(b, k)
<1> SUFFICES ASSUME ~NoColon(b)  PROVE \E k : ColonAt(b, k)
  OBVIOUS
<1> DEFINE T == {i \in 1 .. Len(b) : b[i] = Colon}
<1>1. T \in SUBSET Nat /\ T # {}
  BY DEF NoColon
<1>2. PICK k \in T : \A j \in T : k <= j
  BY <1>1, Figure!SmallestOf
<1>3. ColonAt(b, k)
  BY <1>2 DEF ColonAt
<1> QED
  BY <1>3

LEMMA TakeAtColon ==
  ASSUME NEW b \in Seq(Byte), NEW k, ColonAt(b, k)
  PROVE  /\ b # << >>
         /\ Take(b) = IF ~IsDigit(b[1]) THEN Fail("frame-length") ELSE TakeBody(b, k)
<1> DEFINE colons == {i \in DOMAIN b : b[i] = Colon}
<1>1. k \in colons /\ \A j \in colons : k <= j
  BY DEF ColonAt
<1>2. Min(colons) = k
  <2>1. \A x \in colons : x \in Int
    OBVIOUS
  <2>2. \A x \in colons : (\A j \in colons : x <= j) => x = k
    BY <1>1, <2>1
  <2> HIDE DEF colons
  <2> QED
    BY <1>1, <2>2 DEF Min
<1>3. b # << >> /\ colons # {}
  BY <1>1 DEF ColonAt
<1>4. Take(b) = IF b = << >> THEN Wait(b)
                ELSE IF ~IsDigit(b[1]) THEN Fail("frame-length")
                ELSE IF colons = {} THEN TakeHeader(b)
                ELSE TakeBody(b, Min(colons))
  BY DEF Take
<1> HIDE DEF colons
<1> QED
  BY <1>2, <1>3, <1>4

LEMMA TakeWithoutColon ==
  ASSUME NEW b \in Seq(Byte), b # << >>, NoColon(b)
  PROVE  Take(b) = IF ~IsDigit(b[1]) THEN Fail("frame-length") ELSE TakeHeader(b)
<1>1. {i \in DOMAIN b : b[i] = Colon} = {}
  BY DEF NoColon
<1> QED
  BY <1>1 DEF Take

\* The parts of a buffer with a colon.
Header(b, k)    == SubSeq(b, 1, k - 1)
CommaOf(b, k)   == k + Number(Header(b, k)) + 1
PayloadOf(b, k) == SubSeq(b, k + 1, CommaOf(b, k) - 1)
RestOf(b, k)    == SubSeq(b, CommaOf(b, k) + 1, Len(b))

LEMMA HeaderOf ==
  ASSUME NEW b \in Seq(Byte), NEW k, ColonAt(b, k)
  PROVE  /\ k \in Nat /\ k >= 1 /\ k <= Len(b)
         /\ Header(b, k) \in Seq(Byte) /\ Len(Header(b, k)) = k - 1
         /\ \A i \in 1 .. k - 1 : Header(b, k)[i] = b[i]
         /\ AllDigits(Header(b, k)) => CommaOf(b, k) \in Nat /\ CommaOf(b, k) > k
<1>1. k \in Nat /\ k >= 1 /\ k <= Len(b) /\ Len(b) \in Nat
  BY DEF ColonAt
<1> PICK n : n = k - 1
  OBVIOUS
<1>2. n \in Nat /\ n <= Len(b) /\ 1 <= n + 1 /\ n - 1 + 1 = n
  BY <1>1
<1>3. /\ SubSeq(b, 1, n) \in Seq(Byte) /\ Len(SubSeq(b, 1, n)) = n - 1 + 1
      /\ \A i \in 1 .. n - 1 + 1 : SubSeq(b, 1, n)[i] = b[1 + i - 1]
  BY <1>2, PartOf
<1>4. \A i \in 1 .. n : 1 + i - 1 = i
  BY <1>2
<1>5. \A i \in 1 .. n : SubSeq(b, 1, n)[i] = b[i]
  BY <1>2, <1>3, <1>4
<1>6. AllDigits(SubSeq(b, 1, n)) => Number(SubSeq(b, 1, n)) \in Nat
  BY <1>3, NumberIsNat
<1> QED
  BY <1>1, <1>2, <1>3, <1>5, <1>6 DEF Header, CommaOf

LEMMA BodyOf ==
  ASSUME NEW b \in Seq(Byte), NEW k, ColonAt(b, k), AllDigits(Header(b, k)),
         CommaOf(b, k) <= Len(b)
  PROVE  /\ PayloadOf(b, k) \in Seq(Byte)
         /\ RestOf(b, k) \in Seq(Byte) /\ Len(RestOf(b, k)) < Len(b)
<1> PICK x : x = CommaOf(b, k)
  OBVIOUS
<1>1. x \in Nat /\ x > k /\ k \in Nat /\ x <= Len(b) /\ Len(b) \in Nat
  BY HeaderOf
<1> PICK p : p = x - 1
  OBVIOUS
<1>2. p \in Nat /\ k + 1 \in Nat /\ k + 1 >= 1 /\ p <= Len(b) /\ k + 1 <= p + 1
      /\ x + 1 \in Nat /\ x + 1 >= 1 /\ x + 1 <= Len(b) + 1
  BY <1>1
<1>3. SubSeq(b, k + 1, p) \in Seq(Byte)
  BY <1>2, PartOf
<1>4. /\ SubSeq(b, x + 1, Len(b)) \in Seq(Byte)
      /\ Len(SubSeq(b, x + 1, Len(b))) = Len(b) - (x + 1) + 1
  BY <1>1, <1>2, PartOf, SMTT(40)
<1> QED
  BY <1>1, <1>3, <1>4, SMTT(40) DEF PayloadOf, RestOf

TakeOutcome(b, taken) ==
  \/ taken.status = "wait" /\ taken.code = "ok" /\ taken.buffer = b
  \/ taken.status = "error" /\ taken.buffer = << >>
  \/ /\ taken.status = "value" /\ taken.code = "ok" /\ taken.buffer \in Seq(Byte)
     /\ Len(taken.buffer) < Len(b) /\ taken.payload \in Seq(Byte)

LEMMA TakeOutcomes ==
  ASSUME NEW b \in Seq(Byte)  PROVE TakeOutcome(b, Take(b))
<1>1. \A code : TakeOutcome(b, Fail(code))
  BY DEF TakeOutcome, Fail, Taken
<1>2. TakeOutcome(b, Wait(b))
  BY DEF TakeOutcome, Wait, Taken
<1>3. CASE b = << >>
  BY <1>2, <1>3 DEF Take
<1>4. CASE b # << >> /\ NoColon(b)
  BY <1>1, <1>2, <1>4, TakeWithoutColon DEF TakeHeader
<1>5. ASSUME NEW k, ColonAt(b, k)  PROVE TakeOutcome(b, Take(b))
  <2>1. Take(b) = Fail("frame-length") \/ Take(b) = TakeBody(b, k)
    BY <1>5, TakeAtColon
  <2>2. ASSUME AllDigits(Header(b, k)), ~(Len(b) < CommaOf(b, k))
        PROVE  TakeOutcome(b, Frame(PayloadOf(b, k), RestOf(b, k)))
    <3>1. CommaOf(b, k) \in Nat /\ Len(b) \in Nat
      BY <1>5, <2>2, HeaderOf
    <3>2. CommaOf(b, k) <= Len(b)
      BY <2>2, <3>1
    <3> QED
      BY <1>5, <2>2, <3>2, BodyOf DEF TakeOutcome, Frame, Taken
  <2>3. TakeOutcome(b, TakeBody(b, k))
    BY <1>1, <1>2, <2>2 DEF TakeBody, Header, CommaOf, PayloadOf, RestOf
  <2> QED
    BY <1>1, <2>1, <2>3
<1> QED
  BY <1>3, <1>4, <1>5, ColonOrNot
\* More bytes behind a buffer change nothing of what is taken off its front.
LEMMA Extended ==
  ASSUME NEW b \in Seq(Byte), NEW c \in Seq(Byte), NEW d, d = b \o c
  PROVE  /\ d \in Seq(Byte) /\ Len(d) = Len(b) + Len(c)
         /\ Len(b) \in Nat /\ Len(c) \in Nat
         /\ \A i \in 1 .. Len(b) : d[i] = b[i]
<1>1. /\ b \o c \in Seq(Byte) /\ Len(b \o c) = Len(b) + Len(c)
      /\ \A i \in 1 .. Len(b) + Len(c) :
           (b \o c)[i] = IF i <= Len(b) THEN b[i] ELSE c[i - Len(b)]
  BY ConcatProperties
<1>2. Len(b) \in Nat /\ Len(c) \in Nat
  OBVIOUS
<1> QED
  BY <1>1, <1>2

LEMMA ColonKept ==
  ASSUME NEW b \in Seq(Byte), NEW c \in Seq(Byte), NEW d, d = b \o c,
         NEW k, ColonAt(b, k)
  PROVE  ColonAt(d, k) /\ Header(d, k) = Header(b, k) /\ CommaOf(d, k) = CommaOf(b, k)
<1>1. k \in Nat /\ k >= 1 /\ k <= Len(b)
  BY HeaderOf
<1>2. ColonAt(d, k)
  BY <1>1, Extended DEF ColonAt
<1>3. Header(d, k) = Header(b, k)
  <2> PICK n : n = k - 1
    OBVIOUS
  <2>1. n \in Nat /\ n <= Len(b) /\ 1 <= n + 1
    BY <1>1, Extended
  <2>2. SubSeq(b \o c, 1, n) = SubSeq(b, 1, n)
    BY <2>1, PartOfMore
  <2> QED
    BY <2>2 DEF Header
<1> QED
  BY <1>2, <1>3 DEF CommaOf

HasBody(b, k) ==
  ColonAt(b, k) /\ AllDigits(Header(b, k)) /\ CommaOf(b, k) <= Len(b)

SameBody(b, c, d, k) ==
  /\ PayloadOf(d, k) = PayloadOf(b, k)
  /\ RestOf(d, k) = RestOf(b, k) \o c
  /\ d[CommaOf(b, k)] = b[CommaOf(b, k)]

LEMMA BodyKept ==
  ASSUME NEW b \in Seq(Byte), NEW c \in Seq(Byte), NEW d, d = b \o c,
         NEW k, HasBody(b, k)
  PROVE  SameBody(b, c, d, k)
<1>1. ColonAt(b, k) /\ AllDigits(Header(b, k)) /\ CommaOf(b, k) <= Len(b)
  BY DEF HasBody
<1> PICK x : x = CommaOf(b, k)
  OBVIOUS
<1>2. x \in Nat /\ x > k /\ k \in Nat /\ x <= Len(b) /\ Len(b) \in Nat
  BY <1>1, HeaderOf
<1> PICK p : p = x - 1
  OBVIOUS
<1>3. p \in Nat /\ k + 1 \in Nat /\ k + 1 >= 1 /\ p <= Len(b) /\ k + 1 <= p + 1
      /\ x + 1 \in Nat /\ x + 1 >= 1 /\ x + 1 <= Len(b) + 1 /\ x \in 1 .. Len(b)
  BY <1>2
<1>4. SubSeq(b \o c, k + 1, p) = SubSeq(b, k + 1, p)
  <2> PICK m : m = k + 1
    OBVIOUS
  <2>1. m \in Nat /\ m >= 1 /\ p \in Nat /\ p <= Len(b) /\ m <= p + 1
    BY <1>3
  <2>2. SubSeq(b \o c, m, p) = SubSeq(b, m, p)
    BY ONLY <2>1, PartOfMore
  <2> QED
    BY <2>2
<1>5. SubSeq(b \o c, x + 1, Len(b \o c)) = SubSeq(b, x + 1, Len(b)) \o c
  BY <1>3, RestOfMore
<1>6. d[x] = b[x]
  BY <1>3, Extended
<1>7. CommaOf(d, k) = x
  BY <1>1, ColonKept
<1> QED
  BY <1>4, <1>5, <1>6, <1>7 DEF SameBody, PayloadOf, RestOf

\* The checks of a frame, in the code's order.
LEMMA BodyIs ==
  ASSUME NEW b, NEW k
  PROVE  TakeBody(b, k) =
           IF ~AllDigits(Header(b, k)) THEN Fail("frame-length")
           ELSE IF Len(Header(b, k)) > 1 /\ Header(b, k)[1] = 48
                THEN Fail("frame-leading-zero")
           ELSE IF Number(Header(b, k)) > MaxFrame THEN Fail("frame-too-large")
           ELSE IF Len(b) < CommaOf(b, k) THEN Wait(b)
           ELSE IF b[CommaOf(b, k)] # Comma THEN Fail("frame-comma")
           ELSE IF DecodeCode(PayloadOf(b, k)) # "ok"
                THEN Fail(DecodeCode(PayloadOf(b, k)))
           ELSE Frame(PayloadOf(b, k), RestOf(b, k))
BY DEF TakeBody, Header, CommaOf, PayloadOf, RestOf

LEMMA StatusOf ==
  /\ \A code : Fail(code).status = "error" /\ Fail(code).code = code
               /\ Fail(code).buffer = << >>
  /\ \A b : Wait(b).status = "wait" /\ Wait(b).buffer = b /\ Wait(b).code = "ok"
  /\ \A p, b : Frame(p, b).status = "value" /\ Frame(p, b).buffer = b
               /\ Frame(p, b).payload = p /\ Frame(p, b).code = "ok"
BY DEF Fail, Wait, Frame, Taken

TakenWithMore(b, c, d) ==
  /\ Take(b).status = "value" =>
       Take(d) = Frame(Take(b).payload, Take(b).buffer \o c)
  /\ Take(b).status = "error" => Take(d).status = "error"

LEMMA TakeMoreAtColon ==
  ASSUME NEW b \in Seq(Byte), NEW c \in Seq(Byte), NEW d, d = b \o c,
         NEW k, ColonAt(b, k)
  PROVE  TakenWithMore(b, c, d)
<1>1. d \in Seq(Byte) /\ d[1] = b[1] /\ Len(d) >= Len(b) /\ Len(b) \in Nat
      /\ Len(d) \in Nat
  <2>1. 1 \in 1 .. Len(b)
    BY DEF ColonAt
  <2> QED
    BY <2>1, Extended
<1>2. ColonAt(d, k) /\ Header(d, k) = Header(b, k) /\ CommaOf(d, k) = CommaOf(b, k)
  BY ColonKept
<1>3. Take(b) = IF ~IsDigit(b[1]) THEN Fail("frame-length") ELSE TakeBody(b, k)
  BY TakeAtColon
<1>4. Take(d) = IF ~IsDigit(b[1]) THEN Fail("frame-length") ELSE TakeBody(d, k)
  BY <1>1, <1>2, TakeAtColon
<1>5. CASE ~IsDigit(b[1])
  BY <1>3, <1>4, <1>5, StatusOf DEF TakenWithMore
<1>6. CASE IsDigit(b[1])
  <2>1. Take(b) = TakeBody(b, k) /\ Take(d) = TakeBody(d, k)
    BY <1>3, <1>4, <1>6
  <2>2. CASE \/ ~AllDigits(Header(b, k))
             \/ Len(Header(b, k)) > 1 /\ Header(b, k)[1] = 48
             \/ Number(Header(b, k)) > MaxFrame
    <3>1. Take(d).status = "error" /\ Take(b).status = "error"
      BY <1>2, <2>1, <2>2, BodyIs, StatusOf
    <3> QED
      BY <3>1 DEF TakenWithMore
  <2>3. CASE /\ AllDigits(Header(b, k))
             /\ ~(Len(Header(b, k)) > 1 /\ Header(b, k)[1] = 48)
             /\ ~(Number(Header(b, k)) > MaxFrame)
    <3>1. CASE Len(b) < CommaOf(b, k)
      <4>1. Take(b) = Wait(b)
        BY <2>1, <2>3, <3>1, BodyIs
      <4> QED
        BY <4>1, StatusOf DEF TakenWithMore
    <3>2. CASE ~(Len(b) < CommaOf(b, k))
      <4>1. CommaOf(b, k) \in Nat
        BY <2>3, HeaderOf
      <4>2. CommaOf(b, k) <= Len(b) /\ ~(Len(d) < CommaOf(b, k))
        BY <1>1, <3>2, <4>1
      <4>3. /\ PayloadOf(d, k) = PayloadOf(b, k)
            /\ RestOf(d, k) = RestOf(b, k) \o c
            /\ d[CommaOf(b, k)] = b[CommaOf(b, k)]
        <5>1. HasBody(b, k)
          BY <2>3, <4>2 DEF HasBody
        <5>2. SameBody(b, c, d, k)
          BY <5>1, BodyKept
        <5> QED
          BY <5>2 DEF SameBody
      <4> DEFINE bad  == b[CommaOf(b, k)] # Comma
                 code == DecodeCode(PayloadOf(b, k))
      <4>4. Take(b) = IF bad THEN Fail("frame-comma")
                      ELSE IF code # "ok" THEN Fail(code)
                      ELSE Frame(PayloadOf(b, k), RestOf(b, k))
        BY <2>1, <2>3, <3>2, BodyIs
      <4>5. Take(d) = IF bad THEN Fail("frame-comma")
                      ELSE IF code # "ok" THEN Fail(code)
                      ELSE Frame(PayloadOf(b, k), RestOf(b, k) \o c)
        BY <1>2, <2>1, <2>3, <4>2, <4>3, BodyIs
      <4> HIDE DEF bad, code
      <4> QED
        BY <4>4, <4>5, StatusOf DEF TakenWithMore
    <3> QED
      BY <3>1, <3>2
  <2> QED
    BY <2>2, <2>3
<1> QED
  BY <1>5, <1>6

\* A header that is too long, or no number, stays so when its colon arrives.
LEMMA TakeMoreOfHeader ==
  ASSUME NEW b \in Seq(Byte), NEW c \in Seq(Byte), NEW d, d = b \o c,
         b # << >>, NoColon(b)
  PROVE  TakenWithMore(b, c, d)
<1>1. /\ d \in Seq(Byte) /\ Len(d) >= Len(b) /\ Len(b) \in Nat /\ Len(b) >= 1
      /\ Len(d) \in Nat /\ d # << >> /\ DOMAIN b = 1 .. Len(b)
      /\ DOMAIN d = 1 .. Len(d) /\ \A i \in 1 .. Len(b) : d[i] = b[i]
  <2>1. Len(b) >= 1 /\ DOMAIN b = 1 .. Len(b)
    OBVIOUS
  <2> QED
    BY <2>1, Extended, NotEmpty
<1>2. d[1] = b[1]
  BY <1>1
<1>3. Take(b) = IF ~IsDigit(b[1]) THEN Fail("frame-length") ELSE TakeHeader(b)
  BY TakeWithoutColon
<1>4. Take(b).status # "value"
  BY <1>3, StatusOf DEF TakeHeader
<1> SUFFICES ASSUME Take(b).status = "error"  PROVE Take(d).status = "error"
  BY <1>4 DEF TakenWithMore
<1>5. ~IsDigit(b[1]) \/ Len(b) > HeaderDigits \/ ~AllDigits(b)
  BY <1>3, StatusOf DEF TakeHeader, HeaderTooLong
<1>6. HeaderDigits \in Nat /\ HeaderDigits >= 1 /\ LongerIsGreater(MaxFrame)
  BY FramingAssumption, MoreDigits DEF HeaderDigits, LongerIsGreater
<1>7. ~AllDigits(b) => ~AllDigits(d)
  BY <1>1 DEF AllDigits
<1>8. CASE NoColon(d)
  <2>1. Take(d) = IF ~IsDigit(b[1]) THEN Fail("frame-length") ELSE TakeHeader(d)
    BY <1>1, <1>2, <1>8, TakeWithoutColon
  <2>2. Len(b) > HeaderDigits => Len(d) > HeaderDigits
    BY <1>1, <1>6
  <2> QED
    BY <1>5, <1>7, <2>1, <2>2, StatusOf DEF TakeHeader, HeaderTooLong
<1>9. ASSUME NEW k, ColonAt(d, k)  PROVE Take(d).status = "error"
  <2>1. /\ k \in Nat /\ Header(d, k) \in Seq(Byte) /\ Len(Header(d, k)) = k - 1
        /\ \A i \in 1 .. k - 1 : Header(d, k)[i] = d[i]
    BY <1>1, <1>9, HeaderOf
  <2>2. k > Len(b)
    <3>1. k \in 1 .. Len(d) /\ d[k] = Colon
      BY <1>9 DEF ColonAt
    <3>2. ~(k \in 1 .. Len(b))
      BY <1>1, <3>1 DEF NoColon
    <3> QED
      BY <1>1, <3>1, <3>2
  <2>3. \A i \in 1 .. Len(b) : Header(d, k)[i] = b[i] /\ i \in DOMAIN Header(d, k)
    BY <1>1, <2>1, <2>2
  <2>4. ~AllDigits(b) => ~AllDigits(Header(d, k))
    BY <1>1, <2>3 DEF AllDigits
  <2>5. Take(d) = IF ~IsDigit(b[1]) THEN Fail("frame-length") ELSE TakeBody(d, k)
    BY <1>1, <1>2, <1>9, TakeAtColon
  <2>6. CASE ~IsDigit(b[1])
    BY <2>5, <2>6, StatusOf
  <2>7. CASE ~AllDigits(Header(d, k))
    BY <2>5, <2>7, BodyIs, StatusOf
  <2>8. CASE IsDigit(b[1]) /\ AllDigits(Header(d, k))
    <3> PICK h : h = Header(d, k)
      OBVIOUS
    <3>1. Len(b) > HeaderDigits
      BY <1>5, <2>4, <2>8
    <3>2. /\ h \in Seq(Byte) /\ AllDigits(h) /\ Len(h) > 1
          /\ Len(h) > Len(Decimal[MaxFrame])
      BY <1>1, <1>6, <2>1, <2>2, <2>8, <3>1 DEF HeaderDigits
    <3>3. h[1] # 48 => Number(h) > MaxFrame
      BY <1>6, <3>2 DEF LongerIsGreater
    <3>4. Take(d) = TakeBody(d, k)
      BY <2>5, <2>8
    <3> QED
      BY <3>2, <3>3, <3>4, BodyIs, StatusOf
  <2> QED
    BY <2>6, <2>7, <2>8
<1> QED
  BY <1>1, <1>8, <1>9, ColonOrNot

LEMMA TakeMore ==
  ASSUME NEW b \in Seq(Byte), NEW c \in Seq(Byte)
  PROVE  TakenWithMore(b, c, b \o c)
<1>1. CASE b = << >>
  <2>1. Take(b) = Wait(b)
    BY <1>1 DEF Take
  <2> QED
    BY <2>1, StatusOf DEF TakenWithMore
<1> QED
  BY <1>1, TakeMoreAtColon, TakeMoreOfHeader, ColonOrNot
-------------------------------------------------------------------------------
(***************************************************************************)
(* feed's loop, one frame at a time: draining a buffer is taking its first *)
(* frame and draining the rest.                                            *)
(***************************************************************************)
Steps(k) == [i \in 1 .. k |-> i]
Start(b) == Drained("value", "ok", << >>, b)
Runs(so, k) == Cuts!Folded(so, Steps(k))

\* The same with values in front.
With(vs, so) == Drained(so.status, so.code, vs \o so.values, so.buffer)

Values == Seq(Seq(Byte))

LEMMA RunsOfNone == ASSUME NEW so  PROVE Runs(so, 0) = so
<1>1. Steps(0) = << >>
  BY DEF Steps
<1> QED
  BY <1>1, Cuts!FoldedEmpty DEF Runs

LEMMA RunsOfMore ==
  ASSUME NEW so, NEW k \in Nat  PROVE Runs(so, k + 1) = Cut(Runs(so, k), 0)
<1> DEFINE s == Steps(k)
           t == Steps(k + 1)
<1>1. /\ DOMAIN s = 1 .. k /\ DOMAIN t = 1 .. k + 1
      /\ \A i \in 1 .. k : t[i] = s[i]
  BY DEF Steps
<1> HIDE DEF s, t
<1>2. Cuts!Folded(so, t) = Cut(Cuts!Folded(so, s), t[k + 1])
  BY ONLY <1>1, Cuts!FoldedMore
<1>3. \A x, y : Cut(x, y) = Cut(x, 0)
  BY DEF Cut
<1> QED
  BY <1>2, <1>3 DEF Runs, s, t

LEMMA DrainIsRuns ==
  ASSUME NEW b  PROVE Drain(b) = Runs(Start(b), Len(b) + 1)
BY DEF Drain, Runs, Start, Steps, Cuts!Folded, Cuts!FoldLeft, FoldLeft,
       MapThenFoldSet, Cuts!MapThenFoldSet, Max, Cuts!Max

LEMMA RunsShift ==
  ASSUME NEW so, NEW k \in Nat  PROVE Runs(so, k + 1) = Runs(Cut(so, 0), k)
<1> DEFINE T == {n \in Nat : Runs(so, n + 1) = Runs(Cut(so, 0), n)}
<1>1. 0 \in T
  <2>1. Runs(so, 0 + 1) = Cut(so, 0)
    BY RunsOfNone, RunsOfMore
  <2> QED
    BY <2>1, RunsOfNone
<1>2. ASSUME NEW n \in Nat, n \in T  PROVE n + 1 \in T
  <2>1. Runs(so, (n + 1) + 1) = Cut(Runs(so, n + 1), 0)
    BY RunsOfMore
  <2>2. Runs(Cut(so, 0), n + 1) = Cut(Runs(Cut(so, 0), n), 0)
    BY RunsOfMore
  <2> QED
    BY <1>2, <2>1, <2>2
<1> HIDE DEF T
<1>3. k \in T
  BY <1>1, <1>2, Figure!Inductive
<1> QED
  BY <1>3 DEF T

LEMMA RunsStopped ==
  ASSUME NEW so, so.status # "value", NEW k \in Nat  PROVE Runs(so, k) = so
<1> DEFINE T == {n \in Nat : Runs(so, n) = so}
<1>1. 0 \in T
  BY RunsOfNone
<1>2. ASSUME NEW n \in Nat, n \in T  PROVE n + 1 \in T
  <2>1. Cut(so, 0) = so
    BY DEF Cut
  <2> QED
    BY <1>2, <2>1, RunsOfMore
<1> HIDE DEF T
<1>3. k \in T
  BY <1>1, <1>2, Figure!Inductive
<1> QED
  BY <1>3 DEF T

\* A drain under way.
Going(so) ==
  /\ so = Drained(so.status, so.code, so.values, so.buffer)
  /\ so.values \in Values
  /\ so.status = "value" => so.buffer \in Seq(Byte)

LEMMA FieldsOf ==
  \A status, code, values, b :
    LET so == Drained(status, code, values, b)
    IN  so.status = status /\ so.code = code /\ so.values = values /\ so.buffer = b
BY DEF Drained

LEMMA CutGoes ==
  ASSUME NEW so, Going(so)
  PROVE  /\ Going(Cut(so, 0))
         /\ so.status = "value" /\ Cut(so, 0).status = "value" =>
              Len(Cut(so, 0).buffer) < Len(so.buffer)
<1>1. CASE so.status # "value"
  BY <1>1 DEF Cut
<1>2. CASE so.status = "value"
  <2> PICK b : b = so.buffer
    OBVIOUS
  <2> PICK n : n = Take(b)
    OBVIOUS
  <2>1. b \in Seq(Byte) /\ so.values \in Values
    BY <1>2 DEF Going
  <2>2. TakeOutcome(b, n)
    BY <2>1, TakeOutcomes
  <2> DEFINE vs == IF n.status = "value" THEN Append(so.values, n.payload)
                   ELSE so.values
  <2>3. Cut(so, 0) = Drained(n.status, n.code, vs, n.buffer)
    BY <1>2 DEF Cut
  <2>4. vs \in Values
    BY <2>1, <2>2 DEF TakeOutcome, Values
  <2> HIDE DEF vs
  <2> QED
    BY <2>2, <2>3, <2>4, FieldsOf DEF Going, TakeOutcome
<1> QED
  BY <1>1, <1>2

\* More steps than bytes are enough.
RunsEnd(so) ==
  \A m, n \in Nat : m > Len(so.buffer) /\ n > Len(so.buffer) =>
    Runs(so, m) = Runs(so, n) /\ Runs(so, m).status # "value"

Fits(so, n) == Going(so) /\ so.status = "value" /\ Len(so.buffer) <= n

ShorterEnd(so) ==
  \A x : Going(x) /\ x.status = "value" /\ Len(x.buffer) < Len(so.buffer) => RunsEnd(x)

LEMMA RunsEnough ==
  ASSUME NEW so, Going(so), so.status = "value"
  PROVE  RunsEnd(so)
<1> DEFINE T == {n \in Nat : \A x : Fits(x, n) => RunsEnd(x)}
<1>1. ASSUME NEW x, Going(x), x.status = "value", ShorterEnd(x)
      PROVE  RunsEnd(x)
  <2> SUFFICES ASSUME NEW m \in Nat, NEW n \in Nat,
                      m > Len(x.buffer), n > Len(x.buffer)
               PROVE  Runs(x, m) = Runs(x, n) /\ Runs(x, m).status # "value"
    BY DEF RunsEnd
  <2>1. Len(x.buffer) \in Nat
    BY <1>1 DEF Going
  <2> PICK y : y = Cut(x, 0)
    OBVIOUS
  <2>2. Going(y) /\ (y.status = "value" => Len(y.buffer) < Len(x.buffer))
    BY <1>1, CutGoes
  <2>3. m - 1 \in Nat /\ n - 1 \in Nat /\ (m - 1) + 1 = m /\ (n - 1) + 1 = n
    BY <2>1
  <2>4. Runs(x, m) = Runs(y, m - 1) /\ Runs(x, n) = Runs(y, n - 1)
    BY <2>3, RunsShift
  <2>5. CASE y.status # "value"
    BY <2>3, <2>4, <2>5, RunsStopped
  <2>6. CASE y.status = "value"
    <3>1. Len(y.buffer) < Len(x.buffer) /\ Len(y.buffer) \in Nat /\ RunsEnd(y)
      BY <1>1, <2>2, <2>6 DEF Going, ShorterEnd
    <3>2. m - 1 > Len(y.buffer) /\ n - 1 > Len(y.buffer)
      BY <2>1, <3>1
    <3> QED
      BY <2>3, <2>4, <3>1, <3>2 DEF RunsEnd
  <2> QED
    BY <2>5, <2>6
<1>2. \A x : Going(x) /\ x.status = "value" => Len(x.buffer) \in Nat
  BY DEF Going
<1>3. 0 \in T
  <2> SUFFICES ASSUME NEW x, Fits(x, 0)  PROVE RunsEnd(x)
    OBVIOUS
  <2>1. Going(x) /\ x.status = "value" /\ Len(x.buffer) = 0
    BY <1>2 DEF Fits
  <2>2. ASSUME NEW y, Going(y), y.status = "value", Len(y.buffer) < Len(x.buffer)
        PROVE  RunsEnd(y)
    BY <1>2, <2>1, <2>2
  <2>3. ShorterEnd(x)
    BY <2>2 DEF ShorterEnd
  <2> QED
    BY <1>1, <2>1, <2>3
<1>4. ASSUME NEW n \in Nat, n \in T  PROVE n + 1 \in T
  <2> SUFFICES ASSUME NEW x, Fits(x, n + 1)  PROVE RunsEnd(x)
    OBVIOUS
  <2>1. Going(x) /\ x.status = "value" /\ Len(x.buffer) <= n + 1
    BY DEF Fits
  <2>2. ASSUME NEW y, Going(y), y.status = "value", Len(y.buffer) < Len(x.buffer)
        PROVE  RunsEnd(y)
    <3>1. Fits(y, n)
      BY <1>2, <2>1, <2>2 DEF Fits
    <3> QED
      BY <1>4, <3>1
  <2>3. ShorterEnd(x)
    BY <2>2 DEF ShorterEnd
  <2> QED
    BY <1>1, <2>1, <2>3
<1>5. Len(so.buffer) \in T
  <2>1. Len(so.buffer) \in Nat
    BY <1>2
  <2> HIDE DEF T
  <2> QED
    BY <1>3, <1>4, <2>1, Figure!Inductive
<1>6. Fits(so, Len(so.buffer))
  BY <1>2 DEF Fits
<1> QED
  BY <1>5, <1>6

LEMMA CutWith ==
  ASSUME NEW vs \in Values, NEW so, Going(so)
  PROVE  Going(With(vs, so)) /\ Cut(With(vs, so), 0) = With(vs, Cut(so, 0))
<1> PICK x : x = so.values
  OBVIOUS
<1>1. x \in Values /\ vs \o x \in Values
  BY DEF Going, Values
<1>2. Going(With(vs, so))
  BY <1>1, FieldsOf DEF Going, With
<1>3. ASSUME NEW p \in Seq(Byte)  PROVE Append(vs \o x, p) = vs \o Append(x, p)
  <2>1. Append(x, p) = x \o << p >> /\ << p >> \in Values
    BY <1>1, AppendIsConcat DEF Values
  <2>2. Append(vs \o x, p) = (vs \o x) \o << p >>
    BY <1>1, AppendIsConcat DEF Values
  <2>3. (vs \o x) \o << p >> = vs \o (x \o << p >>)
    <3> PICK u : u = << p >>
      OBVIOUS
    <3> PICK S : S = Seq(Byte)
      OBVIOUS
    <3>1. vs \in Seq(S) /\ x \in Seq(S) /\ u \in Seq(S)
      BY <1>1, <2>1 DEF Values
    <3>2. (vs \o x) \o u = vs \o (x \o u)
      BY ONLY <3>1, ConcatAssociative, SMTT(60)
    <3> QED
      BY <3>2
  <2> QED
    BY <2>1, <2>2, <2>3
<1>4. CASE so.status # "value"
  <2>1. Cut(so, 0) = so /\ Cut(With(vs, so), 0) = With(vs, so)
    BY <1>4, FieldsOf DEF Cut, With
  <2> QED
    BY <1>2, <2>1
<1>5. CASE so.status = "value"
  <2> PICK b : b = so.buffer
    OBVIOUS
  <2> PICK n : n = Take(b)
    OBVIOUS
  <2>1. TakeOutcome(b, n)
    BY <1>5, TakeOutcomes DEF Going
  <2>2. Cut(so, 0) = Drained(n.status, n.code,
                             IF n.status = "value" THEN Append(x, n.payload) ELSE x,
                             n.buffer)
    BY <1>5 DEF Cut
  <2>3. Cut(With(vs, so), 0)
          = Drained(n.status, n.code,
                    IF n.status = "value" THEN Append(vs \o x, n.payload)
                    ELSE vs \o x,
                    n.buffer)
    BY <1>5, FieldsOf DEF Cut, With
  <2>4. n.status = "value" => Append(vs \o x, n.payload) = vs \o Append(x, n.payload)
    BY <1>3, <2>1 DEF TakeOutcome
  <2>5. Cut(With(vs, so), 0) = With(vs, Cut(so, 0))
    <3>1. CASE n.status = "value"
      <4>1. Cut(so, 0) = Drained(n.status, n.code, Append(x, n.payload), n.buffer)
        BY <2>2, <3>1
      <4>2. Cut(With(vs, so), 0)
              = Drained(n.status, n.code, vs \o Append(x, n.payload), n.buffer)
        BY <2>3, <2>4, <3>1
      <4> QED
        BY <4>1, <4>2, FieldsOf DEF With
    <3>2. CASE n.status # "value"
      <4>1. Cut(so, 0) = Drained(n.status, n.code, x, n.buffer)
        BY <2>2, <3>2
      <4>2. Cut(With(vs, so), 0) = Drained(n.status, n.code, vs \o x, n.buffer)
        BY <2>3, <3>2
      <4> QED
        BY <4>1, <4>2, FieldsOf DEF With
    <3> QED
      BY <3>1, <3>2
  <2> QED
    BY <1>2, <2>5
<1> QED
  BY <1>2, <1>4, <1>5

LEMMA RunsGo ==
  ASSUME NEW so, Going(so), NEW k \in Nat  PROVE Going(Runs(so, k))
<1> DEFINE T == {n \in Nat : Going(Runs(so, n))}
<1>1. 0 \in T
  BY RunsOfNone
<1>2. ASSUME NEW n \in Nat, n \in T  PROVE n + 1 \in T
  BY <1>2, RunsOfMore, CutGoes
<1> HIDE DEF T
<1>3. k \in T
  BY <1>1, <1>2, Figure!Inductive
<1> QED
  BY <1>3 DEF T

LEMMA RunsWith ==
  ASSUME NEW vs \in Values, NEW so, Going(so), NEW k \in Nat
  PROVE  Runs(With(vs, so), k) = With(vs, Runs(so, k))
<1> DEFINE T == {n \in Nat : Runs(With(vs, so), n) = With(vs, Runs(so, n))}
<1>1. 0 \in T
  BY RunsOfNone
<1>2. ASSUME NEW n \in Nat, n \in T  PROVE n + 1 \in T
  <2>1. Cut(With(vs, Runs(so, n)), 0) = With(vs, Cut(Runs(so, n), 0))
    BY RunsGo, CutWith
  <2>2. Runs(With(vs, so), n + 1) = Cut(Runs(With(vs, so), n), 0)
    BY RunsOfMore
  <2>3. Runs(so, n + 1) = Cut(Runs(so, n), 0)
    BY RunsOfMore
  <2> QED
    BY <1>2, <2>1, <2>2, <2>3
<1> HIDE DEF T
<1>3. k \in T
  BY <1>1, <1>2, Figure!Inductive
<1> QED
  BY <1>3 DEF T
\* The first frame, and then the rest.
LEMMA DrainTakes ==
  ASSUME NEW b \in Seq(Byte)
  PROVE  /\ Take(b).status # "value" =>
              Drain(b) = Drained(Take(b).status, Take(b).code, << >>, Take(b).buffer)
         /\ Take(b).status = "value" =>
              Drain(b) = With(<< Take(b).payload >>, Drain(Take(b).buffer))
<1> PICK n : n = Take(b)
  OBVIOUS
<1>1. TakeOutcome(b, n) /\ Len(b) \in Nat
  BY TakeOutcomes
<1>2. Drain(b) = Runs(Cut(Start(b), 0), Len(b))
  BY <1>1, DrainIsRuns, RunsShift
<1>3. Cut(Start(b), 0)
        = Drained(n.status, n.code,
                  IF n.status = "value" THEN Append(<< >>, n.payload) ELSE << >>,
                  n.buffer)
  <2> PICK so : so = Start(b)
    OBVIOUS
  <2>1. so.status = "value" /\ so.values = << >> /\ so.buffer = b
    BY DEF Start, Drained
  <2> QED
    BY <2>1 DEF Cut
<1>4. CASE n.status # "value"
  <2>1. Cut(Start(b), 0) = Drained(n.status, n.code, << >>, n.buffer)
    BY <1>3, <1>4
  <2> QED
    BY <1>1, <1>2, <1>4, <2>1, FieldsOf, RunsStopped
<1>5. CASE n.status = "value"
  <2> PICK p : p = n.payload
    OBVIOUS
  <2> PICK r : r = n.buffer
    OBVIOUS
  <2>1. r \in Seq(Byte) /\ p \in Seq(Byte) /\ Len(r) < Len(b) /\ n.code = "ok"
        /\ Len(r) \in Nat
    BY <1>1, <1>5 DEF TakeOutcome
  <2>2. << p >> \in Values /\ Append(<< >>, p) = << p >> /\ << p >> \o << >> = << p >>
        /\ << >> \in Values
    BY <2>1 DEF Values
  <2>3. Cut(Start(b), 0) = With(<< p >>, Start(r))
    <3>1. Cut(Start(b), 0) = Drained("value", "ok", << p >>, r)
      BY <1>3, <1>5, <2>1, <2>2
    <3>2. With(<< p >>, Start(r)) = Drained("value", "ok", << p >>, r)
      <4>1. Start(r).status = "value" /\ Start(r).code = "ok"
            /\ Start(r).values = << >> /\ Start(r).buffer = r
        BY DEF Start, Drained
      <4> QED
        BY <2>2, <4>1 DEF With
    <3> QED
      BY <3>1, <3>2
  <2>4. Going(Start(r)) /\ Start(r).status = "value" /\ Start(r).buffer = r
    BY <2>1, <2>2, FieldsOf DEF Going, Start
  <2>5. Runs(With(<< p >>, Start(r)), Len(b)) = With(<< p >>, Runs(Start(r), Len(b)))
    BY <1>1, <2>2, <2>4, RunsWith
  <2>6. Runs(Start(r), Len(b)) = Runs(Start(r), Len(r) + 1)
    <3>1. RunsEnd(Start(r))
      BY <2>4, RunsEnough
    <3> QED
      BY <1>1, <2>1, <2>4, <3>1 DEF RunsEnd
  <2>7. Drain(b) = With(<< p >>, Drain(r))
    BY <1>2, <2>3, <2>5, <2>6, DrainIsRuns
  <2> QED
    BY <1>5, <2>7
<1> QED
  BY <1>4, <1>5

\* How a drain ends: with an incomplete frame or with an error.
DrainEnds(so) ==
  /\ Going(so)
  /\ \/ /\ so.status = "wait" /\ so.code = "ok"
        /\ so.buffer \in Seq(Byte) /\ Take(so.buffer).status = "wait"
     \/ so.status = "error" /\ so.buffer = << >>

LEMMA WithEnds ==
  ASSUME NEW vs \in Values, NEW so, DrainEnds(so)
  PROVE  /\ DrainEnds(With(vs, so)) /\ With(vs, so).status = so.status
         /\ With(vs, so).buffer = so.buffer /\ With(vs, so).values = vs \o so.values
         /\ With(vs, so).code = so.code
<1>1. Going(With(vs, so))
  BY CutWith DEF DrainEnds
<1>2. /\ With(vs, so).status = so.status /\ With(vs, so).buffer = so.buffer
      /\ With(vs, so).values = vs \o so.values /\ With(vs, so).code = so.code
  BY DEF With, Drained
<1> QED
  BY <1>1, <1>2 DEF DrainEnds

LEMMA DrainsEnd == ASSUME NEW b \in Seq(Byte)  PROVE DrainEnds(Drain(b))
<1> DEFINE T == {n \in Nat : \A x \in Seq(Byte) : Len(x) <= n => DrainEnds(Drain(x))}
<1>1. ASSUME NEW x \in Seq(Byte),
             \A y \in Seq(Byte) : Len(y) < Len(x) => DrainEnds(Drain(y))
      PROVE  DrainEnds(Drain(x))
  <2> PICK n : n = Take(x)
    OBVIOUS
  <2>1. TakeOutcome(x, n)
    BY TakeOutcomes
  <2>2. CASE n.status # "value"
    <3>1. Drain(x) = Drained(n.status, n.code, << >>, n.buffer)
      BY <2>2, DrainTakes
    <3>2. << >> \in Values
      BY DEF Values
    <3> QED
      BY <2>1, <2>2, <3>1, <3>2, FieldsOf DEF DrainEnds, Going, TakeOutcome
  <2>3. CASE n.status = "value"
    <3>1. n.buffer \in Seq(Byte) /\ Len(n.buffer) < Len(x) /\ n.payload \in Seq(Byte)
      BY <2>1, <2>3 DEF TakeOutcome
    <3>2. << n.payload >> \in Values
      BY <3>1 DEF Values
    <3>3. Drain(x) = With(<< n.payload >>, Drain(n.buffer))
      BY <2>3, DrainTakes
    <3> QED
      BY <1>1, <3>1, <3>2, <3>3, WithEnds
  <2> QED
    BY <2>2, <2>3
<1>2. 0 \in T
  <2> SUFFICES ASSUME NEW x \in Seq(Byte), Len(x) <= 0  PROVE DrainEnds(Drain(x))
    OBVIOUS
  <2>1. \A y \in Seq(Byte) : ~(Len(y) < Len(x))
    OBVIOUS
  <2> QED
    BY <1>1, <2>1
<1>3. ASSUME NEW n \in Nat, n \in T  PROVE n + 1 \in T
  <2> SUFFICES ASSUME NEW x \in Seq(Byte), Len(x) <= n + 1  PROVE DrainEnds(Drain(x))
    OBVIOUS
  <2>1. \A y \in Seq(Byte) : Len(y) < Len(x) => Len(y) <= n
    OBVIOUS
  <2> QED
    BY <1>1, <1>3, <2>1
<1> HIDE DEF T
<1>4. Len(b) \in T
  BY <1>2, <1>3, Figure!Inductive
<1> QED
  BY <1>4 DEF T

(***************************************************************************)
(* What has been drained stays drained, whatever arrives behind it.        *)
(***************************************************************************)
DrainsOn(b, c) ==
  /\ Drain(b).status = "wait" =>
       Drain(b \o c) = With(Drain(b).values, Drain(Drain(b).buffer \o c))
  /\ Drain(b).status = "error" =>
       /\ Drain(b \o c).status = "error"
       /\ Drain(b \o c).values = Drain(b).values

LEMMA WithTwice ==
  ASSUME NEW vs \in Values, NEW ws \in Values, NEW so, Going(so)
  PROVE  With(vs, With(ws, so)) = With(vs \o ws, so)
<1> PICK x : x = so.values
  OBVIOUS
<1> PICK S : S = Seq(Byte)
  OBVIOUS
<1>1. vs \in Seq(S) /\ ws \in Seq(S) /\ x \in Seq(S)
  BY DEF Going, Values
<1>2. (vs \o ws) \o x = vs \o (ws \o x)
  BY ONLY <1>1, ConcatAssociative, SMTT(60)
<1> QED
  BY <1>2, FieldsOf DEF With

LEMMA DrainMore ==
  ASSUME NEW b \in Seq(Byte), NEW c \in Seq(Byte)  PROVE DrainsOn(b, c)
<1> DEFINE T == {n \in Nat : \A x \in Seq(Byte) : Len(x) <= n => DrainsOn(x, c)}
<1>1. ASSUME NEW x \in Seq(Byte),
             \A y \in Seq(Byte) : Len(y) < Len(x) => DrainsOn(y, c)
      PROVE  DrainsOn(x, c)
  <2> PICK d : d = x \o c
    OBVIOUS
  <2> PICK n : n = Take(x)
    OBVIOUS
  <2>1. d \in Seq(Byte) /\ TakeOutcome(x, n) /\ TakenWithMore(x, c, d)
    BY TakeOutcomes, TakeMore, ConcatProperties
  <2>2. << >> \in Values /\ \A vs \in Values : << >> \o vs = vs
    BY DEF Values
  <2>3. CASE n.status = "wait"
    <3>1. Drain(x) = Drained("wait", n.code, << >>, x)
      BY <2>1, <2>3, DrainTakes DEF TakeOutcome
    <3>2. Going(Drain(d))
      BY <2>1, DrainsEnd DEF DrainEnds
    <3>3. With(<< >>, Drain(d)) = Drain(d)
      BY <2>2, <3>2, FieldsOf DEF With, Going
    <3> QED
      BY <3>1, <3>3, FieldsOf DEF DrainsOn
  <2>4. CASE n.status = "error"
    <3>1. Drain(x) = Drained("error", n.code, << >>, << >>)
      BY <2>1, <2>4, DrainTakes DEF TakeOutcome
    <3>2. Take(d).status = "error"
      BY <2>1, <2>4 DEF TakenWithMore
    <3>3. Drain(d) = Drained("error", Take(d).code, << >>, Take(d).buffer)
      BY <2>1, <3>2, DrainTakes
    <3> QED
      BY <3>1, <3>3, FieldsOf DEF DrainsOn
  <2>5. CASE n.status = "value"
    <3> PICK r : r = n.buffer
      OBVIOUS
    <3> PICK ps : ps = << n.payload >>
      OBVIOUS
    <3>1. r \in Seq(Byte) /\ Len(r) < Len(x) /\ n.payload \in Seq(Byte)
      BY <2>1, <2>5 DEF TakeOutcome
    <3>2. ps \in Values
      BY <3>1 DEF Values
    <3>3. Drain(x) = With(ps, Drain(r))
      BY <2>5, DrainTakes
    <3>4. Drain(d) = With(ps, Drain(r \o c))
      <4>1. Take(d) = Frame(n.payload, r \o c)
        BY <2>1, <2>5 DEF TakenWithMore
      <4>2. /\ Take(d).status = "value" /\ << Take(d).payload >> = ps
            /\ Take(d).buffer = r \o c
        <5>1. /\ Take(d).status = "value" /\ Take(d).payload = n.payload
              /\ Take(d).buffer = r \o c
          BY <4>1 DEF Frame, Taken
        <5> QED
          BY <5>1
      <4>3. Drain(d) = With(<< Take(d).payload >>, Drain(Take(d).buffer))
        BY <2>1, <4>2, DrainTakes
      <4> QED
        BY <4>2, <4>3
    <3>5. DrainEnds(Drain(r)) /\ r \o c \in Seq(Byte)
      BY <3>1, DrainsEnd, ConcatProperties
    <3>6. DrainEnds(Drain(r \o c))
      BY <3>5, DrainsEnd
    <3>7. /\ Drain(x).status = Drain(r).status /\ Drain(x).buffer = Drain(r).buffer
          /\ Drain(x).values = ps \o Drain(r).values
          /\ Drain(d).status = Drain(r \o c).status
          /\ Drain(d).values = ps \o Drain(r \o c).values
      <4>1. /\ With(ps, Drain(r)).status = Drain(r).status
            /\ With(ps, Drain(r)).buffer = Drain(r).buffer
            /\ With(ps, Drain(r)).values = ps \o Drain(r).values
        BY <3>2, <3>5, WithEnds
      <4>2. /\ With(ps, Drain(r \o c)).status = Drain(r \o c).status
            /\ With(ps, Drain(r \o c)).values = ps \o Drain(r \o c).values
        BY <3>2, <3>6, WithEnds
      <4> QED
        BY <3>3, <3>4, <4>1, <4>2
    <3>8. DrainsOn(r, c)
      BY <1>1, <3>1
    <3>9. Drain(x).status = "wait" =>
            Drain(d) = With(Drain(x).values, Drain(Drain(x).buffer \o c))
      <4> SUFFICES ASSUME Drain(r).status = "wait"
                   PROVE  Drain(d) = With(Drain(x).values, Drain(Drain(x).buffer \o c))
        BY <3>7
      <4> PICK q : q = Drain(r).buffer
        OBVIOUS
      <4>1. q \in Seq(Byte) /\ Drain(r).values \in Values
        BY <3>5 DEF DrainEnds, Going
      <4>2. Drain(r \o c) = With(Drain(r).values, Drain(q \o c))
        BY <3>8 DEF DrainsOn
      <4>3. Going(Drain(q \o c))
        <5>1. q \o c \in Seq(Byte)
          BY <4>1, ConcatProperties
        <5> QED
          BY <5>1, DrainsEnd DEF DrainEnds
      <4>4. With(ps, With(Drain(r).values, Drain(q \o c)))
              = With(ps \o Drain(r).values, Drain(q \o c))
        BY <3>2, <4>1, <4>3, WithTwice
      <4> QED
        BY <3>4, <3>7, <4>2, <4>4
    <3>10. Drain(x).status = "error" =>
             Drain(d).status = "error" /\ Drain(d).values = Drain(x).values
      BY <3>7, <3>8 DEF DrainsOn
    <3> QED
      BY <3>9, <3>10 DEF DrainsOn
  <2> QED
    BY <2>1, <2>3, <2>4, <2>5 DEF TakeOutcome
<1>2. 0 \in T
  <2> SUFFICES ASSUME NEW x \in Seq(Byte), Len(x) <= 0  PROVE DrainsOn(x, c)
    OBVIOUS
  <2>1. \A y \in Seq(Byte) : ~(Len(y) < Len(x))
    OBVIOUS
  <2> QED
    BY <1>1, <2>1
<1>3. ASSUME NEW n \in Nat, n \in T  PROVE n + 1 \in T
  <2> SUFFICES ASSUME NEW x \in Seq(Byte), Len(x) <= n + 1  PROVE DrainsOn(x, c)
    OBVIOUS
  <2>1. \A y \in Seq(Byte) : Len(y) < Len(x) => Len(y) <= n
    OBVIOUS
  <2> QED
    BY <1>1, <1>3, <2>1
<1> HIDE DEF T
<1>4. Len(b) \in T
  BY <1>2, <1>3, Figure!Inductive
<1> QED
  BY <1>4 DEF T
-------------------------------------------------------------------------------
(* What is dispatched.                                                     *)

\* All is handled and answered, or an answer that does not fit a frame ends
\* the dispatch right after its effect.
Dispatched(values, done) ==
  \/ done.raised = FALSE /\ done.handled = values /\ done.output = Responses(values)
  \/ /\ done.raised = TRUE
     /\ \E k \in 1 .. Len(values) :
          values[k] \in Oversize /\ done.handled = SubSeq(values, 1, k)

LEMMA Dispatches ==
  ASSUME NEW values \in Values  PROVE Dispatched(values, Dispatch(values))
<1> DEFINE failing == {i \in DOMAIN values : values[i] \in Oversize}
<1>1. DOMAIN values = 1 .. Len(values)
  BY DEF Values
<1>2. CASE failing = {}
  BY <1>2 DEF Dispatch, Dispatched
<1>3. CASE failing # {}
  <2>1. failing \in SUBSET Nat
    BY <1>1
  <2>2. PICK k \in failing : \A j \in failing : k <= j
    BY <1>3, <2>1, Figure!SmallestOf
  <2>3. Min(failing) = k
    <3>1. \A x \in failing : (\A j \in failing : x <= j) => x = k
      BY <2>1, <2>2
    <3> HIDE DEF failing
    <3> QED
      BY <2>2, <3>1 DEF Min
  <2>4. Dispatch(values) = [raised |-> TRUE, handled |-> SubSeq(values, 1, Min(failing)),
                            output |-> << >>]
    BY <1>3 DEF Dispatch
  <2>5. k \in 1 .. Len(values) /\ values[k] \in Oversize
    BY <1>1, <2>2
  <2> HIDE DEF failing
  <2> QED
    BY <2>3, <2>4, <2>5 DEF Dispatched
<1> QED
  BY <1>2, <1>3

Answers == {Response(p) : p \in Seq(Byte)}

LEMMA ResponsesOf ==
  ASSUME NEW vs \in Values
  PROVE  /\ Responses(vs) \in Seq(Answers) /\ Len(Responses(vs)) = Len(vs)
         /\ \A i \in 1 .. Len(vs) : Responses(vs)[i] = Response(vs[i])
<1>1. DOMAIN vs = 1 .. Len(vs) /\ Len(vs) \in Nat
      /\ \A i \in 1 .. Len(vs) : vs[i] \in Seq(Byte)
  BY DEF Values
<1>2. \A i \in 1 .. Len(vs) : Response(vs[i]) \in Answers
  BY <1>1 DEF Answers
<1>3. Responses(vs) = [i \in 1 .. Len(vs) |-> Response(vs[i])]
  BY <1>1 DEF Responses
<1> QED
  BY <1>1, <1>2, <1>3

LEMMA ResponsesTogether ==
  ASSUME NEW vs \in Values, NEW ws \in Values
  PROVE  /\ vs \o ws \in Values
         /\ Responses(vs \o ws) = Responses(vs) \o Responses(ws)
<1> PICK xs : xs = vs \o ws
  OBVIOUS
<1>1. /\ xs \in Values /\ Len(xs) = Len(vs) + Len(ws)
      /\ Len(vs) \in Nat /\ Len(ws) \in Nat
      /\ \A i \in 1 .. Len(vs) + Len(ws) :
           xs[i] = IF i <= Len(vs) THEN vs[i] ELSE ws[i - Len(vs)]
  BY ConcatProperties DEF Values
<1> PICK a : a = Responses(vs)
  OBVIOUS
<1> PICK b : b = Responses(ws)
  OBVIOUS
<1> PICK c : c = Responses(xs)
  OBVIOUS
<1>2. /\ a \in Seq(Answers) /\ Len(a) = Len(vs)
      /\ \A i \in 1 .. Len(vs) : a[i] = Response(vs[i])
  BY ResponsesOf
<1>3. /\ b \in Seq(Answers) /\ Len(b) = Len(ws)
      /\ \A i \in 1 .. Len(ws) : b[i] = Response(ws[i])
  BY ResponsesOf
<1>4. /\ c \in Seq(Answers) /\ Len(c) = Len(xs)
      /\ \A i \in 1 .. Len(xs) : c[i] = Response(xs[i])
  BY <1>1, ResponsesOf
<1>5. /\ a \o b \in Seq(Answers) /\ Len(a \o b) = Len(a) + Len(b)
      /\ \A i \in 1 .. Len(a) + Len(b) :
           (a \o b)[i] = IF i <= Len(a) THEN a[i] ELSE b[i - Len(a)]
  <2>1. a \in Seq(Answers) /\ b \in Seq(Answers)
    BY <1>2, <1>3
  <2> QED
    BY ONLY <2>1, ConcatProperties
<1>6. ASSUME NEW i \in 1 .. Len(c)  PROVE c[i] = (a \o b)[i]
  <2>1. CASE i <= Len(vs)
    BY <1>1, <1>2, <1>3, <1>4, <1>5, <2>1
  <2>2. CASE ~(i <= Len(vs))
    <3>1. i - Len(vs) \in 1 .. Len(ws)
      BY <1>1, <1>4, <2>2
    <3>2. xs[i] = ws[i - Len(vs)] /\ c[i] = Response(xs[i])
      BY <1>1, <1>4, <2>2
    <3>3. (a \o b)[i] = b[i - Len(vs)]
      BY <1>1, <1>2, <1>3, <1>4, <1>5, <2>2
    <3>4. b[i - Len(vs)] = Response(ws[i - Len(vs)])
      BY <1>3, <3>1
    <3> QED
      BY <3>2, <3>3, <3>4
  <2> QED
    BY <2>1, <2>2
<1>7. c = a \o b
  BY <1>1, <1>2, <1>3, <1>4, <1>5, <1>6, SeqEqual, SMTT(40)
<1> QED
  BY <1>1, <1>7

LEMMA PrefixOfMore ==
  ASSUME NEW S, NEW s \in Seq(S), NEW u \in Seq(S)
  PROVE  IsPrefix(s, s \o u)
<1>1. Len(s \o u) = Len(s) + Len(u) /\ Len(s) \in Nat /\ Len(u) \in Nat
  BY ConcatProperties
<1>2. SubSeq(s \o u, 1, Len(s)) = SubSeq(s, 1, Len(s))
  BY <1>1, PartOfMore
<1> QED
  BY <1>1, <1>2 DEF IsPrefix

\* A sequence is its front part and the rest.
LEMMA CutInTwo ==
  ASSUME NEW S, NEW s \in Seq(S), NEW n \in 0 .. Len(s)
  PROVE  /\ SubSeq(s, 1, n) \in Seq(S) /\ SubSeq(s, n + 1, Len(s)) \in Seq(S)
         /\ s = SubSeq(s, 1, n) \o SubSeq(s, n + 1, Len(s))
<1>1. n \in Nat /\ n <= Len(s) /\ Len(s) \in Nat /\ 1 <= n + 1 /\ n + 1 \in Nat
      /\ n + 1 >= 1 /\ n + 1 <= Len(s) + 1
  OBVIOUS
<1>2. SubSeq(s, 1, n) \in Seq(S)
  BY <1>1, PartOf
<1>3. SubSeq(s, n + 1, Len(s)) \in Seq(S)
  BY <1>1, PartOf
<1>4. SubSeq(s, 1, n) \o SubSeq(s, n + 1, Len(s)) = SubSeq(s, 1, Len(s))
  <2>1. 1 \in 1 .. Len(s) + 1 /\ n \in 1 - 1 .. Len(s) /\ Len(s) \in n .. Len(s)
    BY <1>1
  <2> QED
    BY <2>1, ConcatAdjacentSubSeq
<1>5. SubSeq(s, 1, Len(s)) = s
  BY SubSeqFull
<1> QED
  BY <1>2, <1>3, <1>4, <1>5
LEMMA ErrorBehind ==
  ASSUME NEW vs \in Values, NEW ws \in Values, NEW f
  PROVE  Responses(vs) \o Append(Responses(ws), f) = Append(Responses(vs \o ws), f)
<1> PICK S : S = Answers \cup {f}
  OBVIOUS
<1> PICK a : a = Responses(vs)
  OBVIOUS
<1> PICK b : b = Responses(ws)
  OBVIOUS
<1> PICK e : e = << f >>
  OBVIOUS
<1>1. a \in Seq(Answers) /\ b \in Seq(Answers) /\ Answers \subseteq S /\ f \in S
  BY ResponsesOf
<1>2. a \in Seq(S) /\ b \in Seq(S) /\ e \in Seq(S) /\ a \o b \in Seq(S)
  BY <1>1
<1>3. (a \o b) \o e = a \o (b \o e)
  BY ONLY <1>2, ConcatAssociative, SMTT(60)
<1>4. Append(b, f) = b \o e /\ Append(a \o b, f) = (a \o b) \o e
  BY <1>1, <1>2, AppendIsConcat
<1>5. Responses(vs \o ws) = a \o b
  BY ResponsesTogether
<1> QED
  BY <1>3, <1>4, <1>5

-------------------------------------------------------------------------------
(***************************************************************************)
(* The inductive invariant.  While nothing failed, what has been handled   *)
(* and what the rest of the stream still holds make up the frames of the   *)
(* whole stream; after an error, everything ahead of it has been handled;  *)
(* after an exception, the connection is closed right behind the effect    *)
(* whose answer did not fit.                                               *)
(***************************************************************************)
Rest == Drain(buffer \o unread)

Shapes ==
  /\ transport \in {"socket", "in-process"}
  /\ input \in Seq(Byte) /\ unread \in Seq(Byte) /\ buffer \in Seq(Byte)
  /\ effects \in Values
  /\ raised \in BOOLEAN /\ open \in BOOLEAN

Live ==
  /\ ~server /\ ~decoder
  /\ Take(buffer).status = "wait"
  /\ Whole.values = effects \o Rest.values /\ Whole.status = Rest.status
  /\ output = Responses(effects)

Closed ==
  /\ server /\ (transport = "socket" => ~open)
  /\ effects = Whole.values
  /\ \E code : output = Append(Responses(effects), ErrorFrame(code))
  /\ Whole.status = "error" \/ (transport = "socket" /\ unread = << >>)

Broken ==
  /\ \E i \in DOMAIN effects : effects[i] \in Oversize
  /\ transport = "socket" =>
       /\ ~open
       /\ Last(effects) \in Oversize
       /\ IsPrefix(effects, Whole.values)
       /\ IsPrefix(output, Responses(effects))

FramingInv ==
  /\ Shapes
  /\ ~raised => Live \/ Closed
  /\ raised => Broken

LEMMA FramingInit == Init => FramingInv
<1> SUFFICES ASSUME Init  PROVE FramingInv
  OBVIOUS
<1>1. input \in Seq(Byte) /\ unread = input /\ buffer = << >> /\ effects = << >>
      /\ output = << >> /\ ~server /\ ~decoder /\ ~raised
  BY FramingAssumption DEF Init
<1>2. << >> \in Values /\ << >> \in Seq(Byte) /\ << >> \o input = input
  BY <1>1 DEF Values
<1>3. Shapes
  BY <1>1, <1>2 DEF Init, Shapes
<1>4. Take(<< >>).status = "wait"
  BY DEF Take, Wait, Taken
<1>5. Rest = Whole
  BY <1>1, <1>2 DEF Rest, Whole
<1>6. << >> \o Rest.values = Rest.values
  <2>1. Rest.values \in Values
    BY <1>1, <1>5, DrainsEnd DEF Whole, DrainEnds, Going
  <2> QED
    BY <2>1, ConcatEmptySeq DEF Values
<1>7. Responses(<< >>) = << >>
  BY DEF Responses
<1>8. Live
  BY <1>1, <1>4, <1>5, <1>6, <1>7 DEF Live
<1> QED
  BY <1>1, <1>3, <1>8 DEF FramingInv

\* What a chunk c makes of the buffer b of a server that has not failed.
FeedTo(b, c, fed) ==
  LET drained == Drain(b \o c)
      done    == Dispatch(drained.values)
  IN  IF drained.status # "error"
      THEN fed = Fed(drained.buffer, FALSE, done.raised, done.handled, done.output)
      ELSE fed = Fed(<< >>, TRUE, done.raised, done.handled,
                     Append(done.output, ErrorFrame(drained.code)))

Parts(b, c, u, fed) ==
  /\ fed.buffer \in Seq(Byte)
  /\ fed.raised \in BOOLEAN
  /\ fed.handled \in Values
  /\ ~fed.raised => 
       \/ /\ ~fed.server /\ ~fed.decoder /\ Take(fed.buffer).status = "wait"
          /\ fed.frames = Responses(fed.handled)
          /\ Drain(b \o (c \o u)).status = Drain(fed.buffer \o u).status
          /\ Drain(b \o (c \o u)).values = fed.handled \o Drain(fed.buffer \o u).values
       \/ /\ fed.server
          /\ \E code : fed.frames = Append(Responses(fed.handled), ErrorFrame(code))
          /\ Drain(b \o (c \o u)).status = "error"
          /\ Drain(b \o (c \o u)).values = fed.handled
  /\ fed.raised =>
       /\ fed.frames = << >>
       /\ fed.handled # << >> /\ fed.handled[Len(fed.handled)] \in Oversize
       /\ \E more \in Values : Drain(b \o (c \o u)).values = fed.handled \o more

LEMMA TogetherAgain ==
  ASSUME NEW a \in Values, NEW b \in Values, NEW c \in Values
  PROVE  (a \o b) \o c = a \o (b \o c) /\ a \o b \in Values
<1> PICK S : S = Seq(Byte)
  OBVIOUS
<1>1. a \in Seq(S) /\ b \in Seq(S) /\ c \in Seq(S)
  BY DEF Values
<1>2. (a \o b) \o c = a \o (b \o c)
  BY ONLY <1>1, ConcatAssociative, SMTT(60)
<1>3. a \o b \in Seq(S)
  BY ONLY <1>1, ConcatProperties
<1> QED
  BY <1>2, <1>3 DEF Values

LEMMA FeedParts ==
  ASSUME NEW b \in Seq(Byte), NEW c \in Seq(Byte), NEW u \in Seq(Byte),
         NEW fed, FeedTo(b, c, fed)
  PROVE  Parts(b, c, u, fed)
<1> PICK x : x = b \o c
  OBVIOUS
<1> PICK D : D = Drain(x)
  OBVIOUS
<1> PICK done : done = Dispatch(D.values)
  OBVIOUS
<1> PICK W : W = Drain(b \o (c \o u))
  OBVIOUS
<1>1. x \in Seq(Byte) /\ b \o (c \o u) = x \o u
  BY ConcatProperties, ConcatAssociative, SMTT(40)
<1>2. DrainEnds(D) /\ DrainsOn(x, u)
  BY <1>1, DrainsEnd, DrainMore
<1>3. D.values \in Values
  BY <1>2 DEF DrainEnds, Going
<1>4. Dispatched(D.values, done)
  BY <1>3, Dispatches
<1>5. \E more \in Values : W.values = D.values \o more
  <2>1. CASE D.status = "wait"
    <3> PICK R : R = Drain(D.buffer \o u)
      OBVIOUS
    <3>1. D.buffer \o u \in Seq(Byte)
      BY <1>2, <2>1, ConcatProperties DEF DrainEnds
    <3>2. DrainEnds(R)
      BY <3>1, DrainsEnd
    <3>3. W = With(D.values, R)
      BY <1>1, <1>2, <2>1 DEF DrainsOn
    <3> PICK V : V = D.values
      OBVIOUS
    <3>4. V \in Values /\ W = With(V, R)
      BY <1>3, <3>3
    <3>5. With(V, R).values = V \o R.values
      BY ONLY <3>2, <3>4, WithEnds
    <3>6. W.values = D.values \o R.values
      BY <3>4, <3>5
    <3> QED
      BY <3>2, <3>6 DEF DrainEnds, Going
  <2>2. CASE D.status = "error"
    <3>1. W.values = D.values
      BY <1>1, <1>2, <2>2 DEF DrainsOn
    <3>2. D.values \o << >> = D.values /\ << >> \in Values
      BY <1>3, ConcatEmptySeq DEF Values
    <3> QED
      BY <3>1, <3>2
  <2> QED
    BY <1>2, <2>1, <2>2 DEF DrainEnds
<1>6. fed.buffer \in Seq(Byte) /\ fed.raised = done.raised /\ fed.handled = done.handled
  <2>1. CASE D.status # "error"
    <3>1. fed = Fed(D.buffer, FALSE, done.raised, done.handled, done.output)
      BY <2>1 DEF FeedTo
    <3>2. D.buffer \in Seq(Byte)
      BY <1>2, <2>1 DEF DrainEnds
    <3> QED
      BY <3>1, <3>2 DEF Fed
  <2>2. CASE D.status = "error"
    <3>1. fed = Fed(<< >>, TRUE, done.raised, done.handled,
                    Append(done.output, ErrorFrame(D.code)))
      BY <2>2 DEF FeedTo
    <3>2. << >> \in Seq(Byte)
      OBVIOUS
    <3> QED
      BY <3>1, <3>2 DEF Fed
  <2> QED
    BY <2>1, <2>2
<1>7. CASE done.raised = FALSE
  <2>1. done.handled = D.values /\ done.output = Responses(D.values)
    BY <1>4, <1>7 DEF Dispatched
  <2>2. CASE D.status # "error"
    <3> PICK q : q = D.buffer
      OBVIOUS
    <3>1. D.status = "wait" /\ q \in Seq(Byte) /\ Take(q).status = "wait"
      BY <1>2, <2>2 DEF DrainEnds
    <3>2. fed = Fed(q, FALSE, FALSE, D.values, Responses(D.values))
      BY <1>7, <2>1, <2>2 DEF FeedTo
    <3>3. /\ ~fed.server /\ ~fed.decoder /\ fed.buffer = q
          /\ fed.frames = Responses(D.values) /\ fed.handled = D.values
          /\ fed.raised = FALSE
      BY <3>2 DEF Fed
    <3> PICK R : R = Drain(q \o u)
      OBVIOUS
    <3>4. DrainEnds(R)
      <4>1. q \o u \in Seq(Byte)
        BY <3>1, ConcatProperties
      <4> QED
        BY <4>1, DrainsEnd
    <3>5. W = With(D.values, R)
      BY <1>1, <1>2, <3>1 DEF DrainsOn
    <3> PICK V : V = D.values
      OBVIOUS
    <3>6. V \in Values /\ W = With(V, R)
      BY <1>3, <3>5
    <3>7. With(V, R).values = V \o R.values /\ With(V, R).status = R.status
      BY ONLY <3>4, <3>6, WithEnds
    <3>8. W.status = R.status /\ W.values = D.values \o R.values
      BY <3>6, <3>7
    <3> QED
      BY <1>3, <3>1, <3>3, <3>8 DEF Parts
  <2>3. CASE D.status = "error"
    <3>1. fed = Fed(<< >>, TRUE, FALSE, D.values,
                    Append(Responses(D.values), ErrorFrame(D.code)))
      BY <1>7, <2>1, <2>3 DEF FeedTo
    <3>2. /\ fed.server /\ fed.handled = D.values /\ fed.raised = FALSE
          /\ fed.frames = Append(Responses(D.values), ErrorFrame(D.code))
      BY <3>1 DEF Fed
    <3>3. W.status = "error" /\ W.values = D.values
      BY <1>1, <1>2, <2>3 DEF DrainsOn
    <3> QED
      BY <1>3, <1>6, <3>2, <3>3 DEF Parts
  <2> QED
    BY <2>2, <2>3
<1>8. CASE done.raised = TRUE
  <2> PICK V : V = D.values
    OBVIOUS
  <2>1. PICK k \in 1 .. Len(V) : V[k] \in Oversize /\ done.handled = SubSeq(V, 1, k)
    BY <1>4, <1>8 DEF Dispatched
  <2> PICK h : h = SubSeq(V, 1, k)
    OBVIOUS
  <2> PICK m : m = SubSeq(V, k + 1, Len(V))
    OBVIOUS
  <2>2. h \in Values /\ m \in Values /\ V = h \o m
    <3> PICK S : S = Seq(Byte)
      OBVIOUS
    <3>1. V \in Seq(S) /\ k \in 0 .. Len(V)
      BY <1>3, <2>1 DEF Values
    <3>2. /\ SubSeq(V, 1, k) \in Seq(S) /\ SubSeq(V, k + 1, Len(V)) \in Seq(S)
          /\ V = SubSeq(V, 1, k) \o SubSeq(V, k + 1, Len(V))
      BY ONLY <3>1, CutInTwo
    <3> QED
      BY <3>2 DEF Values
  <2>3. Len(h) = k /\ h[k] = V[k] /\ h # << >>
    <3>1. V \in Seq(Seq(Byte)) /\ k \in Nat /\ k <= Len(V) /\ 1 <= k + 1 /\ k >= 1
      BY <1>3, <2>1 DEF Values
    <3>2. Len(h) = k - 1 + 1 /\ \A i \in 1 .. k - 1 + 1 : h[i] = V[1 + i - 1]
      BY <3>1, PartOf
    <3>3. k - 1 + 1 = k /\ 1 + k - 1 = k /\ k \in 1 .. k
      BY <3>1
    <3>4. Len(h) = k /\ h[k] = V[k]
      BY <3>2, <3>3
    <3> PICK S : S = Seq(Byte)
      OBVIOUS
    <3>5. h \in Seq(S) /\ Len(h) # 0
      BY <2>2, <3>1, <3>4, <2>1, SMTT(40) DEF Values
    <3>6. h # << >>
      BY ONLY <3>5, NotEmpty
    <3> QED
      BY <3>4, <3>6
  <2>4. PICK n \in Values : W.values = V \o n
    BY <1>5
  <2>5. m \o n \in Values /\ W.values = h \o (m \o n)
    <3>1. h \in Values /\ m \in Values /\ n \in Values
      BY <2>2, <2>4
    <3>2. (h \o m) \o n = h \o (m \o n)
      BY ONLY <3>1, TogetherAgain, ZenonT(40)
    <3>3. m \o n \in Values
      BY ONLY <3>1, TogetherAgain
    <3> QED
      BY ONLY <2>2, <2>4, <3>2, <3>3
  <2>6. fed.frames = << >>
    <3>1. CASE D.status # "error"
      <4>1. fed = Fed(D.buffer, FALSE, TRUE, done.handled, done.output)
        BY <1>8, <3>1 DEF FeedTo
      <4> QED
        BY <4>1 DEF Fed
    <3>2. CASE D.status = "error"
      <4>1. fed = Fed(<< >>, TRUE, TRUE, done.handled,
                      Append(done.output, ErrorFrame(D.code)))
        BY <1>8, <3>2 DEF FeedTo
      <4> QED
        BY <4>1 DEF Fed
    <3> QED
      BY <3>1, <3>2
  <2>7. fed.handled = h /\ fed.raised = TRUE
    BY <1>6, <1>8, <2>1
  <2> QED
    BY <1>6, <2>1, <2>2, <2>3, <2>5, <2>6, <2>7 DEF Parts
<1> QED
  BY <1>4, <1>7, <1>8 DEF Dispatched

\* A part c of what is on its way arrives, u does not.
Arrives(c, u, fed) ==
  /\ c \in Seq(Byte) /\ u \in Seq(Byte)
  /\ unread = c \o u /\ unread' = u
  /\ fed = Feed(c)
  /\ open
  /\ buffer' = fed.buffer /\ decoder' = fed.decoder /\ server' = fed.server
  /\ open' = (transport = "in-process" \/ ~(fed.server \/ fed.raised))
  /\ raised' = (raised \/ fed.raised)
  /\ effects' = effects \o fed.handled
  /\ output' = output \o fed.frames
  /\ transport' = transport /\ input' = input

LEMMA ReceiveArrives ==
  ASSUME Shapes, Receive  PROVE \E c, u, fed : Arrives(c, u, fed)
<1> PICK un : un = unread
  OBVIOUS
<1>1. un \in Seq(Byte)
  BY DEF Shapes
<1>2. PICK n \in 1 .. Len(un) :
        /\ open
        /\ unread' = SubSeq(un, n + 1, Len(un))
        /\ buffer' = Feed(SubSeq(un, 1, n)).buffer
        /\ decoder' = Feed(SubSeq(un, 1, n)).decoder
        /\ server' = Feed(SubSeq(un, 1, n)).server
        /\ open' = (\/ transport = "in-process"
                    \/ ~(Feed(SubSeq(un, 1, n)).server \/ Feed(SubSeq(un, 1, n)).raised))
        /\ raised' = (raised \/ Feed(SubSeq(un, 1, n)).raised)
        /\ effects' = effects \o Feed(SubSeq(un, 1, n)).handled
        /\ output' = output \o Feed(SubSeq(un, 1, n)).frames
        /\ UNCHANGED << transport, input >>
  BY Zenon DEF Receive
<1>3. n \in 0 .. Len(un)
  OBVIOUS
<1>4. /\ SubSeq(un, 1, n) \in Seq(Byte) /\ SubSeq(un, n + 1, Len(un)) \in Seq(Byte)
      /\ un = SubSeq(un, 1, n) \o SubSeq(un, n + 1, Len(un))
  BY ONLY <1>1, <1>3, CutInTwo
<1>5. PICK c : c = SubSeq(un, 1, n)
  OBVIOUS
<1>6. Arrives(c, SubSeq(un, n + 1, Len(un)), Feed(c))
  BY <1>2, <1>4, <1>5 DEF Arrives
<1> QED
  BY <1>6

\* The shapes are kept whatever the chunk brings.
LEMMA ShapesKept ==
  ASSUME Shapes, NEW c, NEW u, NEW fed, Arrives(c, u, fed),
         fed.buffer \in Seq(Byte), fed.raised \in BOOLEAN, fed.handled \in Values
  PROVE  Shapes'
<1>1. effects \o fed.handled \in Values
  BY TogetherAgain DEF Shapes
<1> QED
  BY <1>1 DEF Shapes, Arrives

LEMMA LiveReceives ==
  ASSUME Shapes, Live, ~raised, NEW c, NEW u, NEW fed, Arrives(c, u, fed)
  PROVE  FramingInv'
<1> PICK b : b = buffer
  OBVIOUS
<1> PICK e : e = effects
  OBVIOUS
<1> PICK h : h = fed.handled
  OBVIOUS
<1> PICK W : W = Drain(b \o (c \o u))
  OBVIOUS
<1>1. /\ b \in Seq(Byte) /\ c \in Seq(Byte) /\ u \in Seq(Byte) /\ e \in Values
      /\ raised \in BOOLEAN /\ Rest = W
  BY DEF Shapes, Arrives, Rest
<1>2. FeedTo(b, c, fed)
  BY DEF Live, Arrives, Feed, FeedTo
<1>3. Parts(b, c, u, fed)
  BY ONLY <1>1, <1>2, FeedParts
<1>4. h \in Values /\ fed.raised \in BOOLEAN /\ fed.buffer \in Seq(Byte)
  BY <1>3 DEF Parts
<1>5. Shapes'
  BY <1>4, ShapesKept
<1>6. /\ Whole.values = e \o W.values /\ Whole.status = W.status
      /\ output = Responses(e) /\ Whole' = Whole /\ effects' = e \o h
      /\ raised' = fed.raised
  BY <1>1, <1>4 DEF Live, Arrives, Whole
<1>7. CASE ~fed.raised /\ ~fed.server
  <2> PICK R : R = Drain(fed.buffer \o u)
    OBVIOUS
  <2> PICK r : r = R.values
    OBVIOUS
  <2>1. /\ ~fed.decoder /\ Take(fed.buffer).status = "wait" /\ fed.frames = Responses(h)
        /\ W.status = R.status /\ W.values = h \o r
    BY <1>3, <1>7 DEF Parts
  <2>2. DrainEnds(R)
    <3>1. fed.buffer \o u \in Seq(Byte)
      BY <1>1, <1>4, ConcatProperties
    <3> QED
      BY <3>1, DrainsEnd
  <2>3. r \in Values
    BY <2>2 DEF DrainEnds, Going
  <2>4. (e \o h) \o r = e \o (h \o r)
    BY ONLY <1>1, <1>4, <2>3, TogetherAgain
  <2>5. Responses(e \o h) = Responses(e) \o Responses(h)
    BY ONLY <1>1, <1>4, ResponsesTogether
  <2>6. Rest' = R
    BY DEF Rest, Arrives
  <2>7. /\ buffer' = fed.buffer /\ server' = fed.server /\ decoder' = fed.decoder
        /\ output' = output \o fed.frames
    BY DEF Arrives
  <2>8. Live'
    BY <1>6, <1>7, <2>1, <2>4, <2>5, <2>6, <2>7 DEF Live
  <2> QED
    BY <1>5, <1>6, <1>7, <2>8 DEF FramingInv
<1>8. CASE ~fed.raised /\ fed.server
  <2>1. PICK code : fed.frames = Append(Responses(h), ErrorFrame(code))
    BY <1>3, <1>8 DEF Parts
  <2>2. W.status = "error" /\ W.values = h
    BY <1>3, <1>8 DEF Parts
  <2> PICK f : f = ErrorFrame(code)
    OBVIOUS
  <2>3. Responses(e) \o Append(Responses(h), f) = Append(Responses(e \o h), f)
    BY ONLY <1>1, <1>4, ErrorBehind
  <2>4. output' = Append(Responses(e \o h), ErrorFrame(code))
    BY <1>6, <2>1, <2>3 DEF Arrives
  <2>5. server' /\ (transport' = "socket" => ~open')
    BY <1>8 DEF Arrives
  <2>6. Closed'
    BY <1>6, <2>2, <2>4, <2>5 DEF Closed
  <2> QED
    BY <1>5, <1>6, <1>8, <2>6 DEF FramingInv
<1>9. CASE fed.raised
  <2>1. /\ fed.frames = << >> /\ h # << >> /\ h[Len(h)] \in Oversize
        /\ \E more \in Values : W.values = h \o more
    BY <1>3, <1>9 DEF Parts
  <2>2. PICK more \in Values : W.values = h \o more
    BY <2>1
  <2>3. /\ Len(e \o h) = Len(e) + Len(h) /\ Len(h) \in Nat \ {0} /\ Len(e) \in Nat
        /\ (e \o h)[Len(e \o h)] = h[Len(h)]
    BY <1>1, <1>4, <2>1, SMTT(40) DEF Values
  <2>4. Len(e \o h) \in DOMAIN (e \o h)
    BY <1>1, <1>4, <2>3 DEF Values
  <2>5. Last(e \o h) \in Oversize
    BY <2>1, <2>3 DEF Last
  <2>6. (e \o h) \o more = e \o (h \o more) /\ e \o h \in Values
    BY ONLY <1>1, <1>4, TogetherAgain
  <2>7. IsPrefix(e \o h, (e \o h) \o more)
    <3> PICK S : S = Seq(Byte)
      OBVIOUS
    <3> PICK t : t = e \o h
      OBVIOUS
    <3>1. t \in Seq(S) /\ more \in Seq(S)
      BY <2>6 DEF Values
    <3>2. IsPrefix(t, t \o more)
      BY ONLY <3>1, PrefixOfMore
    <3> QED
      BY <3>2
  <2>8. IsPrefix(Responses(e), Responses(e \o h))
    <3> PICK x : x = Responses(e)
      OBVIOUS
    <3> PICK y : y = Responses(h)
      OBVIOUS
    <3>1. x \in Seq(Answers) /\ y \in Seq(Answers)
      BY <1>1, <1>4, ResponsesOf
    <3>2. IsPrefix(x, x \o y)
      BY ONLY <3>1, PrefixOfMore
    <3>3. Responses(e \o h) = x \o y
      BY <1>1, <1>4, ResponsesTogether
    <3> QED
      BY <3>2, <3>3
  <2>9. output' = Responses(e)
    <3>1. Responses(e) \o << >> = Responses(e)
      BY <1>1, ResponsesOf, ConcatEmptySeq
    <3> QED
      BY <1>6, <2>1, <3>1 DEF Arrives
  <2>10. transport' = "socket" => ~open'
    BY <1>9 DEF Arrives
  <2>11. Broken'
    <3>1. \E i \in DOMAIN (e \o h) : (e \o h)[i] \in Oversize
      BY <2>1, <2>3, <2>4
    <3>2. IsPrefix(e \o h, Whole.values)
      BY <1>6, <2>2, <2>6, <2>7
    <3> QED
      BY <1>6, <2>5, <2>8, <2>9, <2>10, <3>1, <3>2 DEF Broken
  <2> QED
    BY <1>5, <1>6, <1>9, <2>11 DEF FramingInv
<1> QED
  BY <1>4, <1>7, <1>8, <1>9

\* A server that has failed takes nothing more in.
LEMMA ClosedReceives ==
  ASSUME Shapes, Closed, ~raised, NEW c, NEW u, NEW fed, Arrives(c, u, fed)
  PROVE  FramingInv'
<1> PICK e : e = effects
  OBVIOUS
<1>1. fed = Fed(buffer, TRUE, FALSE, << >>, << >>)
  BY DEF Closed, Arrives, Feed
<1>2. /\ fed.buffer = buffer /\ fed.decoder = TRUE /\ fed.server = TRUE
      /\ fed.raised = FALSE /\ fed.handled = << >> /\ fed.frames = << >>
  BY <1>1 DEF Fed
<1>3. << >> \in Values /\ e \in Values /\ buffer \in Seq(Byte)
  BY DEF Values, Shapes
<1>4. Shapes'
  <2>1. fed.buffer \in Seq(Byte) /\ fed.raised \in BOOLEAN /\ fed.handled \in Values
    BY <1>2, <1>3
  <2> QED
    BY <2>1, ShapesKept
<1>5. PICK code : output = Append(Responses(e), ErrorFrame(code))
  BY DEF Closed
<1>6. output \o << >> = output
  <2> PICK f : f = ErrorFrame(code)
    OBVIOUS
  <2> PICK S : S = Answers \cup {f}
    OBVIOUS
  <2>1. Responses(e) \in Seq(Answers)
    BY <1>3, ResponsesOf
  <2>2. output \in Seq(S)
    BY <1>5, <2>1
  <2> QED
    BY <2>2, ConcatEmptySeq
<1>7. e \o << >> = e
  BY <1>3, ConcatEmptySeq DEF Values
<1>8. /\ effects' = e /\ output' = output /\ server' = TRUE /\ raised' = FALSE
      /\ transport' = transport /\ Whole' = Whole
      /\ transport # "socket"
  BY <1>2, <1>6, <1>7 DEF Arrives, Closed, Whole
<1>9. Closed'
  BY <1>5, <1>8 DEF Closed
<1> QED
  BY <1>4, <1>8, <1>9 DEF FramingInv

\* Only a caller in process goes on after an exception.
LEMMA BrokenReceives ==
  ASSUME Shapes, Broken, raised, NEW c, NEW u, NEW fed, Arrives(c, u, fed)
  PROVE  FramingInv'
<1> PICK b : b = buffer
  OBVIOUS
<1> PICK e : e = effects
  OBVIOUS
<1> PICK h : h = fed.handled
  OBVIOUS
<1>1. /\ b \in Seq(Byte) /\ c \in Seq(Byte) /\ u \in Seq(Byte) /\ e \in Values
      /\ << >> \in Values
  BY DEF Shapes, Arrives, Values
<1>2. fed.buffer \in Seq(Byte) /\ fed.raised \in BOOLEAN /\ h \in Values
  <2>1. CASE server
    <3>1. fed = Fed(b, TRUE, FALSE, << >>, << >>)
      BY <2>1 DEF Arrives, Feed
    <3> QED
      BY <1>1, <3>1 DEF Fed
  <2>2. CASE ~server /\ decoder
    <3>1. fed = Fed(b, TRUE, FALSE, << >>, << ErrorFrame("framing-failed") >>)
      BY <2>2 DEF Arrives, Feed
    <3> QED
      BY <1>1, <3>1 DEF Fed
  <2>3. CASE ~server /\ ~decoder
    <3>1. FeedTo(b, c, fed)
      BY <2>3 DEF Arrives, Feed, FeedTo
    <3>2. Parts(b, c, u, fed)
      BY ONLY <1>1, <3>1, FeedParts
    <3> QED
      BY <3>2 DEF Parts
  <2> QED
    BY <2>1, <2>2, <2>3
<1>3. Shapes'
  BY <1>2, ShapesKept
<1>4. effects' = e \o h /\ raised' = TRUE /\ transport' # "socket"
  BY DEF Arrives, Broken, Shapes
<1>5. PICK i \in DOMAIN e : e[i] \in Oversize
  BY DEF Broken
<1>6. i \in DOMAIN (e \o h) /\ (e \o h)[i] = e[i]
  BY <1>1, <1>2, <1>5 DEF Values
<1>7. Broken'
  BY <1>4, <1>5, <1>6 DEF Broken
<1> QED
  BY <1>3, <1>4, <1>7 DEF FramingInv

\* The peer has closed a connection that nothing failed on.
LEMMA LiveFinishes ==
  ASSUME Shapes, Live, ~raised, Finish  PROVE FramingInv'
<1> PICK b : b = buffer
  OBVIOUS
<1> PICK e : e = effects
  OBVIOUS
<1>1. /\ b \in Seq(Byte) /\ e \in Values /\ unread = << >> /\ Take(b).status = "wait"
      /\ << >> \in Values
  BY DEF Shapes, Finish, Live, Values
<1>2. Shapes'
  BY DEF Shapes, Finish
<1>3. Rest = Drain(b) /\ b \o << >> = b
  BY <1>1, ConcatEmptySeq DEF Rest
<1>4. Rest.values = << >> /\ Rest.status = "wait"
  <2> PICK n : n = Take(b)
    OBVIOUS
  <2>1. n.status # "value" /\ n.status = "wait"
    BY <1>1
  <2>2. Drain(b) = Drained(n.status, n.code, << >>, n.buffer)
    BY <1>1, <2>1, DrainTakes
  <2> QED
    BY <1>3, <2>1, <2>2 DEF Drained
<1>5. Whole.values = e
  <2>1. e \o << >> = e
    BY <1>1, ConcatEmptySeq DEF Values
  <2> QED
    BY <1>4, <2>1 DEF Live
<1>6. /\ effects' = e /\ raised' = FALSE /\ Whole' = Whole /\ unread' = << >>
      /\ transport' = "socket" /\ ~open' /\ output = Responses(e)
      /\ Whole.status = "wait"
  BY <1>1, <1>4 DEF Finish, Live, Whole
<1>7. CASE b = << >>
  <2>1. buffer' = b /\ ~server' /\ ~decoder' /\ output' = output /\ Rest' = Rest
    BY <1>1, <1>7 DEF Finish, Rest
  <2>2. Live'
    BY <1>6, <2>1 DEF Live
  <2> QED
    BY <1>2, <1>6, <2>2 DEF FramingInv
<1>8. CASE b # << >>
  <2>1. server' /\ output' = Append(output, ErrorFrame("frame-truncated"))
    BY <1>8 DEF Finish
  <2>2. Closed'
    BY <1>5, <1>6, <2>1 DEF Closed
  <2> QED
    BY <1>2, <1>6, <2>2 DEF FramingInv
<1> QED
  BY <1>7, <1>8

LEMMA FramingStep == FramingInv /\ [Next]_vars => FramingInv'
<1> SUFFICES ASSUME FramingInv, [Next]_vars  PROVE FramingInv'
  OBVIOUS
<1>1. Shapes /\ (~raised => Live \/ Closed) /\ (raised => Broken)
  BY DEF FramingInv
<1>2. CASE Receive
  <2>1. PICK c, u, fed : Arrives(c, u, fed)
    BY <1>1, <1>2, ReceiveArrives
  <2>2. CASE ~raised /\ Live
    BY <1>1, <2>1, <2>2, LiveReceives
  <2>3. CASE ~raised /\ Closed
    BY <1>1, <2>1, <2>3, ClosedReceives
  <2>4. CASE raised
    BY <1>1, <2>1, <2>4, BrokenReceives
  <2> QED
    BY <1>1, <2>2, <2>3, <2>4
<1>3. CASE Finish
  <2>1. ~raised /\ Live
    BY <1>1, <1>3 DEF Finish, Closed, Broken
  <2> QED
    BY <1>1, <1>3, <2>1, LiveFinishes
<1>4. CASE UNCHANGED vars
  <2>1. Shapes' = Shapes /\ Live' = Live /\ Closed' = Closed /\ Broken' = Broken
    BY <1>4 DEF vars, Shapes, Live, Closed, Broken, Rest, Whole
  <2> QED
    BY <1>1, <1>4, <2>1 DEF FramingInv, vars
<1> QED
  BY <1>2, <1>3, <1>4 DEF Next

-------------------------------------------------------------------------------
(***************************************************************************)
(* The two properties.                                                     *)
(***************************************************************************)

\* When all of a stream has arrived and nothing failed, nothing is left.
LEMMA NothingLeft ==
  ASSUME Shapes, Live, unread = << >>
  PROVE  effects = Whole.values
<1> PICK b : b = buffer
  OBVIOUS
<1> PICK e : e = effects
  OBVIOUS
<1>1. b \in Seq(Byte) /\ e \in Values /\ Take(b).status = "wait"
  BY DEF Shapes, Live
<1>2. Rest = Drain(b)
  BY <1>1, ConcatEmptySeq DEF Rest
<1>3. Rest.values = << >>
  <2> PICK n : n = Take(b)
    OBVIOUS
  <2>1. n.status # "value"
    BY <1>1
  <2>2. Drain(b) = Drained(n.status, n.code, << >>, n.buffer)
    BY <1>1, <2>1, DrainTakes
  <2> QED
    BY <1>2, <2>2 DEF Drained
<1>4. e \o << >> = e
  BY <1>1, ConcatEmptySeq DEF Values
<1> QED
  BY <1>3, <1>4 DEF Live

LEMMA PrefixOfItself ==
  ASSUME NEW S, NEW s \in Seq(S)  PROVE IsPrefix(s, s)
<1>1. << >> \in Seq(S) /\ s \o << >> = s
  BY ConcatEmptySeq
<1>2. IsPrefix(s, s \o << >>)
  BY ONLY <1>1, PrefixOfMore
<1> QED
  BY <1>1, <1>2

LEMMA EffectsFollow == FramingInv => EffectsIndependentOfChunks
<1> SUFFICES ASSUME FramingInv  PROVE EffectsIndependentOfChunks
  OBVIOUS
<1>1. Shapes /\ (~raised => Live \/ Closed) /\ (raised => Broken)
  BY DEF FramingInv
<1> PICK S : S = Seq(Byte)
  OBVIOUS
<1> PICK e : e = effects
  OBVIOUS
<1>2. e \in Seq(S)
  BY <1>1 DEF Shapes, Values
<1>3. raised => \E i \in DOMAIN effects : effects[i] \in Oversize
  BY <1>1 DEF Broken
<1>4. raised /\ transport = "socket" =>
        Last(effects) \in Oversize /\ IsPrefix(effects, Whole.values)
  BY <1>1 DEF Broken
<1>5. ~raised => IsPrefix(effects, Whole.values)
  <2>1. CASE Live
    <3> PICK r : r = Rest.values
      OBVIOUS
    <3>1. r \in Seq(S)
      <4>1. buffer \o unread \in Seq(Byte)
        BY <1>1, ConcatProperties DEF Shapes
      <4>2. DrainEnds(Rest)
        BY <4>1, DrainsEnd DEF Rest
      <4> QED
        BY <4>2 DEF DrainEnds, Going, Values
    <3>2. IsPrefix(e, e \o r)
      BY ONLY <1>2, <3>1, PrefixOfMore
    <3> QED
      BY <2>1, <3>2 DEF Live
  <2>2. CASE Closed
    <3>1. IsPrefix(e, e)
      BY ONLY <1>2, PrefixOfItself
    <3> QED
      BY <2>2, <3>1 DEF Closed
  <2> QED
    BY <1>1, <2>1, <2>2
<1>6. Ended /\ ~raised => effects = Whole.values
  <2>1. Live /\ unread = << >> => effects = Whole.values
    BY <1>1, NothingLeft
  <2> QED
    BY <1>1, <2>1 DEF Ended, Closed
<1> QED
  BY <1>3, <1>4, <1>5, <1>6 DEF EffectsIndependentOfChunks

LEMMA AnswersFollow == FramingInv => AnswersInOrder
<1> SUFFICES ASSUME FramingInv  PROVE AnswersInOrder
  OBVIOUS
<1>1. Shapes /\ (~raised => Live \/ Closed) /\ (raised => Broken)
  BY DEF FramingInv
<1> PICK a : a = Responses(effects)
  OBVIOUS
<1>2. a \in Seq(Answers)
  BY <1>1, ResponsesOf DEF Shapes
<1>3. CASE raised
  BY <1>1, <1>3 DEF Broken, AnswersInOrder
<1>4. CASE ~raised /\ Live
  <2>1. output = a
    BY <1>4 DEF Live
  <2>2. IsPrefix(a, a)
    BY ONLY <1>2, PrefixOfItself
  <2>3. Len(a) \in Nat
    BY <1>2
  <2>4. Len(a) <= Len(a) + 1 /\ Len(a) # Len(a) + 1
    BY <2>3
  <2> QED
    BY <1>4, <2>1, <2>2, <2>4 DEF AnswersInOrder
<1>5. CASE ~raised /\ Closed
  <2>1. PICK code : output = Append(a, ErrorFrame(code))
    BY <1>5 DEF Closed
  <2> PICK f : f = ErrorFrame(code)
    OBVIOUS
  <2> PICK S : S = Answers \cup {f}
    OBVIOUS
  <2>2. a \in Seq(S) /\ << f >> \in Seq(S) /\ f \in S
    BY <1>2
  <2>3. output = a \o << f >> /\ Len(output) = Len(a) + 1 /\ Len(a) \in Nat
    BY <2>1, <2>2, AppendIsConcat
  <2>4. IsPrefix(a, a \o << f >>)
    BY ONLY <2>2, PrefixOfMore
  <2>5. Last(output) = f
    <3>1. output[Len(a) + 1] = f
      BY <2>1, <2>2
    <3> QED
      BY <2>3, <3>1 DEF Last
  <2>6. f.kind = "error"
    BY DEF ErrorFrame
  <2>7. server /\ (Whole.status = "error" \/ (transport = "socket" /\ unread = << >>))
    BY <1>5 DEF Closed
  <2>8. IsPrefix(a, output) /\ Len(output) <= Len(a) + 1
    BY <2>3, <2>4
  <2> QED
    BY <1>5, <2>5, <2>6, <2>7, <2>8 DEF AnswersInOrder
<1> QED
  BY <1>1, <1>3, <1>4, <1>5

LEMMA FramingInvariant == Spec => []FramingInv
<1>1. Init => FramingInv
  BY FramingInit
<1>2. FramingInv /\ [Next]_vars => FramingInv'
  BY FramingStep
<1> QED
  BY <1>1, <1>2, PTL DEF Spec

\* "Chunk boundaries cannot change ... effects" (uap.md): for every stream,
\* however the transport cuts it, the endpoint handles a prefix of the
\* frames of the whole stream, and by the end all of them (FrameDecoder.feed
\* and FramedServer.feed).
THEOREM ChunksDoNotMatter == Spec => []EffectsIndependentOfChunks
<1>1. FramingInv => EffectsIndependentOfChunks
  BY EffectsFollow
<1> QED
  BY <1>1, FramingInvariant, PTL

\* The frames a server sends are the answers to the values it handled, in
\* their order, and behind them one error at most (FramedServer.feed,
\* serve_socket).
THEOREM AnswersAreInOrder == Spec => []AnswersInOrder
<1>1. FramingInv => AnswersInOrder
  BY AnswersFollow
<1> QED
  BY <1>1, FramingInvariant, PTL
===============================================================================
