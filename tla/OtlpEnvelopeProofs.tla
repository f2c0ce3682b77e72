------------------------- MODULE OtlpEnvelopeProofs ------------------------
(***************************************************************************)
(* Proofs about OtlpEnvelope and OtlpProto, for records, resources and     *)
(* scopes of any length: sizeFor predicts the length of what assemble      *)
(* builds.                                                                 *)
(***************************************************************************)
EXTENDS OtlpEnvelope, SequenceFacts

-----------------------------------------------------------------------------
(***************************************************************************)
(* Powers of two.  The provers do not know exponentiation; the number of   *)
(* subsets of a finite set does.                                           *)
(***************************************************************************)
LEMMA SubsetsOfInterval ==
  ASSUME NEW n \in Nat
  PROVE  IsFiniteSet(SUBSET (1..n)) /\ Cardinality(SUBSET (1..n)) = 2^n
<1>1. IsFiniteSet(1..n) /\ Cardinality(1..n) = n
  BY FS_Interval
<1>2. IsFiniteSet(SUBSET (1..n)) /\ Cardinality(SUBSET (1..n)) = 2^Cardinality(1..n)
  BY <1>1, FS_SUBSET, Zenon
<1> QED
  BY <1>1, <1>2, Zenon

LEMMA PowerDoubles ==
  ASSUME NEW n \in Nat
  PROVE  2^n \in Nat /\ 2^(n + 1) = 2^n + 2^n
<1> DEFINE A == SUBSET (1..n)
           B == {X \cup {n + 1} : X \in A}
<1>1. IsFiniteSet(A) /\ Cardinality(A) = 2^n /\ 2^n \in Nat
  BY SubsetsOfInterval, FS_CardinalityType
<1>2. Cardinality(SUBSET (1..(n + 1))) = 2^(n + 1)
  BY SubsetsOfInterval
<1>3. \A X \in A : n + 1 \notin X
  OBVIOUS
<1>4. SUBSET (1..(n + 1)) = A \cup B
  <2>1. ASSUME NEW X \in SUBSET (1..(n + 1)) PROVE X \in A \cup B
    <3>1. CASE n + 1 \in X
      <4>1. X \ {n + 1} \in A
        OBVIOUS
      <4>2. X = (X \ {n + 1}) \cup {n + 1}
        BY <3>1
      <4> QED
        BY <4>1, <4>2
    <3>2. CASE n + 1 \notin X
      BY <3>2
    <3> QED
      BY <3>1, <3>2
  <2>2. 1..n \subseteq 1..(n + 1) /\ n + 1 \in 1..(n + 1)
    OBVIOUS
  <2> QED
    BY <2>1, <2>2
<1>5. A \cap B = {}
  BY <1>3
<1>6. IsFiniteSet(B) /\ Cardinality(B) = Cardinality(A)
  <2> DEFINE f == [X \in A |-> X \cup {n + 1}]
  <2>1. f \in Bijection(A, B)
    <3>1. f \in [A -> B]
      OBVIOUS
    <3>2. \A X, Y \in A : f[X] = f[Y] => X = Y
      BY <1>3
    <3>3. \A Y \in B : \E X \in A : f[X] = Y
      OBVIOUS
    <3> QED
      BY <3>1, <3>2, <3>3 DEF Bijection, Injection, Surjection, IsInjective
  <2> QED
    BY <1>1, <2>1, FS_Bijection DEF ExistsBijection
<1>7. Cardinality(A \cup B) = Cardinality(A) + Cardinality(B) - Cardinality(A \cap B)
  BY <1>1, <1>6, FS_Union
<1>8. Cardinality(A \cap B) = 0
  BY <1>5, FS_EmptySet
<1>9. 2^(n + 1) = Cardinality(A \cup B)
  BY <1>2, <1>4, Zenon
<1> HIDE DEF A, B
<1>10. PICK p \in Nat : p = 2^n
  BY <1>1
<1>11. 2^(n + 1) = p + p - 0
  BY <1>1, <1>6, <1>7, <1>8, <1>9, <1>10, Zenon
<1>12. p + p - 0 = p + p
  OBVIOUS
<1> QED
  BY <1>10, <1>11, <1>12, Zenon

LEMMA PowerGrows ==
  ASSUME NEW m \in Nat, NEW n \in Nat, m <= n
  PROVE  2^m <= 2^n
<1> DEFINE S == {k \in Nat : 2^m <= 2^(m + k)}
<1>1. 0 \in S
  BY PowerDoubles
<1>2. ASSUME NEW k \in Nat, k \in S PROVE k + 1 \in S
  <2>1. 2^(m + k) \in Nat /\ 2^((m + k) + 1) = 2^(m + k) + 2^(m + k)
    BY PowerDoubles
  <2>2. m + (k + 1) = (m + k) + 1
    OBVIOUS
  <2>3. 2^m \in Nat
    BY PowerDoubles
  <2> QED
    BY <1>2, <2>1, <2>2, <2>3
<1> HIDE DEF S
<1>3. n - m \in S
  BY <1>1, <1>2, NatSetInduction
<1> QED
  BY <1>3 DEF S

LEMMA PowerExceeds ==
  ASSUME NEW n \in Nat
  PROVE  n < 2^n
<1> DEFINE S == {k \in Nat : k < 2^k}
<1>1. 0 \in S
  <2>1. 2^0 = 1
    OBVIOUS
  <2> QED
    BY <2>1
<1>2. ASSUME NEW k \in Nat, k \in S PROVE k + 1 \in S
  BY <1>2, PowerDoubles
<1> HIDE DEF S
<1>3. n \in S
  BY <1>1, <1>2, NatSetInduction
<1> QED
  BY <1>3 DEF S

LEMMA PowerOfSeven ==
  ASSUME NEW n \in Nat
  PROVE  2^(n + 7) = 128 * 2^n
<1>1. \A k \in Nat : 2^k \in Nat /\ 2^(k + 1) = 2^k + 2^k
  BY PowerDoubles
<1>2. 2^(n + 1) = 2^n + 2^n
  BY <1>1
<1>3. 2^((n + 1) + 1) = 2^(n + 1) + 2^(n + 1) /\ (n + 1) + 1 = n + 2
  BY <1>1
<1>4. 2^((n + 2) + 1) = 2^(n + 2) + 2^(n + 2) /\ (n + 2) + 1 = n + 3
  BY <1>1
<1>5. 2^((n + 3) + 1) = 2^(n + 3) + 2^(n + 3) /\ (n + 3) + 1 = n + 4
  BY <1>1
<1>6. 2^((n + 4) + 1) = 2^(n + 4) + 2^(n + 4) /\ (n + 4) + 1 = n + 5
  BY <1>1
<1>7. 2^((n + 5) + 1) = 2^(n + 5) + 2^(n + 5) /\ (n + 5) + 1 = n + 6
  BY <1>1
<1>8. 2^((n + 6) + 1) = 2^(n + 6) + 2^(n + 6) /\ (n + 6) + 1 = n + 7
  BY <1>1
<1> QED
  BY <1>1, <1>2, <1>3, <1>4, <1>5, <1>6, <1>7, <1>8

-----------------------------------------------------------------------------
(***************************************************************************)
(* The length of a varint.                                                 *)
(***************************************************************************)
LEMMA HighestBit ==
  ASSUME NEW v \in Nat \ {0}
  PROVE  \E k \in Nat : 2^k <= v /\ v < 2^(k + 1) /\ (v < 2^LenBits => k < LenBits)
<1> DEFINE T == {m \in Nat : v < 2^m}
<1>1. v \in T /\ T \subseteq Nat
  BY PowerExceeds
<1>2. PICK m \in T : \A j \in T : m <= j
  BY <1>1, LeastNumber
<1>3. m # 0
  <2> SUFFICES ASSUME m = 0 PROVE FALSE
    OBVIOUS
  <2>1. v < 2^0 /\ 2^0 = 1
    OBVIOUS
  <2> QED
    BY <2>1
<1>4. m - 1 \in Nat /\ (m - 1) + 1 = m /\ m - 1 \notin T
  BY <1>2, <1>3
<1>5. 2^(m - 1) <= v /\ v < 2^m
  <2>1. 2^(m - 1) \in Nat
    BY <1>4, PowerDoubles
  <2> QED
    BY <1>4, <2>1
<1>6. v < 2^LenBits => m - 1 < LenBits
  <2> SUFFICES ASSUME v < 2^LenBits PROVE m - 1 < LenBits
    OBVIOUS
  <2>1. LenBits \in T
    BY LenBitsAssumption
  <2> QED
    BY <1>2, <1>4, <2>1
<1> QED
  BY <1>4, <1>5, <1>6

LEMMA Bits ==
  ASSUME NEW v \in Nat, NEW k \in Nat, 2^k <= v, v < 2^(k + 1), k < LenBits
  PROVE  Len64(v) = k + 1
<1>1. LenBits \in Nat
  BY LenBitsAssumption
<1>2. ASSUME NEW n \in 0..(LenBits - 1) PROVE 2^n <= v <=> n <= k
  <2>1. n \in Nat /\ 2^n \in Nat /\ 2^k \in Nat /\ 2^(k + 1) \in Nat
    BY <1>1, PowerDoubles
  <2>2. CASE n <= k
    BY <2>1, <2>2, PowerGrows
  <2>3. CASE n > k
    <3>1. k + 1 <= n
      BY <2>1, <2>3
    <3>2. 2^(k + 1) <= 2^n
      BY <2>1, <3>1, PowerGrows
    <3> QED
      BY <2>1, <2>3, <3>2
  <2> QED
    BY <2>1, <2>2, <2>3
<1>3. {n \in 0..(LenBits - 1) : 2^n <= v} = 0..k
  BY <1>1, <1>2
<1>4. Cardinality(0..k) = k + 1
  BY FS_Interval
<1> QED
  BY <1>3, <1>4 DEF Len64

LEMMA UvarintLenShort ==
  ASSUME NEW v \in Nat, v < 128, v < 2^LenBits
  PROVE  uvarintLen(v) = 1
<1> DEFINE w == IF v = 0 THEN 1 ELSE v
<1>1. w \in Nat \ {0} /\ w < 128
  OBVIOUS
<1>2. w < 2^LenBits
  BY LenBitsAssumption, PowerExceeds
<1> HIDE DEF w
<1>3. PICK k \in Nat : 2^k <= w /\ w < 2^(k + 1) /\ k < LenBits
  BY <1>1, <1>2, HighestBit
<1>4. k < 7
  <2> SUFFICES ASSUME k >= 7 PROVE FALSE
    OBVIOUS
  <2>1. 2^(0 + 7) = 128 * 2^0 /\ 2^0 = 1 /\ 0 + 7 = 7
    BY PowerOfSeven
  <2>2. 2^7 <= 2^k /\ 2^k \in Nat
    BY PowerGrows, PowerDoubles
  <2> QED
    BY <1>1, <1>3, <2>1, <2>2
<1>5. Len64(w) = k + 1
  BY <1>1, <1>3, Bits
<1>6. uvarintLen(v) = ((k + 1) + 6) \div 7
  BY <1>5 DEF uvarintLen, w
<1> QED
  BY <1>4, <1>6

LEMMA UvarintLenLong ==
  ASSUME NEW v \in Nat, v >= 128, v < 2^LenBits
  PROVE  uvarintLen(v) = 1 + uvarintLen(v \div 128)
<1>1. PICK k \in Nat : 2^k <= v /\ v < 2^(k + 1) /\ k < LenBits
  BY HighestBit
<1>2. k >= 7
  <2> SUFFICES ASSUME k + 1 <= 7 PROVE FALSE
    OBVIOUS
  <2>1. 2^(0 + 7) = 128 * 2^0 /\ 2^0 = 1 /\ 0 + 7 = 7
    BY PowerOfSeven
  <2>2. k + 1 \in Nat /\ 7 \in Nat
    OBVIOUS
  <2>3. 2^(k + 1) <= 2^7 /\ 2^(k + 1) \in Nat
    BY <2>2, PowerGrows, PowerDoubles, Zenon
  <2> QED
    BY <1>1, <2>1, <2>3
<1>3. PICK j \in Nat : j + 7 = k
  <2>1. k - 7 \in Nat /\ (k - 7) + 7 = k
    BY <1>2
  <2> QED
    BY <2>1
<1>4. PICK p \in Nat : p = 2^j /\ 2^(j + 1) = 2 * p
  BY PowerDoubles
<1>5. 2^k = 128 * p /\ 2^(k + 1) = 128 * (2 * p)
  <2>1. (j + 1) + 7 = k + 1
    BY <1>3
  <2>2. 2^(j + 7) = 128 * 2^j /\ 2^((j + 1) + 7) = 128 * 2^(j + 1)
    BY PowerOfSeven
  <2>3. 2^k = 128 * 2^j
    BY <1>3, <2>2, Zenon
  <2>4. 2^(k + 1) = 128 * 2^(j + 1)
    BY <2>1, <2>2, Zenon
  <2> QED
    BY <1>4, <2>3, <2>4, Zenon
<1>6. PICK q \in Nat : q = v \div 128
  OBVIOUS
<1>7. p <= q /\ q < 2 * p
  BY <1>1, <1>4, <1>5, <1>6
<1>8. Len64(v) = k + 1
  BY <1>1, Bits
<1>9. Len64(q) = j + 1
  BY <1>1, <1>3, <1>4, <1>7, LenBitsAssumption, Bits
<1>10. q # 0 /\ v # 0
  <2>1. q >= 1
    BY <1>6
  <2> QED
    BY <2>1
<1>11. uvarintLen(v) = ((j + 8) + 6) \div 7
  <2>1. k + 1 = j + 8
    BY <1>3
  <2> QED
    BY <1>8, <1>10, <2>1, Zenon DEF uvarintLen
<1>12. uvarintLen(q) = ((j + 1) + 6) \div 7
  BY <1>9, <1>10 DEF uvarintLen
<1>13. ((j + 8) + 6) \div 7 = 1 + ((j + 1) + 6) \div 7
  OBVIOUS
<1> QED
  BY <1>6, <1>11, <1>12, <1>13

\* The bytes of v, given by f those of the numbers below it.
UvarintBytes(f, v) == IF v >= 128 THEN <<(v % 128) + 128>> \o f[v \div 128] ELSE <<v>>

\* f has the bytes of the numbers up to n.
Writes(f, n) == f = [v \in 0..n |-> UvarintBytes(f, v)]

LEMMA BytesKept ==
  ASSUME NEW v \in Nat, NEW f, NEW g, v >= 128 => f[v \div 128] = g[v \div 128]
  PROVE  UvarintBytes(f, v) = UvarintBytes(g, v)
  BY DEF UvarintBytes

LEMMA WritesExist ==
  ASSUME NEW n \in Nat
  PROVE  \E f : Writes(f, n)
<1> DEFINE S == {m \in Nat : \E f : Writes(f, m)}
<1>1. 0 \in S
  <2> DEFINE f == [v \in 0..0 |-> <<v>>]
  <2>1. \A v \in 0..0 : f[v] = UvarintBytes(f, v)
    BY DEF UvarintBytes
  <2>2. Writes(f, 0)
    BY <2>1 DEF Writes
  <2> QED
    BY <2>2
<1>2. ASSUME NEW m \in Nat, m \in S PROVE m + 1 \in S
  <2>1. PICK f : Writes(f, m)
    BY <1>2
  <2> DEFINE g == [v \in 0..(m + 1) |-> IF v = m + 1 THEN UvarintBytes(f, v) ELSE f[v]]
  <2>2. \A v \in 0..m : g[v] = f[v] /\ f[v] = UvarintBytes(f, v)
    BY <2>1 DEF Writes
  <2>3. g[m + 1] = UvarintBytes(f, m + 1)
    OBVIOUS
  <2>4. \A v \in 0..(m + 1) : v >= 128 => v \div 128 \in 0..m
    OBVIOUS
  <2>5. \A v \in 0..(m + 1) : v \in Nat /\ (v = m + 1 \/ v \in 0..m)
    OBVIOUS
  <2> HIDE DEF g
  <2>6. \A v \in 0..(m + 1) : UvarintBytes(f, v) = UvarintBytes(g, v)
    BY <2>2, <2>4, <2>5, BytesKept
  <2>7. \A v \in 0..(m + 1) : g[v] = UvarintBytes(g, v)
    BY <2>2, <2>3, <2>5, <2>6
  <2>8. Writes(g, m + 1)
    BY <2>7 DEF Writes, g
  <2> QED
    BY <2>8
<1> HIDE DEF S
<1>3. n \in S
  BY <1>1, <1>2, NatSetInduction
<1> QED
  BY <1>3 DEF S

LEMMA WritesUnique ==
  ASSUME NEW m \in Nat, NEW f, Writes(f, m), NEW n \in Nat, NEW g, Writes(g, n),
         NEW k \in Nat, k <= m, k <= n
  PROVE  f[k] = g[k]
<1> DEFINE S == {j \in Nat : \A v \in 0..j : v <= m /\ v <= n => f[v] = g[v]}
<1>1. /\ \A v \in 0..m : f[v] = UvarintBytes(f, v)
      /\ \A v \in 0..n : g[v] = UvarintBytes(g, v)
  BY DEF Writes
<1>2. 0 \in S
  <2>1. \A v \in 0..0 : v \in Nat /\ ~(v >= 128) /\ v \in 0..m /\ v \in 0..n
    OBVIOUS
  <2>2. \A v \in 0..0 : UvarintBytes(f, v) = UvarintBytes(g, v)
    BY <2>1, BytesKept
  <2> QED
    BY <1>1, <2>1, <2>2
<1>3. ASSUME NEW j \in Nat, j \in S PROVE j + 1 \in S
  <2>1. SUFFICES ASSUME j + 1 <= m, j + 1 <= n PROVE f[j + 1] = g[j + 1]
    BY <1>3
  <2>2. j + 1 >= 128 => /\ (j + 1) \div 128 \in 0..j
                        /\ (j + 1) \div 128 <= m /\ (j + 1) \div 128 <= n
    BY <2>1
  <2>3. j + 1 >= 128 => f[(j + 1) \div 128] = g[(j + 1) \div 128]
    BY <1>3, <2>2
  <2>4. UvarintBytes(f, j + 1) = UvarintBytes(g, j + 1)
    BY <2>3, BytesKept
  <2>5. j + 1 \in 0..m /\ j + 1 \in 0..n
    BY <2>1
  <2> QED
    BY <1>1, <2>4, <2>5
<1> HIDE DEF S
<1>4. k \in S
  BY <1>2, <1>3, NatSetInduction
<1> QED
  BY <1>4 DEF S

\* The recursion of appendUvarint has a solution, so that it means what it says.
LEMMA AppendUvarintStep == \A v \in Nat : appendUvarint[v] = UvarintBytes(appendUvarint, v)
<1> DEFINE upTo(n) == CHOOSE f : Writes(f, n)
           g == [v \in Nat |-> upTo(v)[v]]
<1>1. \A n \in Nat : Writes(upTo(n), n)
  BY WritesExist
<1> HIDE DEF upTo
<1>2. ASSUME NEW v \in Nat PROVE g[v] = UvarintBytes(g, v)
  <2>1. upTo(v)[v] = UvarintBytes(upTo(v), v)
    BY <1>1 DEF Writes
  <2>2. ASSUME v >= 128 PROVE upTo(v)[v \div 128] = g[v \div 128]
    <3>1. v \div 128 \in Nat /\ v \div 128 <= v
      BY <2>2
    <3> QED
      BY <1>1, <3>1, WritesUnique
  <2>3. UvarintBytes(upTo(v), v) = UvarintBytes(g, v)
    BY <2>2, BytesKept
  <2> QED
    BY <2>1, <2>3
<1>3. g = [v \in Nat |-> UvarintBytes(g, v)]
  BY <1>2
<1> HIDE DEF g
<1>4. appendUvarint = [v \in Nat |-> UvarintBytes(appendUvarint, v)]
  <2>1. \E f : f = [v \in Nat |-> IF v >= 128 THEN <<(v % 128) + 128>> \o f[v \div 128] ELSE <<v>>]
    BY <1>3, Zenon DEF UvarintBytes
  <2>2. appendUvarint = [v \in Nat |->
          IF v >= 128 THEN <<(v % 128) + 128>> \o appendUvarint[v \div 128] ELSE <<v>>]
    BY <2>1, Zenon DEF appendUvarint
  <2> QED
    BY <2>2, Zenon DEF UvarintBytes
<1>5. \A f : f = [v \in Nat |-> UvarintBytes(f, v)] => \A v \in Nat : f[v] = UvarintBytes(f, v)
  BY Zenon
<1> QED
  BY <1>4, <1>5, Zenon

Octets == Seq(0..255)

\* uvarintLen is the length of what appendUvarint writes.
LEMMA AppendUvarintLen ==
  ASSUME NEW n \in Nat, n < 2^LenBits
  PROVE  appendUvarint[n] \in Octets /\ Len(appendUvarint[n]) = uvarintLen(n)
<1> DEFINE Exact(v) == /\ appendUvarint[v] \in Octets
                       /\ Len(appendUvarint[v]) = uvarintLen(v)
           S == {m \in Nat : \A v \in 0..m : v < 2^LenBits => Exact(v)}
<1>0. 2^LenBits \in Nat
  BY LenBitsAssumption, PowerDoubles
<1>1. ASSUME NEW v \in Nat, v < 2^LenBits, v < 128 PROVE Exact(v)
  <2>1. appendUvarint[v] = <<v>>
    <3>1. appendUvarint[v] = UvarintBytes(appendUvarint, v)
      BY AppendUvarintStep
    <3>2. ~(v >= 128)
      BY <1>1
    <3> QED
      BY <3>1, <3>2, Zenon DEF UvarintBytes
  <2>2. <<v>> \in Octets /\ Len(<<v>>) = 1
    BY <1>1 DEF Octets
  <2> QED
    BY <1>1, <2>1, <2>2, UvarintLenShort
<1>2. ASSUME NEW v \in Nat, v < 2^LenBits, v >= 128, Exact(v \div 128) PROVE Exact(v)
  <2>1. PICK t \in Octets : t = appendUvarint[v \div 128]
    BY <1>2
  <2>2. PICK b \in 0..255 : b = (v % 128) + 128
    OBVIOUS
  <2>3. appendUvarint[v] = <<b>> \o t
    BY <1>2, <2>1, <2>2, AppendUvarintStep DEF UvarintBytes
  <2>4. <<b>> \o t \in Octets /\ Len(<<b>> \o t) = 1 + Len(t)
    <3>1. <<b>> \in Seq(0..255) /\ Len(<<b>>) = 1 /\ t \in Seq(0..255)
      BY DEF Octets
    <3> QED
      BY <3>1, ConcatProperties DEF Octets
  <2> QED
    BY <1>2, <2>1, <2>3, <2>4, UvarintLenLong
<1> HIDE DEF Exact
<1>3. 0 \in S
  BY <1>1
<1>4. ASSUME NEW m \in Nat, m \in S PROVE m + 1 \in S
  <2> SUFFICES ASSUME m + 1 < 2^LenBits PROVE Exact(m + 1)
    BY <1>4
  <2>1. CASE m + 1 < 128
    BY <1>1, <2>1
  <2>2. CASE m + 1 >= 128
    <3>1. (m + 1) \div 128 \in 0..m /\ (m + 1) \div 128 < m + 1
      BY <2>2
    <3>2. (m + 1) \div 128 < 2^LenBits
      BY <1>0, <3>1
    <3>3. Exact((m + 1) \div 128)
      BY <1>4, <3>1, <3>2
    <3> QED
      BY <1>2, <2>2, <3>3
  <2> QED
    BY <2>1, <2>2
<1> HIDE DEF S
<1>5. n \in S
  BY <1>3, <1>4, NatSetInduction
<1>6. Exact(n)
  BY <1>5 DEF S
<1> QED
  BY <1>6 DEF Exact

\* A field with its tag and length is as long as recordCost says of a record.
LEMMA TaggedBytesLen ==
  ASSUME NEW tag \in 0..255, NEW body \in Octets, Len(body) < 2^LenBits
  PROVE  /\ appendTaggedBytes(tag, body) \in Octets
         /\ Len(appendTaggedBytes(tag, body)) = 1 + uvarintLen(Len(body)) + Len(body)
<1>1. Len(body) \in Nat
  BY DEF Octets
<1>2. PICK u \in Octets : u = appendUvarint[Len(body)] /\ Len(u) = uvarintLen(Len(body))
  BY <1>1, AppendUvarintLen
<1>3. <<tag>> \in Octets /\ Len(<<tag>>) = 1
  BY DEF Octets
<1>4. PICK t \in Octets : t = <<tag>> \o u /\ Len(t) = 1 + Len(u)
  <2>1. PICK h \in Octets : h = <<tag>> /\ Len(h) = 1
    BY <1>3
  <2>2. h \o u \in Octets /\ Len(h \o u) = Len(h) + Len(u)
    BY ConcatProperties DEF Octets
  <2> QED
    BY <2>1, <2>2
<1>5. t \o body \in Octets /\ Len(t \o body) = Len(t) + Len(body)
  BY ConcatProperties DEF Octets
<1>6. appendTaggedBytes(tag, body) = t \o body
  BY <1>2, <1>4 DEF appendTaggedBytes
<1> QED
  BY <1>2, <1>4, <1>5, <1>6

-----------------------------------------------------------------------------
(***************************************************************************)
(* The sum of the costs.                                                   *)
(***************************************************************************)
LEMMA UvarintLenType == ASSUME NEW v PROVE uvarintLen(v) \in Nat
<1>1. \A w : Len64(w) \in Nat
  <2> TAKE w
  <2> DEFINE bits == {n \in 0..(LenBits - 1) : 2^n <= w}
  <2>1. IsFiniteSet(0..(LenBits - 1)) /\ bits \in SUBSET (0..(LenBits - 1))
    BY LenBitsAssumption, FS_Interval
  <2>2. IsFiniteSet(bits)
    BY <2>1, FS_Subset
  <2> QED
    BY <2>2, FS_CardinalityType DEF Len64
<1> DEFINE m == Len64(IF v = 0 THEN 1 ELSE v)
<1>2. m \in Nat
  BY <1>1
<1>3. uvarintLen(v) = (m + 6) \div 7
  BY DEF uvarintLen
<1> HIDE DEF m
<1> QED
  BY <1>2, <1>3

LEMMA SizeForType == ASSUME NEW n \in Nat PROVE sizeFor(n) \in Nat
<1>1. \A k \in Nat : scopePartLen(k) \in Nat
  BY UvarintLenType DEF scopePartLen
<1>2. \A k, m \in Nat : resourceLogsLen(k, m) \in Nat
  BY UvarintLenType DEF resourceLogsLen
<1> DEFINE m == resourceLogsLen(ResourceLen, scopePartLen(ScopeLen) + n)
<1>3. m \in Nat
  BY <1>1, <1>2, LenAssumption
<1>4. sizeFor(n) = 1 + uvarintLen(m) + m
  BY DEF sizeFor
<1> HIDE DEF m
<1> QED
  BY <1>3, <1>4, UvarintLenType

\* g holds the partial sums of the costs of n records of lengths lens.
Sums(g, lens, n) ==
    g = [i \in 0..n |-> IF i = 0 THEN 0 ELSE g[i - 1] + recordCost(lens[i])]

LEMMA SumsExist ==
  ASSUME NEW lens, NEW n \in Nat
  PROVE  \E g : Sums(g, lens, n)
<1> DEFINE S == {m \in Nat : \E g : Sums(g, lens, m)}
<1>1. 0 \in S
  <2>1. Sums([i \in 0..0 |-> 0], lens, 0)
    BY DEF Sums
  <2> QED
    BY <2>1
<1>2. ASSUME NEW m \in Nat, m \in S PROVE m + 1 \in S
  <2>1. PICK g : Sums(g, lens, m)
    BY <1>2
  <2> DEFINE h == [i \in 0..(m + 1) |->
                     IF i = m + 1 THEN g[m] + recordCost(lens[m + 1]) ELSE g[i]]
  <2>2. \A i \in 0..m :
          h[i] = g[i] /\ g[i] = IF i = 0 THEN 0 ELSE g[i - 1] + recordCost(lens[i])
    BY <2>1 DEF Sums
  <2>3. \A i \in 0..(m + 1) : i = m + 1 \/ i \in 0..m
    OBVIOUS
  <2>4. \A i \in 0..m : i = 0 \/ i - 1 \in 0..m
    OBVIOUS
  <2>5. \A i \in 0..(m + 1) : h[i] = IF i = 0 THEN 0 ELSE h[i - 1] + recordCost(lens[i])
    BY <2>2, <2>3, <2>4
  <2>6. Sums(h, lens, m + 1)
    BY <2>5 DEF Sums
  <2> QED
    BY <2>6
<1> HIDE DEF S
<1>3. n \in S
  BY <1>1, <1>2, NatSetInduction
<1> QED
  BY <1>3 DEF S

LEMMA SumsUnique ==
  ASSUME NEW lens1, NEW n1 \in Nat, NEW g, Sums(g, lens1, n1),
         NEW lens2, NEW n2 \in Nat, NEW h, Sums(h, lens2, n2),
         NEW k \in Nat, k <= n1, k <= n2, \A i \in 1..k : lens1[i] = lens2[i]
  PROVE  g[k] = h[k]
<1> DEFINE S == {m \in Nat : m <= k => g[m] = h[m]}
<1>1. /\ \A i \in 0..n1 : g[i] = IF i = 0 THEN 0 ELSE g[i - 1] + recordCost(lens1[i])
      /\ \A i \in 0..n2 : h[i] = IF i = 0 THEN 0 ELSE h[i - 1] + recordCost(lens2[i])
  BY DEF Sums
<1>2. 0 \in S
  BY <1>1
<1>3. ASSUME NEW m \in Nat, m \in S PROVE m + 1 \in S
  BY <1>1, <1>3
<1> HIDE DEF S
<1>4. k \in S
  BY <1>2, <1>3, NatSetInduction
<1> QED
  BY <1>4 DEF S

\* taggedLen is the last of the partial sums.
LEMMA TaggedLenIsSum ==
  ASSUME NEW lens, Len(lens) \in Nat
  PROVE  \E g : Sums(g, lens, Len(lens)) /\ taggedLen(lens) = g[Len(lens)]
<1> DEFINE g == CHOOSE h : Sums(h, lens, Len(lens))
<1>1. Sums(g, lens, Len(lens))
  BY SumsExist
<1>2. taggedLen(lens) = g[Len(lens)]
  BY Zenon DEF taggedLen, Sums
<1> QED
  BY <1>1, <1>2

LEMMA RecordCostType == ASSUME NEW n \in Nat PROVE recordCost(n) \in Nat /\ n < recordCost(n)
  BY UvarintLenType DEF recordCost

\* No record costs more than all of them.
LEMMA TaggedLenBounds ==
  ASSUME NEW lens, Len(lens) \in Nat, \A i \in 1..Len(lens) : lens[i] \in Nat
  PROVE  /\ taggedLen(lens) \in Nat
         /\ \A i \in 1..Len(lens) : lens[i] < taggedLen(lens)
<1> DEFINE n == Len(lens)
<1>1. PICK g : Sums(g, lens, n) /\ taggedLen(lens) = g[n]
  BY TaggedLenIsSum
<1>2. \A i \in 0..n : g[i] = IF i = 0 THEN 0 ELSE g[i - 1] + recordCost(lens[i])
  BY <1>1 DEF Sums
<1>3. \A i \in 1..n : recordCost(lens[i]) \in Nat /\ lens[i] < recordCost(lens[i])
  BY RecordCostType
<1> DEFINE S == {m \in Nat : m <= n => g[m] \in Nat /\ \A i \in 1..m : lens[i] < g[m]}
<1>4. 0 \in S
  BY <1>2
<1>5. ASSUME NEW m \in Nat, m \in S PROVE m + 1 \in S
  <2> SUFFICES ASSUME m + 1 <= n
               PROVE  g[m + 1] \in Nat /\ \A i \in 1..(m + 1) : lens[i] < g[m + 1]
    OBVIOUS
  <2>1. g[m] \in Nat /\ \A i \in 1..m : lens[i] < g[m]
    BY <1>5
  <2>2. m + 1 \in 1..n /\ m + 1 \in 0..n /\ m + 1 # 0 /\ (m + 1) - 1 = m
    OBVIOUS
  <2>3. g[m + 1] = g[m] + recordCost(lens[m + 1])
    BY <1>2, <2>2
  <2>4. \A i \in 1..(m + 1) : i \in 1..n /\ (i \in 1..m \/ i = m + 1)
    OBVIOUS
  <2>5. PICK a \in Nat, c \in Nat :
          a = g[m] /\ c = recordCost(lens[m + 1]) /\ lens[m + 1] < c /\ lens[m + 1] \in Nat
    BY <1>3, <2>1, <2>2
  <2>6. g[m + 1] = a + c
    BY <2>3, <2>5
  <2>7. ASSUME NEW i \in 1..(m + 1) PROVE lens[i] < a + c
    <3>1. CASE i = m + 1
      BY <2>5, <3>1
    <3>2. CASE i \in 1..m
      <4>1. lens[i] < a /\ lens[i] \in Nat
        BY <2>1, <2>4, <2>5, <3>2
      <4> QED
        BY <4>1
    <3> QED
      BY <2>4, <3>1, <3>2
  <2> QED
    BY <2>6, <2>7
<1> HIDE DEF S
<1>6. n \in S
  BY <1>4, <1>5, NatSetInduction
<1> QED
  BY <1>1, <1>6 DEF S

\* Sequences as long as the costs of records are together as long as their sum.
LEMMA FlattenLen ==
  ASSUME NEW S, NEW s \in Seq(Seq(S)), NEW lens, Len(lens) = Len(s),
         \A i \in 1..Len(s) : Len(s[i]) = recordCost(lens[i])
  PROVE  FlattenSeq(s) \in Seq(S) /\ Len(FlattenSeq(s)) = taggedLen(lens)
<1> DEFINE n == Len(s)
<1>1. n \in Nat /\ \A i \in 1..n : s[i] \in Seq(S)
  BY LenProperties
<1>2. PICK g : Sums(g, lens, n) /\ taggedLen(lens) = g[n]
  BY <1>1, TaggedLenIsSum
<1>3. \A i \in 0..n : g[i] = IF i = 0 THEN 0 ELSE g[i - 1] + recordCost(lens[i])
  BY <1>2 DEF Sums
<1>4. CASE n = 0
  <2>1. s = <<>> /\ g[0] = 0
    BY <1>3, <1>4, EmptySeq
  <2>2. FlattenSeq(s) = <<>>
    BY <2>1, FlattenEmpty
  <2>3. <<>> \in Seq(S) /\ Len(<<>>) = 0
    OBVIOUS
  <2> QED
    BY <1>2, <1>4, <2>1, <2>2, <2>3
<1>5. CASE n # 0
  <2>1. n \in Nat \ {0}
    BY <1>1, <1>5
  <2>2. PICK f : Flattens(f, s, n) /\ FlattenSeq(s) = f[n]
    BY <2>1, FlattenIsLast
  <2>3. \A i \in 1..n : f[i] \in Seq(S)
    BY <2>2, FlattensType
  <2> DEFINE T == {m \in Nat : m + 1 \in 1..n => Len(f[m + 1]) = g[m + 1]}
  <2>4. 0 \in T
    <3>1. f[1] = s[1] /\ 1 \in 1..n
      BY <1>1, <2>1, <2>2, FlattensStep
    <3>2. g[1] = g[0] + recordCost(lens[1]) /\ g[0] = 0
      BY <1>3, <2>1
    <3>3. Len(s[1]) = recordCost(lens[1]) /\ Len(s[1]) \in Nat
      BY <1>1, <3>1, LenProperties
    <3> QED
      BY <3>1, <3>2, <3>3
  <2>5. ASSUME NEW m \in Nat, m \in T PROVE m + 1 \in T
    <3> SUFFICES ASSUME (m + 1) + 1 \in 1..n PROVE Len(f[(m + 1) + 1]) = g[(m + 1) + 1]
      OBVIOUS
    <3>1. PICK k \in 1..n : k = (m + 1) + 1 /\ k # 1 /\ k - 1 = m + 1 /\ m + 1 \in 1..n
      BY <1>1
    <3>2. PICK p \in Seq(S) : p = f[m + 1] /\ Len(p) = g[m + 1]
      BY <2>3, <2>5, <3>1
    <3>3. PICK q \in Seq(S) : q = s[k] /\ Len(q) = recordCost(lens[k])
      BY <1>1
    <3>4. f[k] = p \o q
      <4>1. \A i \in 1..n : i # 1 => f[i] = Cat(f[i - 1], s[i])
        BY <2>2 DEF Flattens
      <4>2. f[k] = Cat(f[k - 1], s[k])
        BY <3>1, <4>1
      <4> QED
        BY <3>1, <3>2, <3>3, <4>2 DEF Cat
    <3>5. Len(p \o q) = Len(p) + Len(q)
      BY ConcatProperties
    <3>6. g[k] = g[k - 1] + recordCost(lens[k])
      <4>1. k \in 0..n /\ k # 0
        OBVIOUS
      <4> QED
        BY <1>3, <4>1
    <3> QED
      BY <3>1, <3>2, <3>3, <3>4, <3>5, <3>6
  <2> HIDE DEF T
  <2>6. n - 1 \in Nat /\ (n - 1) + 1 = n /\ n \in 1..n
    BY <2>1
  <2>7. n - 1 \in T
    BY <2>4, <2>5, <2>6, NatSetInduction
  <2>8. Len(f[n]) = g[n]
    BY <2>6, <2>7 DEF T
  <2> QED
    BY <1>2, <2>2, <2>3, <2>6, <2>8
<1> QED
  BY <1>4, <1>5

-----------------------------------------------------------------------------
(***************************************************************************)
(* The length of a request.                                                *)
(***************************************************************************)
LEMMA JoinLen ==
  ASSUME NEW a \in Octets, NEW b \in Octets
  PROVE  a \o b \in Octets /\ Len(a \o b) = Len(a) + Len(b) /\ Len(a) \in Nat
  BY ConcatProperties, LenProperties DEF Octets

LEMMA SevenLen ==
  ASSUME NEW a \in Octets, NEW b \in Octets, NEW c \in Octets, NEW d \in Octets,
         NEW e \in Octets, NEW f \in Octets, NEW g \in Octets
  PROVE  Len(a \o b \o c \o d \o e \o f \o g)
           = Len(a) + Len(b) + Len(c) + Len(d) + Len(e) + Len(f) + Len(g)
<1>1. PICK p \in Octets : p = a \o b /\ Len(p) = Len(a) + Len(b)
  BY JoinLen
<1>2. PICK q \in Octets : q = p \o c /\ Len(q) = Len(p) + Len(c)
  BY JoinLen
<1>3. PICK r \in Octets : r = q \o d /\ Len(r) = Len(q) + Len(d)
  BY JoinLen
<1>4. PICK s \in Octets : s = r \o e /\ Len(s) = Len(r) + Len(e)
  BY JoinLen
<1>5. PICK t \in Octets : t = s \o f /\ Len(t) = Len(s) + Len(f)
  BY JoinLen
<1>6. Len(t \o g) = Len(t) + Len(g)
  BY JoinLen
<1> QED
  BY <1>1, <1>2, <1>3, <1>4, <1>5, <1>6, Zenon

LensOf(records) == [i \in 1..Len(records) |-> Len(records[i])]

\* The records of a request, tagged, are as long as the costs say.
LEMMA RecordsLen ==
  ASSUME NEW records \in Seq(Octets), \A i \in 1..Len(records) : Len(records[i]) < 2^LenBits
  PROVE  LET parts == [i \in 1..Len(records) |-> appendTaggedBytes(18, records[i])]
         IN  FlattenSeq(parts) \in Octets /\ Len(FlattenSeq(parts)) = taggedLen(LensOf(records))
<1> DEFINE n     == Len(records)
           parts == [i \in 1..n |-> appendTaggedBytes(18, records[i])]
<1>1. n \in Nat /\ \A i \in 1..n : records[i] \in Octets
  BY LenProperties
<1>2. ASSUME NEW i \in 1..n
      PROVE  /\ parts[i] \in Octets
             /\ Len(parts[i]) = recordCost(LensOf(records)[i])
  <2>1. parts[i] = appendTaggedBytes(18, records[i]) /\ LensOf(records)[i] = Len(records[i])
    BY DEF LensOf
  <2>2. 18 \in 0..255
    OBVIOUS
  <2> QED
    BY <1>1, <2>1, <2>2, TaggedBytesLen DEF recordCost
<1>3. parts \in Seq(Octets) /\ Len(parts) = n
  <2>1. parts = [i \in 1..n |-> parts[i]]
    OBVIOUS
  <2> QED
    BY <1>1, <1>2, <2>1, IsASeq
<1>4. Len(LensOf(records)) = n
  BY <1>1 DEF LensOf
<1> HIDE DEF n, parts
<1>5. PICK p \in Seq(Seq(0..255)) : p = parts /\ Len(p) = n
  BY <1>3 DEF Octets
<1>6. PICK lens : lens = LensOf(records) /\ Len(lens) = n
  BY <1>4
<1>7. Len(lens) = Len(p) /\ \A i \in 1..Len(p) : Len(p[i]) = recordCost(lens[i])
  BY <1>2, <1>5, <1>6, Zenon
<1>8. FlattenSeq(p) \in Seq(0..255) /\ Len(FlattenSeq(p)) = taggedLen(lens)
  BY <1>7, FlattenLen
<1> QED
  BY <1>5, <1>6, <1>8, Zenon DEF n, parts, Octets

\* The bytes of the request that assemble builds are as many as sizeFor
\* predicts from the sum of the costs (otlp/envelope.go): the oversized-record
\* guard of Write and the byte-aware cut of run rely on it.  Numbers are as wide
\* as needed to hold the size.
THEOREM PredictedSizeIsExact ==
  ASSUME NEW resource \in Octets, Len(resource) = ResourceLen,
         NEW scope \in Octets, Len(scope) = ScopeLen,
         NEW records \in Seq(Octets),
         sizeFor(taggedLen(LensOf(records))) < 2^LenBits
  PROVE  Len(assemble(resource, scope, records)) = sizeFor(taggedLen(LensOf(records)))
<1> DEFINE lens == LensOf(records)
           body == FlattenSeq([i \in 1..Len(records) |-> appendTaggedBytes(18, records[i])])
           head == IF scope = <<>> THEN <<>> ELSE appendTaggedBytes(10, scope)
<1>0. 2^LenBits \in Nat
  BY LenBitsAssumption, PowerDoubles
<1>1. /\ Len(records) \in Nat /\ \A i \in 1..Len(records) : records[i] \in Octets
      /\ \A i \in 1..Len(records) : Len(records[i]) \in Nat
      /\ Len(resource) \in Nat /\ Len(scope) \in Nat
  BY LenProperties DEF Octets
<1>2. /\ Len(lens) = Len(records)
      /\ \A i \in 1..Len(records) : lens[i] = Len(records[i])
  BY <1>1 DEF LensOf
<1>3. PICK sum \in Nat : sum = taggedLen(lens) /\ \A i \in 1..Len(records) : Len(records[i]) < sum
  BY <1>1, <1>2, TaggedLenBounds
<1>4. PICK part \in Nat : part = scopePartLen(Len(scope))
  BY <1>1, UvarintLenType DEF scopePartLen
<1>5. PICK logs \in Nat : logs = part + sum
  OBVIOUS
<1>6. PICK all \in Nat : all = resourceLogsLen(Len(resource), logs)
  BY <1>1, UvarintLenType DEF resourceLogsLen
<1>7. sizeFor(taggedLen(lens)) = 1 + uvarintLen(all) + all
  BY <1>3, <1>4, <1>5, <1>6, Zenon DEF sizeFor
<1>8. PICK r \in Nat, sc \in Nat : r = Len(resource) /\ sc = Len(scope)
  BY <1>1
<1>9. PICK ua \in Nat, ul \in Nat, ur \in Nat, us \in Nat :
        ua = uvarintLen(all) /\ ul = uvarintLen(logs) /\ ur = uvarintLen(r) /\ us = uvarintLen(sc)
  BY UvarintLenType
<1>10. all = 1 + ur + r + 1 + ul + logs
  BY <1>6, <1>8, <1>9, Zenon DEF resourceLogsLen
<1>11. part = IF sc = 0 THEN 0 ELSE 1 + us + sc
  BY <1>4, <1>8, <1>9, Zenon DEF scopePartLen
<1> HIDE DEF lens
<1>12. PICK top \in Nat : top = 2^LenBits /\ 1 + ua + all < top
  BY <1>0, <1>7, <1>9 DEF lens
<1>13. all < top /\ logs < top /\ r < top /\ sc < top /\ sum < top
  <2>1. all < top /\ logs < top /\ r < top
    BY <1>10, <1>12
  <2>2. part < top /\ sum < top
    BY <1>5, <2>1
  <2>3. sc <= part
    BY <1>11
  <2> QED
    BY <2>1, <2>2, <2>3
<1>14. PICK b \in Octets : b = appendUvarint[all] /\ Len(b) = ua
  BY <1>9, <1>12, <1>13, AppendUvarintLen
<1>15. PICK e \in Octets : e = appendUvarint[logs] /\ Len(e) = ul
  BY <1>9, <1>12, <1>13, AppendUvarintLen
<1>16. PICK c \in Octets : c = appendTaggedBytes(10, resource) /\ Len(c) = 1 + ur + r
  <2>1. 10 \in 0..255
    OBVIOUS
  <2> QED
    BY <1>8, <1>9, <1>12, <1>13, <2>1, TaggedBytesLen
<1>17. PICK h \in Octets : h = head /\ Len(h) = part
  <2>1. CASE scope = <<>>
    <3>1. head = <<>> /\ <<>> \in Octets /\ Len(<<>>) = 0 /\ sc = 0
      BY <1>8, <2>1 DEF Octets
    <3> QED
      BY <1>11, <3>1
  <2>2. CASE scope # <<>>
    <3>1. sc # 0
      BY <1>8, <2>2, EmptySeq DEF Octets
    <3>2. 10 \in 0..255
      OBVIOUS
    <3>3. /\ appendTaggedBytes(10, scope) \in Octets
          /\ Len(appendTaggedBytes(10, scope)) = 1 + us + sc
      BY <1>8, <1>9, <1>12, <1>13, <3>2, TaggedBytesLen
    <3> QED
      BY <1>11, <2>2, <3>1, <3>3, Zenon
  <2> QED
    BY <2>1, <2>2
<1>18. PICK g \in Octets : g = body /\ Len(g) = sum
  <2>1. \A i \in 1..Len(records) : Len(records[i]) < 2^LenBits
    BY <1>1, <1>3, <1>12, <1>13
  <2> QED
    BY <1>3, <2>1, RecordsLen DEF lens
<1>19. PICK a \in Octets, d \in Octets : a = <<10>> /\ Len(a) = 1 /\ d = <<18>> /\ Len(d) = 1
  <2>1. <<10>> \in Octets /\ Len(<<10>>) = 1 /\ <<18>> \in Octets /\ Len(<<18>>) = 1
    BY DEF Octets
  <2> QED
    BY <2>1
<1>20. assemble(resource, scope, records)
         = <<10>> \o appendUvarint[all] \o appendTaggedBytes(10, resource)
             \o <<18>> \o appendUvarint[logs] \o head \o body
  BY <1>3, <1>4, <1>5, <1>6, Zenon DEF assemble, lens, LensOf
<1> HIDE DEF body, head
<1>21. assemble(resource, scope, records) = a \o b \o c \o d \o e \o h \o g
  BY <1>14, <1>15, <1>16, <1>17, <1>18, <1>19, <1>20, Zenon
<1>22. Len(a \o b \o c \o d \o e \o h \o g)
         = Len(a) + Len(b) + Len(c) + Len(d) + Len(e) + Len(h) + Len(g)
  BY SevenLen
<1>23. Len(assemble(resource, scope, records)) = 1 + ua + (1 + ur + r) + 1 + ul + part + sum
  BY <1>14, <1>15, <1>16, <1>17, <1>18, <1>19, <1>21, <1>22, Zenon
<1>24. 1 + ua + (1 + ur + r) + 1 + ul + part + sum = 1 + ua + all
  BY <1>5, <1>10
<1> QED
  BY <1>7, <1>9, <1>23, <1>24, Zenon DEF lens

=============================================================================
