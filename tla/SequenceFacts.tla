--------------------------- MODULE SequenceFacts ---------------------------
(***************************************************************************)
(* Facts about natural numbers and sequences that the proofs of the        *)
(* writers share: induction stated with a set, what the sequence           *)
(* operations do to the set of elements, sequences without repetition, the *)
(* order of the elements, and sequences of sequences.                      *)
(***************************************************************************)
EXTENDS SequencesExt, SequenceTheorems, FiniteSetTheorems, TLAPS


\* Every non-empty set of natural numbers has a least element.
LEMMA LeastNumber ==
  ASSUME NEW T, T \subseteq Nat, T # {}
  PROVE  \E m \in T : \A k \in T : m <= k
<1>1. \E x \in T : \A y \in T : ~ (<<y, x>> \in OpToRel(<, Nat))
  BY WFMin, NatLessThanWellFounded, Zenon
<1>2. \A x, y \in Nat : y < x => <<y, x>> \in OpToRel(<, Nat)
  BY DEF OpToRel
<1>3. \E x \in T : \A y \in T : ~ (y < x)
  BY <1>1, <1>2, Zenon
<1> QED
  BY <1>3

\* Induction with a set instead of a predicate.
LEMMA NatSetInduction ==
  ASSUME NEW S, 0 \in S, \A n \in Nat : n \in S => n + 1 \in S
  PROVE  \A n \in Nat : n \in S
<1> SUFFICES ASSUME Nat \ S # {} PROVE FALSE
  OBVIOUS
<1>1. PICK m \in Nat \ S : \A k \in Nat \ S : m <= k
  <2>1. Nat \ S \subseteq Nat
    OBVIOUS
  <2> QED
    BY <2>1, LeastNumber
<1>2. m - 1 \in Nat /\ m - 1 \notin Nat \ S
  BY <1>1
<1> QED
  BY <1>1, <1>2

-----------------------------------------------------------------------------
(***************************************************************************)
(* The elements of a sequence.                                             *)
(***************************************************************************)
LEMMA ContainsIsInRange ==
  ASSUME NEW S, NEW s \in Seq(S), NEW e
  PROVE  Contains(s, e) <=> e \in Range(s)
<1>1. Range(s) = {s[i] : i \in 1..Len(s)}
  BY RangeEquality
<1> QED
  BY <1>1 DEF Contains

LEMMA RangeOfEmpty == Range(<<>>) = {}
<1>1. << >> \in Seq({}) /\ Len(<< >>) = 0
  BY EmptySeq
<1>2. Range(<<>>) = {(<<>>)[i] : i \in 1..Len(<<>>)}
  BY <1>1, RangeEquality
<1> QED
  BY <1>1, <1>2

LEMMA RangeOfSingle ==
  ASSUME NEW e
  PROVE  Range(<<e>>) = {e}
<1>1. <<e>> \in Seq({e}) /\ Len(<<e>>) = 1 /\ <<e>>[1] = e
  OBVIOUS
<1>2. Range(<<e>>) = {<<e>>[i] : i \in 1..Len(<<e>>)}
  BY <1>1, RangeEquality
<1> QED
  BY <1>1, <1>2

LEMMA SingleSeq ==
  ASSUME NEW S, NEW s \in Seq(S), Len(s) \in Nat \ {0}, Len(s) <= 1
  PROVE  Append(<<>>, s[1]) = s
<1>1. Len(s) = 1 /\ s[1] \in S
  <2>1. 1 \in 1..Len(s)
    OBVIOUS
  <2>2. Len(s) = 1
    <3>1. \A n \in Nat \ {0} : n <= 1 => n = 1
      OBVIOUS
    <3> QED
      BY <3>1, Zenon
  <2>3. s[1] \in S
    BY <2>1
  <2> QED
    BY <2>2, <2>3
<1>2. PICK t \in Seq(S) : t = Append(<<>>, s[1]) /\ Len(t) = 1 /\ t[1] = s[1]
  BY <1>1
<1>3. \A i \in 1..1 : i = 1
  OBVIOUS
<1>4. \A i \in 1..Len(s) : t[i] = s[i]
  BY <1>1, <1>2, <1>3
<1> QED
  BY <1>1, <1>2, <1>4, SeqEqual

LEMMA RangeOfAppend ==
  ASSUME NEW S, NEW s \in Seq(S), NEW e \in S
  PROVE  Range(Append(s, e)) = Range(s) \cup {e}
<1>1. <<e>> \in Seq(S) /\ Append(s, e) = s \o <<e>>
  BY AppendIsConcat
<1>2. Range(s \o <<e>>) = Range(s) \cup Range(<<e>>)
  BY <1>1, RangeConcatenation
<1> QED
  BY <1>1, <1>2, RangeOfSingle

LEMMA RangeOfTail ==
  ASSUME NEW S, NEW s \in Seq(S), s # <<>>
  PROVE  /\ Head(s) \in Range(s)
         /\ Range(Tail(s)) \subseteq Range(s)
         /\ Range(s) = Range(Tail(s)) \cup {Head(s)}
<1>1. /\ Tail(s) \in Seq(S) /\ Len(s) \in Nat \ {0} /\ Len(Tail(s)) = Len(s) - 1
      /\ \A i \in 1..(Len(s) - 1) : Tail(s)[i] = s[i + 1]
      /\ Head(s) = s[1]
  BY HeadTailProperties, EmptySeq
<1>2. /\ Range(s) = {s[i] : i \in 1..Len(s)}
      /\ Range(Tail(s)) = {Tail(s)[i] : i \in 1..Len(Tail(s))}
  BY <1>1, RangeEquality
<1>3. \A i \in 1..Len(s) : i = 1 \/ (i - 1 \in 1..(Len(s) - 1) /\ i = (i - 1) + 1)
  BY <1>1
<1>4. \A e : e \in Range(Tail(s)) => e \in Range(s)
  BY <1>1, <1>2
<1>5. \A e : e \in Range(s) => e = Head(s) \/ e \in Range(Tail(s))
  BY <1>1, <1>2, <1>3
<1>6. Head(s) \in Range(s)
  BY <1>1, <1>2
<1> QED
  BY <1>4, <1>5, <1>6

\* The elements of three sequences in a row.
LEMMA ContainsConcat ==
  ASSUME NEW S, NEW q \in Seq(S), NEW b \in Seq(S), NEW a \in Seq(S), NEW e
  PROVE  Contains(q \o b \o a, e) <=> e \in Range(q) \cup Range(b) \cup Range(a)
<1>1. q \o b \in Seq(S) /\ q \o b \o a \in Seq(S)
  BY ConcatProperties
<1>2. Range(q \o b) = Range(q) \cup Range(b)
  BY RangeConcatenation
<1>3. Range((q \o b) \o a) = Range(q \o b) \cup Range(a)
  BY <1>1, RangeConcatenation
<1>4. Contains(q \o b \o a, e) <=> e \in Range(q \o b \o a)
  BY <1>1, ContainsIsInRange
<1> QED
  BY <1>2, <1>3, <1>4

LEMMA RangeNonEmpty ==
  ASSUME NEW S, NEW s \in Seq(S)
  PROVE  s = <<>> <=> Range(s) = {}
  BY RangeOfEmpty, RangeOfTail

-----------------------------------------------------------------------------
(***************************************************************************)
(* Sequences without repetition.                                           *)
(***************************************************************************)
LEMMA InjectiveEmpty == IsInjective(<<>>)
  BY EmptySeq DEF IsInjective

LEMMA InjectiveAppend ==
  ASSUME NEW S, NEW s \in Seq(S), NEW e \in S, IsInjective(s), e \notin Range(s)
  PROVE  IsInjective(Append(s, e))
<1>1. /\ Append(s, e) \in Seq(S) /\ Len(Append(s, e)) = Len(s) + 1 /\ Len(s) \in Nat
      /\ \A i \in 1..Len(s) : Append(s, e)[i] = s[i]
      /\ Append(s, e)[Len(s) + 1] = e
      /\ DOMAIN Append(s, e) = 1..(Len(s) + 1) /\ DOMAIN s = 1..Len(s)
  BY AppendProperties, LenProperties
<1>2. \A i \in 1..Len(s) : s[i] # e
  BY RangeEquality
<1>3. \A i \in 1..(Len(s) + 1) : i \in 1..Len(s) \/ i = Len(s) + 1
  BY <1>1
<1> QED
  BY <1>1, <1>2, <1>3 DEF IsInjective

LEMMA InjectiveTail ==
  ASSUME NEW S, NEW s \in Seq(S), s # <<>>, IsInjective(s)
  PROVE  IsInjective(Tail(s)) /\ Head(s) \notin Range(Tail(s))
<1>1. /\ Tail(s) \in Seq(S) /\ Len(s) \in Nat \ {0} /\ Len(Tail(s)) = Len(s) - 1
      /\ \A i \in 1..(Len(s) - 1) : Tail(s)[i] = s[i + 1]
      /\ Head(s) = s[1]
      /\ DOMAIN s = 1..Len(s) /\ DOMAIN Tail(s) = 1..(Len(s) - 1)
  BY HeadTailProperties, EmptySeq, LenProperties
<1>2. \A i \in 1..(Len(s) - 1) : i + 1 \in 1..Len(s) /\ i + 1 # 1
  BY <1>1
<1>3. IsInjective(Tail(s))
  BY <1>1, <1>2 DEF IsInjective
<1>4. \A i \in 1..(Len(s) - 1) : Tail(s)[i] # Head(s)
  BY <1>1, <1>2 DEF IsInjective
<1>5. Range(Tail(s)) = {Tail(s)[i] : i \in 1..(Len(s) - 1)}
  BY <1>1, RangeEquality
<1> QED
  BY <1>3, <1>4, <1>5

\* A sequence without repetition is as long as it has elements.
LEMMA InjectiveCount ==
  ASSUME NEW S, NEW s \in Seq(S), IsInjective(s)
  PROVE  IsFiniteSet(Range(s)) /\ Cardinality(Range(s)) = Len(s)
<1>1. Len(s) \in Nat /\ s \in [1..Len(s) -> S] /\ DOMAIN s = 1..Len(s)
  BY LenProperties
<1>2. Range(s) = {s[i] : i \in 1..Len(s)}
  BY RangeEquality
<1>3. s \in Bijection(1..Len(s), Range(s))
  BY <1>1, <1>2 DEF Bijection, Injection, Surjection, IsInjective
<1>4. ExistsBijection(1..Len(s), Range(s))
  BY <1>3 DEF ExistsBijection
<1>5. IsFiniteSet(1..Len(s))
  BY <1>1, FS_Interval
<1> QED
  BY <1>1, <1>4, <1>5, FS_CountingElements, FS_Bijection

-----------------------------------------------------------------------------
(***************************************************************************)
(* The order of elements.  Keeps(P, Q) says of a queue that went from P to *)
(* Q that no element of P stands behind one it did not stand behind.       *)
(***************************************************************************)
Keeps(P, Q) ==
    \A i, j \in 1..Len(Q) :
      (i < j /\ Contains(P, Q[j])) =>
        \E a, b \in 1..Len(P) : a < b /\ P[a] = Q[i] /\ P[b] = Q[j]

LEMMA KeepsSame == ASSUME NEW P PROVE Keeps(P, P)
  BY DEF Keeps

LEMMA KeepsAppend ==
  ASSUME NEW S, NEW P \in Seq(S), NEW e \in S, e \notin Range(P)
  PROVE  Keeps(P, Append(P, e))
<1>1. /\ Len(P) \in Nat /\ Len(Append(P, e)) = Len(P) + 1
      /\ \A i \in 1..Len(P) : Append(P, e)[i] = P[i]
      /\ Append(P, e)[Len(P) + 1] = e
  BY AppendProperties, LenProperties
<1>2. ~Contains(P, e)
  BY ContainsIsInRange
<1>3. ASSUME NEW i \in 1..(Len(P) + 1), NEW j \in 1..(Len(P) + 1), i < j,
             Contains(P, Append(P, e)[j])
      PROVE  i \in 1..Len(P) /\ j \in 1..Len(P)
  <2>1. j # Len(P) + 1
    BY <1>1, <1>2, <1>3
  <2> QED
    BY <1>1, <1>3, <2>1
<1> QED
  BY <1>1, <1>3 DEF Keeps

LEMMA KeepsCut ==
  ASSUME NEW S, NEW X \in Seq(S), NEW Y \in Seq(S), NEW Z \in Seq(S)
  PROVE  Keeps((X \o Y) \o Z, X \o Z)
<1> DEFINE P == (X \o Y) \o Z
           Q == X \o Z
           At(i) == IF i <= Len(X) THEN i ELSE i + Len(Y)
<1>1. /\ Len(X) \in Nat /\ Len(Y) \in Nat /\ Len(Z) \in Nat
      /\ X \o Y \in Seq(S) /\ Len(X \o Y) = Len(X) + Len(Y)
      /\ Len(P) = Len(X) + Len(Y) + Len(Z) /\ Len(Q) = Len(X) + Len(Z)
  BY ConcatProperties, LenProperties
<1>2. ASSUME NEW i \in 1..Len(Q)
      PROVE  At(i) \in 1..Len(P) /\ P[At(i)] = Q[i]
  <2>1. CASE i <= Len(X)
    <3>1. i \in 1..Len(X) /\ i \in 1..Len(X \o Y)
      BY <1>1, <2>1
    <3>2. P[i] = (X \o Y)[i] /\ (X \o Y)[i] = X[i] /\ Q[i] = X[i]
      BY <1>1, <3>1, <2>1
    <3> QED
      BY <1>1, <2>1, <3>1, <3>2
  <2>2. CASE i > Len(X)
    <3>1. i - Len(X) \in 1..Len(Z) /\ i + Len(Y) \in 1..Len(P) /\ i + Len(Y) > Len(X \o Y)
      BY <1>1, <2>2
    <3>2. Q[i] = Z[i - Len(X)]
      BY <1>1, <2>2
    <3>3. P[i + Len(Y)] = Z[(i + Len(Y)) - Len(X \o Y)]
      BY <1>1, <3>1
    <3>4. (i + Len(Y)) - Len(X \o Y) = i - Len(X)
      BY <1>1
    <3> QED
      BY <1>1, <2>2, <3>1, <3>2, <3>3, <3>4
  <2> QED
    BY <1>1, <2>1, <2>2
<1>3. \A i, j \in 1..Len(Q) : i < j => At(i) < At(j)
  BY <1>1
<1> HIDE DEF P, Q, At
<1> QED
  <2>1. Keeps(P, Q)
    BY <1>2, <1>3 DEF Keeps
  <2> QED
    BY <2>1 DEF P, Q

\* Four sequences in a row, the oldest element first: what has arrived, and
\* three stations on the way there.
Row(h, b, a, q) == ((h \o b) \o a) \o q

LEMMA RowType ==
  ASSUME NEW S, NEW h \in Seq(S), NEW b \in Seq(S), NEW a \in Seq(S), NEW q \in Seq(S)
  PROVE  /\ Row(h, b, a, q) \in Seq(S)
         /\ Range(Row(h, b, a, q)) = Range(h) \cup Range(b) \cup Range(a) \cup Range(q)
<1>1. PICK p \in Seq(S) : p = h \o b
  BY ConcatProperties
<1>2. PICK r \in Seq(S) : r = p \o a
  BY ConcatProperties
<1>3. r \o q \in Seq(S) /\ Row(h, b, a, q) = r \o q
  BY <1>1, <1>2, ConcatProperties DEF Row
<1>4. Range(p) = Range(h) \cup Range(b)
  BY <1>1, RangeConcatenation
<1>5. Range(r) = Range(p) \cup Range(a)
  BY <1>2, RangeConcatenation
<1>6. Range(r \o q) = Range(r) \cup Range(q)
  BY RangeConcatenation
<1> QED
  BY <1>3, <1>4, <1>5, <1>6

LEMMA HeadConcatTail ==
  ASSUME NEW S, NEW s \in Seq(S), s # <<>>
  PROVE  /\ Head(s) \in S /\ Tail(s) \in Seq(S)
         /\ s = <<Head(s)>> \o Tail(s)
  BY HeadTailProperties

LEMMA Assoc ==
  ASSUME NEW S, NEW s \in Seq(S), NEW t \in Seq(S), NEW u \in Seq(S),
         NEW st, st = s \o t, NEW tu, tu = t \o u
  PROVE  st \o u = s \o tu
  BY ConcatAssociative, SMT

\* The sequence t is s with e behind it.
Enters(s, e, t) == t = Append(s, e)

LEMMA RowEnter ==
  ASSUME NEW S, NEW h \in Seq(S), NEW b \in Seq(S), NEW a \in Seq(S), NEW q \in Seq(S),
         NEW e \in S, NEW z, Enters(q, e, z)
  PROVE  Enters(Row(h, b, a, q), e, Row(h, b, a, z))
<1>0. h \o b \in Seq(S)
  BY ConcatProperties
<1>1. PICK p \in Seq(S) : p = (h \o b) \o a
  BY <1>0, ConcatProperties
<1>2. PICK u \in Seq(S) : u = <<e>>
  <2>1. <<e>> \in Seq(S)
    OBVIOUS
  <2> QED
    BY <2>1
<1>3. z = q \o u
  BY <1>2, AppendIsConcat, Zenon DEF Enters
<1>4. PICK r \in Seq(S) : r = p \o q
  BY ConcatProperties
<1>5. Append(r, e) = r \o u
  BY <1>2, AppendIsConcat, Zenon
<1>6. PICK v : v = q \o u
  OBVIOUS
<1>7. r \o u = p \o v
  BY ONLY p \in Seq(S), q \in Seq(S), u \in Seq(S), <1>4, <1>6, Assoc, SMT
<1> QED
  BY <1>1, <1>3, <1>4, <1>5, <1>6, <1>7, Zenon DEF Row, Enters

LEMMA MoveHead ==
  ASSUME NEW S, NEW r \in Seq(S), NEW q \in Seq(S), q # <<>>
  PROVE  Append(r, Head(q)) \o Tail(q) = r \o q
<1>1. PICK u \in Seq(S), t \in Seq(S) : u = <<Head(q)>> /\ t = Tail(q) /\ q = u \o t
  <2>1. <<Head(q)>> \in Seq(S) /\ Tail(q) \in Seq(S)
    BY HeadConcatTail
  <2> QED
    BY <2>1, HeadConcatTail, Zenon
<1>2. PICK w : w = r \o u
  OBVIOUS
<1>3. Append(r, Head(q)) = w
  <2>1. Head(q) \in S
    BY HeadConcatTail
  <2>2. Append(r, Head(q)) = r \o <<Head(q)>>
    BY <2>1, AppendIsConcat, Zenon
  <2> QED
    BY <1>1, <1>2, <2>2, Zenon
<1>4. q = u \o t
  BY <1>1
<1>5. w \o t = r \o q
  BY ONLY r \in Seq(S), u \in Seq(S), t \in Seq(S), <1>2, <1>4, Assoc, SMT
<1> QED
  BY <1>1, <1>3, <1>5, Zenon

LEMMA KeepsTail ==
  ASSUME NEW S, NEW r \in Seq(S), NEW q \in Seq(S), q # <<>>
  PROVE  Keeps(r \o q, r \o Tail(q))
<1>1. PICK u \in Seq(S), t \in Seq(S) : u = <<Head(q)>> /\ t = Tail(q)
  <2>1. <<Head(q)>> \in Seq(S) /\ Tail(q) \in Seq(S)
    BY HeadConcatTail
  <2> QED
    BY <2>1, HeadConcatTail, Zenon
<1>2. Append(r, Head(q)) = r \o u
  <2>1. Head(q) \in S
    BY HeadConcatTail
  <2>2. Append(r, Head(q)) = r \o <<Head(q)>>
    BY <2>1, AppendIsConcat, Zenon
  <2> QED
    BY <1>1, <2>2, Zenon
<1>3. (r \o u) \o t = r \o q
  BY <1>1, <1>2, MoveHead, Zenon
<1>4. Keeps((r \o u) \o t, r \o t)
  BY KeepsCut
<1> QED
  BY <1>1, <1>3, <1>4, Zenon

\* The first element of the last station moves on.
Moves(a, q, x, t) == q # <<>> /\ x = Append(a, Head(q)) /\ t = Tail(q)

LEMMA RowMove ==
  ASSUME NEW S, NEW h \in Seq(S), NEW b \in Seq(S), NEW a \in Seq(S), NEW q \in Seq(S),
         NEW x, NEW t, Moves(a, q, x, t)
  PROVE  Row(h, b, x, t) = Row(h, b, a, q)
<1>0. q # <<>> /\ x = Append(a, Head(q)) /\ t = Tail(q)
  BY DEF Moves
<1>1. PICK p \in Seq(S) : p = h \o b
  BY ConcatProperties
<1>2. PICK r \in Seq(S) : r = p \o a
  BY ConcatProperties
<1>3. PICK e \in S : e = Head(q)
  BY <1>0, HeadConcatTail
<1>4. Append(a, e) = a \o <<e>> /\ Append(r, e) = r \o <<e>>
  BY AppendIsConcat, Zenon
<1>5. PICK u \in Seq(S) : u = <<e>>
  <2>1. <<e>> \in Seq(S)
    OBVIOUS
  <2> QED
    BY <2>1
<1>6. PICK v : v = a \o u
  OBVIOUS
<1>7. r \o u = p \o v
  BY ONLY p \in Seq(S), a \in Seq(S), u \in Seq(S), <1>2, <1>6, Assoc, SMT
<1>8. p \o Append(a, e) = Append(r, e)
  BY <1>4, <1>5, <1>6, <1>7, Zenon
<1>9. Append(r, Head(q)) \o Tail(q) = r \o q
  BY <1>0, MoveHead, Zenon
<1> QED
  BY <1>0, <1>1, <1>2, <1>3, <1>8, <1>9, Zenon DEF Row

\* A station moves on as a whole, to the next one or to the end of the row.
LEMMA RowShift ==
  ASSUME NEW S, NEW h \in Seq(S), NEW b \in Seq(S), NEW a \in Seq(S), NEW q \in Seq(S)
  PROVE  /\ Row(h, <<>>, b, q) = Row(h, b, <<>>, q)
         /\ Row(h \o b, <<>>, a, q) = Row(h, b, a, q)
<1>1. h \o b \in Seq(S)
  BY ConcatProperties
<1>2. h \o <<>> = h /\ (h \o b) \o <<>> = h \o b
  BY <1>1, ConcatEmptySeq
<1> QED
  BY <1>2 DEF Row

\* It moves past an empty station, or into it.
LEMMA RowTake ==
  ASSUME NEW S, NEW h \in Seq(S), NEW b \in Seq(S), NEW q \in Seq(S), NEW x, NEW t
  PROVE  /\ Moves(b, q, x, t) => Row(h, x, <<>>, t) = Row(h, b, <<>>, q)
         /\ Moves(<<>>, q, x, t) => Row(h, b, x, t) = Row(h, b, <<>>, q)
<1>0. <<>> \in Seq(S)
  OBVIOUS
<1>1. ASSUME Moves(b, q, x, t) PROVE Row(h, x, <<>>, t) = Row(h, b, <<>>, q)
  <2>1. x \in Seq(S) /\ t \in Seq(S)
    BY <1>1, HeadConcatTail DEF Moves
  <2>2. Row(h, <<>>, x, t) = Row(h, <<>>, b, q)
    <3>1. PICK n \in Seq(S) : n = <<>>
      BY <1>0
    <3>2. Row(h, n, x, t) = Row(h, n, b, q)
      BY <1>1, RowMove
    <3> QED
      BY <3>1, <3>2, Zenon
  <2>3. Row(h, <<>>, b, q) = Row(h, b, <<>>, q)
    BY <1>0, RowShift
  <2>4. Row(h, <<>>, x, t) = Row(h, x, <<>>, t)
    BY <1>0, <2>1, RowShift
  <2> QED
    BY <2>2, <2>3, <2>4, Zenon
<1>2. ASSUME Moves(<<>>, q, x, t) PROVE Row(h, b, x, t) = Row(h, b, <<>>, q)
  <2>1. PICK n \in Seq(S) : n = <<>>
    BY <1>0
  <2>2. Moves(n, q, x, t)
    BY <1>2, <2>1, Zenon
  <2>3. Row(h, b, x, t) = Row(h, b, n, q)
    BY <2>2, RowMove
  <2> QED
    BY <2>1, <2>3, Zenon
<1> QED
  BY <1>1, <1>2

\* A new element enters behind all others.
LEMMA KeepsEnter ==
  ASSUME NEW S, NEW h \in Seq(S), NEW b \in Seq(S), NEW a \in Seq(S), NEW q \in Seq(S),
         NEW e \in S, e \notin Range(h) \cup Range(b) \cup Range(a) \cup Range(q),
         NEW r, Enters(q, e, r)
  PROVE  Keeps(Row(h, b, a, q), Row(h, b, a, r))
<1>1. PICK P \in Seq(S) : P = Row(h, b, a, q) /\ e \notin Range(P)
  BY RowType
<1>2. Enters(Row(h, b, a, q), e, Row(h, b, a, r))
  BY RowEnter
<1>3. Keeps(P, Append(P, e))
  BY <1>1, KeepsAppend
<1> QED
  BY <1>1, <1>2, <1>3, Zenon DEF Enters

\* The row without its second station, or without the first element of the last.
LEMMA RowCut ==
  ASSUME NEW S, NEW h \in Seq(S), NEW b \in Seq(S), NEW a \in Seq(S), NEW q \in Seq(S)
  PROVE  /\ Keeps(Row(h, b, a, q), Row(h, <<>>, a, q))
         /\ q # <<>> => Keeps(Row(h, b, a, q), Row(h, b, a, Tail(q)))
<1>1. PICK z \in Seq(S) : z = a \o q
  BY ConcatProperties
<1>2. PICK p \in Seq(S) : p = h \o b
  BY ConcatProperties
<1>3. PICK r \in Seq(S) : r = p \o a
  BY ConcatProperties
<1>4. Keeps(Row(h, b, a, q), Row(h, <<>>, a, q))
  <2>1. r \o q = p \o z
    BY <1>1, <1>3, Assoc, SMT
  <2>0. PICK k : k = h \o a
    OBVIOUS
  <2>2. k \o q = h \o z
    BY <1>1, <2>0, Assoc, SMT
  <2>3. h \o <<>> = h
    BY ConcatEmptySeq
  <2>4. Keeps((h \o b) \o z, h \o z)
    BY KeepsCut
  <2> QED
    BY <1>2, <1>3, <2>0, <2>1, <2>2, <2>3, <2>4 DEF Row
<1>5. ASSUME q # <<>> PROVE Keeps(Row(h, b, a, q), Row(h, b, a, Tail(q)))
  <2>1. Keeps(r \o q, r \o Tail(q))
    BY <1>5, KeepsTail, Zenon
  <2> QED
    BY <1>2, <1>3, <2>1 DEF Row
<1> QED
  BY <1>4, <1>5

-----------------------------------------------------------------------------
(***************************************************************************)
(* FlattenSeq, whose partial results are the function f.                   *)
(***************************************************************************)
Cat(s, t) == s \o t

Flattens(f, s, n) ==
    f = [i \in 1..n |-> IF i = 1 THEN s[i] ELSE Cat(f[i - 1], s[i])]

LEMMA FlattensExist ==
  ASSUME NEW s, NEW n \in Nat
  PROVE  \E f : Flattens(f, s, n)
<1> DEFINE T == {m \in Nat : \E f : Flattens(f, s, m)}
<1>1. 0 \in T
  <2>1. Flattens([i \in 1..0 |-> 0], s, 0)
    BY DEF Flattens
  <2> QED
    BY <2>1
<1>2. ASSUME NEW m \in Nat, m \in T PROVE m + 1 \in T
  <2>1. PICK f : Flattens(f, s, m)
    BY <1>2
  <2> DEFINE g == [i \in 1..(m + 1) |->
                     IF i = m + 1
                       THEN (IF i = 1 THEN s[i] ELSE Cat(f[m], s[i]))
                       ELSE f[i]]
  <2>2. \A i \in 1..m :
          g[i] = f[i] /\ f[i] = IF i = 1 THEN s[i] ELSE Cat(f[i - 1], s[i])
    BY <2>1 DEF Flattens
  <2>3. \A i \in 1..(m + 1) : (i = m + 1 /\ i - 1 = m) \/ (i \in 1..m /\ i # m + 1)
    OBVIOUS
  <2>4. \A i \in 1..(m + 1) : i = 1 \/ i - 1 \in 1..m
    OBVIOUS
  <2>5. \A i \in 1..(m + 1) : g[i] = IF i = 1 THEN s[i] ELSE Cat(g[i - 1], s[i])
    <3> TAKE i \in 1..(m + 1)
    <3>1. CASE i \in 1..m
      BY <2>2, <2>4, <3>1
    <3>2. CASE i = m + 1 /\ i = 1
      BY <3>2
    <3>3. CASE i = m + 1 /\ i # 1
      BY <2>2, <2>4, <3>3
    <3> QED
      BY <2>3, <3>1, <3>2, <3>3
  <2>6. Flattens(g, s, m + 1)
    BY <2>5 DEF Flattens
  <2> QED
    BY <2>6
<1> HIDE DEF T
<1>3. n \in T
  BY <1>1, <1>2, NatSetInduction
<1> QED
  BY <1>3 DEF T

LEMMA FlattenIsLast ==
  ASSUME NEW s, Len(s) \in Nat \ {0}
  PROVE  \E f : Flattens(f, s, Len(s)) /\ FlattenSeq(s) = f[Len(s)]
<1> DEFINE f == CHOOSE g : Flattens(g, s, Len(s))
<1>1. Flattens(f, s, Len(s))
  BY FlattensExist
<1>2. FlattenSeq(s) = f[Len(s)]
  <2>1. ~(Len(s) = 0)
    OBVIOUS
  <2> QED
    BY <2>1, Zenon DEF FlattenSeq, Flattens, Cat
<1> QED
  BY <1>1, <1>2

\* What is flattened so far.
LEMMA FlattensStep ==
  ASSUME NEW s, NEW n \in Nat, NEW f, Flattens(f, s, n)
  PROVE  /\ 1 <= n => f[1] = s[1]
         /\ \A i \in 1..n : i # 1 => i - 1 \in 1..n /\ f[i] = Cat(f[i - 1], s[i])
<1>1. \A i \in 1..n : f[i] = IF i = 1 THEN s[i] ELSE Cat(f[i - 1], s[i])
  BY DEF Flattens
<1> QED
  BY <1>1

LEMMA FlattensType ==
  ASSUME NEW S, NEW s \in Seq(Seq(S)), NEW f, Flattens(f, s, Len(s))
  PROVE  \A i \in 1..Len(s) :
           /\ f[i] \in Seq(S)
           /\ \A e \in Range(f[i]) : \E j \in 1..Len(s) : e \in Range(s[j])
<1> DEFINE Here(i) == /\ f[i] \in Seq(S)
                      /\ \A e \in Range(f[i]) : \E j \in 1..Len(s) : e \in Range(s[j])
           T == {m \in Nat : m + 1 \in 1..Len(s) => Here(m + 1)}
<1>0. Len(s) \in Nat /\ \A i \in 1..Len(s) : s[i] \in Seq(S)
  BY LenProperties
<1>1. 0 \in T
  <2> SUFFICES ASSUME 1 \in 1..Len(s) PROVE Here(1)
    OBVIOUS
  <2>1. f[1] = s[1]
    BY DEF Flattens
  <2> QED
    BY <1>0, <2>1
<1>2. ASSUME NEW m \in Nat, m \in T PROVE m + 1 \in T
  <2> SUFFICES ASSUME (m + 1) + 1 \in 1..Len(s) PROVE Here((m + 1) + 1)
    OBVIOUS
  <2>1. PICK k \in 1..Len(s) : k = (m + 1) + 1
    OBVIOUS
  <2>2. k # 1 /\ k - 1 = m + 1 /\ m + 1 \in 1..Len(s)
    BY <1>0, <2>1
  <2>3. Here(m + 1)
    BY <1>2, <2>2
  <2>4. PICK p \in Seq(S) : p = f[m + 1]
    BY <2>3
  <2>5. f[k] = p \o s[k] /\ s[k] \in Seq(S)
    <3>1. f[k] = Cat(f[k - 1], s[k])
      BY <1>0, <2>2, FlattensStep
    <3> QED
      BY <1>0, <2>2, <2>4, <3>1 DEF Cat
  <2>6. p \o s[k] \in Seq(S) /\ Range(p \o s[k]) = Range(p) \cup Range(s[k])
    BY <2>5, ConcatProperties, RangeConcatenation
  <2>7. f[k] \in Seq(S)
    BY <2>5, <2>6
  <2>8. \A e \in Range(f[k]) : \E j \in 1..Len(s) : e \in Range(s[j])
    BY <2>1, <2>3, <2>4, <2>5, <2>6
  <2> QED
    BY <2>1, <2>7, <2>8
<1> HIDE DEF T
<1>3. \A m \in Nat : m \in T
  BY <1>1, <1>2, NatSetInduction
<1>4. ASSUME NEW i \in 1..Len(s) PROVE Here(i)
  <2>1. i - 1 \in Nat /\ (i - 1) + 1 = i
    BY <1>0
  <2>2. i - 1 \in T
    BY <1>3, <2>1
  <2> QED
    BY <2>1, <2>2 DEF T
<1> QED
  BY <1>4

LEMMA FlattenEmpty == FlattenSeq(<<>>) = <<>>
<1>1. Len(<<>>) = 0
  OBVIOUS
<1> QED
  BY <1>1, Zenon DEF FlattenSeq

LEMMA FlattenType ==
  ASSUME NEW S, NEW s \in Seq(Seq(S))
  PROVE  /\ FlattenSeq(s) \in Seq(S)
         /\ \A e \in Range(FlattenSeq(s)) : \E j \in 1..Len(s) : e \in Range(s[j])
<1>1. CASE s = <<>>
  <2>1. <<>> \in Seq(S)
    OBVIOUS
  <2> QED
    BY <1>1, <2>1, FlattenEmpty, RangeOfEmpty
<1>2. CASE s # <<>>
  <2>1. Len(s) \in Nat \ {0} /\ Len(s) \in 1..Len(s)
    BY <1>2, EmptySeq, LenProperties
  <2>2. PICK f : Flattens(f, s, Len(s)) /\ FlattenSeq(s) = f[Len(s)]
    BY <2>1, FlattenIsLast
  <2> QED
    BY <2>1, <2>2, FlattensType
<1> QED
  BY <1>1, <1>2

\* Partial results depend on what comes before only.
Agree(f, g, k) == \A i \in 1..k : f[i] = g[i]

LEMMA FlattensSame ==
  ASSUME NEW s, NEW n \in Nat, NEW f, Flattens(f, s, n),
         NEW t, NEW m \in Nat, NEW g, Flattens(g, t, m),
         NEW k \in Nat, k <= n, k <= m, Agree(s, t, k)
  PROVE  Agree(f, g, k)
<1> DEFINE T == {i \in Nat : i + 1 <= k => f[i + 1] = g[i + 1]}
<1>1. /\ \A i \in 1..n : f[i] = IF i = 1 THEN s[i] ELSE Cat(f[i - 1], s[i])
      /\ \A i \in 1..m : g[i] = IF i = 1 THEN t[i] ELSE Cat(g[i - 1], t[i])
  BY DEF Flattens
<1>2. 0 \in T
  BY <1>1 DEF Agree
<1>3. ASSUME NEW i \in Nat, i \in T PROVE i + 1 \in T
  BY <1>1, <1>3 DEF Agree
<1> HIDE DEF T
<1>4. \A i \in Nat : i \in T
  BY <1>2, <1>3, NatSetInduction
<1>5. \A i \in 1..k : i - 1 \in Nat /\ (i - 1) + 1 = i /\ i <= k
  OBVIOUS
<1> QED
  BY <1>4, <1>5 DEF T, Agree

LEMMA FlattenAppend ==
  ASSUME NEW S, NEW s \in Seq(Seq(S)), NEW x \in Seq(S)
  PROVE  FlattenSeq(Append(s, x)) = FlattenSeq(s) \o x
<1> DEFINE n == Len(s)
           t == Append(s, x)
<1>1. /\ n \in Nat /\ t \in Seq(Seq(S)) /\ Len(t) = n + 1
      /\ \A i \in 1..n : t[i] = s[i]
      /\ t[n + 1] = x
  BY AppendProperties, LenProperties
<1>2. PICK g : Flattens(g, t, n + 1) /\ FlattenSeq(t) = g[n + 1]
  <2>1. Len(t) \in Nat \ {0}
    BY <1>1
  <2> QED
    BY <1>1, <2>1, FlattenIsLast
<1>3. CASE n = 0
  <2>1. s = <<>>
    BY <1>3, EmptySeq
  <2>2. g[1] = t[1]
    BY <1>2, <1>3, FlattensStep
  <2>3. FlattenSeq(t) = x
    BY <1>1, <1>2, <1>3, <2>2
  <2>4. <<>> \o x = x
    BY ConcatEmptySeq
  <2> QED
    BY <2>1, <2>3, <2>4, FlattenEmpty
<1>4. CASE n # 0
  <2>1. PICK f : Flattens(f, s, n) /\ FlattenSeq(s) = f[n]
    BY <1>1, <1>4, FlattenIsLast
  <2> HIDE DEF n, t
  <2>2. n \in 1..n /\ n <= n + 1 /\ n + 1 \in Nat /\ n + 1 \in 1..(n + 1)
        /\ n + 1 # 1 /\ (n + 1) - 1 = n
    BY <1>1, <1>4
  <2>3. f[n] = g[n]
    <3>1. n \in Nat /\ n + 1 \in Nat /\ n <= n /\ n <= n + 1
      BY <1>1
    <3>2. Agree(s, t, n)
      BY <1>1, Zenon DEF Agree
    <3>3. Flattens(f, s, n) /\ Flattens(g, t, n + 1)
      BY <1>2, <2>1, Zenon
    <3>4. Agree(f, g, n)
      BY <3>1, <3>2, <3>3, FlattensSame, Zenon
    <3> QED
      BY <2>2, <3>4 DEF Agree
  <2>4. g[n + 1] = Cat(g[n], t[n + 1])
    BY <1>2, <2>2, FlattensStep
  <2> QED
    BY <1>1, <1>2, <2>1, <2>3, <2>4, Zenon DEF Cat, t
<1> QED
  BY <1>3, <1>4

\* The k-th of n sequences grows by x, and all behind it are empty.
Touches(s, t, n, k, x) ==
    /\ Len(s) = n /\ Len(t) = n /\ k \in 1..n
    /\ t[k] = s[k] \o x
    /\ \A i \in 1..n : i # k => t[i] = s[i]
    /\ \A i \in 1..n : i > k => s[i] = <<>>

LEMMA FlattenTouch ==
  ASSUME NEW S, NEW s \in Seq(Seq(S)), NEW t \in Seq(Seq(S)), NEW x \in Seq(S),
         NEW n \in Nat, NEW k, Touches(s, t, n, k, x)
  PROVE  FlattenSeq(t) = FlattenSeq(s) \o x
<1> USE DEF Touches
<1>0. n \in Nat \ {0} /\ n \in 1..n /\ k \in 1..n
  OBVIOUS
<1>1. PICK f : Flattens(f, s, n) /\ FlattenSeq(s) = f[n]
  BY <1>0, FlattenIsLast
<1>2. PICK g : Flattens(g, t, n) /\ FlattenSeq(t) = g[n]
  BY <1>0, FlattenIsLast
<1>3. \A i \in 1..n : f[i] \in Seq(S) /\ s[i] \in Seq(S)
  BY <1>1, FlattensType, LenProperties
<1>4. g[k] = f[k] \o x
  <2>1. CASE k = 1
    <3>1. f[1] = s[1] /\ g[1] = t[1]
      BY <1>0, <1>1, <1>2, FlattensStep
    <3> QED
      BY <2>1, <3>1
  <2>2. CASE k # 1
    <3>1. k - 1 \in 1..n /\ k - 1 \in Nat /\ k - 1 \in 1..(k - 1)
          /\ \A i \in 1..(k - 1) : i \in 1..n /\ i # k
      BY <2>2
    <3>2. f[k - 1] = g[k - 1]
      <4>1. Agree(s, t, k - 1)
        BY <3>1 DEF Agree
      <4>2. k - 1 <= n
        OBVIOUS
      <4>3. PICK j \in Nat : j = k - 1
        BY <3>1
      <4>4. n \in Nat /\ j <= n /\ Agree(s, t, j) /\ Flattens(f, s, n) /\ Flattens(g, t, n)
        BY <1>1, <1>2, <4>1, <4>2, <4>3
      <4>5. Agree(f, g, j)
        BY <4>4, FlattensSame, Zenon
      <4> QED
        BY <3>1, <4>3, <4>5 DEF Agree
    <3>3. f[k] = Cat(f[k - 1], s[k]) /\ g[k] = Cat(g[k - 1], t[k])
      BY <1>1, <1>2, <2>2 DEF Flattens
    <3>4. PICK p \in Seq(S) : p = f[k - 1]
      BY <1>3, <3>1
    <3>5. PICK y \in Seq(S) : y = s[k]
      BY <1>3
    <3>6. PICK fk : fk = p \o y
      OBVIOUS
    <3>7. PICK tk : tk = y \o x
      OBVIOUS
    <3>8. fk \o x = p \o tk
      BY ONLY p \in Seq(S), y \in Seq(S), x \in Seq(S), <3>6, <3>7, Assoc, SMT
    <3>9. f[k] = fk /\ g[k] = p \o tk
      BY <3>2, <3>3, <3>4, <3>5, <3>6, <3>7, Zenon DEF Cat
    <3> QED
      BY <3>8, <3>9, Zenon
  <2> QED
    BY <2>1, <2>2
<1> DEFINE T == {m \in Nat : k + m <= n => g[k + m] = f[k + m] \o x}
<1>5. 0 \in T
  BY <1>4
<1>6. ASSUME NEW m \in Nat, m \in T PROVE m + 1 \in T
  <2>0. ASSUME k + (m + 1) <= n PROVE g[k + (m + 1)] = f[k + (m + 1)] \o x
    <3>1. PICK j \in 1..n : j = k + (m + 1)
      BY <2>0
    <3>2. j # 1 /\ j - 1 = k + m /\ j - 1 \in 1..n /\ j > k /\ j # k /\ k + m <= n
      BY <3>1
    <3>3. f[j] = Cat(f[j - 1], s[j]) /\ g[j] = Cat(g[j - 1], t[j])
      BY <1>1, <1>2, <3>2 DEF Flattens
    <3>4. s[j] = <<>> /\ t[j] = <<>>
      BY <3>2
    <3>5. PICK p \in Seq(S) : p = f[j - 1]
      BY <1>3, <3>2
    <3>6. g[j - 1] = p \o x
      BY <1>6, <3>2, <3>5
    <3>7. PICK r \in Seq(S) : r = p \o x
      BY ConcatProperties
    <3>8. p \o <<>> = p /\ r \o <<>> = r
      BY ConcatEmptySeq
    <3>9. f[j] = p /\ g[j] = r
      BY <3>3, <3>4, <3>5, <3>6, <3>7, <3>8, Zenon DEF Cat
    <3> QED
      BY <3>1, <3>7, <3>9, Zenon
  <2>1. m + 1 \in Nat
    OBVIOUS
  <2> QED
    BY <2>0, <2>1, Zenon
<1> HIDE DEF T
<1>8. k + (n - k) = n /\ n - k \in Nat /\ k + (n - k) <= n
  OBVIOUS
<1>9. \A m \in Nat : m \in T
  BY <1>5, <1>6, NatSetInduction
<1>7. n - k \in T
  BY <1>8, <1>9
<1> QED
  BY <1>1, <1>2, <1>7, <1>8 DEF T

\* A sequence that agrees with another and has one element more.
LEMMA FlattenGrows ==
  ASSUME NEW S, NEW s \in Seq(Seq(S)), NEW t \in Seq(Seq(S)), NEW x \in Seq(S),
         Len(t) = Len(s) + 1, \A i \in 1..Len(s) : t[i] = s[i], t[Len(s) + 1] = x
  PROVE  FlattenSeq(t) = FlattenSeq(s) \o x
<1>1. /\ Append(s, x) \in Seq(Seq(S)) /\ Len(Append(s, x)) = Len(s) + 1
      /\ \A i \in 1..Len(s) : Append(s, x)[i] = s[i]
      /\ Append(s, x)[Len(s) + 1] = x /\ Len(s) \in Nat
  BY AppendProperties, LenProperties
<1>2. \A i \in 1..(Len(s) + 1) : i \in 1..Len(s) \/ i = Len(s) + 1
  BY <1>1
<1>3. \A i \in 1..(Len(s) + 1) : t[i] = Append(s, x)[i]
  BY <1>1, <1>2
<1>4. t = Append(s, x)
  BY <1>1, <1>3, SeqEqual
<1> QED
  BY <1>4, FlattenAppend
-----------------------------------------------------------------------------
\* The cardinality of disjoint sets.
LEMMA DisjointUnion ==
  ASSUME NEW S, IsFiniteSet(S), NEW A \in SUBSET S, NEW X \in SUBSET S, A \cap X = {}
  PROVE  Cardinality(A \cup X) = Cardinality(A) + Cardinality(X)
<1>1. IsFiniteSet(A) /\ IsFiniteSet(X)
  BY FS_Subset
<1>2. Cardinality(A \cup X) = Cardinality(A) + Cardinality(X) - Cardinality(A \cap X)
  BY <1>1, FS_Union
<1>3. Cardinality(A \cap X) = 0
  BY FS_EmptySet
<1>4. Cardinality(A) \in Nat /\ Cardinality(X) \in Nat
  BY <1>1, FS_CardinalityType
<1> QED
  BY <1>2, <1>3, <1>4

=============================================================================
