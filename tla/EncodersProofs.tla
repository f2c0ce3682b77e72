--------------------------- MODULE EncodersProofs --------------------------
(***************************************************************************)
(* Proofs about the encoders.  About EncoderPools, for any number of       *)
(* goroutines, buffers and fields: no buffer is in two pairs of hands, and *)
(* no record holds what another goroutine wrote.  About MsgpackEncoder, for *)
(* any number of calls, any depth cap and any envelope: the payload is     *)
(* read back as what was logged.                                           *)
(***************************************************************************)
EXTENDS EncoderPools, MsgpackEncoder, SequenceFacts

-----------------------------------------------------------------------------
(***************************************************************************)
(* The inductive invariant.                                                *)
(***************************************************************************)
Token == (Goroutines \cup {"with"}) \X Int
Pcs   == {"start", "clone", "fields", "seal", "recycle", "sealAll", "rec", "copy", "put", "done"}
Snap  == [depth : Nat, bufLen : Nat, fields : Seq(Token)]

PoolTypeOK ==
    /\ encoder \in {"fluent", "otlp"}
    /\ heap \in [Buffers -> Seq(Token)]
    /\ pool \in [Buffers -> {0, 1}]
    /\ pc \in [Goroutines -> Pcs]
    /\ frames \in [Goroutines -> Seq(Buffers)]
    /\ side \in [Goroutines -> Seq(Buffers)]
    /\ snaps \in [Goroutines -> Seq(Snap)]
    /\ written \in [Goroutines -> Seq(Token)]
    /\ record \in [Goroutines -> Seq(Token)]

Refs(g) == ToSet(frames[g]) \cup ToSet(side[g])

\* When the envelope or the record has a buffer, and when rec may have grown.
NoSide(g) ==
    pc[g] \in {"start", "done"} \/ (encoder = "otlp" /\ pc[g] \notin {"rec", "copy", "put"})

SideInv(g) ==
    /\ side[g] = <<>> <=> NoSide(g)
    /\ Len(side[g]) <= 2
    /\ pc[g] = "rec" => Len(side[g]) = 1
    /\ pc[g] \in {"rec", "copy"} => encoder = "otlp"

\* How many buffers a goroutine has in its hands at each point of EncodeEntry.
ShapeInv(g) ==
    /\ pc[g] \in {"start", "clone", "done"} => Len(frames[g]) = 0
    /\ pc[g] \in {"sealAll", "rec", "copy", "put"} => Len(frames[g]) = 1
    /\ pc[g] \in {"seal", "recycle"} => Len(frames[g]) = 2
    /\ pc[g] = "fields" => Len(frames[g]) = 1 + Len(snaps[g])
    /\ pc[g] # "fields" => snaps[g] = <<>>
    /\ Len(snaps[g]) <= 1
    /\ SideInv(g)

\* A goroutine's buffers are different from each other,
LocalInv(g) ==
    /\ IsInjective(frames[g])
    /\ IsInjective(side[g])
    /\ ToSet(frames[g]) \cap ToSet(side[g]) = {}

\* and from everybody else's, those of With and those in the pool.
OwnInv ==
    /\ \A g \in Goroutines : 1 \notin Refs(g)
    /\ \A g, h \in Goroutines : g # h => Refs(g) \cap Refs(h) = {}
    /\ \A b \in Buffers : pool[b] = 1 => b # 1 /\ \A g \in Goroutines : b \notin Refs(g)
    /\ heap[1] = With[1]

\* What the frames hold, read from the bottom of the stack.
StackInv(g) ==
    /\ pc[g] \in {"start", "clone"} => written[g] = <<>>
    /\ (pc[g] \in {"fields", "sealAll", "rec", "copy", "put"} /\ Len(frames[g]) = 1)
         \/ pc[g] = "recycle" =>
         heap[frames[g][1]] = With[1] \o written[g]
    /\ pc[g] \in {"fields", "seal"} /\ Len(frames[g]) = 2 =>
         heap[frames[g][1]] \o heap[frames[g][2]] = With[1] \o written[g]
    /\ snaps[g] # <<>> /\ encoder = "otlp" =>
         /\ snaps[g][1].depth = 1
         /\ snaps[g][1].bufLen = Len(heap[frames[g][1]])
         /\ heap[frames[g][1]] = With[1] \o snaps[g][1].fields

\* What the envelope holds, or the record.
SideHolds(g) ==
    IF encoder = "fluent" THEN <<<<g, 0>>>>
    ELSE IF pc[g] = "rec" THEN <<>> ELSE <<<<g, 0>>>> \o With[1] \o written[g]

ContentInv(g) ==
    /\ StackInv(g)
    /\ side[g] # <<>> => heap[side[g][1]] = SideHolds(g)
    /\ pc[g] \in {"put", "done"} => record[g] = <<<<g, 0>>>> \o With[1] \o written[g]

PoolInv ==
    /\ PoolTypeOK
    /\ OwnInv
    /\ \A g \in Goroutines : ShapeInv(g) /\ LocalInv(g) /\ ContentInv(g)

-----------------------------------------------------------------------------
(***************************************************************************)
(* Short sequences.                                                        *)
(***************************************************************************)
LEMMA ToSetIsRange ==
  ASSUME NEW s
  PROVE  ToSet(s) = Range(s)
  BY DEF ToSet, Range

LEMMA Single ==
  ASSUME NEW S, NEW e \in S
  PROVE  <<e>> \in Seq(S) /\ Len(<<e>>) = 1 /\ <<e>>[1] = e /\ <<e>> # <<>> /\ ToSet(<<e>>) = {e}
<1>1. <<e>> \in Seq(S) /\ Len(<<e>>) = 1 /\ <<e>>[1] = e /\ <<e>> # <<>>
  OBVIOUS
<1> QED
  BY <1>1, ToSetIsRange, RangeOfSingle

LEMMA One ==
  ASSUME NEW S, NEW s \in Seq(S), Len(s) = 1
  PROVE  /\ s[1] \in S /\ s = <<s[1]>> /\ Last(s) = s[1] /\ ToSet(s) = {s[1]}
<1>1. s[1] \in S /\ Last(s) = s[1]
  BY DEF Last
<1>2. s = <<s[1]>>
  <2>1. <<s[1]>> \in Seq(S) /\ Len(<<s[1]>>) = 1 /\ <<s[1]>>[1] = s[1]
    BY <1>1
  <2>2. \A i \in 1..1 : s[i] = <<s[1]>>[i]
    BY <2>1
  <2> QED
    BY <2>1, <2>2, SeqEqual
<1>3. Range(<<s[1]>>) = {s[1]}
  BY RangeOfSingle
<1> QED
  BY <1>1, <1>2, <1>3, ToSetIsRange

LEMMA Two ==
  ASSUME NEW S, NEW s \in Seq(S), Len(s) = 2
  PROVE  /\ s[1] \in S /\ s[2] \in S /\ s = <<s[1], s[2]>> /\ Last(s) = s[2]
         /\ SubSeq(s, 1, 1) = <<s[1]>> /\ SubSeq(s, 2, 2) = <<s[2]>>
         /\ Front(s) = <<s[1]>> /\ ToSet(s) = {s[1], s[2]}
<1>1. s[1] \in S /\ s[2] \in S /\ s = <<s[1], s[2]>> /\ Last(s) = s[2]
  BY DEF Last
<1>2. SubSeq(s, 1, 1) = <<s[1]>> /\ SubSeq(s, 2, 2) = <<s[2]>>
  <2>1. /\ SubSeq(s, 1, 1) \in Seq(S) /\ Len(SubSeq(s, 1, 1)) = 1 /\ SubSeq(s, 1, 1)[1] = s[1]
        /\ SubSeq(s, 2, 2) \in Seq(S) /\ Len(SubSeq(s, 2, 2)) = 1 /\ SubSeq(s, 2, 2)[1] = s[2]
    BY <1>1, SubSeqProperties
  <2> QED
    BY <2>1, One
<1>3. Front(s) = <<s[1]>>
  BY <1>2 DEF Front
<1>4. ToSet(s) = {s[1], s[2]}
  <2>1. Range(s) = {s[i] : i \in 1..2}
    BY RangeEquality
  <2> QED
    BY <2>1, ToSetIsRange
<1> QED
  BY <1>1, <1>2, <1>3, <1>4

LEMMA AtMostOne ==
  ASSUME NEW S, NEW s \in Seq(S), Len(s) <= 1
  PROVE  s # <<>> => Len(s) = 1
<1>1. Len(s) \in Nat /\ (Len(s) = 0 => s = <<>>)
  BY EmptySeq
<1>2. \A k \in Nat : k <= 1 => k = 0 \/ k = 1
  OBVIOUS
<1> QED
  BY <1>1, <1>2, Zenon

LEMMA InjectiveOne == ASSUME NEW a PROVE IsInjective(<<a>>)
<1>1. DOMAIN <<a>> = {1}
  OBVIOUS
<1> QED
  BY <1>1 DEF IsInjective

LEMMA InjectiveTwo == ASSUME NEW a, NEW b, a # b PROVE IsInjective(<<a, b>>)
<1>1. DOMAIN <<a, b>> = {1, 2} /\ <<a, b>>[1] = a /\ <<a, b>>[2] = b
  OBVIOUS
<1> QED
  BY <1>1 DEF IsInjective

LEMMA None == ToSet(<<>>) = {}
  BY ToSetIsRange, RangeOfEmpty

-----------------------------------------------------------------------------
(***************************************************************************)
(* Tokens, and buffers that nobody refers to.                              *)
(***************************************************************************)
LEMMA TokenTypes ==
  ASSUME PoolTypeOK, NEW g \in Goroutines
  PROVE  <<g, 0>> \in Token /\ <<g, -1>> \in Token /\ Field(g) \in Token
  BY DEF PoolTypeOK, Token, Field

LEMMA Persistent ==
  /\ Len(base) = 1 /\ base[1] = 1 /\ DOMAIN base = {1} /\ ToSet(base) = {1}
  /\ DOMAIN With = {1} /\ With[1] \in Seq(Token)
<1>1. <<1>> \in Seq({1}) /\ Len(<<1>>) = 1 /\ <<1>>[1] = 1
  OBVIOUS
<1>2. ToSet(<<1>>) = {1}
  BY <1>1, One
<1>3. <<"with", 1>> \in Token
  BY DEF Token
<1>4. With[1] \in Seq(Token)
  BY <1>3 DEF With
<1>5. DOMAIN With = {1}
  BY DEF With
<1> QED
  BY <1>1, <1>2, <1>4, <1>5 DEF base

Free(b) == b # 1 /\ \A g \in Goroutines : b \notin Refs(g)

LEMMA InUseIs == \A b : b \notin InUse <=> Free(b)
  BY Persistent DEF InUse, Free, Refs

LEMMA FirstIsOne ==
  ASSUME NEW S, S \subseteq Nat
  PROVE  First(S) \subseteq S
<1>1. CASE S = {}
  BY <1>1 DEF First
<1>2. CASE S # {}
  <2>1. \E m \in S : \A k \in S : m <= k
    BY <1>2, LeastNumber
  <2>2. Min(S) \in S
    BY <2>1 DEF Min
  <2> QED
    BY <1>2, <2>2 DEF First
<1> QED
  BY <1>1, <1>2

LEMMA NewIsFree ==
  ASSUME PoolInv, NEW b \in New
  PROVE  b \in Buffers /\ Free(b) /\ pool[b] = 0
<1> DEFINE S == {c \in Buffers : c \notin InUse /\ pool[c] = 0}
<1>1. S \subseteq Nat
  BY PoolBounds
<1>2. b \in S
  BY <1>1, FirstIsOne DEF New
<1> QED
  BY <1>2, InUseIs

\* The pool gives no buffer that somebody refers to.
LEMMA GetIsFree ==
  ASSUME PoolInv, NEW b \in Get
  PROVE  b \in Buffers /\ Free(b) /\ taken(b) = [pool EXCEPT ![b] = 0]
<1>1. pool \in [Buffers -> {0, 1}]
  BY DEF PoolInv, PoolTypeOK
<1>2. Pooled \subseteq Buffers /\ \A c \in Pooled : Free(c)
  BY <1>1 DEF Pooled, PoolInv, OwnInv, Free
<1>3. b \in New \cup Pooled
  <2>1. Pooled \ InUse \subseteq Nat
    BY <1>2, PoolBounds
  <2>2. First(Pooled \ InUse) \subseteq Pooled \ InUse
    BY <2>1, FirstIsOne
  <2> QED
    BY <2>2 DEF Get
<1>4. b \in Buffers /\ Free(b)
  BY <1>2, <1>3, NewIsFree
<1>5. taken(b) = [pool EXCEPT ![b] = 0]
  <2>1. pool[b] \in {0, 1}
    BY <1>1, <1>4
  <2>2. (IF pool[b] > 0 THEN pool[b] - 1 ELSE 0) = 0
    BY <2>1
  <2> QED
    BY <2>2 DEF taken
<1> QED
  BY <1>4, <1>5

LEMMA Small ==
  ASSUME NEW k \in Nat
  PROVE  (k <= 1 => 1 + k \in 1..2) /\ (k <= 2 => k \in 0..2)
  OBVIOUS

LEMMA RefsOf ==
  ASSUME PoolInv, NEW g \in Goroutines
  PROVE  /\ Refs(g) \subseteq Buffers
         /\ Len(frames[g]) \in 0..2 /\ Len(side[g]) \in 0..2
         /\ \A i \in 1..Len(frames[g]) : frames[g][i] \in Refs(g)
         /\ side[g] # <<>> => side[g][1] \in ToSet(side[g]) /\ Last(side[g]) \in ToSet(side[g])
<1>1. frames[g] \in Seq(Buffers) /\ side[g] \in Seq(Buffers) /\ snaps[g] \in Seq(Snap)
  BY DEF PoolInv, PoolTypeOK
<1>2. /\ Range(frames[g]) = {frames[g][i] : i \in 1..Len(frames[g])}
      /\ Range(side[g]) = {side[g][i] : i \in 1..Len(side[g])}
  BY <1>1, RangeEquality
<1>3. Refs(g) = Range(frames[g]) \cup Range(side[g])
  BY ToSetIsRange DEF Refs
<1>4. Len(frames[g]) \in Nat /\ Len(side[g]) \in Nat /\ Len(snaps[g]) \in Nat
  BY <1>1
<1>5. Len(frames[g]) \in 0..2 /\ Len(side[g]) \in 0..2
  <2>1. ShapeInv(g)
    BY DEF PoolInv
  <2>2. /\ \/ Len(frames[g]) = 0 \/ Len(frames[g]) = 1 \/ Len(frames[g]) = 2
           \/ Len(frames[g]) = 1 + Len(snaps[g])
        /\ Len(snaps[g]) <= 1 /\ Len(side[g]) <= 2
    BY <2>1 DEF ShapeInv, SideInv, PoolInv, PoolTypeOK, Pcs
  <2>3. Len(side[g]) \in 0..2 /\ 1 + Len(snaps[g]) \in 1..2
    BY <1>4, <2>2, Small
  <2>4. Len(frames[g]) \in 0..2
    <3>1. \A n \in 1..2 : n \in 0..2
      OBVIOUS
    <3>2. 0 \in 0..2 /\ 1 \in 0..2 /\ 2 \in 0..2
      OBVIOUS
    <3> QED
      BY <2>2, <2>3, <3>1, <3>2, Zenon
  <2> QED
    BY <2>3, <2>4
<1>6. Refs(g) \subseteq Buffers
  BY <1>1, <1>2, <1>3
<1>7. side[g] # <<>> => side[g][1] \in ToSet(side[g]) /\ Last(side[g]) \in ToSet(side[g])
  <2>1. side[g] # <<>> => 1 \in 1..Len(side[g]) /\ Len(side[g]) \in 1..Len(side[g])
    BY <1>1, <1>4, EmptySeq
  <2> QED
    BY <1>2, <2>1, ToSetIsRange DEF Last
<1> QED
  BY <1>2, <1>3, <1>5, <1>6, <1>7

-----------------------------------------------------------------------------
(***************************************************************************)
(* A step of goroutine g writes to its own buffers and to free ones, which *)
(* it may keep; what it gives to the pool was its own.                     *)
(***************************************************************************)
StepOf(g) ==
    /\ encoder' = encoder
    /\ \A h \in Goroutines \ {g} :
         /\ pc'[h] = pc[h] /\ frames'[h] = frames[h] /\ side'[h] = side[h]
         /\ snaps'[h] = snaps[h] /\ written'[h] = written[h] /\ record'[h] = record[h]
    /\ \A b \in Buffers : heap'[b] = heap[b] \/ b \in Refs(g) \/ Free(b)
    /\ \A b \in Refs(g)' : b \in Refs(g) \/ Free(b)
    /\ \A b \in Buffers : pool'[b] = 1 => b \notin Refs(g)' /\ (pool[b] = 1 \/ b \in Refs(g))

GoInv(g) == ShapeInv(g) /\ LocalInv(g) /\ ContentInv(g)

\* The other goroutines do not notice.
LEMMA OthersKept ==
  ASSUME PoolInv, NEW g \in Goroutines, StepOf(g), PoolTypeOK', GoInv(g)'
  PROVE  PoolInv'
<1> USE DEF PoolInv
<1>1. \A h \in Goroutines \ {g} : Refs(h)' = Refs(h)
  BY DEF StepOf, Refs
<1>2. \A h \in Goroutines \ {g} : \A b \in Refs(h) : heap'[b] = heap[b]
  BY RefsOf DEF StepOf, OwnInv, Free
<1>3. OwnInv'
  <2>1. heap'[1] = With[1]
    BY PoolBounds DEF StepOf, OwnInv, Free
  <2>2. \A h \in Goroutines : 1 \notin Refs(h)'
    BY <1>1 DEF StepOf, OwnInv, Free
  <2>3. \A h, k \in Goroutines : h # k => Refs(h)' \cap Refs(k)' = {}
    BY <1>1 DEF StepOf, OwnInv, Free
  <2>4. \A b \in Buffers : pool'[b] = 1 => b # 1 /\ \A h \in Goroutines : b \notin Refs(h)'
    BY <1>1 DEF StepOf, OwnInv
  <2> QED
    BY <2>1, <2>2, <2>3, <2>4 DEF OwnInv
<1>4. ASSUME NEW h \in Goroutines \ {g} PROVE GoInv(h)'
  <2>1. /\ pc'[h] = pc[h] /\ frames'[h] = frames[h] /\ side'[h] = side[h]
        /\ snaps'[h] = snaps[h] /\ written'[h] = written[h] /\ record'[h] = record[h]
        /\ encoder' = encoder
    BY DEF StepOf
  <2>2. ShapeInv(h)' /\ LocalInv(h)' /\ SideHolds(h)' = SideHolds(h)
    BY <2>1 DEF ShapeInv, SideInv, NoSide, LocalInv, SideHolds
  <2>3. /\ Len(frames[h]) \in 1..2 => heap'[frames[h][1]] = heap[frames[h][1]]
        /\ Len(frames[h]) = 2 => heap'[frames[h][2]] = heap[frames[h][2]]
        /\ side[h] # <<>> => heap'[side[h][1]] = heap[side[h][1]]
    BY <1>2, RefsOf DEF Refs
  <2>4. ShapeInv(h) /\ ContentInv(h) /\ Len(snaps[h]) \in Nat
    BY DEF PoolTypeOK
  <2>5. /\ pc[h] = "recycle" => Len(frames[h]) = 2
        /\ snaps[h] # <<>> => Len(frames[h]) \in 1..2
    <3>1. snaps[h] # <<>> => Len(frames[h]) = 1 + Len(snaps[h]) /\ Len(snaps[h]) <= 1
      BY <2>4 DEF ShapeInv
    <3>2. pc[h] = "recycle" => Len(frames[h]) = 2
      BY <2>4 DEF ShapeInv
    <3> QED
      BY <2>4, <3>1, <3>2, Small
  <2>6. ContentInv(h)'
    <3>1. (Len(frames[h]) = 1 \/ pc[h] = "recycle") =>
            heap'[frames[h][1]] = heap[frames[h][1]]
      BY <2>3, <2>5
    <3>2. Len(frames[h]) = 2 => /\ heap'[frames[h][1]] = heap[frames[h][1]]
                                /\ heap'[frames[h][2]] = heap[frames[h][2]]
      BY <2>3
    <3>3. snaps[h] # <<>> => heap'[frames[h][1]] = heap[frames[h][1]]
      BY <2>3, <2>5
    <3> QED
      BY <2>1, <2>2, <2>3, <2>4, <3>1, <3>2, <3>3 DEF ContentInv, StackInv
  <2> QED
    BY <2>2, <2>6 DEF GoInv
<1> QED
  BY <1>3, <1>4 DEF GoInv

\* What the invariant says of g itself.
LEMMA Mine ==
  ASSUME PoolInv, NEW g \in Goroutines
  PROVE  /\ frames[g] \in Seq(Buffers) /\ side[g] \in Seq(Buffers) /\ snaps[g] \in Seq(Snap)
         /\ written[g] \in Seq(Token) /\ record[g] \in Seq(Token)
         /\ PoolTypeOK /\ ShapeInv(g) /\ LocalInv(g) /\ ContentInv(g)
  BY DEF PoolInv, PoolTypeOK

-----------------------------------------------------------------------------
(***************************************************************************)
(* The actions, one by one.                                                *)
(***************************************************************************)
\* While g works on its stack, its envelope stays as it is.
LEMMA SideKept ==
  ASSUME NEW g \in Goroutines, SideInv(g), UNCHANGED <<encoder, side>>,
         pc[g] \in {"clone", "fields", "seal", "recycle", "sealAll"},
         pc'[g] \in {"clone", "fields", "seal", "recycle", "sealAll"}
  PROVE  SideInv(g)'
  BY DEF SideInv, NoSide

\* g takes a buffer for its envelope or record.
LEMMA SideTaken ==
  ASSUME PoolInv, NEW g \in Goroutines, side[g] = <<>>,
         NEW b \in Get, pool' = taken(b), side' = [side EXCEPT ![g] = <<b>>],
         NEW t \in Seq(Token), heap' = [heap EXCEPT ![b] = t],
         NEW p, pc' = [pc EXCEPT ![g] = p],
         \/ pc[g] = "start" /\ p = "clone" /\ encoder = "fluent" /\ t = <<<<g, 0>>>>
         \/ pc[g] = "sealAll" /\ p = "rec" /\ encoder = "otlp" /\ t = <<>>,
         UNCHANGED <<encoder, frames, snaps, written, record>>
  PROVE  PoolInv'
<1>1. /\ b \in Buffers /\ Free(b) /\ taken(b) = [pool EXCEPT ![b] = 0]
  BY GetIsFree
<1>2. /\ frames[g] \in Seq(Buffers) /\ PoolTypeOK /\ ShapeInv(g) /\ LocalInv(g) /\ ContentInv(g)
  BY Mine
<1>3. /\ <<b>> \in Seq(Buffers) /\ Len(<<b>>) = 1 /\ <<b>>[1] = b
      /\ <<b>> # <<>> /\ ToSet(<<b>>) = {b} /\ IsInjective(<<b>>)
  BY <1>1, Single, InjectiveOne
<1>4. side'[g] = <<b>> /\ pc'[g] = p
  BY <1>2 DEF PoolTypeOK
<1>5. PoolTypeOK'
  <2>1. p \in Pcs
    BY DEF Pcs
  <2> QED
    BY <1>1, <1>2, <1>3, <2>1 DEF PoolTypeOK
<1>6. Refs(g)' = Refs(g) \cup {b} /\ Refs(g) = ToSet(frames[g])
  BY <1>3, <1>4, None DEF Refs
<1>7. StepOf(g)
  BY <1>1, <1>2, <1>6 DEF StepOf, PoolTypeOK, PoolInv, OwnInv
<1>8. b \notin Refs(g)
  BY <1>1 DEF Free
<1>9. LocalInv(g)'
  BY <1>2, <1>3, <1>4, <1>6, <1>8 DEF LocalInv
<1>10. ShapeInv(g)'
  <2>1. side'[g] # <<>> /\ Len(side'[g]) = 1 /\ Len(side'[g]) <= 2
    <3>1. 1 <= 2
      OBVIOUS
    <3> QED
      BY <1>3, <1>4, <3>1, Zenon
  <2>2. ~NoSide(g)' /\ (pc'[g] \in {"rec", "copy"} => encoder' = "otlp")
    BY <1>4 DEF NoSide
  <2>3. SideInv(g)'
    BY <2>1, <2>2 DEF SideInv
  <2> QED
    BY <1>2, <1>4, <2>3 DEF ShapeInv
<1>11. heap'[b] = t /\ \A i \in 1..Len(frames[g]) : heap'[frames[g][i]] = heap[frames[g][i]]
  BY <1>1, <1>2, <1>8, RefsOf DEF PoolTypeOK
<1>12. ContentInv(g)'
  <2>1. pc[g] = "sealAll" => Len(frames[g]) = 1
    BY <1>2 DEF ShapeInv
  <2>2. snaps[g] = <<>> /\ (pc[g] = "start" => written[g] = <<>>)
    BY <1>2 DEF ShapeInv, ContentInv, StackInv
  <2>3. pc[g] = "sealAll" => heap'[frames[g][1]] = With[1] \o written[g]
    <3>1. Len(frames[g]) = 1 => 1 \in 1..Len(frames[g])
      OBVIOUS
    <3> QED
      BY <1>2, <1>11, <2>1, <3>1 DEF ContentInv, StackInv
  <2>4. StackInv(g)'
    BY <1>4, <2>1, <2>2, <2>3 DEF StackInv
  <2>5. SideHolds(g)' = t
    BY <1>4 DEF SideHolds
  <2>6. heap'[side'[g][1]] = t
    BY <1>3, <1>4, <1>11
  <2> QED
    BY <1>4, <2>4, <2>5, <2>6 DEF ContentInv
<1> QED
  BY <1>5, <1>7, <1>9, <1>10, <1>12, OthersKept DEF GoInv

\* g works on its stack: its envelope is not concerned.
LEMMA StackStep ==
  ASSUME PoolInv, NEW g \in Goroutines, PoolTypeOK', UNCHANGED <<encoder, side, record>>,
         \A h \in Goroutines \ {g} : /\ pc'[h] = pc[h] /\ frames'[h] = frames[h]
                                    /\ snaps'[h] = snaps[h] /\ written'[h] = written[h],
         \A x \in Buffers : heap'[x] = heap[x] \/ x \in ToSet(frames[g]) \/ Free(x),
         \A x \in ToSet(frames'[g]) : x \in ToSet(frames[g]) \/ Free(x),
         \A x \in Buffers : pool'[x] = 1 =>
           x \notin ToSet(frames'[g]) /\ (pool[x] = 1 \/ x \in ToSet(frames[g])),
         pc[g] \notin {"rec", "copy", "put", "done"}, pc'[g] \notin {"rec", "copy", "put", "done"},
         IsInjective(frames'[g]), ShapeInv(g)', StackInv(g)'
  PROVE  PoolInv'
<1>1. side[g] \in Seq(Buffers) /\ PoolTypeOK /\ ShapeInv(g) /\ LocalInv(g) /\ ContentInv(g)
  BY Mine
<1>2. Refs(g) = ToSet(frames[g]) \cup ToSet(side[g])
      /\ Refs(g)' = ToSet(frames'[g]) \cup ToSet(side[g])
  BY DEF Refs
<1>3. StepOf(g)
  <2>1. \A x \in Buffers : pool'[x] = 1 => x \notin Refs(g)' /\ (pool[x] = 1 \/ x \in Refs(g))
    BY <1>1, <1>2 DEF LocalInv, PoolInv, OwnInv
  <2> QED
    BY <1>2, <2>1 DEF StepOf
<1>4. LocalInv(g)'
  BY <1>1, <1>2 DEF LocalInv, Free
<1>5. side[g] # <<>> => heap'[side[g][1]] = heap[side[g][1]]
  <2> SUFFICES ASSUME side[g] # <<>> PROVE heap'[side[g][1]] = heap[side[g][1]]
    OBVIOUS
  <2>1. side[g][1] \in Buffers /\ side[g][1] \in ToSet(side[g])
    BY <1>2, RefsOf
  <2> QED
    BY <1>1, <1>2, <2>1 DEF LocalInv, Free
<1>6. ContentInv(g)'
  <2>1. side[g] # <<>> => encoder = "fluent"
    BY <1>1 DEF ShapeInv, SideInv, NoSide, PoolTypeOK
  <2>2. side[g] # <<>> => SideHolds(g)' = SideHolds(g)
    BY <2>1 DEF SideHolds
  <2> QED
    BY <1>1, <1>5, <2>2 DEF ContentInv
<1> QED
  BY <1>3, <1>4, <1>6, OthersKept DEF GoInv

\* The stack of g with one frame, and with two.
LEMMA DepthOne ==
  ASSUME PoolInv, NEW g \in Goroutines, Len(frames[g]) = 1
  PROVE  \E a \in Buffers : /\ frames[g] = <<a>> /\ frames[g][1] = a /\ Last(frames[g]) = a
                            /\ ToSet(frames[g]) = {a} /\ a \in Refs(g)
<1>1. frames[g] \in Seq(Buffers)
  BY Mine
<1> QED
  BY <1>1, One DEF Refs

LEMMA DepthTwo ==
  ASSUME PoolInv, NEW g \in Goroutines, Len(frames[g]) = 2
  PROVE  \E a, b \in Buffers :
           /\ a # b /\ frames[g] = <<a, b>> /\ frames[g][1] = a /\ frames[g][2] = b
           /\ Last(frames[g]) = b /\ Front(frames[g]) = <<a>>
           /\ SubSeq(frames[g], 1, 1) = <<a>> /\ SubSeq(frames[g], 2, 2) = <<b>>
           /\ ToSet(frames[g]) = {a, b} /\ a \in Refs(g) /\ b \in Refs(g)
<1>1. frames[g] \in Seq(Buffers) /\ LocalInv(g)
  BY Mine
<1>2. DOMAIN frames[g] = 1..2
  BY <1>1, LenProperties
<1>3. frames[g][1] # frames[g][2]
  BY <1>1, <1>2 DEF LocalInv, IsInjective
<1> QED
  BY <1>1, <1>3, Two DEF Refs

LEMMA AppendedIs ==
  ASSUME PoolInv, NEW b \in Buffers, NEW ts \in Seq(Token), NEW to, Appended(b, ts, to)
  PROVE  /\ to \in Buffers
         /\ to = b \/ (Free(to) /\ pool[to] = 0)
         /\ heap' \in [Buffers -> Seq(Token)]
         /\ heap'[to] = heap[b] \o ts
         /\ \A x \in Buffers \ {b, to} : heap'[x] = heap[x]
<1>1. heap \in [Buffers -> Seq(Token)]
  BY DEF PoolInv, PoolTypeOK
<1>2. to \in Buffers /\ (to = b \/ (Free(to) /\ pool[to] = 0))
  BY NewIsFree DEF Appended
<1>3. heap[b] \o ts \in Seq(Token) /\ <<>> \in Seq(Token)
  BY <1>1, ConcatProperties, EmptySeq
<1>4. heap' = [heap EXCEPT ![b] = <<>>, ![to] = heap[b] \o ts]
  BY DEF Appended
<1>5. heap' = [x \in Buffers |-> IF x = to THEN heap[b] \o ts ELSE IF x = b THEN <<>> ELSE heap[x]]
  BY <1>1, <1>2, <1>4
<1> QED
  BY <1>1, <1>2, <1>3, <1>5

\* The same as one fact.
MovedTo(b, ts, to) ==
    /\ to \in Buffers
    /\ to = b \/ (Free(to) /\ pool[to] = 0)
    /\ heap' \in [Buffers -> Seq(Token)]
    /\ heap'[to] = heap[b] \o ts
    /\ \A x \in Buffers \ {b, to} : heap'[x] = heap[x]

LEMMA AppendedMoves ==
  ASSUME PoolInv, NEW b \in Buffers, NEW ts \in Seq(Token), NEW to, Appended(b, ts, to)
  PROVE  MovedTo(b, ts, to)
  BY AppendedIs, Zenon DEF MovedTo

LEMMA ReplaceOne ==
  ASSUME NEW s, NEW a, s = <<a>>, NEW c
  PROVE  [s EXCEPT ![1] = c] = <<c>>
<1>1. DOMAIN <<a>> = {1} /\ DOMAIN <<c>> = {1} /\ <<c>>[1] = c
  OBVIOUS
<1>3. <<c>> = [i \in {1} |-> c]
  BY <1>1
<1>4. [s EXCEPT ![1] = c] = [i \in {1} |-> c]
  BY <1>1
<1> QED
  BY <1>3, <1>4

LEMMA ReplaceTwo ==
  ASSUME NEW s, NEW a, NEW b, s = <<a, b>>, NEW c
  PROVE  [s EXCEPT ![1] = c] = <<c, b>> /\ [s EXCEPT ![2] = c] = <<a, c>>
<1>1. DOMAIN <<a, b>> = {1, 2} /\ DOMAIN <<c, b>> = {1, 2} /\ DOMAIN <<a, c>> = {1, 2}
  OBVIOUS
<1> QED
  BY <1>1

LEMMA AppendTwo ==
  ASSUME NEW S, NEW a \in S, NEW b \in S
  PROVE  Append(<<a>>, b) = <<a, b>>
<1>1. /\ <<a>> \in Seq(S) /\ Len(<<a>>) = 1 /\ <<a>>[1] = a
      /\ <<a, b>> \in Seq(S) /\ Len(<<a, b>>) = 2 /\ <<a, b>>[1] = a /\ <<a, b>>[2] = b
  OBVIOUS
<1>2. /\ Append(<<a>>, b) \in Seq(S) /\ Len(Append(<<a>>, b)) = 2
      /\ Append(<<a>>, b)[1] = a /\ Append(<<a>>, b)[2] = b
  BY <1>1, AppendProperties
<1>3. \A i \in 1..2 : Append(<<a>>, b)[i] = <<a, b>>[i]
  <2>1. \A i \in 1..2 : i = 1 \/ i = 2
    OBVIOUS
  <2> QED
    BY <1>1, <1>2, <2>1, Zenon
<1> QED
  BY <1>1, <1>2, <1>3, SeqEqual

LEMMA GivenOne ==
  ASSUME PoolInv, NEW b \in Buffers, pool[b] = 0
  PROVE  /\ given(<<b>>) = [pool EXCEPT ![b] = 1]
         /\ without(<<b>>) = [heap EXCEPT ![b] = <<>>]
<1>1. pool \in [Buffers -> {0, 1}] /\ heap \in [Buffers -> Seq(Token)]
  BY DEF PoolInv, PoolTypeOK
<1>2. DOMAIN <<b>> = {1} /\ <<b>>[1] = b /\ ToSet(<<b>>) = {b}
  BY Single
<1>3. {i \in DOMAIN <<b>> : <<b>>[i] = b} = {1}
  BY <1>2
<1>4. \A x \in Buffers \ {b} : {i \in DOMAIN <<b>> : <<b>>[i] = x} = {}
  BY <1>2
<1>5. Cardinality({1}) = 1 /\ Cardinality({}) = 0
  BY FS_Singleton, FS_EmptySet
<1>6. \A x \in Buffers : pool[x] + Cardinality({i \in DOMAIN <<b>> : <<b>>[i] = x})
                           = IF x = b THEN 1 ELSE pool[x]
  <2> TAKE x \in Buffers
  <2>1. pool[x] \in {0, 1}
    BY <1>1
  <2>2. CASE x = b
    BY <1>3, <1>5, <2>2
  <2>3. CASE x # b
    BY <1>4, <1>5, <2>1, <2>3
  <2> QED
    BY <2>2, <2>3
<1> QED
  BY <1>1, <1>2, <1>6 DEF given, without

LEMMA GivenTwo ==
  ASSUME PoolInv, NEW a \in Buffers, NEW b \in Buffers, a # b, pool[a] = 0, pool[b] = 0
  PROVE  /\ given(<<a, b>>) = [pool EXCEPT ![a] = 1, ![b] = 1]
         /\ without(<<a, b>>) = [heap EXCEPT ![a] = <<>>, ![b] = <<>>]
<1>1. pool \in [Buffers -> {0, 1}] /\ heap \in [Buffers -> Seq(Token)]
  BY DEF PoolInv, PoolTypeOK
<1>2. /\ DOMAIN <<a, b>> = {1, 2} /\ <<a, b>>[1] = a /\ <<a, b>>[2] = b
      /\ ToSet(<<a, b>>) = {a, b}
  <2>1. /\ DOMAIN <<a, b>> = {1, 2} /\ <<a, b>>[1] = a /\ <<a, b>>[2] = b
        /\ <<a, b>> \in Seq(Buffers) /\ Len(<<a, b>>) = 2
    OBVIOUS
  <2>2. ToSet(<<a, b>>) = {<<a, b>>[1], <<a, b>>[2]}
    BY <2>1, Two
  <2> QED
    BY <2>1, <2>2
<1>3. /\ {i \in DOMAIN <<a, b>> : <<a, b>>[i] = a} = {1}
      /\ {i \in DOMAIN <<a, b>> : <<a, b>>[i] = b} = {2}
  BY <1>2
<1>4. \A x \in Buffers \ {a, b} : {i \in DOMAIN <<a, b>> : <<a, b>>[i] = x} = {}
  BY <1>2
<1>5. Cardinality({1}) = 1 /\ Cardinality({2}) = 1 /\ Cardinality({}) = 0
  BY FS_Singleton, FS_EmptySet
<1>6. \A x \in Buffers : pool[x] + Cardinality({i \in DOMAIN <<a, b>> : <<a, b>>[i] = x})
                           = IF x = a \/ x = b THEN 1 ELSE pool[x]
  <2> TAKE x \in Buffers
  <2>1. pool[x] \in {0, 1}
    BY <1>1
  <2>2. CASE x = a
    BY <1>3, <1>5, <2>2
  <2>3. CASE x = b
    BY <1>3, <1>5, <2>3
  <2>4. CASE x # a /\ x # b
    BY <1>4, <1>5, <2>1, <2>4
  <2> QED
    BY <2>2, <2>3, <2>4
<1> QED
  BY <1>1, <1>2, <1>6 DEF given, without

\* The buffers of a goroutine, one after the other, are all different.
LEMMA HeldOnce ==
  ASSUME PoolInv, NEW g \in Goroutines
  PROVE  /\ \A i \in DOMAIN (frames[g] \o side[g]) : (frames[g] \o side[g])[i] \in Refs(g)
         /\ IsInjective(frames[g] \o side[g])
<1>1. frames[g] \in Seq(Buffers) /\ side[g] \in Seq(Buffers) /\ LocalInv(g)
  BY Mine
<1>2. PICK m, n \in Nat : m = Len(frames[g]) /\ n = Len(side[g])
  BY <1>1
<1>3. DOMAIN frames[g] = 1..m /\ DOMAIN side[g] = 1..n
  BY <1>1, <1>2, LenProperties
<1>4. /\ DOMAIN (frames[g] \o side[g]) = 1..(m + n)
      /\ \A i \in 1..(m + n) :
           (frames[g] \o side[g])[i] = IF i <= m THEN frames[g][i] ELSE side[g][i - m]
  <2>1. frames[g] \o side[g] \in Seq(Buffers) /\ Len(frames[g] \o side[g]) = m + n
    BY <1>1, <1>2, ConcatProperties
  <2> QED
    BY <1>1, <1>2, <2>1, ConcatProperties, LenProperties
<1>5. /\ \A i \in 1..m : frames[g][i] \in ToSet(frames[g])
      /\ \A i \in 1..n : side[g][i] \in ToSet(side[g])
  BY <1>3 DEF ToSet
<1>6. \A i \in 1..(m + n) : (i \in 1..m /\ i <= m) \/ (i - m \in 1..n /\ ~(i <= m))
  OBVIOUS
<1>7. \A i \in 1..(m + n) :
        \/ i \in 1..m /\ (frames[g] \o side[g])[i] = frames[g][i]
        \/ i - m \in 1..n /\ (frames[g] \o side[g])[i] = side[g][i - m]
  BY <1>4, <1>6
<1>8. \A i \in DOMAIN (frames[g] \o side[g]) : (frames[g] \o side[g])[i] \in Refs(g)
  BY <1>4, <1>5, <1>7 DEF Refs
<1>9. \A i, j \in 1..(m + n) : (frames[g] \o side[g])[i] = (frames[g] \o side[g])[j] => i = j
  <2>1. \A i, j \in 1..m : frames[g][i] = frames[g][j] => i = j
    BY <1>1, <1>3 DEF LocalInv, IsInjective
  <2>2. \A i, j \in 1..n : side[g][i] = side[g][j] => i = j
    BY <1>1, <1>3 DEF LocalInv, IsInjective
  <2>3. \A i \in 1..m, j \in 1..n : frames[g][i] # side[g][j]
    BY <1>1, <1>5 DEF LocalInv
  <2>4. \A i, j \in 1..(m + n) : i - m = j - m => i = j
    OBVIOUS
  <2> TAKE i, j \in 1..(m + n)
  <2> HAVE (frames[g] \o side[g])[i] = (frames[g] \o side[g])[j]
  <2>5. CASE i \in 1..m /\ (frames[g] \o side[g])[i] = frames[g][i]
    BY <1>7, <2>1, <2>3, <2>5, Zenon
  <2>6. CASE i - m \in 1..n /\ (frames[g] \o side[g])[i] = side[g][i - m]
    BY <1>7, <2>2, <2>3, <2>4, <2>6, Zenon
  <2> QED
    BY <1>7, <2>5, <2>6, Zenon
<1> QED
  BY <1>4, <1>8, <1>9 DEF IsInjective

\* What a goroutine holds is not in the pool.
LEMMA HeldNotPooled ==
  ASSUME PoolInv, NEW g \in Goroutines, NEW b \in Refs(g)
  PROVE  b \in Buffers /\ pool[b] = 0 /\ b # 1 /\ ~Free(b)
<1>1. b \in Buffers
  BY RefsOf
<1>2. pool[b] \in {0, 1}
  BY <1>1 DEF PoolInv, PoolTypeOK
<1> QED
  BY <1>1, <1>2 DEF PoolInv, OwnInv, Free

\* The same sequence with other brackets.
Regroups(a, b, c) == (a \o b) \o c = a \o (b \o c)

\* Sequences regroup; an operator keeps the provers from regrouping all of them.
LEMMA TokensRegroup ==
  ASSUME NEW a \in Seq(Token), NEW b \in Seq(Token), NEW c \in Seq(Token)
  PROVE  Regroups(a, b, c)
  BY ConcatAssociative DEF Regroups

\* With and the fields written, extended by one.
LEMMA OneMore ==
  ASSUME NEW w \in Seq(Token), NEW u \in Seq(Token), NEW f \in Token
  PROVE  /\ (w \o u) \o <<f>> = w \o Append(u, f)
         /\ Append(w \o u, f) = w \o Append(u, f)
<1>1. w \o u \in Seq(Token) /\ <<f>> \in Seq(Token)
  BY ConcatProperties
<1>2. (w \o u) \o <<f>> = w \o (u \o <<f>>)
  BY <1>1, ConcatAssociative
<1>3. u \o <<f>> = Append(u, f) /\ (w \o u) \o <<f>> = Append(w \o u, f)
  BY <1>1, AppendIsConcat
<1> QED
  BY <1>2, <1>3

\* Only the place of g in EncodeEntry changes.
LEMMA StartStep ==
  ASSUME PoolInv, NEW g \in Goroutines, Start(g)
  PROVE  PoolInv'
<1>1. PoolTypeOK /\ ShapeInv(g) /\ LocalInv(g) /\ ContentInv(g)
  BY Mine
<1>2. pc[g] = "start" /\ pc' = [pc EXCEPT ![g] = "clone"] /\ pc'[g] = "clone"
  BY <1>1 DEF Start, PoolTypeOK
<1>3. side[g] = <<>> /\ snaps[g] = <<>> /\ written[g] = <<>>
  BY <1>1, <1>2 DEF ShapeInv, SideInv, NoSide, ContentInv, StackInv
<1>4. CASE encoder = "otlp"
  <2>1. UNCHANGED <<encoder, heap, pool, side, frames, snaps, written, record>>
    BY <1>4 DEF Start
  <2>2. PoolTypeOK'
    BY <1>1, <1>2, <2>1 DEF PoolTypeOK, Pcs
  <2>3. ShapeInv(g)' /\ StackInv(g)' /\ IsInjective(frames'[g])
    <3>1. SideInv(g)'
      BY <1>1, <1>2, <1>3, <1>4, <2>1 DEF ShapeInv, SideInv, NoSide
    <3> QED
      BY <1>1, <1>2, <1>3, <2>1, <3>1 DEF ShapeInv, StackInv, LocalInv
  <2>4. \A x \in Buffers : pool'[x] = 1 => x \notin ToSet(frames'[g])
    BY <2>1 DEF PoolInv, OwnInv, Refs
  <2>5. \A h \in Goroutines \ {g} : pc'[h] = pc[h]
    BY <1>1, <1>2 DEF PoolTypeOK
  <2> QED
    BY <1>2, <2>1, <2>2, <2>3, <2>4, <2>5, StackStep
<1>5. CASE encoder = "fluent"
  <2>1. PICK b \in Get : /\ pool' = taken(b) /\ side' = [side EXCEPT ![g] = <<b>>]
                         /\ heap' = [heap EXCEPT ![b] = <<<<g, 0>>>>]
    BY <1>5 DEF Start
  <2>2. UNCHANGED <<encoder, frames, snaps, written, record>>
    BY DEF Start
  <2>3. PICK t \in Seq(Token) : t = <<<<g, 0>>>>
    BY <1>1, TokenTypes, Single
  <2> QED
    BY <1>2, <1>3, <1>5, <2>1, <2>2, <2>3, SideTaken
<1> QED
  BY <1>1, <1>4, <1>5 DEF PoolTypeOK

LEMMA TakeRecStep ==
  ASSUME PoolInv, NEW g \in Goroutines, TakeRec(g)
  PROVE  PoolInv'
<1>1. PICK b \in Get : /\ pool' = taken(b) /\ side' = [side EXCEPT ![g] = <<b>>]
                       /\ heap' = [heap EXCEPT ![b] = <<>>]
  BY DEF TakeRec
<1>2. /\ pc[g] = "sealAll" /\ encoder = "otlp" /\ pc' = [pc EXCEPT ![g] = "rec"]
      /\ UNCHANGED <<encoder, frames, snaps, written, record>>
  BY DEF TakeRec
<1>3. side[g] = <<>>
  BY <1>2, Mine DEF ShapeInv, SideInv, NoSide
<1>4. PICK t \in Seq(Token) : t = <<>>
  BY EmptySeq
<1> QED
  BY <1>1, <1>2, <1>3, <1>4, SideTaken

\* The copy of With is g's own.
LEMMA CloneStep ==
  ASSUME PoolInv, NEW g \in Goroutines, Clone(g)
  PROVE  PoolInv'
<1>1. PoolTypeOK /\ ShapeInv(g) /\ LocalInv(g) /\ ContentInv(g) /\ frames[g] \in Seq(Buffers)
  BY Mine
<1>2. pc[g] = "clone" /\ UNCHANGED <<encoder, side, snaps, written, record>>
  BY DEF Clone
<1>3. frames[g] = <<>> /\ Len(frames[g]) = 0 /\ snaps[g] = <<>> /\ written[g] = <<>>
  BY <1>1, <1>2, EmptySeq DEF ShapeInv, ContentInv, StackInv
<1>4. PICK b \in Get : /\ pool' = taken(b)
                       /\ heap' = [heap EXCEPT ![b] = heap[base[Len(frames[g]) + 1]]]
                       /\ frames' = [frames EXCEPT ![g] = Append(@, b)]
  BY DEF Clone
<1>5. b \in Buffers /\ Free(b) /\ taken(b) = [pool EXCEPT ![b] = 0]
  BY GetIsFree
<1>6. /\ <<b>> \in Seq(Buffers) /\ Len(<<b>>) = 1 /\ <<b>>[1] = b
      /\ <<b>> # <<>> /\ ToSet(<<b>>) = {b} /\ IsInjective(<<b>>)
  BY <1>5, Single, InjectiveOne
<1>7. frames' = [frames EXCEPT ![g] = <<b>>] /\ frames'[g] = <<b>>
  <2>1. Append(frames[g], b) = <<b>>
    BY <1>3
  <2> QED
    BY <1>1, <1>4, <2>1 DEF PoolTypeOK
<1>8. heap' = [heap EXCEPT ![b] = With[1]]
  <2>1. base[Len(frames[g]) + 1] = 1
    BY <1>3, Persistent
  <2> QED
    BY <1>4, <2>1 DEF PoolInv, OwnInv
<1>9. pc' = [pc EXCEPT ![g] = "fields"] /\ pc'[g] = "fields"
  <2>1. Len(frames[g]) + 1 = Len(base)
    BY <1>3, Persistent
  <2> QED
    BY <1>1, <2>1 DEF Clone, PoolTypeOK
<1>10. pool' = [pool EXCEPT ![b] = 0]
  BY <1>4, <1>5
<1>11. PoolTypeOK'
  BY <1>1, <1>2, <1>5, <1>6, <1>7, <1>8, <1>9, <1>10, Persistent DEF PoolTypeOK, Pcs
<1>12. ShapeInv(g)'
  <2>1. Len(frames'[g]) = 1 + Len(snaps[g])
    BY <1>3, <1>6, <1>7, EmptySeq
  <2>2. SideInv(g)'
    BY <1>1, <1>2, <1>9, SideKept DEF ShapeInv
  <2> QED
    BY <1>1, <1>2, <1>3, <1>9, <2>1, <2>2 DEF ShapeInv
<1>13. StackInv(g)'
  <2>1. heap'[frames'[g][1]] = With[1] \o written[g]
    <3>1. heap'[b] = With[1]
      BY <1>1, <1>5, <1>8 DEF PoolTypeOK
    <3>2. With[1] \o <<>> = With[1]
      BY Persistent, ConcatEmptySeq
    <3> QED
      BY <1>3, <1>6, <1>7, <3>1, <3>2
  <2>2. Len(frames'[g]) = 1 /\ snaps'[g] = <<>>
    BY <1>2, <1>3, <1>6, <1>7
  <2> QED
    BY <1>2, <1>9, <2>1, <2>2 DEF StackInv
<1>14. \A x \in Buffers : pool'[x] = 1 => x \notin ToSet(frames'[g]) /\ pool[x] = 1
  <2>1. pool'[b] = 0 /\ \A x \in Buffers \ {b} : pool'[x] = pool[x]
    BY <1>1, <1>5, <1>10 DEF PoolTypeOK
  <2>2. ToSet(frames'[g]) = {b}
    BY <1>6, <1>7
  <2> QED
    BY <2>1, <2>2
<1>15. \A x \in Buffers : heap'[x] = heap[x] \/ Free(x)
  BY <1>1, <1>5, <1>8 DEF PoolTypeOK
<1>16. \A h \in Goroutines \ {g} : pc'[h] = pc[h] /\ frames'[h] = frames[h]
  BY <1>1, <1>7, <1>9 DEF PoolTypeOK
<1> QED
  BY <1>2, <1>5, <1>6, <1>7, <1>9, <1>11, <1>12, <1>13, <1>14, <1>15, <1>16, StackStep

LEMMA EndFrameStep ==
  ASSUME PoolInv, NEW g \in Goroutines, EndFrame(g)
  PROVE  PoolInv'
<1>1. /\ PoolTypeOK /\ ShapeInv(g) /\ LocalInv(g) /\ ContentInv(g)
      /\ snaps[g] \in Seq(Snap) /\ frames[g] \in Seq(Buffers)
  BY Mine
<1>2. /\ pc[g] = "fields" /\ UNCHANGED <<encoder, heap, pool, frames, side, written, record>>
      /\ pc' = [pc EXCEPT ![g] = IF snaps[g] # <<>> THEN "seal" ELSE "sealAll"]
      /\ snaps' = [snaps EXCEPT ![g] = IF @ = <<>> THEN <<>> ELSE Front(@)]
  BY DEF EndFrame
<1>3. pc'[g] = IF snaps[g] # <<>> THEN "seal" ELSE "sealAll"
  BY <1>1, <1>2 DEF PoolTypeOK
<1>4. Len(frames[g]) = 1 + Len(snaps[g]) /\ (snaps[g] # <<>> => Len(snaps[g]) = 1)
  BY <1>1, <1>2, AtMostOne DEF ShapeInv
<1>5. Len(frames[g]) = IF snaps[g] # <<>> THEN 2 ELSE 1
  <2>1. snaps[g] = <<>> => Len(snaps[g]) = 0
    OBVIOUS
  <2>2. 1 + 0 = 1 /\ 1 + 1 = 2
    OBVIOUS
  <2> QED
    BY <1>4, <2>1, <2>2, Zenon
<1>6. snaps'[g] = <<>> /\ snaps' \in [Goroutines -> Seq(Snap)]
  <2>1. (IF snaps[g] = <<>> THEN <<>> ELSE Front(snaps[g])) = <<>>
    <3>1. CASE snaps[g] # <<>>
      <4>1. Len(snaps[g]) = 1
        BY <1>4, <3>1
      <4>2. Front(snaps[g]) \in Seq(Snap) /\ Len(Front(snaps[g])) = 0
        BY <1>1, <4>1, SubSeqProperties DEF Front
      <4> QED
        BY <3>1, <4>2, EmptySeq
    <3> QED
      BY <3>1
  <2> QED
    BY <1>1, <1>2, <2>1, EmptySeq DEF PoolTypeOK
<1>7. PoolTypeOK'
  BY <1>1, <1>2, <1>6 DEF PoolTypeOK, Pcs
<1>8. ShapeInv(g)'
  <2>1. SideInv(g)'
    BY <1>1, <1>2, <1>3, SideKept DEF ShapeInv
  <2> QED
    BY <1>1, <1>2, <1>3, <1>5, <1>6, <2>1, EmptySeq DEF ShapeInv
<1>9. StackInv(g)'
  <2>1. /\ Len(frames[g]) = 1 => heap[frames[g][1]] = With[1] \o written[g]
        /\ Len(frames[g]) = 2 => heap[frames[g][1]] \o heap[frames[g][2]] = With[1] \o written[g]
    BY <1>1, <1>2 DEF ContentInv, StackInv
  <2>2. /\ frames'[g] = frames[g] /\ heap' = heap /\ written' = written
        /\ pc'[g] \in {"seal", "sealAll"} /\ snaps'[g] = <<>>
    BY <1>2, <1>3, <1>6
  <2> QED
    BY <2>1, <2>2 DEF StackInv
<1>10. \A x \in Buffers : pool'[x] = 1 => x \notin ToSet(frames'[g])
  BY <1>2 DEF PoolInv, OwnInv, Refs
<1>11. \A h \in Goroutines \ {g} : pc'[h] = pc[h] /\ snaps'[h] = snaps[h]
  BY <1>1, <1>2 DEF PoolTypeOK
<1>12. IsInjective(frames'[g])
  BY <1>1, <1>2 DEF LocalInv
<1>13. /\ pc[g] \notin {"rec", "copy", "put", "done"}
       /\ pc'[g] \notin {"rec", "copy", "put", "done"}
  BY <1>2, <1>3
<1> QED
  BY <1>2, <1>7, <1>8, <1>9, <1>10, <1>11, <1>12, <1>13, StackStep

\* While fields are added, a marshaler under way has the second frame.
LEMMA InFields ==
  ASSUME PoolInv, NEW g \in Goroutines, pc[g] = "fields"
  PROVE  \/ snaps[g] = <<>> /\ Len(snaps[g]) = 0 /\ Len(frames[g]) = 1
         \/ snaps[g] # <<>> /\ Len(snaps[g]) = 1 /\ Len(frames[g]) = 2
<1>1. ShapeInv(g) /\ snaps[g] \in Seq(Snap)
  BY Mine
<1>2. Len(frames[g]) = 1 + Len(snaps[g]) /\ (snaps[g] # <<>> => Len(snaps[g]) = 1)
  BY <1>1, AtMostOne DEF ShapeInv
<1>3. snaps[g] = <<>> => Len(snaps[g]) = 0
  OBVIOUS
<1>4. 1 + 0 = 1 /\ 1 + 1 = 2
  OBVIOUS
<1> QED
  BY <1>2, <1>3, <1>4, Zenon

LEMMA AddStep ==
  ASSUME PoolInv, NEW g \in Goroutines, Add(g)
  PROVE  PoolInv'
<1>1. /\ PoolTypeOK /\ ShapeInv(g) /\ LocalInv(g) /\ ContentInv(g) /\ StackInv(g)
      /\ written[g] \in Seq(Token) /\ Field(g) \in Token
  BY Mine, TokenTypes DEF ContentInv
<1>2. /\ pc[g] = "fields" /\ UNCHANGED <<encoder, pool, pc, side, snaps, record>>
      /\ written' = [written EXCEPT ![g] = Append(@, Field(g))]
  BY DEF Add
<1>3. PICK to \in Buffers : /\ Appended(TopBuf(g), <<Field(g)>>, to)
                            /\ frames' = SetTop(g, to)
  BY DEF Add
<1>4. PICK f \in Token : f = Field(g)
  BY <1>1
<1>5. PICK w \in Seq(Token) : w = Append(written[g], f) /\ written' = [written EXCEPT ![g] = w]
  BY <1>1, <1>2, <1>4, AppendProperties
<1>6. written'[g] = w /\ written' \in [Goroutines -> Seq(Token)]
  BY <1>1, <1>5 DEF PoolTypeOK
<1>7. <<f>> \in Seq(Token) /\ With[1] \in Seq(Token)
  BY Single, Persistent
<1>8. (With[1] \o written[g]) \o <<f>> = With[1] \o w
  <2>1. PICK v \in Seq(Token) : v = With[1]
    BY <1>7
  <2> QED
    <3>1. PICK u \in Seq(Token) : u = written[g]
      BY <1>1
    <3>2. (v \o u) \o <<f>> = v \o Append(u, f)
      BY OneMore
    <3> QED
      BY <1>5, <2>1, <3>1, <3>2
<1>9. \A x \in Buffers : pool'[x] = 1 => pool[x] = 1 /\ x \notin Refs(g)
  BY <1>2 DEF PoolInv, OwnInv
<1>10. CASE snaps[g] = <<>> /\ Len(frames[g]) = 1
  <2>1. PICK a \in Buffers : /\ frames[g] = <<a>> /\ frames[g][1] = a /\ Last(frames[g]) = a
                             /\ ToSet(frames[g]) = {a} /\ a \in Refs(g)
    BY <1>10, DepthOne
  <2>2. Appended(a, <<f>>, to) /\ frames' = [frames EXCEPT ![g] = [frames[g] EXCEPT ![1] = to]]
    BY <1>3, <1>4, <1>10, <2>1 DEF TopBuf, SetTop
  <2>3. frames' = [frames EXCEPT ![g] = <<to>>]
    <3>1. [frames[g] EXCEPT ![1] = to] = <<to>>
      BY <2>1, ReplaceOne, Zenon
    <3> QED
      BY <2>2, <3>1, Zenon
  <2>4. /\ to = a \/ (Free(to) /\ pool[to] = 0)
        /\ heap' \in [Buffers -> Seq(Token)]
        /\ heap'[to] = heap[a] \o <<f>>
        /\ \A x \in Buffers \ {a, to} : heap'[x] = heap[x]
    <3>1. PICK q \in Seq(Token) : q = <<f>>
      BY <1>7
    <3>2. Appended(a, q, to)
      BY <2>2, <3>1
    <3>3. MovedTo(a, q, to)
      BY <3>2, AppendedMoves
    <3> QED
      BY <3>1, <3>3 DEF MovedTo
  <2>5. /\ <<to>> \in Seq(Buffers) /\ Len(<<to>>) = 1 /\ <<to>>[1] = to
        /\ ToSet(<<to>>) = {to} /\ IsInjective(<<to>>)
    BY Single, InjectiveOne
  <2>6. frames'[g] = <<to>> /\ \A h \in Goroutines \ {g} : frames'[h] = frames[h]
    BY <1>1, <2>3 DEF PoolTypeOK
  <2>7. PoolTypeOK'
    BY <1>1, <1>2, <1>6, <2>3, <2>4, <2>5 DEF PoolTypeOK
  <2>8. Len(frames'[g]) = Len(frames[g])
    BY <1>10, <2>5, <2>6
  <2>9. ShapeInv(g)'
    BY <1>1, <1>2, <2>8, SideKept DEF ShapeInv
  <2>10. StackInv(g)'
    <3>1. heap[a] = With[1] \o written[g]
      BY <1>1, <1>2, <1>10, <2>1 DEF StackInv
    <3>2. heap'[frames'[g][1]] = With[1] \o written'[g]
      BY <1>6, <1>8, <2>4, <2>5, <2>6, <3>1
    <3>3. snaps'[g] = <<>> /\ Len(frames'[g]) = 1 /\ pc'[g] = "fields"
      BY <1>2, <1>10, <2>8
    <3> QED
      BY <3>2, <3>3 DEF StackInv
  <2>11. \A x \in Buffers : pool'[x] = 1 => x \notin ToSet(frames'[g]) /\ pool[x] = 1
    <3>1. ToSet(frames'[g]) = {to}
      BY <2>5, <2>6
    <3>2. pool'[to] # 1
      BY <1>2, <1>9, <2>1, <2>4
    <3> QED
      BY <1>9, <3>1, <3>2
  <2>12. \A x \in Buffers : heap'[x] = heap[x] \/ x \in ToSet(frames[g]) \/ Free(x)
    BY <2>1, <2>4
  <2>13. \A x \in ToSet(frames'[g]) : x \in ToSet(frames[g]) \/ Free(x)
    BY <2>1, <2>4, <2>5, <2>6
  <2>14. \A h \in Goroutines \ {g} : written'[h] = written[h]
    BY <1>1, <1>2 DEF PoolTypeOK
  <2>15. IsInjective(frames'[g])
    BY <2>5, <2>6
  <2> QED
    BY <1>2, <2>6, <2>7, <2>9, <2>10, <2>11, <2>12, <2>13, <2>14, <2>15, StackStep
<1>11. CASE snaps[g] # <<>> /\ Len(frames[g]) = 2
  <2>1. PICK a, b \in Buffers :
          /\ a # b /\ frames[g] = <<a, b>> /\ frames[g][1] = a /\ frames[g][2] = b
          /\ Last(frames[g]) = b /\ ToSet(frames[g]) = {a, b} /\ a \in Refs(g) /\ b \in Refs(g)
    BY <1>11, DepthTwo
  <2>2. Appended(b, <<f>>, to) /\ frames' = [frames EXCEPT ![g] = [frames[g] EXCEPT ![2] = to]]
    BY <1>3, <1>4, <1>11, <2>1 DEF TopBuf, SetTop
  <2>3. frames' = [frames EXCEPT ![g] = <<a, to>>]
    <3>1. [frames[g] EXCEPT ![2] = to] = <<a, to>>
      BY <2>1, ReplaceTwo
    <3> QED
      BY <2>2, <3>1, Zenon
  <2>4. /\ to = b \/ (Free(to) /\ pool[to] = 0)
        /\ heap' \in [Buffers -> Seq(Token)]
        /\ heap'[to] = heap[b] \o <<f>>
        /\ \A x \in Buffers \ {b, to} : heap'[x] = heap[x]
    <3>1. PICK ts \in Seq(Token) : ts = <<f>>
      BY <1>7
    <3>2. Appended(b, ts, to)
      BY <2>2, <3>1
    <3>3. MovedTo(b, ts, to)
      BY <3>2, AppendedMoves
    <3> QED
      BY <3>1, <3>3 DEF MovedTo
  <2>5. a # to /\ heap'[a] = heap[a]
    BY <2>1, <2>4, HeldNotPooled
  <2>6. /\ <<a, to>> \in Seq(Buffers) /\ Len(<<a, to>>) = 2
        /\ <<a, to>>[1] = a /\ <<a, to>>[2] = to
    OBVIOUS
  <2>7. ToSet(<<a, to>>) = {a, to} /\ IsInjective(<<a, to>>)
    BY <2>5, <2>6, Two, InjectiveTwo
  <2>8. frames'[g] = <<a, to>> /\ \A h \in Goroutines \ {g} : frames'[h] = frames[h]
    BY <1>1, <2>3 DEF PoolTypeOK
  <2>9. PoolTypeOK'
    BY <1>1, <1>2, <1>6, <2>3, <2>4, <2>6 DEF PoolTypeOK
  <2>10. Len(frames'[g]) = Len(frames[g])
    BY <1>11, <2>6, <2>8
  <2>11. ShapeInv(g)'
    BY <1>1, <1>2, <2>10, SideKept DEF ShapeInv
  <2>12. StackInv(g)'
    <3>1. heap[a] \o heap[b] = With[1] \o written[g]
      BY <1>1, <1>2, <1>11, <2>1 DEF StackInv
    <3>2. heap[a] \o (heap[b] \o <<f>>) = (heap[a] \o heap[b]) \o <<f>>
      <4>1. PICK u, v, q \in Seq(Token) : u = heap[a] /\ v = heap[b] /\ q = <<f>>
        <5>1. heap[a] \in Seq(Token) /\ heap[b] \in Seq(Token)
          BY <1>1 DEF PoolTypeOK
        <5> QED
          BY <1>7, <5>1, Zenon
      <4>2. Regroups(u, v, q)
        BY TokensRegroup
      <4> QED
        BY <4>1, <4>2 DEF Regroups
    <3>3. heap'[frames'[g][1]] \o heap'[frames'[g][2]] = With[1] \o written'[g]
      BY <1>6, <1>8, <2>4, <2>5, <2>6, <2>8, <3>1, <3>2
    <3>4. snaps'[g] = snaps[g] /\ Len(frames'[g]) = 2 /\ pc'[g] = "fields" /\ encoder' = encoder
      BY <1>2, <1>11, <2>10
    <3>5. heap'[frames'[g][1]] = heap[frames[g][1]]
      BY <2>1, <2>5, <2>6, <2>8
    <3>6. encoder' = "otlp" =>
            /\ snaps'[g][1].depth = 1
            /\ snaps'[g][1].bufLen = Len(heap'[frames'[g][1]])
            /\ heap'[frames'[g][1]] = With[1] \o snaps'[g][1].fields
      BY <1>1, <1>11, <3>4, <3>5 DEF StackInv
    <3>7. Len(frames'[g]) # 1
      BY <3>4
    <3> QED
      BY <3>3, <3>4, <3>6, <3>7, Zenon DEF StackInv
  <2>13. \A x \in Buffers : pool'[x] = 1 => x \notin ToSet(frames'[g]) /\ pool[x] = 1
    <3>1. ToSet(frames'[g]) = {a, to}
      BY <2>7, <2>8
    <3>2. pool'[to] # 1 /\ pool'[a] # 1
      BY <1>2, <1>9, <2>1, <2>4
    <3> QED
      BY <1>9, <3>1, <3>2
  <2>14. \A x \in Buffers : heap'[x] = heap[x] \/ x \in ToSet(frames[g]) \/ Free(x)
    BY <2>1, <2>4
  <2>15. \A x \in ToSet(frames'[g]) : x \in ToSet(frames[g]) \/ Free(x)
    BY <2>1, <2>4, <2>7, <2>8
  <2>16. \A h \in Goroutines \ {g} : written'[h] = written[h]
    BY <1>1, <1>2 DEF PoolTypeOK
  <2>17. IsInjective(frames'[g])
    BY <2>7, <2>8
  <2> QED
    BY <1>2, <2>8, <2>9, <2>11, <2>12, <2>13, <2>14, <2>15, <2>16, <2>17, StackStep
<1> QED
  BY <1>2, <1>10, <1>11, InFields

LEMMA OpenFrameStep ==
  ASSUME PoolInv, NEW g \in Goroutines, OpenFrame(g)
  PROVE  PoolInv'
<1>1. /\ PoolTypeOK /\ ShapeInv(g) /\ LocalInv(g) /\ ContentInv(g) /\ StackInv(g)
      /\ written[g] \in Seq(Token) /\ Field(g) \in Token
  BY Mine, TokenTypes DEF ContentInv
<1>2. /\ pc[g] = "fields" /\ Len(frames[g]) < Len(base) + 1
      /\ UNCHANGED <<encoder, pc, side, record>>
      /\ written' = [written EXCEPT ![g] = Append(@, Field(g))]
      /\ snaps' = [snaps EXCEPT ![g] = Append(@, [depth |-> Len(frames[g]),
                     bufLen |-> Len(heap[TopBuf(g)]), fields |-> written[g]])]
  BY DEF OpenFrame
<1>3. snaps[g] = <<>> /\ Len(frames[g]) = 1
  <2>1. ~(Len(frames[g]) = 2)
    <3>1. ~(2 < 1 + 1)
      OBVIOUS
    <3> QED
      BY <1>2, <3>1, Persistent
  <2> QED
    BY <1>2, <2>1, InFields
<1>4. PICK a \in Buffers : /\ frames[g] = <<a>> /\ frames[g][1] = a /\ Last(frames[g]) = a
                           /\ ToSet(frames[g]) = {a} /\ a \in Refs(g)
  BY <1>3, DepthOne
<1>5. PICK b \in Get :
        /\ pool' = taken(b)
        /\ heap' = IF encoder = "fluent"
                     THEN [heap EXCEPT ![a] = Append(@, Field(g)), ![b] = <<>>]
                     ELSE [heap EXCEPT ![b] = <<Field(g)>>]
        /\ frames' = [frames EXCEPT ![g] = Append(@, b)]
  BY <1>4 DEF OpenFrame, TopBuf
<1>6. b \in Buffers /\ Free(b) /\ taken(b) = [pool EXCEPT ![b] = 0]
  BY GetIsFree
<1>7. a # b /\ ~Free(a) /\ a # 1 /\ pool[a] = 0
  BY <1>4, <1>6, HeldNotPooled
<1>8. frames' = [frames EXCEPT ![g] = <<a, b>>]
  <2>1. Append(<<a>>, b) = <<a, b>>
    BY <1>6, AppendTwo
  <2> QED
    BY <1>4, <1>5, <2>1
<1>9. /\ <<a, b>> \in Seq(Buffers) /\ Len(<<a, b>>) = 2
      /\ <<a, b>>[1] = a /\ <<a, b>>[2] = b
  BY <1>6
<1>10. ToSet(<<a, b>>) = {a, b} /\ IsInjective(<<a, b>>)
  BY <1>7, <1>9, Two, InjectiveTwo
<1>11. frames'[g] = <<a, b>> /\ \A h \in Goroutines \ {g} : frames'[h] = frames[h]
  BY <1>1, <1>8 DEF PoolTypeOK
<1>12. PICK f \in Token : f = Field(g)
  BY <1>1
<1>13. PICK w \in Seq(Token) : w = Append(written[g], f) /\ written' = [written EXCEPT ![g] = w]
  BY <1>1, <1>2, <1>12, AppendProperties
<1>14. /\ written'[g] = w /\ written' \in [Goroutines -> Seq(Token)]
       /\ \A h \in Goroutines \ {g} : written'[h] = written[h]
  BY <1>1, <1>13 DEF PoolTypeOK
<1>15. heap[a] \in Seq(Token) /\ heap[a] = With[1] \o written[g]
  BY <1>1, <1>2, <1>3, <1>4 DEF StackInv, PoolTypeOK
<1>16. PICK sn \in Snap : /\ sn.depth = 1 /\ sn.bufLen = Len(heap[a]) /\ sn.fields = written[g]
                          /\ snaps' = [snaps EXCEPT ![g] = Append(@, sn)]
  <2>1. PICK k \in Nat : k = Len(heap[a])
    BY <1>1, LenProperties DEF PoolTypeOK
  <2>2. PICK u \in Seq(Token) : u = written[g]
    BY <1>1
  <2>3. [depth |-> 1, bufLen |-> k, fields |-> u] \in Snap
    BY DEF Snap
  <2>4. snaps' = [snaps EXCEPT ![g] = Append(@, [depth |-> 1, bufLen |-> k, fields |-> u])]
    BY <1>2, <1>3, <1>4, <2>1, <2>2 DEF TopBuf
  <2> QED
    BY <2>1, <2>2, <2>3, <2>4
<1>17. /\ <<sn>> \in Seq(Snap) /\ Len(<<sn>>) = 1 /\ <<sn>>[1] = sn /\ <<sn>> # <<>>
  BY Single
<1>18. snaps' = [snaps EXCEPT ![g] = <<sn>>]
  <2>1. Append(<<>>, sn) = <<sn>>
    OBVIOUS
  <2> QED
    BY <1>3, <1>16, <2>1
<1>19. /\ snaps'[g] = <<sn>> /\ snaps' \in [Goroutines -> Seq(Snap)]
       /\ \A h \in Goroutines \ {g} : snaps'[h] = snaps[h]
  BY <1>1, <1>17, <1>18 DEF PoolTypeOK
\* What the two frames hold, for either encoder.
<1>20. PICK A, B \in Seq(Token) :
         /\ heap' = [heap EXCEPT ![a] = A, ![b] = B]
         /\ A \o B = With[1] \o w
         /\ encoder = "otlp" => A = heap[a]
  <2>1. PICK v, u \in Seq(Token) : v = With[1] /\ u = written[g]
    BY <1>1, Persistent
  <2>2. (v \o u) \o <<f>> = v \o Append(u, f) /\ Append(v \o u, f) = v \o Append(u, f)
    BY OneMore
  <2>3. <<>> \in Seq(Token) /\ <<f>> \in Seq(Token) /\ Append(heap[a], f) \in Seq(Token)
    BY <1>15, EmptySeq, Single, AppendProperties
  <2>4. CASE encoder = "fluent"
    <3>1. heap' = [heap EXCEPT ![a] = Append(heap[a], f), ![b] = <<>>]
      BY <1>5, <1>12, <2>4
    <3>2. Append(heap[a], f) \o <<>> = Append(heap[a], f)
      BY <2>3, ConcatEmptySeq
    <3>3. Append(heap[a], f) = With[1] \o w
      BY <1>13, <1>15, <2>1, <2>2
    <3>4. encoder # "otlp"
      BY <2>4
    <3> QED
      BY <2>3, <3>1, <3>2, <3>3, <3>4
  <2>5. CASE encoder = "otlp"
    <3>1. heap' = [heap EXCEPT ![b] = <<f>>]
      BY <1>5, <1>12, <2>5
    <3>2. heap' = [heap EXCEPT ![a] = heap[a], ![b] = <<f>>]
      BY <1>1, <1>7, <3>1 DEF PoolTypeOK
    <3>3. heap[a] \o <<f>> = With[1] \o w
      BY <1>13, <1>15, <2>1, <2>2
    <3> QED
      BY <1>15, <2>3, <3>2, <3>3
  <2> QED
    BY <1>1, <2>4, <2>5 DEF PoolTypeOK
<1>21. /\ heap' \in [Buffers -> Seq(Token)] /\ heap'[a] = A /\ heap'[b] = B
       /\ \A x \in Buffers \ {a, b} : heap'[x] = heap[x]
  BY <1>1, <1>6, <1>7, <1>20 DEF PoolTypeOK
<1>22. PoolTypeOK'
  <2>1. pool' \in [Buffers -> {0, 1}] /\ frames' \in [Goroutines -> Seq(Buffers)]
    BY <1>1, <1>5, <1>6, <1>8, <1>9 DEF PoolTypeOK
  <2> QED
    BY <1>1, <1>2, <1>14, <1>19, <1>21, <2>1 DEF PoolTypeOK
<1>23. /\ pc'[g] = "fields" /\ Len(frames'[g]) = 2 /\ Len(snaps'[g]) = 1 /\ Len(frames'[g]) # 1
       /\ side' = side
  <2>1. pc'[g] = "fields" /\ side' = side
    BY <1>2
  <2>2. Len(frames'[g]) = 2
    BY <1>9, <1>11
  <2>3. Len(snaps'[g]) = 1
    BY <1>17, <1>19
  <2> QED
    BY <2>1, <2>2, <2>3
<1>24. ShapeInv(g)'
  <2>1. 2 = 1 + 1 /\ 1 <= 1
    OBVIOUS
  <2>2. SideInv(g)'
    BY <1>1, <1>2, <1>23, SideKept DEF ShapeInv
  <2> QED
    BY <1>23, <2>1, <2>2 DEF ShapeInv
<1>25. StackInv(g)'
  <2>1. heap'[frames'[g][1]] \o heap'[frames'[g][2]] = With[1] \o written'[g]
    <3>1. frames'[g][1] = a /\ frames'[g][2] = b
      BY <1>9, <1>11
    <3> QED
      BY <1>14, <1>20, <1>21, <3>1
  <2>2. snaps'[g][1] = sn /\ frames'[g][1] = a
    BY <1>9, <1>11, <1>17, <1>19
  <2>3. encoder' = "otlp" =>
          /\ snaps'[g][1].depth = 1
          /\ snaps'[g][1].bufLen = Len(heap'[frames'[g][1]])
          /\ heap'[frames'[g][1]] = With[1] \o snaps'[g][1].fields
    BY <1>2, <1>15, <1>16, <1>20, <1>21, <2>2
  <2> QED
    BY <1>23, <2>1, <2>3, Zenon DEF StackInv
<1>26. \A x \in Buffers : pool'[x] = 1 => x \notin ToSet(frames'[g]) /\ pool[x] = 1
  <2>1. pool'[b] = 0 /\ \A x \in Buffers \ {b} : pool'[x] = pool[x]
    BY <1>1, <1>5, <1>6 DEF PoolTypeOK
  <2>2. ToSet(frames'[g]) = {a, b}
    BY <1>10, <1>11
  <2> QED
    BY <1>7, <2>1, <2>2
<1>27. \A x \in Buffers : heap'[x] = heap[x] \/ x \in ToSet(frames[g]) \/ Free(x)
  BY <1>4, <1>6, <1>21
<1>28. \A x \in ToSet(frames'[g]) : x \in ToSet(frames[g]) \/ Free(x)
  BY <1>4, <1>6, <1>10, <1>11
<1>29. IsInjective(frames'[g])
  BY <1>10, <1>11
<1> QED
  BY <1>2, <1>11, <1>14, <1>19, <1>22, <1>24, <1>25, <1>26, <1>27, <1>28, <1>29, StackStep

\* g gives its upper frame to the pool and writes to the lower one.
LEMMA PopStep ==
  ASSUME PoolInv, NEW g \in Goroutines, NEW a \in Buffers, NEW b \in Buffers, NEW A \in Seq(Token),
         a # b, a \in Refs(g), b \in Refs(g), ToSet(frames[g]) = {a, b},
         pool' = [pool EXCEPT ![b] = 1],
         heap' = [heap EXCEPT ![b] = <<>>, ![a] = A],
         frames' = [frames EXCEPT ![g] = <<a>>],
         pc[g] \in {"fields", "recycle"}, pc' = [pc EXCEPT ![g] = "fields"],
         snaps' = [snaps EXCEPT ![g] = <<>>],
         NEW w \in Seq(Token), written' = [written EXCEPT ![g] = w], A = With[1] \o w,
         UNCHANGED <<encoder, side, record>>
  PROVE  PoolInv'
<1>1. PoolTypeOK /\ ShapeInv(g)
  BY Mine
<1>2. /\ <<a>> \in Seq(Buffers) /\ Len(<<a>>) = 1 /\ <<a>>[1] = a
      /\ ToSet(<<a>>) = {a} /\ IsInjective(<<a>>) /\ <<>> \in Seq(Snap) /\ <<>> \in Seq(Token)
      /\ Len(<<>>) = 0
  BY Single, InjectiveOne, EmptySeq
<1>3. /\ pc'[g] = "fields" /\ frames'[g] = <<a>> /\ snaps'[g] = <<>> /\ written'[g] = w
      /\ \A h \in Goroutines \ {g} : /\ pc'[h] = pc[h] /\ frames'[h] = frames[h]
                                     /\ snaps'[h] = snaps[h] /\ written'[h] = written[h]
  BY <1>1 DEF PoolTypeOK
<1>4. /\ heap' \in [Buffers -> Seq(Token)] /\ heap'[a] = A
      /\ \A x \in Buffers \ {a, b} : heap'[x] = heap[x]
  BY <1>1, <1>2 DEF PoolTypeOK
<1>5. pool' \in [Buffers -> {0, 1}] /\ \A x \in Buffers \ {b} : pool'[x] = pool[x]
  BY <1>1 DEF PoolTypeOK
<1>6. PoolTypeOK'
  <2>1. pc' \in [Goroutines -> Pcs] /\ frames' \in [Goroutines -> Seq(Buffers)]
    BY <1>1, <1>2 DEF PoolTypeOK, Pcs
  <2>2. snaps' \in [Goroutines -> Seq(Snap)] /\ written' \in [Goroutines -> Seq(Token)]
    BY <1>1, <1>2 DEF PoolTypeOK
  <2> QED
    BY <1>1, <1>4, <1>5, <2>1, <2>2 DEF PoolTypeOK
<1>7. Len(frames'[g]) = 1 /\ Len(snaps'[g]) = 0 /\ side' = side
  BY <1>2, <1>3
<1>8. ShapeInv(g)'
  <2>1. 1 = 1 + 0 /\ 0 <= 1
    OBVIOUS
  <2>2. SideInv(g)'
    BY <1>1, <1>3, SideKept DEF ShapeInv
  <2> QED
    BY <1>3, <1>7, <2>1, <2>2 DEF ShapeInv
<1>9. StackInv(g)'
  <2>1. heap'[frames'[g][1]] = With[1] \o written'[g]
    BY <1>2, <1>3, <1>4
  <2>2. Len(frames'[g]) # 2
    <3>1. 1 # 2
      OBVIOUS
    <3> QED
      BY <1>7, <3>1, Zenon
  <2> QED
    BY <1>3, <2>1, <2>2, Zenon DEF StackInv
<1>10. \A x \in Buffers : pool'[x] = 1 =>
         x \notin ToSet(frames'[g]) /\ (pool[x] = 1 \/ x \in ToSet(frames[g]))
  <2>1. ToSet(frames'[g]) = {a}
    BY <1>2, <1>3
  <2>2. pool'[a] # 1
    BY <1>5, HeldNotPooled
  <2> QED
    BY <1>5, <2>1, <2>2
<1>11. \A x \in Buffers : heap'[x] = heap[x] \/ x \in ToSet(frames[g])
  BY <1>4
<1>12. \A x \in ToSet(frames'[g]) : x \in ToSet(frames[g])
  BY <1>2, <1>3
<1>13. IsInjective(frames'[g])
  BY <1>2, <1>3
<1>14. /\ pc[g] \notin {"rec", "copy", "put", "done"}
       /\ pc'[g] \notin {"rec", "copy", "put", "done"}
  BY <1>3
<1> QED
  BY <1>3, <1>6, <1>8, <1>9, <1>10, <1>11, <1>12, <1>13, <1>14, StackStep

LEMMA RollbackStep ==
  ASSUME PoolInv, NEW g \in Goroutines, Rollback(g)
  PROVE  PoolInv'
<1>1. /\ PoolTypeOK /\ ShapeInv(g) /\ StackInv(g) /\ snaps[g] \in Seq(Snap)
      /\ <<g, -1>> \in Token
  BY Mine, TokenTypes DEF ContentInv
<1>2. /\ encoder = "otlp" /\ pc[g] = "fields" /\ snaps[g] # <<>>
      /\ snaps' = [snaps EXCEPT ![g] = Front(@)]
      /\ UNCHANGED <<encoder, pc, side, record>>
  BY DEF Rollback
<1>3. Len(snaps[g]) = 1 /\ Len(frames[g]) = 2
  BY <1>2, InFields
<1>4. PICK a, b \in Buffers :
        /\ a # b /\ frames[g] = <<a, b>> /\ frames[g][1] = a /\ frames[g][2] = b
        /\ Last(frames[g]) = b /\ ToSet(frames[g]) = {a, b} /\ a \in Refs(g) /\ b \in Refs(g)
        /\ SubSeq(frames[g], 1, 1) = <<a>> /\ SubSeq(frames[g], 2, 2) = <<b>>
  BY <1>3, DepthTwo
<1>5. PICK sn \in Snap : sn = Last(snaps[g]) /\ sn = snaps[g][1]
  BY <1>1, <1>3, One
<1>6. /\ sn.depth = 1 /\ sn.bufLen = Len(heap[a]) /\ heap[a] = With[1] \o sn.fields
      /\ sn.fields \in Seq(Token)
  BY <1>1, <1>2, <1>4, <1>5 DEF StackInv, Snap
<1>7. PICK e \in Token : e = <<g, -1>>
  BY <1>1
<1>8. /\ frames' = [frames EXCEPT ![g] = SubSeq(frames[g], 1, sn.depth)]
      /\ pool' = given(SubSeq(frames[g], sn.depth + 1, Len(frames[g])))
      /\ heap' = [without(SubSeq(frames[g], sn.depth + 1, Len(frames[g])))
                    EXCEPT ![Last(SubSeq(frames[g], 1, sn.depth))]
                      = Append(SubSeq(@, 1, sn.bufLen), e)]
      /\ written' = [written EXCEPT ![g] = Append(sn.fields, e)]
  BY <1>5, <1>7 DEF Rollback
<1>9. sn.depth + 1 = 2 /\ Last(<<a>>) = a
  <2>1. <<a>> \in Seq(Buffers) /\ Len(<<a>>) = 1 /\ <<a>>[1] = a
    OBVIOUS
  <2> QED
    BY <1>6, <2>1 DEF Last
<1>10. /\ frames' = [frames EXCEPT ![g] = <<a>>]
       /\ pool' = given(<<b>>)
       /\ heap' = [without(<<b>>) EXCEPT ![a] = Append(SubSeq(@, 1, Len(heap[a])), e)]
  BY <1>3, <1>4, <1>6, <1>8, <1>9
<1>11. pool[b] = 0
  BY <1>4, HeldNotPooled
<1>12. given(<<b>>) = [pool EXCEPT ![b] = 1] /\ without(<<b>>) = [heap EXCEPT ![b] = <<>>]
  BY <1>11, GivenOne
<1>13. PICK A \in Seq(Token) : A = Append(heap[a], e)
  BY <1>1, AppendProperties DEF PoolTypeOK
<1>14. heap' = [heap EXCEPT ![b] = <<>>, ![a] = A]
  <2>1. [heap EXCEPT ![b] = <<>>][a] = heap[a]
    BY <1>1, <1>4 DEF PoolTypeOK
  <2>2. SubSeq(heap[a], 1, Len(heap[a])) = heap[a]
    BY <1>1, SubSeqFull DEF PoolTypeOK
  <2>3. heap' = [[heap EXCEPT ![b] = <<>>] EXCEPT ![a] = A]
    BY <1>10, <1>12, <1>13, <2>1, <2>2
  <2> QED
    BY <2>3
<1>15. PICK w \in Seq(Token) : w = Append(sn.fields, e)
  BY <1>6, AppendProperties
<1>16. A = With[1] \o w
  <2>1. PICK v, u \in Seq(Token) : v = With[1] /\ u = sn.fields
    BY <1>6, Persistent
  <2>2. Append(v \o u, e) = v \o Append(u, e)
    BY OneMore
  <2> QED
    BY <1>6, <1>13, <1>15, <2>1, <2>2
<1>17. snaps' = [snaps EXCEPT ![g] = <<>>]
  <2>1. Front(snaps[g]) \in Seq(Snap) /\ Len(Front(snaps[g])) = 0
    BY <1>1, <1>3, SubSeqProperties DEF Front
  <2>2. Front(snaps[g]) = <<>>
    BY <2>1, EmptySeq
  <2> QED
    BY <1>2, <2>2
<1>18. pc' = [pc EXCEPT ![g] = "fields"]
  BY <1>1, <1>2 DEF PoolTypeOK
<1>19. pool' = [pool EXCEPT ![b] = 1] /\ written' = [written EXCEPT ![g] = w]
  BY <1>8, <1>10, <1>12, <1>15
<1> QED
  BY <1>2, <1>4, <1>10, <1>14, <1>16, <1>17, <1>18, <1>19, PopStep

LEMMA RecycleStep ==
  ASSUME PoolInv, NEW g \in Goroutines, Recycle(g)
  PROVE  PoolInv'
<1>1. /\ PoolTypeOK /\ ShapeInv(g) /\ StackInv(g) /\ written[g] \in Seq(Token)
  BY Mine DEF ContentInv
<1>2. pc[g] = "recycle" /\ UNCHANGED <<encoder, side, snaps, written, record>>
  BY <1>1 DEF Recycle, PoolTypeOK, Pcs
<1>3. Len(frames[g]) = 2 /\ snaps[g] = <<>>
  BY <1>1, <1>2 DEF ShapeInv
<1>4. PICK a, b \in Buffers :
        /\ a # b /\ frames[g] = <<a, b>> /\ frames[g][1] = a /\ frames[g][2] = b
        /\ Last(frames[g]) = b /\ ToSet(frames[g]) = {a, b} /\ a \in Refs(g) /\ b \in Refs(g)
        /\ Front(frames[g]) = <<a>>
  BY <1>3, DepthTwo
<1>5. /\ pool' = given(<<b>>) /\ heap' = without(<<b>>)
      /\ frames' = [frames EXCEPT ![g] = <<a>>] /\ pc' = [pc EXCEPT ![g] = "fields"]
  BY <1>2, <1>4 DEF Recycle, TopBuf
<1>6. pool[b] = 0
  BY <1>4, HeldNotPooled
<1>7. given(<<b>>) = [pool EXCEPT ![b] = 1] /\ without(<<b>>) = [heap EXCEPT ![b] = <<>>]
  BY <1>6, GivenOne
<1>8. PICK A \in Seq(Token) : A = heap[a]
  BY <1>1 DEF PoolTypeOK
<1>9. heap' = [heap EXCEPT ![b] = <<>>, ![a] = A]
  BY <1>1, <1>4, <1>5, <1>7, <1>8 DEF PoolTypeOK
<1>10. PICK w \in Seq(Token) : w = written[g]
  BY <1>1
<1>11. A = With[1] \o w
  BY <1>1, <1>2, <1>4, <1>8, <1>10 DEF StackInv
<1>12. snaps' = [snaps EXCEPT ![g] = <<>>] /\ written' = [written EXCEPT ![g] = w]
  BY <1>1, <1>2, <1>3, <1>10 DEF PoolTypeOK
<1> QED
  BY <1>2, <1>4, <1>5, <1>7, <1>9, <1>11, <1>12, PopStep

LEMMA SealStep ==
  ASSUME PoolInv, NEW g \in Goroutines, Seal(g)
  PROVE  PoolInv'
<1>1. /\ PoolTypeOK /\ ShapeInv(g) /\ StackInv(g)
  BY Mine DEF ContentInv
<1>2. /\ UNCHANGED <<encoder, pool, side, snaps, written, record>>
      /\ pc' = [pc EXCEPT ![g] = IF @ = "seal" THEN "recycle" ELSE "recycleAll"]
      /\ pc[g] \in {"seal", "sealAll"} /\ Len(frames[g]) > 1
  BY DEF Seal
<1>3. pc[g] = "seal" /\ Len(frames[g]) = 2 /\ snaps[g] = <<>>
  <2>1. ~(1 > 1)
    OBVIOUS
  <2>2. pc[g] = "seal"
    BY <1>1, <1>2, <2>1 DEF ShapeInv
  <2> QED
    BY <1>1, <2>2 DEF ShapeInv
<1>4. PICK a, b \in Buffers :
        /\ a # b /\ frames[g] = <<a, b>> /\ frames[g][1] = a /\ frames[g][2] = b
        /\ Last(frames[g]) = b /\ ToSet(frames[g]) = {a, b} /\ a \in Refs(g) /\ b \in Refs(g)
  BY <1>3, DepthTwo
<1>5. PICK to \in Buffers :
        /\ Appended(frames[g][Len(frames[g]) - 1], heap[TopBuf(g)], to)
        /\ frames' = [frames EXCEPT ![g][Len(frames[g]) - 1] = to]
  BY DEF Seal
<1>6. PICK ts \in Seq(Token) : ts = heap[b]
  BY <1>1 DEF PoolTypeOK
<1>7. /\ Appended(a, ts, to)
      /\ frames' = [frames EXCEPT ![g] = [frames[g] EXCEPT ![1] = to]]
  <2>1. Len(frames[g]) - 1 = 1
    BY <1>3
  <2> QED
    BY <1>4, <1>5, <1>6, <2>1 DEF TopBuf
<1>8. frames' = [frames EXCEPT ![g] = <<to, b>>]
  <2>1. [frames[g] EXCEPT ![1] = to] = <<to, b>>
    BY <1>4, ReplaceTwo
  <2> QED
    BY <1>7, <2>1, Zenon
<1>9. /\ to = a \/ (Free(to) /\ pool[to] = 0)
      /\ heap' \in [Buffers -> Seq(Token)]
      /\ heap'[to] = heap[a] \o ts
      /\ \A x \in Buffers \ {a, to} : heap'[x] = heap[x]
  <2>1. MovedTo(a, ts, to)
    BY <1>7, AppendedMoves
  <2> QED
    BY <2>1 DEF MovedTo
<1>10. b # to /\ pool[a] = 0 /\ pool[b] = 0
  BY <1>4, <1>9, HeldNotPooled
<1>11. /\ <<to, b>> \in Seq(Buffers) /\ Len(<<to, b>>) = 2
       /\ <<to, b>>[1] = to /\ <<to, b>>[2] = b
  OBVIOUS
<1>12. ToSet(<<to, b>>) = {to, b} /\ IsInjective(<<to, b>>)
  BY <1>10, <1>11, Two, InjectiveTwo
<1>13. frames'[g] = <<to, b>> /\ \A h \in Goroutines \ {g} : frames'[h] = frames[h]
  BY <1>1, <1>8 DEF PoolTypeOK
<1>14. /\ pc' = [pc EXCEPT ![g] = "recycle"] /\ pc'[g] = "recycle"
       /\ \A h \in Goroutines \ {g} : pc'[h] = pc[h]
  BY <1>1, <1>2, <1>3 DEF PoolTypeOK
<1>15. PoolTypeOK'
  <2>1. pc' \in [Goroutines -> Pcs] /\ frames' \in [Goroutines -> Seq(Buffers)]
    BY <1>1, <1>8, <1>11, <1>14 DEF PoolTypeOK, Pcs
  <2> QED
    BY <1>1, <1>2, <1>9, <2>1 DEF PoolTypeOK
<1>16. Len(frames'[g]) = 2 /\ snaps'[g] = <<>> /\ side' = side
  BY <1>2, <1>3, <1>11, <1>13
<1>17. ShapeInv(g)'
  <2>1. SideInv(g)' /\ Len(snaps[g]) <= 1 /\ snaps' = snaps
    BY <1>1, <1>2, <1>3, <1>14, SideKept DEF ShapeInv
  <2> QED
    BY <1>14, <1>16, <2>1 DEF ShapeInv
<1>18. StackInv(g)'
  <2>1. heap[a] \o heap[b] = With[1] \o written[g]
    BY <1>1, <1>3, <1>4 DEF StackInv
  <2>2. heap'[frames'[g][1]] = With[1] \o written'[g]
    BY <1>2, <1>6, <1>9, <1>11, <1>13, <2>1
  <2> QED
    BY <1>14, <1>16, <2>2, Zenon DEF StackInv
<1>19. \A x \in Buffers : pool'[x] = 1 => x \notin ToSet(frames'[g]) /\ pool[x] = 1
  <2>1. ToSet(frames'[g]) = {to, b}
    BY <1>12, <1>13
  <2>2. pool'[to] # 1 /\ pool'[b] # 1
    BY <1>2, <1>9, <1>10
  <2> QED
    BY <1>2, <2>1, <2>2
<1>20. \A x \in Buffers : heap'[x] = heap[x] \/ x \in ToSet(frames[g]) \/ Free(x)
  BY <1>4, <1>9
<1>21. \A x \in ToSet(frames'[g]) : x \in ToSet(frames[g]) \/ Free(x)
  BY <1>4, <1>9, <1>12, <1>13
<1>22. IsInjective(frames'[g])
  BY <1>12, <1>13
<1>23. /\ pc[g] \notin {"rec", "copy", "put", "done"}
       /\ pc'[g] \notin {"rec", "copy", "put", "done"}
  BY <1>3, <1>14
<1> QED
  BY <1>2, <1>13, <1>14, <1>15, <1>17, <1>18, <1>19, <1>20, <1>21, <1>22, <1>23, StackStep

\* The record of g moves to another array, or grows in its place.
LEMMA AppendRecStep ==
  ASSUME PoolInv, NEW g \in Goroutines, AppendRec(g)
  PROVE  PoolInv'
<1>1. /\ PoolTypeOK /\ ShapeInv(g) /\ LocalInv(g) /\ ContentInv(g) /\ StackInv(g)
      /\ frames[g] \in Seq(Buffers) /\ side[g] \in Seq(Buffers) /\ written[g] \in Seq(Token)
      /\ <<g, 0>> \in Token
  BY Mine, TokenTypes DEF ContentInv
<1>2. /\ pc[g] = "rec" /\ pc' = [pc EXCEPT ![g] = "copy"]
      /\ UNCHANGED <<encoder, pool, frames, snaps, written, record>>
  BY DEF AppendRec
<1>3. /\ encoder = "otlp" /\ Len(side[g]) = 1 /\ Len(frames[g]) = 1 /\ snaps[g] = <<>>
  BY <1>1, <1>2 DEF ShapeInv, SideInv
<1>4. PICK a \in Buffers : /\ frames[g] = <<a>> /\ frames[g][1] = a
                           /\ ToSet(frames[g]) = {a} /\ a \in Refs(g)
  BY <1>3, DepthOne
<1>5. PICK s \in Buffers : /\ side[g] = <<s>> /\ side[g][1] = s /\ Last(side[g]) = s
                           /\ ToSet(side[g]) = {s} /\ s \in Refs(g)
  BY <1>1, <1>3, One DEF Refs
<1>6. side[g] # <<>> /\ heap[s] = <<>>
  <2>1. side[g] # <<>>
    BY <1>5, Single
  <2>2. SideHolds(g) = <<>>
    BY <1>2, <1>3 DEF SideHolds
  <2> QED
    BY <1>1, <1>5, <2>1, <2>2 DEF ContentInv
<1>7. a # s /\ Refs(g) = {a, s}
  BY <1>1, <1>4, <1>5 DEF LocalInv, Refs
\* What rec takes in.
<1>8. PICK ts \in Seq(Token) : /\ ts = <<<<g, 0>>>> \o heap[a]
                               /\ ts = <<<<g, 0>>>> \o With[1] \o written[g]
  <2>1. PICK e \in Seq(Token) : e = <<<<g, 0>>>>
    BY <1>1, Single
  <2>2. PICK v, u \in Seq(Token) : v = With[1] /\ u = written[g]
    BY <1>1, Persistent
  <2>3. heap[a] = v \o u
    BY <1>1, <1>2, <1>3, <1>4, <2>2 DEF StackInv
  <2>4. e \o (v \o u) = (e \o v) \o u
    <3>1. Regroups(e, v, u)
      BY TokensRegroup
    <3> QED
      BY <3>1 DEF Regroups
  <2>5. e \o (v \o u) \in Seq(Token)
    OBVIOUS
  <2> QED
    BY <2>1, <2>2, <2>3, <2>4, <2>5
<1>9. PICK to \in Buffers :
        /\ Appended(s, ts, to)
        /\ side' = [side EXCEPT ![g] = IF to = @[1] THEN @ ELSE <<to, Last(@)>>]
  BY <1>2, <1>4, <1>5, <1>8 DEF AppendRec
<1>10. /\ to = s \/ (Free(to) /\ pool[to] = 0)
       /\ heap' \in [Buffers -> Seq(Token)]
       /\ heap'[to] = ts
       /\ \A x \in Buffers \ {s, to} : heap'[x] = heap[x]
  <2>1. MovedTo(s, ts, to)
    BY <1>9, AppendedMoves
  <2>2. <<>> \o ts = ts
    BY ConcatEmptySeq
  <2> QED
    BY <1>6, <2>1, <2>2 DEF MovedTo
<1>11. a # to /\ pool[a] = 0 /\ pool[s] = 0 /\ pool[to] = 0
  BY <1>4, <1>5, <1>7, <1>10, HeldNotPooled
\* rec's array, and behind it the one that the deferred call was given.
<1>12. PICK r \in Seq(Buffers) :
         /\ side' = [side EXCEPT ![g] = r]
         /\ r[1] = to /\ r # <<>> /\ Len(r) <= 2 /\ IsInjective(r) /\ ToSet(r) = {to, s}
  <2>1. CASE to = s
    <3>1. side' = [side EXCEPT ![g] = <<s>>]
      BY <1>5, <1>9, <2>1
    <3>2. /\ <<s>> \in Seq(Buffers) /\ <<s>>[1] = s /\ <<s>> # <<>> /\ Len(<<s>>) = 1
          /\ IsInjective(<<s>>) /\ ToSet(<<s>>) = {s}
      BY Single, InjectiveOne
    <3>3. Len(<<s>>) <= 2 /\ ToSet(<<s>>) = {to, s}
      BY <2>1, <3>2
    <3> QED
      BY <2>1, <3>1, <3>2, <3>3
  <2>2. CASE to # s
    <3>1. side' = [side EXCEPT ![g] = <<to, s>>]
      BY <1>5, <1>9, <2>2
    <3>2. /\ <<to, s>> \in Seq(Buffers) /\ <<to, s>>[1] = to /\ <<to, s>>[2] = s
          /\ <<to, s>> # <<>> /\ Len(<<to, s>>) = 2
      OBVIOUS
    <3>3. ToSet(<<to, s>>) = {to, s} /\ IsInjective(<<to, s>>)
      BY <2>2, <3>2, Two, InjectiveTwo
    <3>4. Len(<<to, s>>) <= 2
      BY <3>2
    <3> QED
      BY <3>1, <3>2, <3>3, <3>4
  <2> QED
    BY <2>1, <2>2
<1>13. /\ side'[g] = r /\ pc'[g] = "copy"
       /\ \A h \in Goroutines \ {g} : pc'[h] = pc[h] /\ side'[h] = side[h]
  BY <1>1, <1>2, <1>12 DEF PoolTypeOK
<1>14. PoolTypeOK'
  <2>1. pc' \in [Goroutines -> Pcs] /\ side' \in [Goroutines -> Seq(Buffers)]
    BY <1>1, <1>2, <1>12 DEF PoolTypeOK, Pcs
  <2> QED
    BY <1>1, <1>2, <1>10, <2>1 DEF PoolTypeOK
<1>15. Refs(g)' = {a, to, s}
  BY <1>2, <1>4, <1>12, <1>13 DEF Refs
<1>16. LocalInv(g)'
  BY <1>1, <1>2, <1>4, <1>7, <1>11, <1>12, <1>13 DEF LocalInv
<1>17. ShapeInv(g)'
  <2>1. SideInv(g)'
    BY <1>2, <1>3, <1>12, <1>13 DEF SideInv, NoSide
  <2> QED
    BY <1>1, <1>2, <1>3, <1>13, <2>1 DEF ShapeInv
<1>18. ContentInv(g)'
  <2>1. heap'[a] = heap[a]
    BY <1>7, <1>10, <1>11
  <2>2. StackInv(g)'
    BY <1>1, <1>2, <1>3, <1>4, <1>13, <2>1 DEF StackInv
  <2>3. SideHolds(g)' = ts
    BY <1>2, <1>3, <1>8, <1>13 DEF SideHolds
  <2> QED
    BY <1>10, <1>12, <1>13, <2>2, <2>3 DEF ContentInv
<1>19. StepOf(g)
  <2>1. \A x \in Buffers : heap'[x] = heap[x] \/ x \in Refs(g) \/ Free(x)
    BY <1>7, <1>10
  <2>2. \A x \in Refs(g)' : x \in Refs(g) \/ Free(x)
    BY <1>7, <1>10, <1>15
  <2>3. \A x \in Buffers : pool'[x] = 1 => x \notin Refs(g)' /\ pool[x] = 1
    BY <1>2, <1>11, <1>15
  <2> QED
    BY <1>2, <1>13, <2>1, <2>2, <2>3 DEF StepOf
<1> QED
  BY <1>14, <1>16, <1>17, <1>18, <1>19, OthersKept DEF GoInv

\* The record is what g's buffers hold.
LEMMA AssembleStep ==
  ASSUME PoolInv, NEW g \in Goroutines, AssembleRecord(g)
  PROVE  PoolInv'
<1>1. /\ PoolTypeOK /\ ShapeInv(g) /\ LocalInv(g) /\ ContentInv(g) /\ StackInv(g)
      /\ frames[g] \in Seq(Buffers) /\ side[g] \in Seq(Buffers) /\ written[g] \in Seq(Token)
      /\ <<g, 0>> \in Token
  BY Mine, TokenTypes DEF ContentInv
<1>2. /\ pc' = [pc EXCEPT ![g] = "put"]
      /\ UNCHANGED <<encoder, heap, pool, frames, side, snaps, written>>
  BY DEF AssembleRecord
<1>3. \/ /\ encoder = "otlp" /\ pc[g] = "copy"
         /\ record' = [record EXCEPT ![g] = heap[side[g][1]]]
      \/ /\ encoder = "fluent" /\ pc[g] = "sealAll"
         /\ record' = [record EXCEPT ![g] = heap[side[g][1]] \o heap[frames[g][1]]]
  BY DEF AssembleRecord
<1>4. side[g] # <<>> /\ Len(frames[g]) = 1 /\ snaps[g] = <<>>
  <2>1. pc[g] \in {"copy", "sealAll"} /\ (encoder = "otlp" => pc[g] = "copy")
    BY <1>3
  <2>2. SideInv(g) /\ ~NoSide(g)
    BY <1>1, <2>1 DEF ShapeInv, NoSide
  <2> QED
    BY <1>1, <2>1, <2>2 DEF ShapeInv, SideInv
<1>5. heap[frames[g][1]] = With[1] \o written[g] /\ heap[side[g][1]] = SideHolds(g)
  BY <1>1, <1>3, <1>4 DEF ContentInv, StackInv
<1>6. PICK r \in Seq(Token) : /\ r = <<<<g, 0>>>> \o With[1] \o written[g]
                              /\ record' = [record EXCEPT ![g] = r]
  <2>1. PICK t \in Seq(Token) : t = <<<<g, 0>>>>
    BY <1>1, Single
  <2>2. PICK v, u \in Seq(Token) : v = With[1] /\ u = written[g]
    BY <1>1, Persistent
  <2>3. t \o (v \o u) = (t \o v) \o u
    <3>1. Regroups(t, v, u)
      BY TokensRegroup
    <3> QED
      BY <3>1 DEF Regroups
  <2>4. t \o (v \o u) \in Seq(Token)
    OBVIOUS
  <2>5. record' = [record EXCEPT ![g] = (t \o v) \o u]
    <3>1. CASE encoder = "fluent"
      <4>1. heap[side[g][1]] = t /\ heap[frames[g][1]] = v \o u
        BY <1>5, <2>1, <2>2, <3>1 DEF SideHolds
      <4> QED
        BY <1>3, <2>3, <3>1, <4>1
    <3>2. CASE encoder = "otlp"
      <4>1. heap[side[g][1]] = (t \o v) \o u
        BY <1>3, <1>5, <2>1, <2>2, <3>2 DEF SideHolds
      <4> QED
        BY <1>3, <3>2, <4>1
    <3> QED
      BY <1>3, <3>1, <3>2
  <2> QED
    BY <2>1, <2>2, <2>3, <2>4, <2>5
<1>7. /\ pc'[g] = "put" /\ record'[g] = r
      /\ \A h \in Goroutines \ {g} : pc'[h] = pc[h] /\ record'[h] = record[h]
  BY <1>1, <1>2, <1>6 DEF PoolTypeOK
<1>8. PoolTypeOK'
  BY <1>1, <1>2, <1>6 DEF PoolTypeOK, Pcs
<1>9. ShapeInv(g)' /\ LocalInv(g)'
  <2>1. SideInv(g)'
    BY <1>1, <1>2, <1>4, <1>7 DEF ShapeInv, SideInv, NoSide
  <2> QED
    BY <1>1, <1>2, <1>4, <1>7, <2>1 DEF ShapeInv, LocalInv
<1>10. ContentInv(g)'
  <2>1. StackInv(g)'
    BY <1>2, <1>4, <1>5, <1>7 DEF StackInv
  <2>2. SideHolds(g)' = SideHolds(g)
    BY <1>2, <1>3, <1>7 DEF SideHolds
  <2> QED
    BY <1>2, <1>5, <1>6, <1>7, <2>1, <2>2 DEF ContentInv
<1>11. StepOf(g)
  <2>1. Refs(g)' = Refs(g)
    BY <1>2 DEF Refs
  <2> QED
    BY <1>2, <1>7, <2>1 DEF StepOf, PoolInv, OwnInv
<1> QED
  BY <1>8, <1>9, <1>10, <1>11, OthersKept DEF GoInv

\* Everything goes back, but for the array that rec has grown into.
LEMMA PutStep ==
  ASSUME PoolInv, NEW g \in Goroutines, Put(g)
  PROVE  PoolInv'
<1>1. /\ PoolTypeOK /\ ShapeInv(g) /\ LocalInv(g) /\ ContentInv(g)
      /\ frames[g] \in Seq(Buffers) /\ side[g] \in Seq(Buffers)
  BY Mine
<1>2. /\ pc[g] = "put"
      /\ pool' = given(Append(frames[g], Last(side[g]))) /\ heap' = without(frames[g] \o side[g])
      /\ frames' = [frames EXCEPT ![g] = <<>>] /\ side' = [side EXCEPT ![g] = <<>>]
      /\ pc' = [pc EXCEPT ![g] = "done"] /\ UNCHANGED <<encoder, snaps, written, record>>
  BY DEF Put
<1>3. Len(frames[g]) = 1 /\ side[g] # <<>> /\ snaps[g] = <<>>
  BY <1>1, <1>2 DEF ShapeInv, SideInv, NoSide
<1>4. PICK a \in Buffers : frames[g] = <<a>> /\ ToSet(frames[g]) = {a} /\ a \in Refs(g)
  BY <1>3, DepthOne
<1>5. PICK d \in Buffers : d = Last(side[g]) /\ d \in Refs(g) /\ a # d
  <2>1. Last(side[g]) \in ToSet(side[g])
    BY <1>3, RefsOf
  <2>2. Last(side[g]) \in Refs(g) /\ Last(side[g]) # a
    BY <1>1, <1>4, <2>1 DEF LocalInv, Refs
  <2> QED
    BY <2>2, RefsOf
<1>6. pool[a] = 0 /\ pool[d] = 0
  BY <1>4, <1>5, HeldNotPooled
<1>7. pool' = [pool EXCEPT ![a] = 1, ![d] = 1]
  <2>1. Append(frames[g], Last(side[g])) = <<a, d>>
    BY <1>4, <1>5, AppendTwo
  <2>2. pool' = given(<<a, d>>)
    BY <1>2, <2>1
  <2> QED
    BY <1>5, <1>6, <2>2, GivenTwo
<1>8. \A x \in ToSet(frames[g] \o side[g]) : x \in Refs(g)
  BY HeldOnce DEF ToSet
<1>9. /\ pool' \in [Buffers -> {0, 1}] /\ heap' \in [Buffers -> Seq(Token)]
      /\ \A x \in Buffers \ {a, d} : pool'[x] = pool[x]
      /\ \A x \in Buffers \ Refs(g) : heap'[x] = heap[x]
  <2>1. heap' = [x \in Buffers |-> IF x \in ToSet(frames[g] \o side[g]) THEN <<>> ELSE heap[x]]
    BY <1>2 DEF without
  <2>2. heap \in [Buffers -> Seq(Token)] /\ <<>> \in Seq(Token)
    BY <1>1, EmptySeq DEF PoolTypeOK
  <2>3. /\ heap' \in [Buffers -> Seq(Token)]
        /\ \A x \in Buffers \ Refs(g) : heap'[x] = heap[x]
    BY <1>8, <2>1, <2>2
  <2> QED
    BY <1>1, <1>7, <2>3 DEF PoolTypeOK
<1>10. /\ pc'[g] = "done" /\ frames'[g] = <<>> /\ side'[g] = <<>>
       /\ \A h \in Goroutines \ {g} :
            pc'[h] = pc[h] /\ frames'[h] = frames[h] /\ side'[h] = side[h]
  BY <1>1, <1>2 DEF PoolTypeOK
<1>11. PoolTypeOK'
  <2>1. /\ pc' \in [Goroutines -> Pcs] /\ frames' \in [Goroutines -> Seq(Buffers)]
        /\ side' \in [Goroutines -> Seq(Buffers)]
    BY <1>1, <1>2, EmptySeq DEF PoolTypeOK, Pcs
  <2> QED
    BY <1>1, <1>2, <1>9, <2>1 DEF PoolTypeOK
<1>12. Refs(g)' = {}
  BY <1>10, None DEF Refs
<1>13. Len(frames'[g]) = 0 /\ Len(side'[g]) = 0 /\ snaps'[g] = <<>> /\ Len(snaps'[g]) = 0
  BY <1>2, <1>3, <1>10, EmptySeq
<1>14. ShapeInv(g)'
  <2>1. 0 <= 1 /\ 0 <= 2
    OBVIOUS
  <2>2. SideInv(g)'
    BY <1>10, <1>13, <2>1 DEF SideInv, NoSide
  <2> QED
    BY <1>10, <1>13, <2>1, <2>2 DEF ShapeInv
<1>15. LocalInv(g)'
  BY <1>10, None, InjectiveEmpty DEF LocalInv
<1>16. ContentInv(g)'
  <2>1. StackInv(g)'
    BY <1>10, <1>13, Zenon DEF StackInv
  <2>2. record'[g] = <<<<g, 0>>>> \o With[1] \o written'[g]
    BY <1>1, <1>2 DEF ContentInv
  <2> QED
    BY <1>10, <2>1, <2>2 DEF ContentInv
<1>17. StepOf(g)
  BY <1>2, <1>4, <1>5, <1>9, <1>10, <1>12 DEF StepOf
<1> QED
  BY <1>11, <1>14, <1>15, <1>16, <1>17, OthersKept DEF GoInv

-----------------------------------------------------------------------------
(***************************************************************************)
(* The invariant, and what follows from it.                                *)
(***************************************************************************)
LEMMA PoolInvInit == encoder \in {"fluent", "otlp"} /\ PoolInit => PoolInv
<1> SUFFICES ASSUME encoder \in {"fluent", "otlp"}, PoolInit PROVE PoolInv
  OBVIOUS
<1>1. /\ <<>> \in Seq(Token) /\ <<>> \in Seq(Buffers) /\ <<>> \in Seq(Snap)
      /\ Len(<<>>) = 0 /\ 0 <= 1 /\ 0 <= 2
  BY EmptySeq
<1>2. heap \in [Buffers -> Seq(Token)] /\ heap[1] = With[1]
  BY <1>1, PoolBounds, Persistent DEF PoolInit
<1>3. PoolTypeOK
  BY <1>1, <1>2 DEF PoolInit, PoolTypeOK, Pcs
<1>4. \A g \in Goroutines : /\ pc[g] = "start" /\ frames[g] = <<>> /\ side[g] = <<>>
                            /\ snaps[g] = <<>> /\ written[g] = <<>> /\ Refs(g) = {}
  BY None DEF PoolInit, Refs
<1>5. OwnInv
  BY <1>2, <1>4 DEF PoolInit, OwnInv
<1>6. ASSUME NEW g \in Goroutines PROVE ShapeInv(g) /\ LocalInv(g) /\ ContentInv(g)
  <2>1. ShapeInv(g)
    BY <1>1, <1>4 DEF ShapeInv, SideInv, NoSide
  <2>2. LocalInv(g)
    BY <1>4, None, InjectiveEmpty DEF LocalInv
  <2>3. ContentInv(g)
    BY <1>4 DEF ContentInv, StackInv
  <2> QED
    BY <2>1, <2>2, <2>3
<1> QED
  BY <1>3, <1>5, <1>6 DEF PoolInv

LEMMA PoolInvNext == PoolInv /\ [PoolNext]_poolVars => PoolInv'
<1> SUFFICES ASSUME PoolInv, [PoolNext]_poolVars PROVE PoolInv'
  OBVIOUS
<1>1. CASE UNCHANGED poolVars
  <2>1. /\ encoder' = encoder /\ heap' = heap /\ pool' = pool /\ pc' = pc /\ frames' = frames
        /\ side' = side /\ snaps' = snaps /\ written' = written /\ record' = record
    BY <1>1 DEF poolVars
  <2>2. PoolTypeOK'
    BY <2>1 DEF PoolInv, PoolTypeOK
  <2>3. OwnInv'
    <3>1. \A g \in Goroutines : Refs(g)' = Refs(g)
      BY <2>1 DEF Refs
    <3>2. OwnInv
      BY DEF PoolInv
    <3> QED
      BY <2>1, <3>1, <3>2 DEF OwnInv
  <2>4. ASSUME NEW g \in Goroutines PROVE ShapeInv(g)' /\ LocalInv(g)' /\ ContentInv(g)'
    <3>1. ShapeInv(g) /\ LocalInv(g) /\ ContentInv(g)
      BY DEF PoolInv
    <3>2. ShapeInv(g)'
      BY <2>1, <3>1 DEF ShapeInv, SideInv, NoSide
    <3>3. LocalInv(g)'
      BY <2>1, <3>1 DEF LocalInv
    <3>4. ContentInv(g)'
      BY <2>1, <3>1 DEF ContentInv, StackInv, SideHolds
    <3> QED
      BY <3>2, <3>3, <3>4
  <2> QED
    BY <2>2, <2>3, <2>4 DEF PoolInv
<1>2. ASSUME NEW g \in Goroutines, Start(g) PROVE PoolInv'
  BY <1>2, StartStep
<1>3. ASSUME NEW g \in Goroutines, Clone(g) PROVE PoolInv'
  BY <1>3, CloneStep
<1>4. ASSUME NEW g \in Goroutines, Add(g) PROVE PoolInv'
  BY <1>4, AddStep
<1>5. ASSUME NEW g \in Goroutines, OpenFrame(g) PROVE PoolInv'
  BY <1>5, OpenFrameStep
<1>6. ASSUME NEW g \in Goroutines, Rollback(g) PROVE PoolInv'
  BY <1>6, RollbackStep
<1>7. ASSUME NEW g \in Goroutines, EndFrame(g) PROVE PoolInv'
  BY <1>7, EndFrameStep
<1>8. ASSUME NEW g \in Goroutines, Seal(g) PROVE PoolInv'
  BY <1>8, SealStep
<1>9. ASSUME NEW g \in Goroutines, Recycle(g) PROVE PoolInv'
  BY <1>9, RecycleStep
<1>10. ASSUME NEW g \in Goroutines, TakeRec(g) PROVE PoolInv'
  BY <1>10, TakeRecStep
<1>11. ASSUME NEW g \in Goroutines, AppendRec(g) PROVE PoolInv'
  BY <1>11, AppendRecStep
<1>12. ASSUME NEW g \in Goroutines, AssembleRecord(g) PROVE PoolInv'
  BY <1>12, AssembleStep
<1>13. ASSUME NEW g \in Goroutines, Put(g) PROVE PoolInv'
  BY <1>13, PutStep
<1> QED
  BY <1>1, <1>2, <1>3, <1>4, <1>5, <1>6, <1>7, <1>8, <1>9, <1>10, <1>11, <1>12, <1>13 DEF PoolNext

LEMMA PoolInductive == PoolSpec => []PoolInv
  BY PoolInvInit, PoolInvNext, PTL DEF PoolSpec

\* A buffer is in the pool, in With or in the hands of one goroutine, once.
LEMMA OwnedOnce == PoolInv => BufferOwnedOnce
<1> SUFFICES ASSUME PoolInv PROVE BufferOwnedOnce
  OBVIOUS
<1>1. ASSUME NEW b \in Buffers
      PROVE  pool[b] + (IF b \in ToSet(base) THEN 1 ELSE 0)
               + Cardinality({r \in Goroutines \X (1..(Len(base) + 2)) :
                                /\ r[2] \in DOMAIN (frames[r[1]] \o side[r[1]])
                                /\ (frames[r[1]] \o side[r[1]])[r[2]] = b}) <= 1
  <2> DEFINE R == {r \in Goroutines \X (1..(Len(base) + 2)) :
                     /\ r[2] \in DOMAIN (frames[r[1]] \o side[r[1]])
                     /\ (frames[r[1]] \o side[r[1]])[r[2]] = b}
             inBase == IF b \in ToSet(base) THEN 1 ELSE 0
  <2> SUFFICES pool[b] + inBase + Cardinality(R) <= 1
    OBVIOUS
  <2>1. pool[b] \in {0, 1} /\ inBase = IF b = 1 THEN 1 ELSE 0
    BY Persistent DEF PoolInv, PoolTypeOK
  <2>2. \A r \in R : r[1] \in Goroutines /\ b \in Refs(r[1])
    BY HeldOnce
  <2>3. \A r, q \in R : r = q
    <3> TAKE r, q \in R
    <3>1. r[1] = q[1]
      BY <2>2 DEF PoolInv, OwnInv
    <3>2. r[2] = q[2]
      BY <2>2, <3>1, HeldOnce DEF IsInjective
    <3> QED
      BY <3>1, <3>2
  <2>4. CASE R = {}
    <3>1. Cardinality(R) = 0
      BY <2>4, FS_EmptySet
    <3>2. b = 1 => pool[b] = 0
      BY <2>1 DEF PoolInv, OwnInv
    <3>3. pool[b] + inBase <= 1 /\ pool[b] + inBase \in Nat
      BY <2>1, <3>2
    <3> HIDE DEF R, inBase
    <3> QED
      BY <3>1, <3>3
  <2>5. CASE R # {}
    <3>1. PICK r : R = {r}
      <4>1. PICK q \in R : TRUE
        BY <2>5
      <4>2. R = {q}
        BY <2>3, <4>1, Zenon
      <4> QED
        BY <4>2
    <3>2. Cardinality(R) = 1
      BY <3>1, FS_Singleton
    <3>3. b # 1 /\ pool[b] = 0
      BY <2>2, <3>1, HeldNotPooled
    <3>4. inBase = 0
      BY <2>1, <3>3
    <3> HIDE DEF R, inBase
    <3> QED
      BY <3>2, <3>3, <3>4
  <2> QED
    BY <2>4, <2>5
<1>2. \A i \in DOMAIN base : heap[base[i]] = With[i]
  BY Persistent DEF PoolInv, OwnInv
<1> QED
  BY <1>1, <1>2 DEF BufferOwnedOnce

LEMMA FlattenOne ==
  ASSUME NEW s, Len(s) = 1
  PROVE  FlattenSeq(s) = s[1]
<1> DEFINE Flat(f) == f = [i \in 1..Len(s) |-> IF i = 1 THEN s[i] ELSE f[i - 1] \o s[i]]
           c == CHOOSE f : Flat(f)
<1>1. Flat([i \in 1..1 |-> s[i]])
  <2>1. \A i \in 1..1 : i = 1
    OBVIOUS
  <2> QED
    BY <2>1
<1>2. Flat(c)
  BY <1>1
<1>3. FlattenSeq(s) = c[1]
  <2>1. ~(Len(s) = 0)
    OBVIOUS
  <2>2. FlattenSeq(s) = c[Len(s)]
    BY <2>1, Zenon DEF FlattenSeq
  <2> QED
    BY <2>2
<1> HIDE DEF c
<1>4. c[1] = s[1]
  <2>1. 1 \in 1..Len(s)
    OBVIOUS
  <2> QED
    BY <1>2, <2>1
<1> QED
  BY <1>3, <1>4

\* However the encodes of the goroutines interleave, a buffer is in the pool at
\* most once, and never while a stack refers to it; no two frames share one,
\* and the frames of With are never written to (getBytes, putBytes, cloneStack,
\* sealDownTo, rollback, free).
THEOREM BuffersOwnedOnce == PoolSpec => []BufferOwnedOnce
  BY PoolInductive, OwnedOnce, PTL

\* Each record holds its own envelope, the fields of With and its own fields in
\* order, whoever encodes at the same time and whichever marshalers failed
\* (EncodeEntry).
THEOREM RecordsStayUnmixed == PoolSpec => []RecordsUnmixed
<1>1. PoolInv => RecordsUnmixed
  <2>1. FlattenSeq(With) = With[1]
    <3>1. Len(With) = 1
      BY DEF With
    <3> QED
      BY <3>1, FlattenOne
  <2> SUFFICES ASSUME PoolInv, NEW g \in Goroutines, pc[g] \in {"put", "done"}
               PROVE  record[g] = <<<<g, 0>>>> \o FlattenSeq(With) \o written[g]
    BY Zenon DEF RecordsUnmixed
  <2>2. ContentInv(g)
    BY Mine
  <2> QED
    BY <2>1, <2>2 DEF ContentInv
<1> QED
  BY <1>1, PoolInductive, PTL

-----------------------------------------------------------------------------
(***************************************************************************)
(* The native Fluent encoder.  First the reader, whose states are ReadAll's *)
(* partial results.                                                        *)
(***************************************************************************)
Kinds      == {"map", "array"}
TextTokens == [t : Marks, n : Int]
Texts      == Seq(TextTokens)
Todos      == Seq([kind : {"map", "array", "end"}, left : Int])
Readers    == [todo : Todos, text : Texts]

\* The reader after each of the first n tokens.
Ran(f, r, b, n) == f = [i \in 0..n |-> IF i = 0 THEN r ELSE Read(f[i - 1], b[i])]

\* Such a function exists.
LEMMA RunsExist ==
  ASSUME NEW r, NEW b, NEW n \in Nat
  PROVE  \E f : Ran(f, r, b, n)
<1> DEFINE T == {m \in Nat : \E f : Ran(f, r, b, m)}
<1>1. 0 \in T
  <2>1. Ran([i \in 0..0 |-> r], r, b, 0)
    BY DEF Ran
  <2> QED
    BY <2>1
<1>2. ASSUME NEW m \in Nat, m \in T PROVE m + 1 \in T
  <2>1. PICK f : Ran(f, r, b, m)
    BY <1>2
  <2> DEFINE g == [i \in 0..(m + 1) |-> IF i = m + 1 THEN Read(f[m], b[m + 1]) ELSE f[i]]
  <2>2. \A i \in 0..m : g[i] = f[i] /\ f[i] = IF i = 0 THEN r ELSE Read(f[i - 1], b[i])
    BY <2>1 DEF Ran
  <2>3. \A i \in 0..(m + 1) : (i = m + 1 /\ i # 0 /\ i - 1 = m) \/ (i \in 0..m /\ i # m + 1)
    OBVIOUS
  <2>4. \A i \in 0..m : i = 0 \/ i - 1 \in 0..m
    OBVIOUS
  <2>5. \A i \in 0..(m + 1) : g[i] = IF i = 0 THEN r ELSE Read(g[i - 1], b[i])
    <3> TAKE i \in 0..(m + 1)
    <3>1. CASE i \in 0..m
      BY <2>2, <2>4, <3>1
    <3>2. CASE i = m + 1
      <4>1. i # 0 /\ i - 1 = m /\ m \in 0..m
        BY <3>2
      <4>2. g[i] = Read(f[m], b[i])
        BY <3>2
      <4> QED
        BY <2>2, <4>1, <4>2
    <3> QED
      BY <2>3, <3>1, <3>2
  <2>6. Ran(g, r, b, m + 1)
    BY <2>5 DEF Ran
  <2> QED
    BY <2>6
<1> HIDE DEF T
<1>3. n \in T
  BY <1>1, <1>2, NatSetInduction
<1> QED
  BY <1>3 DEF T

\* It depends on the tokens read only.
LEMMA RunsSame ==
  ASSUME NEW n \in Nat, NEW r, NEW b, NEW f, Ran(f, r, b, n),
         NEW c, NEW g, Ran(g, r, c, n + 1), Agree(b, c, n)
  PROVE  f[n] = g[n]
<1> DEFINE T == {i \in Nat : i <= n => f[i] = g[i]}
<1>1. /\ \A i \in 0..n : f[i] = IF i = 0 THEN r ELSE Read(f[i - 1], b[i])
      /\ \A i \in 0..(n + 1) : g[i] = IF i = 0 THEN r ELSE Read(g[i - 1], c[i])
  BY DEF Ran
<1>2. 0 \in T
  BY <1>1
<1>3. ASSUME NEW i \in Nat, i \in T PROVE i + 1 \in T
  <2> SUFFICES ASSUME i + 1 <= n PROVE f[i + 1] = g[i + 1]
    OBVIOUS
  <2>1. /\ i + 1 \in 0..n /\ i + 1 \in 0..(n + 1) /\ i + 1 # 0 /\ (i + 1) - 1 = i /\ i <= n
        /\ i + 1 \in 1..n
    OBVIOUS
  <2>2. f[i + 1] = Read(f[i], b[i + 1]) /\ g[i + 1] = Read(g[i], c[i + 1])
    BY <1>1, <2>1
  <2>3. f[i] = g[i] /\ b[i + 1] = c[i + 1]
    BY <1>3, <2>1 DEF Agree
  <2> QED
    BY <2>2, <2>3
<1> HIDE DEF T
<1>4. \A i \in Nat : i \in T
  BY <1>2, <1>3, NatSetInduction
<1> QED
  BY <1>4 DEF T

\* ReadAll is its last value.
LEMMA ReadAllIs ==
  ASSUME NEW r, NEW b, Len(b) \in Nat
  PROVE  \E f : Ran(f, r, b, Len(b)) /\ ReadAll(r, b) = f[Len(b)]
<1> DEFINE f == CHOOSE g : Ran(g, r, b, Len(b))
<1>1. Ran(f, r, b, Len(b))
  BY RunsExist
<1>2. ReadAll(r, b) = f[Len(b)]
  BY Zenon DEF ReadAll, Ran
<1> QED
  BY <1>1, <1>2

\* Nothing changes nothing.
LEMMA ReadNothing ==
  ASSUME NEW r
  PROVE  ReadAll(r, <<>>) = r
<1>1. Len(<<>>) \in Nat /\ Len(<<>>) = 0
  OBVIOUS
<1>2. PICK f : Ran(f, r, <<>>, Len(<<>>)) /\ ReadAll(r, <<>>) = f[Len(<<>>)]
  BY <1>1, ReadAllIs
<1>3. \A i \in 0..0 : f[i] = IF i = 0 THEN r ELSE Read(f[i - 1], <<>>[i])
  BY <1>1, <1>2 DEF Ran
<1> QED
  BY <1>1, <1>2, <1>3

\* One token more.
LEMMA ReadOneMore ==
  ASSUME NEW r, NEW b \in Texts, NEW x \in TextTokens
  PROVE  ReadAll(r, Append(b, x)) = Read(ReadAll(r, b), x)
<1> DEFINE c == Append(b, x)
<1>1. /\ Len(b) \in Nat /\ Len(c) = Len(b) + 1 /\ Len(c) \in Nat
      /\ \A i \in 1..Len(b) : b[i] = c[i]
      /\ c[Len(b) + 1] = x
  BY AppendProperties, LenProperties DEF Texts
<1> HIDE DEF c
<1>2. PICK f : Ran(f, r, b, Len(b)) /\ ReadAll(r, b) = f[Len(b)]
  BY <1>1, ReadAllIs
<1>3. PICK g : Ran(g, r, c, Len(c)) /\ ReadAll(r, c) = g[Len(c)]
  BY <1>1, ReadAllIs
<1>4. f[Len(b)] = g[Len(b)]
  <2>1. Agree(b, c, Len(b))
    BY <1>1 DEF Agree
  <2>2. Ran(f, r, b, Len(b)) /\ Ran(g, r, c, Len(b) + 1) /\ Len(b) \in Nat
    BY <1>1, <1>2, <1>3
  <2> QED
    BY <2>1, <2>2, RunsSame
<1>5. \A i \in 0..Len(c) : g[i] = IF i = 0 THEN r ELSE Read(g[i - 1], c[i])
  BY <1>3 DEF Ran
<1>6. Len(c) \in 0..Len(c) /\ Len(c) # 0 /\ Len(c) - 1 = Len(b) /\ Len(b) \in 0..Len(b)
  BY <1>1
<1>7. g[Len(c)] = Read(g[Len(b)], x)
  BY <1>1, <1>5, <1>6
<1>8. ReadAll(r, c) = Read(f[Len(b)], x)
  BY <1>3, <1>4, <1>6, <1>7
<1> QED
  BY <1>2, <1>8 DEF c

\* The second part is read where the first one ended.
LEMMA ReadAllJoin ==
  ASSUME NEW r, NEW b \in Texts, NEW c \in Texts
  PROVE  ReadAll(r, b \o c) = ReadAll(ReadAll(r, b), c)
<1> DEFINE T == {n \in Nat : \A d \in Texts : Len(d) = n =>
                                ReadAll(r, b \o d) = ReadAll(ReadAll(r, b), d)}
<1>1. 0 \in T
  <2> SUFFICES ASSUME NEW d \in Texts, Len(d) = 0
               PROVE  ReadAll(r, b \o d) = ReadAll(ReadAll(r, b), d)
    OBVIOUS
  <2>1. d = <<>>
    BY EmptySeq DEF Texts
  <2>2. b \o <<>> = b
    BY ConcatEmptySeq DEF Texts
  <2> QED
    BY <2>1, <2>2, ReadNothing
<1>2. ASSUME NEW n \in Nat, n \in T PROVE n + 1 \in T
  <2> SUFFICES ASSUME NEW d \in Texts, Len(d) = n + 1
               PROVE  ReadAll(r, b \o d) = ReadAll(ReadAll(r, b), d)
    OBVIOUS
  <2>1. PICK e \in Texts, x \in TextTokens : d = Append(e, x) /\ Len(e) = n
    <3>1. SubSeq(d, 1, n) \in Texts /\ Len(SubSeq(d, 1, n)) = n /\ d[n + 1] \in TextTokens
      BY SubSeqProperties, ElementOfSeq DEF Texts
    <3>2. PICK e \in Texts, x \in TextTokens : e = SubSeq(d, 1, n) /\ x = d[n + 1]
      BY <3>1
    <3>3. Len(e) = n /\ \A i \in 1..n : e[i] = d[i]
      BY <3>1, <3>2, SubSeqProperties DEF Texts
    <3>4. PICK q : q = Append(e, x)
      OBVIOUS
    <3>5. q \in Texts /\ Len(q) = n + 1 /\ q[n + 1] = x /\ \A i \in 1..n : q[i] = e[i]
      BY <3>3, <3>4, AppendProperties DEF Texts
    <3>6. \A i \in 1..(n + 1) : q[i] = d[i]
      BY <3>2, <3>3, <3>5
    <3>7. q = d
      BY <3>5, <3>6, SeqEqual DEF Texts
    <3> QED
      BY <3>3, <3>4, <3>7
  <2>2. b \o d = Append(b \o e, x) /\ b \o e \in Texts
    BY <2>1 DEF Texts
  <2>3. ReadAll(r, b \o d) = Read(ReadAll(r, b \o e), x)
    BY <2>2, ReadOneMore
  <2>4. ReadAll(r, b \o e) = ReadAll(ReadAll(r, b), e)
    BY <1>2, <2>1
  <2>5. ReadAll(ReadAll(r, b), d) = Read(ReadAll(ReadAll(r, b), e), x)
    BY <2>1, ReadOneMore
  <2> QED
    BY <2>3, <2>4, <2>5
<1> HIDE DEF T
<1>3. Len(c) \in T
  <2>1. Len(c) \in Nat
    BY LenProperties DEF Texts
  <2> QED
    BY <1>1, <1>2, <2>1, NatSetInduction
<1> QED
  BY <1>3 DEF T

-----------------------------------------------------------------------------
(***************************************************************************)
(* Unwind, a recursion at the end of each call: a function that walks on   *)
(* until it stops exists when every step makes something smaller.          *)
(***************************************************************************)
Shrinks(S, stop, next, measure) ==
    /\ \A x \in S : measure[x] \in Nat
    /\ \A x \in S : x \notin stop => next[x] \in S /\ measure[next[x]] < measure[x]

Upto(S, measure, n) == {x \in S : measure[x] <= n}

Walks(u, stop, next, D) == \A x \in D : u[x] = IF x \in stop THEN x ELSE u[next[x]]

\* It exists for what is no greater than n.
LEMMA WalksExist ==
  ASSUME NEW S, NEW stop, NEW next, NEW measure, Shrinks(S, stop, next, measure), NEW n \in Nat
  PROVE  \E u : Walks(u, stop, next, Upto(S, measure, n))
<1> DEFINE T == {m \in Nat : \E u : Walks(u, stop, next, Upto(S, measure, m))}
<1>1. 0 \in T
  <2>1. \A x \in Upto(S, measure, 0) : x \in S /\ x \in stop
    <3> TAKE x \in Upto(S, measure, 0)
    <3>1. x \in S /\ measure[x] \in Nat /\ measure[x] <= 0
      BY DEF Upto, Shrinks
    <3>2. ASSUME x \notin stop PROVE FALSE
      <4>1. next[x] \in S /\ measure[next[x]] < measure[x]
        BY <3>1, <3>2 DEF Shrinks
      <4>2. measure[next[x]] \in Nat
        BY <4>1 DEF Shrinks
      <4> QED
        BY <3>1, <4>1, <4>2
    <3> QED
      BY <3>1, <3>2
  <2>2. Walks([x \in S |-> x], stop, next, Upto(S, measure, 0))
    BY <2>1 DEF Walks
  <2> QED
    BY <2>2
<1>2. ASSUME NEW m \in Nat, m \in T PROVE m + 1 \in T
  <2>1. PICK u : Walks(u, stop, next, Upto(S, measure, m))
    BY <1>2
  <2> DEFINE w == [x \in S |-> IF x \in stop THEN x ELSE u[next[x]]]
  <2>2. \A x \in S : w[x] = IF x \in stop THEN x ELSE u[next[x]]
    OBVIOUS
  <2> HIDE DEF w
  <2>3. ASSUME NEW x \in Upto(S, measure, m + 1)
        PROVE  w[x] = IF x \in stop THEN x ELSE w[next[x]]
    <3>1. x \in S /\ measure[x] \in Nat /\ measure[x] <= m + 1
      BY <2>3 DEF Upto, Shrinks
    <3>2. CASE x \in stop
      BY <2>2, <3>1, <3>2
    <3>3. CASE x \notin stop
      <4>1. next[x] \in S /\ measure[next[x]] < measure[x]
        BY <3>1, <3>3 DEF Shrinks
      <4>2. measure[next[x]] \in Nat
        BY <4>1 DEF Shrinks
      <4>3. next[x] \in Upto(S, measure, m)
        BY <3>1, <4>1, <4>2 DEF Upto
      <4>4. u[next[x]] = IF next[x] \in stop THEN next[x] ELSE u[next[next[x]]]
        BY <2>1, <4>3 DEF Walks
      <4>5. w[next[x]] = u[next[x]]
        BY <2>2, <4>1, <4>4
      <4> QED
        BY <2>2, <3>1, <3>3, <4>5
    <3> QED
      BY <3>2, <3>3
  <2>4. Walks(w, stop, next, Upto(S, measure, m + 1))
    BY <2>3 DEF Walks
  <2> QED
    BY <2>4
<1> HIDE DEF T
<1>3. n \in T
  BY <1>1, <1>2, NatSetInduction
<1> QED
  BY <1>3 DEF T

\* Two of them agree.
LEMMA WalksSame ==
  ASSUME NEW S, NEW stop, NEW next, NEW measure, Shrinks(S, stop, next, measure),
         NEW n \in Nat, NEW u, Walks(u, stop, next, Upto(S, measure, n)),
         NEW m \in Nat, n <= m, NEW w, Walks(w, stop, next, Upto(S, measure, m))
  PROVE  \A x \in Upto(S, measure, n) : u[x] = w[x]
<1> DEFINE T == {k \in Nat : k <= n => \A x \in Upto(S, measure, k) : u[x] = w[x]}
<1>0. ASSUME NEW x \in S, measure[x] <= n
      PROVE  /\ u[x] = IF x \in stop THEN x ELSE u[next[x]]
             /\ w[x] = IF x \in stop THEN x ELSE w[next[x]]
  <2>1. measure[x] \in Nat
    BY DEF Shrinks
  <2>2. x \in Upto(S, measure, n) /\ x \in Upto(S, measure, m)
    BY <1>0, <2>1 DEF Upto
  <2> QED
    BY <2>2 DEF Walks
<1>1. 0 \in T
  <2>1. ASSUME NEW x \in Upto(S, measure, 0) PROVE u[x] = w[x]
    <3>1. x \in S /\ measure[x] \in Nat /\ measure[x] <= 0
      BY <2>1 DEF Upto, Shrinks
    <3>2. x \in stop
      <4> SUFFICES ASSUME x \notin stop PROVE FALSE
        OBVIOUS
      <4>1. next[x] \in S /\ measure[next[x]] < measure[x]
        BY <3>1 DEF Shrinks
      <4>2. measure[next[x]] \in Nat
        BY <4>1 DEF Shrinks
      <4> QED
        BY <3>1, <4>1, <4>2
    <3> QED
      BY <1>0, <3>1, <3>2
  <2> QED
    BY <2>1
<1>2. ASSUME NEW k \in Nat, k \in T PROVE k + 1 \in T
  <2> SUFFICES ASSUME k + 1 <= n, NEW x \in Upto(S, measure, k + 1)
               PROVE  u[x] = w[x]
    OBVIOUS
  <2>1. x \in S /\ measure[x] \in Nat /\ measure[x] <= k + 1 /\ measure[x] <= n
    BY DEF Upto, Shrinks
  <2>2. CASE x \in stop
    BY <1>0, <2>1, <2>2
  <2>3. CASE x \notin stop
    <3>1. next[x] \in S /\ measure[next[x]] < measure[x]
      BY <2>1, <2>3 DEF Shrinks
    <3>2. measure[next[x]] \in Nat
      BY <3>1 DEF Shrinks
    <3>3. next[x] \in Upto(S, measure, k) /\ k <= n
      BY <2>1, <3>1, <3>2 DEF Upto
    <3>4. u[next[x]] = w[next[x]]
      BY <1>2, <3>3
    <3> QED
      BY <1>0, <2>1, <2>3, <3>4
  <2> QED
    BY <2>2, <2>3
<1> HIDE DEF T
<1>3. n \in T
  BY <1>1, <1>2, NatSetInduction
<1> QED
  BY <1>3 DEF T

\* It exists for all.
LEMMA WalkExists ==
  ASSUME NEW S, NEW stop, NEW next, NEW measure, Shrinks(S, stop, next, measure)
  PROVE  \E u : u = [x \in S |-> IF x \in stop THEN x ELSE u[next[x]]]
<1> DEFINE Of(n) == CHOOSE u : Walks(u, stop, next, Upto(S, measure, n))
           w == [x \in S |-> Of(measure[x])[x]]
<1>1. \A n \in Nat : Walks(Of(n), stop, next, Upto(S, measure, n))
  BY WalksExist
<1>2. \A x \in S : w[x] = Of(measure[x])[x]
  OBVIOUS
<1>3. w = [x \in S |-> w[x]]
  OBVIOUS
<1> HIDE DEF w, Of
<1>4. ASSUME NEW x \in S PROVE w[x] = IF x \in stop THEN x ELSE w[next[x]]
  <2>1. measure[x] \in Nat /\ x \in Upto(S, measure, measure[x])
    BY DEF Shrinks, Upto
  <2>2. Walks(Of(measure[x]), stop, next, Upto(S, measure, measure[x]))
    BY <1>1, <2>1
  <2>3. Of(measure[x])[x] = IF x \in stop THEN x ELSE Of(measure[x])[next[x]]
    BY <2>1, <2>2 DEF Walks
  <2>4. CASE x \in stop
    BY <1>2, <2>3, <2>4
  <2>5. CASE x \notin stop
    <3>1. next[x] \in S /\ measure[next[x]] < measure[x]
      BY <2>5 DEF Shrinks
    <3>2. measure[next[x]] \in Nat /\ next[x] \in Upto(S, measure, measure[next[x]])
      BY <3>1 DEF Shrinks, Upto
    <3>3. Walks(Of(measure[next[x]]), stop, next, Upto(S, measure, measure[next[x]]))
      BY <1>1, <3>2
    <3>4. measure[next[x]] <= measure[x]
      BY <2>1, <3>1, <3>2
    <3>5. Of(measure[next[x]])[next[x]] = Of(measure[x])[next[x]]
      BY <2>1, <2>2, <3>2, <3>3, <3>4, WalksSame
    <3> QED
      BY <1>2, <2>3, <2>5, <3>1, <3>5
  <2> QED
    BY <2>4, <2>5
<1>5. w = [x \in S |-> IF x \in stop THEN x ELSE w[next[x]]]
  BY <1>3, <1>4
<1> QED
  BY <1>5

-----------------------------------------------------------------------------
\* The reader behind the end of its last container.
Closed(r) ==
    [todo |-> Consume(Front(r.todo)), text |-> Append(r.text, Close(Last(r.todo).kind))]

\* All but the last element.
LEMMA FrontIs ==
  ASSUME NEW S, NEW q \in Seq(S), NEW n \in Nat, Len(q) = n + 1
  PROVE  /\ Front(q) \in Seq(S) /\ Len(Front(q)) = n
         /\ \A i \in 1..n : Front(q)[i] = q[i]
<1>1. /\ 1 \in Int /\ n \in Int /\ \A i \in 1..n : q[i] \in S
  BY ElementOfSeq
<1>2. /\ SubSeq(q, 1, n) \in Seq(S)
      /\ Len(SubSeq(q, 1, n)) = IF 1 <= n THEN n - 1 + 1 ELSE 0
      /\ \A i \in 1..(n - 1 + 1) : SubSeq(q, 1, n)[i] = q[1 + i - 1]
  BY <1>1, SubSeqProperties
<1>3. Front(q) = SubSeq(q, 1, n)
  <2>1. Len(q) - 1 = n
    OBVIOUS
  <2> QED
    BY <2>1, Zenon DEF Front
<1> QED
  BY <1>2, <1>3

\* The tokens of a text.
LEMMA Brackets ==
  ASSUME NEW kind
  PROVE  Open(kind) \in TextTokens /\ Close(kind) \in TextTokens
<1>1. CASE kind = "map"
  <2>1. Open(kind) = [t |-> "openMap", n |-> 0] /\ Close(kind) = [t |-> "closeMap", n |-> 0]
    BY <1>1 DEF Open, Close, tok
  <2> QED
    BY <2>1 DEF TextTokens, Marks
<1>2. CASE kind # "map"
  <2>1. Open(kind) = [t |-> "openArray", n |-> 0] /\ Close(kind) = [t |-> "closeArray", n |-> 0]
    BY <1>2 DEF Open, Close, tok
  <2> QED
    BY <2>1 DEF TextTokens, Marks
<1> QED
  BY <1>1, <1>2

\* One container less is open.
LEMMA ClosedIs ==
  ASSUME NEW r \in Readers, Len(r.todo) > 1
  PROVE  /\ Closed(r) \in Readers
         /\ Len(Closed(r).todo) = Len(r.todo) - 1
         /\ \A i \in 1..(Len(r.todo) - 1) :
              Closed(r).todo[i] = IF i = Len(r.todo) - 1
                                    THEN [r.todo[i] EXCEPT !.left = @ - 1] ELSE r.todo[i]
         /\ Closed(r).text = Append(r.text, Close(Last(r.todo).kind))
<1> DEFINE Todo == [kind : {"map", "array", "end"}, left : Int]
<1>1. r.todo \in Seq(Todo) /\ r.text \in Texts
  BY DEF Readers, Todos
<1>2. PICK q : q = r.todo
  OBVIOUS
<1>3. q \in Seq(Todo) /\ Len(q) \in Nat /\ Len(q) > 1
  BY <1>1, <1>2, LenProperties
<1> DEFINE f == Front(q)
<1>4. f \in Seq(Todo) /\ Len(f) = Len(q) - 1 /\ \A i \in 1..(Len(q) - 1) : f[i] = q[i]
  <2>1. PICK n \in Nat : n = Len(q) - 1
    BY <1>3
  <2>2. Len(q) = n + 1
    BY <1>3, <2>1
  <2> HIDE DEF Todo
  <2> QED
    BY <1>3, <2>1, <2>2, FrontIs
<1> HIDE DEF f
<1>5. Len(f) \in 1..Len(f) /\ f[Len(f)] \in Todo
  <2>1. Len(f) \in 1..Len(f)
    BY <1>3, <1>4
  <2> QED
    BY <1>4, <2>1, ElementOfSeq
<1>6. [f[Len(f)] EXCEPT !.left = @ - 1] \in Todo
  BY <1>5
<1>7. Consume(f) = [f EXCEPT ![Len(f)] = [f[Len(f)] EXCEPT !.left = @ - 1]]
  BY DEF Consume
<1> HIDE DEF Todo
<1>8. /\ Consume(f) \in Seq(Todo) /\ Len(Consume(f)) = Len(f)
      /\ \A i \in 1..Len(f) : Consume(f)[i] = IF i = Len(f) THEN [f[Len(f)] EXCEPT !.left = @ - 1]
                                                            ELSE f[i]
  BY <1>4, <1>5, <1>6, <1>7, ExceptSeq
<1>9. Append(r.text, Close(Last(r.todo).kind)) \in Texts
  <2>1. Close(Last(r.todo).kind) \in TextTokens
    BY Brackets
  <2> QED
    BY <1>1, <2>1 DEF Texts
<1>10. Closed(r) = [todo |-> Consume(f), text |-> Append(r.text, Close(Last(r.todo).kind))]
  BY <1>2 DEF Closed, f
<1>11. Closed(r).todo = Consume(f) /\ Closed(r).text = Append(r.text, Close(Last(r.todo).kind))
  BY <1>10
<1>12. Closed(r) \in Readers
  BY <1>8, <1>9, <1>10 DEF Readers, Todos, Todo
<1>13. \A i \in 1..(Len(q) - 1) :
         Consume(f)[i] = IF i = Len(q) - 1 THEN [q[i] EXCEPT !.left = @ - 1] ELSE q[i]
  BY <1>3, <1>4, <1>8
<1> QED
  BY <1>2, <1>3, <1>4, <1>8, <1>11, <1>12, <1>13

\* What is left of the innermost container.
Left(r) == Last(r.todo).left

\* The equation of Unwind has a solution.
LEMMA UnwindIs ==
  ASSUME NEW r \in Readers
  PROVE  Unwind[r] = IF Len(r.todo) <= 1 \/ Left(r) # 0 THEN r ELSE Unwind[Closed(r)]
<1> DEFINE stop == {x \in Readers : Len(x.todo) <= 1 \/ Last(x.todo).left # 0}
           next == [x \in Readers |-> Closed(x)]
           measure == [x \in Readers |-> Len(x.todo)]
<1>1. Shrinks(Readers, stop, next, measure)
  <2>1. \A x \in Readers : measure[x] \in Nat
    BY LenProperties DEF Readers, Todos
  <2>2. ASSUME NEW x \in Readers, x \notin stop
        PROVE  next[x] \in Readers /\ measure[next[x]] < measure[x]
    <3>1. ~(Len(x.todo) <= 1) /\ Len(x.todo) \in Nat
      BY <2>1, <2>2
    <3>2. Len(x.todo) > 1
      BY <3>1
    <3>3. Closed(x) \in Readers /\ Len(Closed(x).todo) = Len(x.todo) - 1
      BY <3>2, ClosedIs
    <3>4. next[x] = Closed(x) /\ measure[x] = Len(x.todo) /\ measure[Closed(x)] = Len(Closed(x).todo)
      BY <3>3
    <3> QED
      BY <3>1, <3>3, <3>4
  <2> QED
    BY <2>1, <2>2 DEF Shrinks
<1>2. PICK u : u = [x \in Readers |-> IF x \in stop THEN x ELSE u[next[x]]]
  <2> HIDE DEF stop, next, measure
  <2> QED
    BY <1>1, WalkExists
<1>3. u = [x \in Readers |-> IF Len(x.todo) <= 1 \/ Last(x.todo).left # 0 THEN x ELSE u[Closed(x)]]
  BY <1>2
<1>4. Unwind = [x \in Readers |-> IF Len(x.todo) <= 1 \/ Last(x.todo).left # 0 THEN x
                                  ELSE Unwind[Closed(x)]]
  BY <1>3, Zenon DEF Unwind, Readers, Todos, Texts, TextTokens, Closed
<1> QED
  BY <1>4 DEF Left

-----------------------------------------------------------------------------
(***************************************************************************)
(* Reads(B, k, T): a reader with k or more keys and values to come reads   *)
(* exactly k of them in B, and T is their text.                            *)
(***************************************************************************)
TodoItem == [kind : {"map", "array", "end"}, left : Int]

\* The reader behind k keys and values with the text T.
Took(r, k, T) ==
    [todo |-> [r.todo EXCEPT ![Len(r.todo)].left = @ - k], text |-> r.text \o T]

\* A reader that has closed what is complete.
Settled(r) == r \in Readers /\ Len(r.todo) > 0 /\ (Left(r) # 0 \/ Len(r.todo) = 1)

Reads(B, k, T) ==
    /\ B \in Texts /\ T \in Texts /\ k \in Nat
    /\ k = 0 => B = <<>> /\ T = <<>>
    /\ \A r \in Readers : Settled(r) /\ Left(r) >= k => ReadAll(r, B) = Unwind[Took(r, k, T)]

\* a differs from r by the k that are no longer to come and the text T.
TookFrom(a, r, k, T) ==
    /\ Len(a.todo) = Len(r.todo)
    /\ \A i \in 1..Len(r.todo) : a.todo[i] = IF i = Len(r.todo) THEN [r.todo[i] EXCEPT !.left = @ - k]
                                                                 ELSE r.todo[i]
    /\ a.text = r.text \o T

\* Only the last item of the reader changes, and its text grows.
LEMMA TookIs ==
  ASSUME NEW r \in Readers, Len(r.todo) > 0, NEW k \in Int, NEW T \in Texts
  PROVE  /\ Took(r, k, T) \in Readers
         /\ TookFrom(Took(r, k, T), r, k, T)
         /\ Len(Took(r, k, T).todo) = Len(r.todo)
         /\ Took(r, k, T).text = r.text \o T
         /\ Left(r) \in Int /\ Left(Took(r, k, T)) = Left(r) - k
<1>1. r.todo \in Seq(TodoItem) /\ r.text \in Texts
  BY DEF Readers, Todos, TodoItem
<1>2. PICK q : q = r.todo
  OBVIOUS
<1>3. PICK n \in Nat : n = Len(q) /\ n \in 1..n /\ q \in Seq(TodoItem)
  BY <1>1, <1>2, LenProperties
<1>4. q[n] \in TodoItem
  BY <1>3, ElementOfSeq
<1> DEFINE e == [q[n] EXCEPT !.left = @ - k]
<1>5. e \in TodoItem /\ q[n].left \in Int /\ e.left = q[n].left - k
  BY <1>4 DEF TodoItem
<1>6. [q EXCEPT ![n].left = @ - k] = [q EXCEPT ![n] = e]
  OBVIOUS
<1> HIDE DEF e
<1>7. /\ [q EXCEPT ![n] = e] \in Seq(TodoItem)
      /\ Len([q EXCEPT ![n] = e]) = n
      /\ \A j \in 1..n : [q EXCEPT ![n] = e][j] = IF j = n THEN e ELSE q[j]
  BY <1>3, <1>5, ExceptSeq
<1>8. Took(r, k, T) = [todo |-> [q EXCEPT ![n] = e], text |-> r.text \o T]
  BY <1>2, <1>3, <1>6 DEF Took
<1>9. r.text \o T \in Texts
  BY <1>1 DEF Texts
<1>10. Took(r, k, T).todo = [q EXCEPT ![n] = e] /\ Took(r, k, T).text = r.text \o T
  BY <1>8
<1>11. Took(r, k, T) \in Readers
  BY <1>7, <1>8, <1>9 DEF Readers, Todos, TodoItem
<1>12. Left(r) = q[n].left
  BY <1>2, <1>3 DEF Left, Last
<1>13. Left(Took(r, k, T)) = e.left
  BY <1>3, <1>7, <1>10 DEF Left, Last
<1>14. \A j \in 1..n : [q EXCEPT ![n] = e][j] = IF j = n THEN [q[j] EXCEPT !.left = @ - k] ELSE q[j]
  BY <1>7 DEF e
<1>15. TookFrom(Took(r, k, T), r, k, T)
  BY <1>2, <1>3, <1>7, <1>10, <1>14 DEF TookFrom
<1> QED
  BY <1>2, <1>3, <1>5, <1>7, <1>10, <1>11, <1>12, <1>13, <1>15

\* Texts are joined in any order.
LEMMA TextAssoc ==
  ASSUME NEW a \in Texts, NEW b \in Texts, NEW c \in Texts
  PROVE  (a \o b) \o c = a \o (b \o c)
  BY ConcatAssociative DEF Texts

\* Texts regroup as well.
LEMMA TextRegroups ==
  ASSUME NEW a \in Texts, NEW b \in Texts, NEW c \in Texts
  PROVE  Regroups(a, b, c)
  BY TextAssoc DEF Regroups

\* Texts join to a text.
LEMMA TextJoin ==
  ASSUME NEW a \in Texts, NEW b \in Texts
  PROVE  /\ a \o b \in Texts
         /\ a \o <<>> = a /\ <<>> \o a = a
<1>1. a \o b \in Texts
  BY DEF Texts
<1>2. a \o <<>> = a /\ <<>> \o a = a
  BY ConcatEmptySeq DEF Texts
<1> QED
  BY <1>1, <1>2

\* One token is a text.
LEMMA TextOne ==
  ASSUME NEW x \in TextTokens
  PROVE  /\ <<x>> \in Texts
         /\ \A a \in Texts : Append(a, x) = a \o <<x>> /\ Append(a, x) \in Texts
<1>1. <<x>> \in Texts
  BY DEF Texts
<1>2. \A a \in Texts : Append(a, x) = a \o <<x>> /\ Append(a, x) \in Texts
  BY AppendIsConcat, AppendProperties DEF Texts
<1> QED
  BY <1>1, <1>2

\* Two readers that say the same are the same.
LEMMA ReaderEqual ==
  ASSUME NEW r \in Readers, NEW q \in Readers, r.text = q.text, Len(r.todo) = Len(q.todo),
         \A i \in 1..Len(r.todo) : r.todo[i] = q.todo[i]
  PROVE  r = q
<1>1. r.todo \in Todos /\ q.todo \in Todos /\ r = [todo |-> r.todo, text |-> r.text]
      /\ q = [todo |-> q.todo, text |-> q.text]
  BY DEF Readers
<1>2. r.todo = q.todo
  BY <1>1, SeqEqual DEF Todos
<1> QED
  BY <1>1, <1>2

\* Taking twice.
LEMMA TookTwice ==
  ASSUME NEW r \in Readers, Len(r.todo) > 0, NEW j \in Int, NEW X \in Texts,
         NEW k \in Int, NEW Y \in Texts
  PROVE  Took(Took(r, j, X), k, Y) = Took(r, j + k, X \o Y)
<1>1. X \o Y \in Texts /\ j + k \in Int /\ r.text \in Texts
  BY TextJoin DEF Readers
<1>2. PICK a : a = Took(r, j, X)
  OBVIOUS
<1>3. a \in Readers /\ TookFrom(a, r, j, X) /\ Len(a.todo) = Len(r.todo)
  BY <1>2, TookIs
<1>4. PICK b : b = Took(a, k, Y)
  OBVIOUS
<1>5. b \in Readers /\ TookFrom(b, a, k, Y)
  <2>1. Len(a.todo) > 0
    BY <1>3
  <2> QED
    BY <1>3, <1>4, <2>1, TookIs
<1>6. PICK c : c = Took(r, j + k, X \o Y)
  OBVIOUS
<1>7. c \in Readers /\ TookFrom(c, r, j + k, X \o Y)
  <2>1. PICK m \in Int, Z \in Texts : m = j + k /\ Z = X \o Y
    BY <1>1
  <2>2. Took(r, m, Z) \in Readers /\ TookFrom(Took(r, m, Z), r, m, Z)
    BY TookIs
  <2> QED
    BY <1>6, <2>1, <2>2
<1>8. b.text = c.text
  <2>1. b.text = (r.text \o X) \o Y /\ c.text = r.text \o (X \o Y)
    BY <1>3, <1>5, <1>7 DEF TookFrom
  <2>2. (r.text \o X) \o Y = r.text \o (X \o Y)
    BY <1>1, TextAssoc
  <2> QED
    BY <2>1, <2>2
<1>9. \A i \in 1..Len(r.todo) : b.todo[i] = c.todo[i]
  <2> TAKE i \in 1..Len(r.todo)
  <2>1. CASE i # Len(r.todo)
    BY <1>3, <1>5, <1>7, <2>1 DEF TookFrom
  <2>2. CASE i = Len(r.todo)
    <3>1. PICK e \in TodoItem : e = r.todo[i]
      <4>1. r.todo \in Seq(TodoItem)
        BY DEF Readers, Todos, TodoItem
      <4>2. r.todo[i] \in TodoItem
        BY <4>1, ElementOfSeq
      <4> QED
        BY <4>2
    <3>2. b.todo[i] = [[e EXCEPT !.left = @ - j] EXCEPT !.left = @ - k]
      BY <1>3, <1>5, <2>2, <3>1 DEF TookFrom
    <3>3. c.todo[i] = [e EXCEPT !.left = @ - (j + k)]
      BY <1>7, <2>2, <3>1 DEF TookFrom
    <3>4. [[e EXCEPT !.left = @ - j] EXCEPT !.left = @ - k] = [e EXCEPT !.left = @ - (j + k)]
      <4>1. e = [kind |-> e.kind, left |-> e.left] /\ e.left \in Int
        BY DEF TodoItem
      <4>2. /\ [e EXCEPT !.left = @ - j] = [kind |-> e.kind, left |-> e.left - j]
            /\ [e EXCEPT !.left = @ - (j + k)] = [kind |-> e.kind, left |-> e.left - (j + k)]
        BY <4>1
      <4>3. [[kind |-> e.kind, left |-> e.left - j] EXCEPT !.left = @ - k]
              = [kind |-> e.kind, left |-> e.left - j - k]
        OBVIOUS
      <4>4. e.left - j - k = e.left - (j + k)
        BY <4>1
      <4> QED
        BY <4>2, <4>3, <4>4
    <3> QED
      BY <3>2, <3>3, <3>4
  <2> QED
    BY <2>1, <2>2
<1>10. b = c
  <2>1. Len(b.todo) = Len(r.todo) /\ Len(c.todo) = Len(r.todo)
    BY <1>3, <1>5, <1>7 DEF TookFrom
  <2> QED
    BY <1>5, <1>7, <1>8, <1>9, <2>1, ReaderEqual
<1> QED
  BY <1>2, <1>4, <1>6, <1>10

\* Taking nothing changes nothing.
LEMMA TookNothing ==
  ASSUME NEW r \in Readers, Len(r.todo) > 0
  PROVE  Took(r, 0, <<>>) = r
<1>1. /\ Took(r, 0, <<>>) \in Readers /\ TookFrom(Took(r, 0, <<>>), r, 0, <<>>)
      /\ Len(Took(r, 0, <<>>).todo) = Len(r.todo) /\ Took(r, 0, <<>>).text = r.text \o <<>>
  <2>1. 0 \in Int /\ <<>> \in Texts
    BY DEF Texts
  <2> QED
    BY <2>1, TookIs
<1>2. r.text \o <<>> = r.text
  <2>1. r.text \in Texts /\ <<>> \in Texts
    BY DEF Readers, Texts
  <2> QED
    BY <2>1, TextJoin
<1>3. ASSUME NEW i \in 1..Len(r.todo) PROVE Took(r, 0, <<>>).todo[i] = r.todo[i]
  <2>1. r.todo \in Seq(TodoItem)
    BY DEF Readers, Todos, TodoItem
  <2>2. PICK e \in TodoItem : e = r.todo[i]
    BY <2>1, ElementOfSeq
  <2>3. [e EXCEPT !.left = @ - 0] = e
    <3>1. e = [kind |-> e.kind, left |-> e.left] /\ e.left \in Int
      BY DEF TodoItem
    <3>2. e.left - 0 = e.left
      BY <3>1
    <3>3. [e EXCEPT !.left = @ - 0] = [kind |-> e.kind, left |-> e.left - 0]
      BY <3>1
    <3> QED
      BY <3>1, <3>2, <3>3
  <2> QED
    BY <1>1, <2>2, <2>3 DEF TookFrom
<1>4. PICK a \in Readers : a = Took(r, 0, <<>>)
  BY <1>1
<1>5. a.text = r.text /\ Len(a.todo) = Len(r.todo) /\ \A i \in 1..Len(a.todo) : a.todo[i] = r.todo[i]
  BY <1>1, <1>2, <1>3, <1>4
<1>6. a = r
  BY <1>5, ReaderEqual
<1> QED
  BY <1>4, <1>6

\* No token is nothing.
LEMMA ReadsNothing == Reads(<<>>, 0, <<>>)
<1>1. <<>> \in Texts
  BY DEF Texts
<1>2. ASSUME NEW r \in Readers, Settled(r) PROVE ReadAll(r, <<>>) = Unwind[Took(r, 0, <<>>)]
  <2>1. ReadAll(r, <<>>) = r
    BY ReadNothing
  <2>2. Took(r, 0, <<>>) = r
    BY <1>2, TookNothing DEF Settled
  <2>3. Unwind[r] = r
    <3>1. Len(r.todo) \in Nat
      BY LenProperties DEF Readers, Todos
    <3> QED
      <4>1. Len(r.todo) <= 1 \/ Left(r) # 0
        <5>1. Left(r) # 0 \/ Len(r.todo) = 1
          BY <1>2 DEF Settled
        <5>2. PICK n \in Nat : n = Len(r.todo)
          BY <3>1
        <5>3. n = 1 => n <= 1
          OBVIOUS
        <5> QED
          BY <5>1, <5>2, <5>3, Zenon
      <4>2. Unwind[r] = IF Len(r.todo) <= 1 \/ Left(r) # 0 THEN r ELSE Unwind[Closed(r)]
        BY UnwindIs
      <4> QED
        BY <4>1, <4>2
  <2> QED
    BY <2>1, <2>2, <2>3
<1> QED
  BY <1>1, <1>2 DEF Reads

\* A reader whose container is not complete stays as it is.
LEMMA UnwindOpen ==
  ASSUME NEW r \in Readers, Left(r) # 0
  PROVE  Unwind[r] = r
  BY UnwindIs

\* A key or a scalar is one of what is to come.
LEMMA ReadsToken ==
  ASSUME NEW x \in TextTokens, x.t # "map", x.t # "array"
  PROVE  Reads(<<x>>, 1, <<x>>)
<1>1. <<x>> \in Texts /\ <<>> \in Texts /\ \A a \in Texts : Append(a, x) = a \o <<x>>
  BY TextOne DEF Texts
<1>2. ASSUME NEW r \in Readers PROVE ReadAll(r, <<x>>) = Unwind[Took(r, 1, <<x>>)]
  <2>1. <<x>> = Append(<<>>, x)
    OBVIOUS
  <2>2. ReadAll(r, <<x>>) = Read(ReadAll(r, <<>>), x)
    BY <1>1, <2>1, ReadOneMore
  <2>3. ReadAll(r, <<x>>) = Read(r, x)
    BY <2>2, ReadNothing
  <2>4. Read(r, x) = Unwind[[todo |-> Consume(r.todo), text |-> Append(r.text, x)]]
    BY DEF Read
  <2>5. Append(r.text, x) = r.text \o <<x>>
    BY <1>1 DEF Readers
  <2>6. Took(r, 1, <<x>>) = [todo |-> Consume(r.todo), text |-> Append(r.text, x)]
    BY <2>5 DEF Took, Consume
  <2> QED
    BY <2>3, <2>4, <2>6
<1> QED
  BY <1>1, <1>2 DEF Reads

\* One text behind the other.
LEMMA ReadsJoin ==
  ASSUME NEW B, NEW j, NEW X, Reads(B, j, X), NEW C, NEW k, NEW Y, Reads(C, k, Y)
  PROVE  Reads(B \o C, j + k, X \o Y)
<1>1. /\ B \in Texts /\ X \in Texts /\ j \in Nat /\ (j = 0 => B = <<>> /\ X = <<>>)
      /\ C \in Texts /\ Y \in Texts /\ k \in Nat /\ (k = 0 => C = <<>> /\ Y = <<>>)
  BY DEF Reads
<1>2. B \o C \in Texts /\ X \o Y \in Texts /\ j + k \in Nat /\ <<>> \in Texts
  BY <1>1, TextJoin DEF Texts
<1>3. j + k = 0 => B \o C = <<>> /\ X \o Y = <<>>
  <2> SUFFICES ASSUME j + k = 0 PROVE B \o C = <<>> /\ X \o Y = <<>>
    OBVIOUS
  <2>1. B = <<>> /\ X = <<>> /\ C = <<>> /\ Y = <<>>
    BY <1>1
  <2>2. <<>> \o <<>> = <<>>
    BY <1>2, TextJoin
  <2> QED
    BY <2>1, <2>2
<1>4. ASSUME NEW r \in Readers, Settled(r), Left(r) >= j + k
      PROVE  ReadAll(r, B \o C) = Unwind[Took(r, j + k, X \o Y)]
  <2>1. Len(r.todo) > 0 /\ Left(r) \in Int
    <3>1. Len(r.todo) > 0
      BY <1>4 DEF Settled
    <3>2. 0 \in Int
      OBVIOUS
    <3> QED
      BY <1>2, <3>1, <3>2, TookIs
  <2>2. Left(r) >= j
    BY <1>1, <1>4, <2>1
  <2>3. ReadAll(r, B) = Unwind[Took(r, j, X)]
    BY <1>4, <2>2 DEF Reads
  <2>4. PICK a : a = Took(r, j, X)
    OBVIOUS
  <2>5. a \in Readers /\ Len(a.todo) = Len(r.todo) /\ Left(a) = Left(r) - j
    BY <1>1, <2>1, <2>4, TookIs
  <2>6. ReadAll(r, B \o C) = ReadAll(ReadAll(r, B), C)
    BY <1>1, ReadAllJoin
  <2>7. Took(a, k, Y) = Took(r, j + k, X \o Y)
    BY <1>1, <2>1, <2>4, TookTwice
  <2>8. CASE k = 0
    <3>1. C = <<>> /\ Y = <<>> /\ X \o Y = X /\ j + k = j
      <4>1. C = <<>> /\ Y = <<>> /\ j + k = j
        BY <1>1, <2>8
      <4>2. X \o <<>> = X
        BY <1>1, <1>2, TextJoin
      <4> QED
        BY <4>1, <4>2
    <3>2. ReadAll(r, B \o C) = Unwind[a]
      BY <2>3, <2>4, <2>6, <3>1, ReadNothing
    <3> QED
      BY <2>4, <3>1, <3>2
  <2>9. CASE k # 0
    <3>1. Left(a) # 0 /\ Left(a) >= k
      BY <1>1, <1>4, <2>1, <2>5, <2>9
    <3>2. Settled(a) /\ Unwind[a] = a
      BY <2>1, <2>5, <3>1, UnwindOpen DEF Settled
    <3>3. ReadAll(a, C) = Unwind[Took(a, k, Y)]
      BY <2>5, <3>1, <3>2 DEF Reads
    <3> QED
      BY <2>3, <2>4, <2>6, <2>7, <3>2, <3>3
  <2> QED
    BY <2>8, <2>9
<1> QED
  BY <1>2, <1>3, <1>4 DEF Reads

\* What is to come in a container, and the text of one.
Due(kind, count) == IF kind = "map" THEN 2 * count ELSE count
Within(kind, T)  == <<Open(kind)>> \o (T \o <<Close(kind)>>)

\* The reader in a new container.
Opened(r, kind, k) ==
    [todo |-> Append(r.todo, [kind |-> kind, left |-> k]), text |-> Append(r.text, Open(kind))]

\* The reader has one item more.
LEMMA OpenedIs ==
  ASSUME NEW r \in Readers, NEW kind \in Kinds, NEW k \in Nat
  PROVE  /\ Opened(r, kind, k) \in Readers
         /\ Len(Opened(r, kind, k).todo) = Len(r.todo) + 1
         /\ \A i \in 1..Len(r.todo) : Opened(r, kind, k).todo[i] = r.todo[i]
         /\ Opened(r, kind, k).todo[Len(r.todo) + 1] = [kind |-> kind, left |-> k]
         /\ Opened(r, kind, k).text = r.text \o <<Open(kind)>>
<1>1. r.todo \in Seq(TodoItem) /\ r.text \in Texts
  BY DEF Readers, Todos, TodoItem
<1>2. PICK e \in TodoItem : e = [kind |-> kind, left |-> k]
  <2>1. kind \in {"map", "array", "end"} /\ k \in Int
    BY DEF Kinds
  <2>2. [kind |-> kind, left |-> k] \in TodoItem
    BY <2>1 DEF TodoItem
  <2> QED
    BY <2>2
<1>3. PICK q : q = Append(r.todo, e)
  OBVIOUS
<1>4. /\ q \in Seq(TodoItem) /\ Len(q) = Len(r.todo) + 1
      /\ \A i \in 1..Len(r.todo) : q[i] = r.todo[i]
      /\ q[Len(r.todo) + 1] = e
  BY <1>1, <1>3, AppendProperties
<1>5. Append(r.text, Open(kind)) = r.text \o <<Open(kind)>> /\ Append(r.text, Open(kind)) \in Texts
  BY <1>1, Brackets, TextOne
<1>6. Opened(r, kind, k) = [todo |-> q, text |-> r.text \o <<Open(kind)>>]
  BY <1>2, <1>3, <1>5 DEF Opened
<1>7. Opened(r, kind, k).todo = q /\ Opened(r, kind, k).text = r.text \o <<Open(kind)>>
  BY <1>6
<1>8. Opened(r, kind, k) \in Readers
  BY <1>4, <1>5, <1>6 DEF Readers, Todos, TodoItem
<1> QED
  BY <1>2, <1>4, <1>7, <1>8

\* A header opens its container.
LEMMA HeaderRead ==
  ASSUME NEW r, NEW kind \in Kinds, NEW count
  PROVE  Read(r, header(kind, count)) = Unwind[Opened(r, kind, Due(kind, count))]
<1>1. PICK x : x = header(kind, count)
  OBVIOUS
<1>2. x.t = kind /\ x.n = count
  BY <1>1 DEF header, tok
<1>3. CASE kind = "map"
  <2>1. Opened(r, kind, Due(kind, count))
          = [todo |-> Append(r.todo, [kind |-> "map", left |-> 2 * x.n]),
             text |-> Append(r.text, Open("map"))]
    BY <1>2, <1>3 DEF Opened, Due
  <2>2. Read(r, x) = Unwind[[todo |-> Append(r.todo, [kind |-> "map", left |-> 2 * x.n]),
                             text |-> Append(r.text, Open("map"))]]
    BY <1>2, <1>3 DEF Read
  <2> QED
    BY <1>1, <2>1, <2>2
<1>4. CASE kind = "array"
  <2>1. Opened(r, kind, Due(kind, count))
          = [todo |-> Append(r.todo, [kind |-> "array", left |-> x.n]),
             text |-> Append(r.text, Open("array"))]
    BY <1>2, <1>4 DEF Opened, Due
  <2>2. Read(r, x) = Unwind[[todo |-> Append(r.todo, [kind |-> "array", left |-> x.n]),
                             text |-> Append(r.text, Open("array"))]]
    BY <1>2, <1>4 DEF Read
  <2> QED
    BY <1>1, <2>1, <2>2
<1> QED
  BY <1>3, <1>4 DEF Kinds

\* A container read to its end is one of what was to come around it.
LEMMA ClosedAgain ==
  ASSUME NEW r \in Readers, Len(r.todo) > 0, NEW kind \in Kinds, NEW k \in Nat, NEW T \in Texts
  PROVE  /\ Took(Opened(r, kind, k), k, T) \in Readers
         /\ Len(Took(Opened(r, kind, k), k, T).todo) > 1
         /\ Left(Took(Opened(r, kind, k), k, T)) = 0
         /\ Closed(Took(Opened(r, kind, k), k, T)) = Took(r, 1, Within(kind, T))
<1>0. PICK n \in Nat \ {0} : n = Len(r.todo)
  <2>1. Len(r.todo) \in Nat
    BY LenProperties DEF Readers, Todos
  <2> QED
    BY <2>1
<1>1. PICK o : o = Opened(r, kind, k)
  OBVIOUS
<1>2. /\ o \in Readers /\ Len(o.todo) = n + 1
      /\ \A i \in 1..n : o.todo[i] = r.todo[i]
      /\ o.todo[n + 1] = [kind |-> kind, left |-> k]
      /\ o.text = r.text \o <<Open(kind)>>
  <2>1. /\ Opened(r, kind, k) \in Readers
        /\ Len(Opened(r, kind, k).todo) = Len(r.todo) + 1
        /\ \A i \in 1..Len(r.todo) : Opened(r, kind, k).todo[i] = r.todo[i]
        /\ Opened(r, kind, k).todo[Len(r.todo) + 1] = [kind |-> kind, left |-> k]
        /\ Opened(r, kind, k).text = r.text \o <<Open(kind)>>
    BY OpenedIs
  <2> QED
    BY <1>0, <1>1, <2>1
<1>3. PICK a : a = Took(o, k, T)
  OBVIOUS
<1>4. /\ a \in Readers /\ TookFrom(a, o, k, T) /\ Left(a) = Left(o) - k
  <2>1. Len(o.todo) > 0 /\ k \in Int
    BY <1>0, <1>2
  <2> QED
    BY <1>2, <1>3, <2>1, TookIs
<1>5. /\ Len(a.todo) = n + 1
      /\ \A i \in 1..n : a.todo[i] = r.todo[i]
      /\ a.text = (r.text \o <<Open(kind)>>) \o T
  <2>1. \A i \in 1..n : i \in 1..(n + 1) /\ i # n + 1
    OBVIOUS
  <2> QED
    BY <1>2, <1>4, <2>1 DEF TookFrom
<1>6. Left(a) = 0 /\ Last(a.todo).kind = kind
  <2>1. Left(o) = k
    BY <1>2 DEF Left, Last
  <2>2. n + 1 \in 1..(n + 1)
    BY <1>0
  <2>3. a.todo[n + 1] = [o.todo[n + 1] EXCEPT !.left = @ - k]
    BY <1>2, <1>4, <2>2 DEF TookFrom
  <2>4. [o.todo[n + 1] EXCEPT !.left = @ - k].kind = kind
    BY <1>2
  <2>5. k - k = 0
    OBVIOUS
  <2> QED
    BY <1>4, <1>5, <2>1, <2>3, <2>4, <2>5 DEF Last
<1>7. PICK c : c = Closed(a)
  OBVIOUS
<1>8. /\ c \in Readers /\ Len(c.todo) = n
      /\ \A i \in 1..n : c.todo[i] = IF i = n THEN [r.todo[i] EXCEPT !.left = @ - 1] ELSE r.todo[i]
      /\ c.text = Append(a.text, Close(kind))
  <2>1. Len(a.todo) > 1 /\ Len(a.todo) - 1 = n
    BY <1>5
  <2>2. /\ c \in Readers /\ Len(c.todo) = n
        /\ \A i \in 1..n : c.todo[i] = IF i = n THEN [a.todo[i] EXCEPT !.left = @ - 1] ELSE a.todo[i]
        /\ c.text = Append(a.text, Close(Last(a.todo).kind))
    BY <1>4, <1>7, <2>1, ClosedIs
  <2> QED
    BY <1>5, <1>6, <2>2
<1>9. Within(kind, T) \in Texts /\ c.text = r.text \o Within(kind, T)
  <2>1. PICK x \in Texts : x = <<Open(kind)>>
    BY Brackets, TextOne
  <2>2. PICK y \in Texts : y = <<Close(kind)>>
    BY Brackets, TextOne
  <2>3. PICK z \in Texts : z = r.text
    BY DEF Readers
  <2>4. PICK v \in Texts, q \in Texts : v = z \o x /\ q = T \o y
    BY TextJoin
  <2>5. Regroups(z, x, q) /\ x \o q \in Texts
    BY TextRegroups, TextJoin
  <2>6. Regroups(v, T, y)
    BY TextRegroups
  <2>7. c.text = ((z \o x) \o T) \o y
    <3>1. Append(a.text, Close(kind)) = a.text \o y
      BY <1>4, <2>2, Brackets, TextOne DEF Readers
    <3> QED
      BY <1>5, <1>8, <2>1, <2>3, <3>1
  <2> QED
    BY <2>1, <2>2, <2>3, <2>4, <2>5, <2>6, <2>7 DEF Within, Regroups
<1>10. PICK b : b = Took(r, 1, Within(kind, T))
  OBVIOUS
<1>11. b \in Readers /\ TookFrom(b, r, 1, Within(kind, T))
  <2>1. PICK W \in Texts : W = Within(kind, T)
    BY <1>9
  <2>2. 1 \in Int
    OBVIOUS
  <2>3. Took(r, 1, W) \in Readers /\ TookFrom(Took(r, 1, W), r, 1, W)
    BY <2>2, TookIs
  <2> QED
    BY <1>10, <2>1, <2>3
<1>12. b = c
  <2>1. /\ Len(b.todo) = n /\ b.text = r.text \o Within(kind, T)
        /\ \A i \in 1..n : b.todo[i] = IF i = n THEN [r.todo[i] EXCEPT !.left = @ - 1] ELSE r.todo[i]
    BY <1>0, <1>11 DEF TookFrom
  <2>2. b.text = c.text /\ Len(b.todo) = Len(c.todo) /\ \A i \in 1..Len(b.todo) : b.todo[i] = c.todo[i]
    BY <1>8, <1>9, <2>1
  <2> QED
    BY <1>8, <1>11, <2>2, ReaderEqual
<1>13. Len(a.todo) > 1
  BY <1>0, <1>5
<1> QED
  BY <1>1, <1>3, <1>4, <1>6, <1>7, <1>10, <1>12, <1>13

\* A header, and the contents it announces, are one value.
LEMMA ReadsContainer ==
  ASSUME NEW kind \in Kinds, NEW count \in Nat, NEW B, NEW T, Reads(B, Due(kind, count), T)
  PROVE  Reads(<<header(kind, count)>> \o B, 1, Within(kind, T))
<1>0. PICK k \in Nat : k = Due(kind, count)
  BY DEF Reads
<1>1. B \in Texts /\ T \in Texts /\ (k = 0 => B = <<>> /\ T = <<>>)
  BY <1>0 DEF Reads
<1>2. header(kind, count) \in TextTokens
  <2>1. header(kind, count) = [t |-> kind, n |-> count]
    BY DEF header, tok
  <2> QED
    BY <2>1 DEF TextTokens, Marks, Kinds
<1>3. PICK h \in Texts : h = <<header(kind, count)>>
  BY <1>2, TextOne
<1>4. h \o B \in Texts
  BY <1>1, TextJoin
<1>5. Within(kind, T) \in Texts
  <2>1. PICK x \in Texts, y \in Texts : x = <<Open(kind)>> /\ y = <<Close(kind)>>
    BY Brackets, TextOne
  <2>2. T \o y \in Texts /\ x \o (T \o y) \in Texts
    BY <1>1, TextJoin
  <2> QED
    BY <2>1, <2>2 DEF Within
<1>6. ASSUME NEW r \in Readers, Settled(r)
      PROVE  ReadAll(r, h \o B) = Unwind[Took(r, 1, Within(kind, T))]
  <2>1. Len(r.todo) > 0
    BY <1>6 DEF Settled
  <2>2. PICK o : o = Opened(r, kind, k)
    OBVIOUS
  <2>3. PICK a : a = Took(o, k, T)
    OBVIOUS
  <2>4. a \in Readers /\ Len(a.todo) > 1 /\ Left(a) = 0 /\ Closed(a) = Took(r, 1, Within(kind, T))
    BY <1>1, <2>1, <2>2, <2>3, ClosedAgain
  <2>5. Unwind[a] = Unwind[Took(r, 1, Within(kind, T))]
    <3>1. Len(a.todo) \in Nat
      BY <2>4, LenProperties DEF Readers, Todos
    <3>2. ~(Len(a.todo) <= 1)
      BY <2>4, <3>1
    <3>3. Unwind[a] = IF Len(a.todo) <= 1 \/ Left(a) # 0 THEN a ELSE Unwind[Closed(a)]
      BY <2>4, UnwindIs
    <3> QED
      BY <2>4, <3>2, <3>3
  <2>6. ReadAll(r, h \o B) = ReadAll(ReadAll(r, h), B)
    BY <1>1, ReadAllJoin
  <2>7. ReadAll(r, h) = Unwind[o]
    <3>1. h = Append(<<>>, header(kind, count)) /\ <<>> \in Texts
      BY <1>3 DEF Texts
    <3>2. ReadAll(r, h) = Read(ReadAll(r, <<>>), header(kind, count))
      BY <1>2, <3>1, ReadOneMore
    <3>3. ReadAll(r, h) = Read(r, header(kind, count))
      BY <3>2, ReadNothing
    <3> QED
      BY <1>0, <2>2, <3>3, HeaderRead
  <2>8. o \in Readers /\ Len(o.todo) > 0 /\ Left(o) = k
    <3>1. /\ o \in Readers /\ Len(o.todo) = Len(r.todo) + 1
          /\ o.todo[Len(r.todo) + 1] = [kind |-> kind, left |-> k]
      <4>1. /\ Opened(r, kind, k) \in Readers
            /\ Len(Opened(r, kind, k).todo) = Len(r.todo) + 1
            /\ \A i \in 1..Len(r.todo) : Opened(r, kind, k).todo[i] = r.todo[i]
            /\ Opened(r, kind, k).todo[Len(r.todo) + 1] = [kind |-> kind, left |-> k]
            /\ Opened(r, kind, k).text = r.text \o <<Open(kind)>>
        BY OpenedIs
      <4> QED
        BY <2>2, <4>1
    <3>2. Left(o) = k
      BY <3>1 DEF Left, Last
    <3>3. Len(r.todo) \in Nat
      BY LenProperties DEF Readers, Todos
    <3> QED
      BY <3>1, <3>2, <3>3
  <2>9. ReadAll(Unwind[o], B) = Unwind[a]
    <3>1. CASE k = 0
      <4>1. B = <<>> /\ T = <<>>
        BY <1>1, <3>1
      <4>2. ReadAll(Unwind[o], B) = Unwind[o]
        BY <4>1, ReadNothing
      <4>3. a = o
        <5>1. \A q \in Readers : Len(q.todo) > 0 => Took(q, 0, <<>>) = q
          BY TookNothing
        <5> QED
          BY <2>3, <2>8, <3>1, <4>1, <5>1
      <4> QED
        BY <4>2, <4>3
    <3>2. CASE k # 0
      <4>1. Left(o) # 0 /\ Left(o) >= k
        BY <2>8, <3>2
      <4>2. Settled(o) /\ Unwind[o] = o
        BY <2>8, <4>1, UnwindOpen DEF Settled
      <4>3. ReadAll(o, B) = Unwind[Took(o, k, T)]
        BY <1>0, <2>8, <4>1, <4>2 DEF Reads
      <4> QED
        BY <2>3, <4>2, <4>3
    <3> QED
      BY <3>1, <3>2
  <2> QED
    BY <2>5, <2>6, <2>7, <2>9
<1>7. 1 # 0 /\ 1 \in Nat
  OBVIOUS
<1> QED
  BY <1>3, <1>4, <1>5, <1>6, <1>7 DEF Reads

-----------------------------------------------------------------------------
(***************************************************************************)
(* A stack shows a text: the contents of every frame read as the frame's   *)
(* part of it, where a frame below the top counts one value that is still  *)
(* to come, and the top one counts w of them.                              *)
(***************************************************************************)
Frames == [kind : Kinds, count : Nat, buf : Texts]
Stacks == Seq(Frames)

FrameShows(f, w, before, after) ==
    \E T \in Texts : Reads(f.buf, Due(f.kind, f.count) - w, T) /\ after = before \o T

Before(P, s, i) == IF i = 1 THEN <<>> ELSE P[i - 1] \o <<Open(s[i].kind)>>

Shown(P, s, w) ==
    \A i \in 1..Len(s) : /\ P[i] \in Texts
                         /\ FrameShows(s[i], IF i = Len(s) THEN w ELSE 1, Before(P, s, i), P[i])

Shows(s, w, d) ==
    /\ s \in Stacks /\ Len(s) > 0
    /\ \E P : Shown(P, s, w) /\ d = P[Len(s)]

\* The text in front of a frame is one.
LEMMA BeforeText ==
  ASSUME NEW P, NEW s, NEW w, Shown(P, s, w), NEW i \in 1..Len(s), Len(s) \in Nat
  PROVE  Before(P, s, i) \in Texts
<1>1. CASE i = 1
  BY <1>1 DEF Before, Texts
<1>2. CASE i # 1
  <2>1. i - 1 \in 1..Len(s)
    BY <1>2
  <2>2. P[i - 1] \in Texts /\ <<Open(s[i].kind)>> \in Texts
    BY <2>1, Brackets, TextOne DEF Shown
  <2>3. P[i - 1] \o <<Open(s[i].kind)>> \in Texts
    BY <2>2, TextJoin
  <2> QED
    BY <1>2, <2>3 DEF Before
<1> QED
  BY <1>1, <1>2

\* f is e with k more keys and values, B, in it.
Grown(e, w, f, v, B, k) ==
    /\ f.kind = e.kind
    /\ f.buf = e.buf \o B
    /\ Due(f.kind, f.count) - v = Due(e.kind, e.count) - w + k

\* The top frame grows, and the text with it.
LEMMA TopGrows ==
  ASSUME NEW s, NEW w, NEW d, Shows(s, w, d), NEW f \in Frames, NEW v,
         NEW B, NEW k, NEW T, Reads(B, k, T), Grown(s[Len(s)], w, f, v, B, k)
  PROVE  Shows([s EXCEPT ![Len(s)] = f], v, d \o T)
<1>1. PICK n \in Nat \ {0} : n = Len(s) /\ n \in 1..n
  <2>1. Len(s) \in Nat
    BY LenProperties DEF Shows, Stacks
  <2> QED
    BY <2>1 DEF Shows
<1>2. PICK t : t = [s EXCEPT ![n] = f]
  OBVIOUS
<1>3. t \in Stacks /\ Len(t) = n /\ \A j \in 1..n : t[j] = IF j = n THEN f ELSE s[j]
  BY <1>1, <1>2, ExceptSeq DEF Shows, Stacks
<1>4. PICK P : Shown(P, s, w) /\ d = P[n]
  BY <1>1 DEF Shows
<1>5. d \in Texts /\ FrameShows(s[n], w, Before(P, s, n), P[n])
  BY <1>1, <1>4 DEF Shown
<1>6. PICK X \in Texts : /\ Reads(s[n].buf, Due(s[n].kind, s[n].count) - w, X)
                         /\ d = Before(P, s, n) \o X
  BY <1>4, <1>5 DEF FrameShows
<1>7. Reads(f.buf, Due(f.kind, f.count) - v, X \o T)
  <2>1. PICK c : c = Due(s[n].kind, s[n].count) - w
    OBVIOUS
  <2>2. PICK C : C = s[n].buf
    OBVIOUS
  <2>3. Reads(C \o B, c + k, X \o T)
    BY <1>6, <2>1, <2>2, ReadsJoin
  <2>4. f.buf = C \o B /\ Due(f.kind, f.count) - v = c + k
    BY <1>1, <2>1, <2>2 DEF Grown
  <2> QED
    BY <2>3, <2>4
<1>8. T \in Texts /\ X \o T \in Texts /\ d \o T \in Texts
  <2>1. T \in Texts
    BY DEF Reads
  <2> QED
    BY <1>5, <1>6, <2>1, TextJoin
<1>9. PICK Q : Q = [j \in 1..n |-> IF j = n THEN d \o T ELSE P[j]]
  OBVIOUS
<1>10. ASSUME NEW j \in 1..n PROVE Before(Q, t, j) = Before(P, s, j)
  <2>1. CASE j = 1
    BY <2>1 DEF Before
  <2>2. CASE j # 1
    <3>1. j - 1 \in 1..n /\ j - 1 # n
      BY <2>2
    <3>2. Q[j - 1] = P[j - 1]
      BY <1>9, <3>1
    <3>3. t[j].kind = s[j].kind
      BY <1>1, <1>3 DEF Grown
    <3> QED
      BY <2>2, <3>2, <3>3 DEF Before
  <2> QED
    BY <2>1, <2>2
<1>11. ASSUME NEW j \in 1..n
       PROVE  /\ Q[j] \in Texts
              /\ FrameShows(t[j], IF j = n THEN v ELSE 1, Before(Q, t, j), Q[j])
  <2>1. CASE j = n
    <3>1. Q[j] = d \o T /\ t[j] = f
      BY <1>3, <1>9, <2>1
    <3>2. Before(P, s, n) \in Texts
      BY <1>1, <1>4, BeforeText
    <3>3. d \o T = Before(P, s, n) \o (X \o T)
      BY <1>6, <1>8, <3>2, TextAssoc
    <3>4. Before(Q, t, j) = Before(P, s, n)
      BY <1>10, <2>1
    <3>5. FrameShows(f, v, Before(P, s, n), d \o T)
      BY <1>7, <1>8, <3>3 DEF FrameShows
    <3> QED
      BY <1>8, <2>1, <3>1, <3>4, <3>5
  <2>2. CASE j # n
    <3>1. Q[j] = P[j] /\ t[j] = s[j]
      BY <1>3, <1>9, <2>2
    <3>2. P[j] \in Texts /\ FrameShows(s[j], 1, Before(P, s, j), P[j])
      BY <1>1, <1>4, <2>2 DEF Shown
    <3> QED
      BY <1>10, <2>2, <3>1, <3>2
  <2> QED
    BY <2>1, <2>2
<1>12. Shown(Q, t, v) /\ Q[n] = d \o T
  BY <1>1, <1>3, <1>9, <1>11 DEF Shown
<1>13. Shows(t, v, d \o T)
  BY <1>1, <1>3, <1>12 DEF Shows
<1> QED
  BY <1>1, <1>2, <1>13

\* A new frame has nothing in it.
LEMMA PushShows ==
  ASSUME NEW s, NEW d, Shows(s, 1, d), NEW kind \in Kinds
  PROVE  /\ Shows(Push(s, kind), 0, d \o <<Open(kind)>>)
         /\ Len(Push(s, kind)) = Len(s) + 1
         /\ \A i \in 1..Len(s) : Push(s, kind)[i] = s[i]
         /\ Push(s, kind)[Len(s) + 1].kind = kind
<1>1. PICK n \in Nat \ {0} : n = Len(s) /\ n \in 1..n
  <2>1. Len(s) \in Nat
    BY LenProperties DEF Shows, Stacks
  <2> QED
    BY <2>1 DEF Shows
<1>2. PICK f : f = emptyFrame(kind)
  OBVIOUS
<1>3. f \in Frames /\ f.kind = kind /\ f.count = 0 /\ f.buf = <<>>
  BY <1>2 DEF emptyFrame, Frames, Texts
<1>4. PICK t : t = Push(s, kind)
  OBVIOUS
<1>5. /\ t \in Stacks /\ Len(t) = n + 1
      /\ \A i \in 1..n : t[i] = s[i]
      /\ t[n + 1] = f
  BY <1>1, <1>2, <1>3, <1>4, AppendProperties DEF Push, Shows, Stacks
<1>6. PICK P : Shown(P, s, 1) /\ d = P[n]
  BY <1>1 DEF Shows
<1>7. \A i \in 1..n : P[i] \in Texts /\ FrameShows(s[i], 1, Before(P, s, i), P[i])
  BY <1>1, <1>6 DEF Shown
<1>8. d \in Texts /\ d \o <<Open(kind)>> \in Texts
  <2>1. d \in Texts /\ <<Open(kind)>> \in Texts
    BY <1>1, <1>6, <1>7, Brackets, TextOne
  <2> QED
    BY <2>1, TextJoin
<1>9. PICK Q : Q = [j \in 1..(n + 1) |-> IF j = n + 1 THEN d \o <<Open(kind)>> ELSE P[j]]
  OBVIOUS
<1>10. \A j \in 1..(n + 1) : (j = n + 1 /\ j # 1 /\ j - 1 = n) \/ (j \in 1..n /\ j # n + 1)
  OBVIOUS
<1>11. \A j \in 1..n : Q[j] = P[j]
  <2>1. \A j \in 1..n : j \in 1..(n + 1) /\ j # n + 1
    OBVIOUS
  <2> QED
    BY <1>9, <2>1
<1>12. ASSUME NEW j \in 1..n PROVE Before(Q, t, j) = Before(P, s, j)
  <2>1. CASE j = 1
    BY <2>1 DEF Before
  <2>2. CASE j # 1
    <3>1. j - 1 \in 1..n
      BY <2>2
    <3> QED
      BY <1>5, <1>11, <2>2, <3>1 DEF Before
  <2> QED
    BY <2>1, <2>2
<1>13. ASSUME NEW j \in 1..(n + 1)
       PROVE  /\ Q[j] \in Texts
              /\ FrameShows(t[j], IF j = n + 1 THEN 0 ELSE 1, Before(Q, t, j), Q[j])
  <2>1. CASE j = n + 1
    <3>1. Q[j] = d \o <<Open(kind)>> /\ t[j] = f /\ j # 1 /\ j - 1 = n
      BY <1>5, <1>9, <2>1
    <3>2. Before(Q, t, j) = d \o <<Open(kind)>>
      BY <1>1, <1>3, <1>6, <1>11, <3>1 DEF Before
    <3>3. Reads(f.buf, Due(f.kind, f.count) - 0, <<>>)
      <4>1. Due(f.kind, f.count) - 0 = 0
        BY <1>3 DEF Due
      <4> QED
        BY <1>3, <4>1, ReadsNothing
    <3>4. <<>> \in Texts /\ (d \o <<Open(kind)>>) \o <<>> = d \o <<Open(kind)>>
      <4>1. <<>> \in Texts
        BY DEF Texts
      <4> QED
        BY <1>8, <4>1, TextJoin
    <3>5. FrameShows(f, 0, d \o <<Open(kind)>>, d \o <<Open(kind)>>)
      BY <3>3, <3>4 DEF FrameShows
    <3> QED
      BY <1>8, <2>1, <3>1, <3>2, <3>5
  <2>2. CASE j \in 1..n /\ j # n + 1
    BY <1>5, <1>7, <1>11, <1>12, <2>2
  <2> QED
    BY <1>10, <2>1, <2>2
<1>14. Shown(Q, t, 0) /\ Q[n + 1] = d \o <<Open(kind)>>
  <2>1. n + 1 \in 1..(n + 1)
    OBVIOUS
  <2>2. Q[n + 1] = d \o <<Open(kind)>>
    BY <1>9, <2>1
  <2>3. Shown(Q, t, 0)
    BY <1>5, <1>13 DEF Shown
  <2> QED
    BY <2>2, <2>3
<1>15. Shows(t, 0, d \o <<Open(kind)>>)
  BY <1>1, <1>5, <1>14 DEF Shows
<1> QED
  BY <1>1, <1>3, <1>4, <1>5, <1>15

\* The text p shown below the top frame, and the text X of the top frame.
Parted(s, d, n, p, X) ==
    /\ Shows(Front(s), 1, p)
    /\ Reads(s[n + 1].buf, Due(s[n + 1].kind, s[n + 1].count), X)
    /\ d = (p \o <<Open(s[n + 1].kind)>>) \o X

\* The top frame and what is below it.
LEMMA ShowsBelow ==
  ASSUME NEW s, NEW d, Shows(s, 0, d), NEW n \in Nat \ {0}, Len(s) = n + 1
  PROVE  \E p \in Texts, X \in Texts : Parted(s, d, n, p, X)
<1>1. PICK t : t = Front(s)
  OBVIOUS
<1>2. t \in Stacks /\ Len(t) = n /\ \A i \in 1..n : t[i] = s[i]
  BY <1>1, FrontIs DEF Shows, Stacks
<1>3. PICK P : Shown(P, s, 0) /\ d = P[n + 1]
  BY DEF Shows
<1>4. n + 1 \in 1..(n + 1) /\ n \in 1..n /\ n + 1 # 1 /\ (n + 1) - 1 = n
      /\ \A i \in 1..n : i \in 1..(n + 1) /\ i # n + 1
  OBVIOUS
<1>5. PICK X \in Texts : /\ Reads(s[n + 1].buf, Due(s[n + 1].kind, s[n + 1].count) - 0, X)
                         /\ d = Before(P, s, n + 1) \o X
  BY <1>3, <1>4 DEF Shown, FrameShows
<1>6. d = (P[n] \o <<Open(s[n + 1].kind)>>) \o X
  BY <1>4, <1>5 DEF Before
<1>7. Reads(s[n + 1].buf, Due(s[n + 1].kind, s[n + 1].count), X)
  <2>1. s[n + 1] \in Frames
    BY <1>4, ElementOfSeq DEF Shows, Stacks
  <2>2. Due(s[n + 1].kind, s[n + 1].count) \in Nat
    BY <2>1 DEF Due, Frames
  <2>3. \A k \in Nat : k - 0 = k
    OBVIOUS
  <2> QED
    BY <1>5, <2>2, <2>3
<1>8. ASSUME NEW i \in 1..n
      PROVE  /\ P[i] \in Texts
             /\ FrameShows(t[i], IF i = n THEN 1 ELSE 1, Before(P, t, i), P[i])
  <2>1. P[i] \in Texts /\ FrameShows(s[i], 1, Before(P, s, i), P[i])
    BY <1>3, <1>4 DEF Shown
  <2>2. Before(P, t, i) = Before(P, s, i)
    BY <1>2 DEF Before
  <2> QED
    BY <1>2, <2>1, <2>2
<1>9. Shown(P, t, 1)
  BY <1>2, <1>8 DEF Shown
<1>10. Shows(t, 1, P[n])
  BY <1>2, <1>9 DEF Shows
<1>11. P[n] \in Texts
  BY <1>4, <1>8
<1>12. Parted(s, d, n, P[n], X)
  BY <1>1, <1>6, <1>7, <1>10 DEF Parted
<1> QED
  BY <1>11, <1>12

\* What is below the top stays of its kind.
Alike(s, t, n) == Len(t) = n /\ \A i \in 1..n : t[i].kind = s[i].kind

\* Sealing a frame ends its container.
LEMMA SealShows ==
  ASSUME NEW s, NEW d, Shows(s, 0, d), NEW n \in Nat \ {0}, Len(s) = n + 1
  PROVE  /\ Shows(seal(s), 0, d \o <<Close(s[n + 1].kind)>>)
         /\ Alike(s, seal(s), n)
<1>1. PICK p \in Texts, X \in Texts :
           /\ Shows(Front(s), 1, p)
           /\ Reads(s[n + 1].buf, Due(s[n + 1].kind, s[n + 1].count), X)
           /\ d = (p \o <<Open(s[n + 1].kind)>>) \o X
  <2>1. \E p \in Texts, X \in Texts : Parted(s, d, n, p, X)
    BY ShowsBelow, Zenon
  <2> QED
    BY <2>1 DEF Parted
<1>2. PICK t : t = Front(s)
  OBVIOUS
<1>3. t \in Stacks /\ Len(t) = n /\ \A i \in 1..n : t[i] = s[i]
  BY <1>2, FrontIs DEF Shows, Stacks
<1>4. PICK top \in Frames, e \in Frames : top = s[n + 1] /\ e = t[n]
  <2>1. n + 1 \in 1..(n + 1) /\ n \in 1..n
    OBVIOUS
  <2> QED
    BY <1>3, <2>1, ElementOfSeq DEF Shows, Stacks
<1>5. PICK B : B = <<header(top.kind, top.count)>> \o top.buf
  OBVIOUS
<1>6. Reads(B, 1, Within(top.kind, X))
  <2>1. top.kind \in Kinds /\ top.count \in Nat
    BY DEF Frames
  <2> QED
    BY <1>1, <1>4, <1>5, <2>1, ReadsContainer
<1>7. PICK f : f = [e EXCEPT !.buf = e.buf \o B]
  OBVIOUS
<1>8. /\ f \in Frames /\ f.kind = e.kind /\ f.count = e.count /\ f.buf = e.buf \o B
  <2>1. B \in Texts /\ e.buf \in Texts
    BY <1>6 DEF Reads, Frames
  <2>2. e.buf \o B \in Texts
    BY <2>1, TextJoin
  <2> QED
    BY <1>7, <2>2 DEF Frames
<1>9. Grown(e, 1, f, 0, B, 1)
  <2>1. PICK k \in Nat : k = Due(e.kind, e.count)
    BY DEF Due, Frames
  <2>2. k - 0 = k - 1 + 1
    OBVIOUS
  <2> QED
    BY <1>8, <2>1, <2>2 DEF Grown
<1>10. Shows([t EXCEPT ![n] = f], 0, p \o Within(top.kind, X))
  <2>1. PICK W : W = Within(top.kind, X)
    OBVIOUS
  <2>2. Reads(B, 1, W) /\ Shows(t, 1, p) /\ Grown(t[Len(t)], 1, f, 0, B, 1)
    BY <1>1, <1>2, <1>3, <1>4, <1>6, <1>9, <2>1
  <2>3. Shows([t EXCEPT ![Len(t)] = f], 0, p \o W)
    BY <1>8, <2>2, TopGrows
  <2> QED
    BY <1>3, <2>1, <2>3
<1>11. seal(s) = [t EXCEPT ![n] = f]
  <2>1. PICK h \in Texts : h = <<header(top.kind, top.count)>>
    <3>1. header(top.kind, top.count) = [t |-> top.kind, n |-> top.count]
      BY DEF header, tok
    <3>2. header(top.kind, top.count) \in TextTokens
      BY <3>1 DEF TextTokens, Marks, Frames, Kinds
    <3> QED
      BY <3>2, TextOne
  <2>2. (e.buf \o h) \o top.buf = e.buf \o (h \o top.buf)
    <3>1. PICK u, v \in Texts : u = e.buf /\ v = top.buf
      BY DEF Frames
    <3>2. Regroups(u, h, v)
      BY TextRegroups
    <3> QED
      BY <3>1, <3>2 DEF Regroups
  <2>3. seal(s) = [t EXCEPT ![n].buf = (@ \o h) \o top.buf]
    BY <1>2, <1>3, <1>4, <2>1 DEF seal, Top
  <2>4. [t EXCEPT ![n].buf = (@ \o h) \o top.buf] = [t EXCEPT ![n] = [e EXCEPT !.buf = (e.buf \o h) \o top.buf]]
    BY <1>4
  <2> QED
    BY <1>5, <1>7, <2>1, <2>2, <2>3, <2>4
<1>12. p \o Within(top.kind, X) = d \o <<Close(top.kind)>>
  <2>1. PICK x \in Texts, y \in Texts : x = <<Open(top.kind)>> /\ y = <<Close(top.kind)>>
    BY Brackets, TextOne
  <2>2. d = (p \o x) \o X /\ Within(top.kind, X) = x \o (X \o y)
    BY <1>1, <1>4, <2>1 DEF Within
  <2>3. PICK v \in Texts, q \in Texts : v = p \o x /\ q = X \o y
    BY TextJoin
  <2>4. Regroups(v, X, y)
    BY TextRegroups
  <2>5. Regroups(p, x, q)
    BY TextRegroups
  <2> QED
    BY <2>1, <2>2, <2>3, <2>4, <2>5 DEF Regroups
<1>13. Alike(s, [t EXCEPT ![n] = f], n)
  <2>1. n \in 1..Len(t)
    BY <1>3
  <2>2. /\ Len([t EXCEPT ![n] = f]) = n
        /\ \A j \in 1..n : [t EXCEPT ![n] = f][j] = IF j = n THEN f ELSE t[j]
    BY <1>3, <1>8, <2>1, ExceptSeq DEF Stacks
  <2> QED
    BY <1>3, <1>4, <1>8, <2>2 DEF Alike
<1> QED
  BY <1>4, <1>10, <1>11, <1>12, <1>13

\* The top of a stack that shows something.
LEMMA TopIs ==
  ASSUME NEW s, NEW w, NEW d, Shows(s, w, d)
  PROVE  Len(s) \in Nat \ {0} /\ Top(s) \in Frames /\ Top(s) = s[Len(s)]
<1>1. Len(s) \in Nat \ {0} /\ Len(s) \in 1..Len(s)
  BY LenProperties DEF Shows, Stacks
<1>2. s[Len(s)] \in Frames
  BY <1>1, ElementOfSeq DEF Shows, Stacks
<1> QED
  BY <1>1, <1>2 DEF Top

\* What it shows is a text.
LEMMA ShowsText ==
  ASSUME NEW s, NEW w, NEW d, Shows(s, w, d)
  PROVE  d \in Texts
<1>1. Len(s) \in 1..Len(s)
  <2>1. Len(s) \in Nat \ {0}
    BY TopIs
  <2> QED
    BY <2>1
<1>2. PICK P : Shown(P, s, w) /\ d = P[Len(s)]
  BY DEF Shows
<1> QED
  BY <1>1, <1>2 DEF Shown

\* The kinds stay when the top grows.
LEMMA TopAlike ==
  ASSUME NEW s, NEW w, NEW d, Shows(s, w, d), NEW f \in Frames, f.kind = Top(s).kind
  PROVE  Alike(s, [s EXCEPT ![Len(s)] = f], Len(s))
<1>1. Len(s) \in 1..Len(s) /\ Top(s) = s[Len(s)] /\ s \in Seq(Frames)
  <2>1. Len(s) \in Nat \ {0} /\ Top(s) = s[Len(s)]
    BY TopIs
  <2> QED
    BY <2>1 DEF Shows, Stacks
<1>2. /\ Len([s EXCEPT ![Len(s)] = f]) = Len(s)
      /\ \A j \in 1..Len(s) : [s EXCEPT ![Len(s)] = f][j] = IF j = Len(s) THEN f ELSE s[j]
  BY <1>1, ExceptSeq
<1> QED
  BY <1>1, <1>2 DEF Alike

\* Keys, scalars and times are tokens that the reader copies.
LEMMA PlainToken ==
  ASSUME NEW t \in {"key", "scalar", "time"}, NEW n \in Int
  PROVE  Reads(<<tok(t, n)>>, 1, <<tok(t, n)>>) /\ tok(t, n) \in TextTokens
<1>1. tok(t, n) = [t |-> t, n |-> n]
  BY DEF tok
<1>2. tok(t, n) \in TextTokens /\ tok(t, n).t = t
  BY <1>1 DEF TextTokens, Marks
<1>3. tok(t, n).t # "map" /\ tok(t, n).t # "array"
  BY <1>2
<1>4. PICK x \in TextTokens : x = tok(t, n)
  BY <1>2
<1>5. Reads(<<x>>, 1, <<x>>)
  BY <1>3, <1>4, ReadsToken
<1> QED
  BY <1>2, <1>4, <1>5

\* A frame with another count and other contents.
LEMMA FrameExcept ==
  ASSUME NEW e \in Frames, NEW u, NEW v
  PROVE  [e EXCEPT !.count = u, !.buf = v] = [kind |-> e.kind, count |-> u, buf |-> v]
<1>1. PICK a, b, c : a = e.kind /\ b = e.count /\ c = e.buf
  OBVIOUS
<1>2. e = [kind |-> a, count |-> b, buf |-> c]
  BY <1>1 DEF Frames
<1>3. [e EXCEPT !.count = u, !.buf = v] = [[e EXCEPT !.count = u] EXCEPT !.buf = v]
  OBVIOUS
<1>4. [[kind |-> a, count |-> b, buf |-> c] EXCEPT !.count = u] = [kind |-> a, count |-> u, buf |-> c]
  OBVIOUS
<1>5. [[kind |-> a, count |-> u, buf |-> c] EXCEPT !.buf = v] = [kind |-> a, count |-> u, buf |-> v]
  OBVIOUS
<1> QED
  BY <1>1, <1>2, <1>3, <1>4, <1>5, Zenon

\* A frame with one token more.
Longer(e, count, x) == [kind |-> e.kind, count |-> count, buf |-> Append(e.buf, x)]

\* It is a frame, whatever is counted.
LEMMA LongerIs ==
  ASSUME NEW e \in Frames, NEW count \in Nat, NEW x \in TextTokens
  PROVE  /\ Longer(e, count, x) \in Frames
         /\ Longer(e, count, x).kind = e.kind
         /\ Longer(e, count, x).count = count
         /\ Longer(e, count, x).buf = e.buf \o <<x>>
<1>1. e.buf \in Texts /\ e.kind \in Kinds
  BY DEF Frames
<1>2. Append(e.buf, x) = e.buf \o <<x>> /\ Append(e.buf, x) \in Texts
  BY <1>1, TextOne
<1> QED
  BY <1>1, <1>2 DEF Longer, Frames

\* A key, and its value is to come.
LEMMA KeyAdded ==
  ASSUME NEW s, NEW d, Shows(s, 0, d), Top(s).kind = "map", NEW n \in Int
  PROVE  /\ Shows(addKey(s, n), 1, d \o <<tok("key", n)>>)
         /\ Alike(s, addKey(s, n), Len(s))
<1>1. PICK e \in Frames : e = Top(s) /\ e = s[Len(s)]
  BY TopIs
<1>2. e.count \in Nat /\ e.count + 1 \in Nat /\ e.kind = "map"
  BY <1>1 DEF Frames
<1>3. PICK x \in TextTokens : x = tok("key", n) /\ Reads(<<x>>, 1, <<x>>)
  BY PlainToken
<1>4. PICK f : f = Longer(e, e.count + 1, x)
  OBVIOUS
<1>5. f \in Frames /\ f.kind = e.kind /\ f.count = e.count + 1 /\ f.buf = e.buf \o <<x>>
  BY <1>2, <1>4, LongerIs
<1>6. addKey(s, n) = [s EXCEPT ![Len(s)] = f]
  <2>1. addKey(s, n) = [s EXCEPT ![Len(s)] = [e EXCEPT !.count = e.count + 1, !.buf = Append(e.buf, x)]]
    BY <1>1, <1>3 DEF addKey
  <2>2. [e EXCEPT !.count = e.count + 1, !.buf = Append(e.buf, x)] = f
    BY <1>4, FrameExcept DEF Longer
  <2> QED
    BY <2>1, <2>2
<1>7. Grown(e, 0, f, 1, <<x>>, 1)
  <2>1. 2 * (e.count + 1) - 1 = 2 * e.count - 0 + 1
    BY <1>2
  <2> QED
    BY <1>2, <1>5, <2>1 DEF Grown, Due
<1>8. Shows([s EXCEPT ![Len(s)] = f], 1, d \o <<x>>)
  <2>1. PICK B : B = <<x>>
    OBVIOUS
  <2>2. Reads(B, 1, B) /\ Grown(s[Len(s)], 0, f, 1, B, 1)
    BY <1>1, <1>3, <1>7, <2>1
  <2>3. Shows([s EXCEPT ![Len(s)] = f], 1, d \o B)
    BY <1>5, <2>2, TopGrows
  <2> QED
    BY <2>1, <2>3
<1>9. Alike(s, [s EXCEPT ![Len(s)] = f], Len(s))
  BY <1>1, <1>5, TopAlike
<1> QED
  BY <1>3, <1>6, <1>8, <1>9

\* What a map's frame has still to come when a value is added, and an array's.
Awaits(s) == IF Top(s).kind = "map" THEN 1 ELSE 0

\* A value.
LEMMA ValueAdded ==
  ASSUME NEW s, NEW d, Shows(s, Awaits(s), d), NEW n \in Int
  PROVE  /\ Shows(AppendValue(s, n), 0, d \o <<tok("scalar", n)>>)
         /\ Alike(s, AppendValue(s, n), Len(s))
<1>0. PICK w : w = Awaits(s)
  OBVIOUS
<1>1. PICK e \in Frames : e = Top(s) /\ e = s[Len(s)]
  BY TopIs
<1>2. e.count \in Nat /\ e.count + 1 \in Nat /\ e.kind \in Kinds
  BY <1>1 DEF Frames
<1>3. PICK x \in TextTokens : x = tok("scalar", n) /\ Reads(<<x>>, 1, <<x>>)
  BY PlainToken
<1>4. PICK c \in Nat : c = IF e.kind = "array" THEN e.count + 1 ELSE e.count
  BY <1>2
<1>5. PICK f : f = Longer(e, c, x)
  OBVIOUS
<1>6. f \in Frames /\ f.kind = e.kind /\ f.count = c /\ f.buf = e.buf \o <<x>>
  BY <1>5, LongerIs
<1>7. AppendValue(s, n) = [s EXCEPT ![Len(s)] = f]
  <2>1. AppendValue(s, n) = [s EXCEPT ![Len(s)] = [e EXCEPT !.count = c, !.buf = Append(e.buf, x)]]
    BY <1>1, <1>3, <1>4 DEF AppendValue
  <2>2. [e EXCEPT !.count = c, !.buf = Append(e.buf, x)] = f
    BY <1>5, FrameExcept DEF Longer
  <2> QED
    BY <2>1, <2>2
<1>8. Grown(e, w, f, 0, <<x>>, 1)
  <2>1. CASE e.kind = "map"
    <3>1. w = 1 /\ c = e.count
      BY <1>0, <1>1, <1>4, <2>1 DEF Awaits
    <3>2. 2 * e.count - 0 = 2 * e.count - 1 + 1
      BY <1>2
    <3> QED
      BY <1>6, <2>1, <3>1, <3>2 DEF Grown, Due
  <2>2. CASE e.kind = "array"
    <3>1. w = 0 /\ c = e.count + 1
      BY <1>0, <1>1, <1>4, <2>2 DEF Awaits
    <3>2. (e.count + 1) - 0 = e.count - 0 + 1
      BY <1>2
    <3> QED
      BY <1>6, <2>2, <3>1, <3>2 DEF Grown, Due
  <2> QED
    BY <1>2, <2>1, <2>2 DEF Kinds
<1>9. Shows([s EXCEPT ![Len(s)] = f], 0, d \o <<x>>)
  <2>1. PICK B : B = <<x>>
    OBVIOUS
  <2>2. Reads(B, 1, B) /\ Grown(s[Len(s)], w, f, 0, B, 1) /\ Shows(s, w, d)
    BY <1>0, <1>1, <1>3, <1>8, <2>1
  <2>3. Shows([s EXCEPT ![Len(s)] = f], 0, d \o B)
    BY <1>6, <2>2, TopGrows
  <2> QED
    BY <2>1, <2>3
<1>10. Alike(s, [s EXCEPT ![Len(s)] = f], Len(s))
  BY <1>0, <1>1, <1>6, TopAlike
<1> QED
  BY <1>3, <1>7, <1>9, <1>10

\* The hook that writes nothing leaves it to the fallback.
LEMMA HookedIs ==
  ASSUME NEW s, NEW hook \in Hooks, NEW n
  PROVE  hooked(s, hook, n) = AppendValue(s, n)
<1>1. CASE hook = "writes"
  BY <1>1 DEF hooked, AppendHook
<1>2. CASE hook = "silent"
  BY <1>2 DEF hooked, AppendHook
<1> QED
  BY <1>1, <1>2 DEF Hooks

\* The kinds stay over two steps.
LEMMA AlikeTwice ==
  ASSUME NEW s, NEW t, NEW u, NEW n, Alike(s, t, n), NEW m \in Nat, m <= n, n \in Nat, Alike(t, u, m)
  PROVE  Alike(s, u, m)
<1>1. \A i \in 1..m : i \in 1..n
  OBVIOUS
<1> QED
  BY <1>1 DEF Alike

\* The top's kind stays.
LEMMA AlikeTop ==
  ASSUME NEW s, NEW t, Len(s) \in Nat \ {0}, Alike(s, t, Len(s))
  PROVE  Len(t) = Len(s) /\ Top(t).kind = Top(s).kind
<1>1. Len(s) \in 1..Len(s)
  OBVIOUS
<1> QED
  BY <1>1 DEF Alike, Top

\* Two elements are the second one behind the first.
LEMMA TwoElements ==
  ASSUME NEW S, NEW a \in S, NEW b \in S
  PROVE  Append(<<a>>, b) = <<a, b>>
<1>1. /\ <<a>> \in Seq(S) /\ Len(<<a>>) = 1 /\ <<a>>[1] = a
      /\ <<a, b>> \in Seq(S) /\ Len(<<a, b>>) = 2 /\ <<a, b>>[1] = a /\ <<a, b>>[2] = b
  OBVIOUS
<1>2. /\ Append(<<a>>, b) \in Seq(S) /\ Len(Append(<<a>>, b)) = 2
      /\ Append(<<a>>, b)[1] = a /\ Append(<<a>>, b)[2] = b
  BY <1>1, AppendProperties
<1>3. PICK p, q : p = Append(<<a>>, b) /\ q = <<a, b>>
  OBVIOUS
<1>4. p \in Seq(S) /\ q \in Seq(S) /\ Len(p) = 2 /\ Len(q) = 2 /\ p[1] = q[1] /\ p[2] = q[2]
  BY <1>1, <1>2, <1>3
<1>5. \A i \in 1..2 : p[i] = q[i]
  BY <1>4
<1>6. p = q
  BY <1>4, <1>5, SeqEqual
<1> QED
  BY <1>3, <1>6, Zenon

\* A key and its value.
LEMMA FieldAdded ==
  ASSUME NEW s, NEW d, Shows(s, 0, d), Top(s).kind = "map", NEW n \in Int
  PROVE  /\ Shows(AppendValue(addKey(s, n), n), 0, d \o FieldText(n))
         /\ Alike(s, AppendValue(addKey(s, n), n), Len(s))
<1>1. PICK t : t = addKey(s, n)
  OBVIOUS
<1>2. Shows(t, 1, d \o <<tok("key", n)>>) /\ Alike(s, t, Len(s))
  BY <1>1, KeyAdded
<1>3. Len(s) \in Nat \ {0}
  BY TopIs
<1>4. Len(t) = Len(s) /\ Top(t).kind = "map"
  BY <1>2, <1>3, AlikeTop
<1>5. PICK c : c = d \o <<tok("key", n)>>
  OBVIOUS
<1>6. Shows(t, Awaits(t), c)
  BY <1>2, <1>4, <1>5 DEF Awaits
<1>7. Shows(AppendValue(t, n), 0, c \o <<tok("scalar", n)>>) /\ Alike(t, AppendValue(t, n), Len(t))
  BY <1>6, ValueAdded
<1>8. Alike(s, AppendValue(t, n), Len(s))
  <2>1. PICK m \in Nat : m = Len(s) /\ m <= m
    BY <1>3
  <2> QED
    BY <1>2, <1>4, <1>7, <2>1, AlikeTwice
<1>9. c \o <<tok("scalar", n)>> = d \o FieldText(n)
  <2>1. PICK x \in Texts, y \in Texts : x = <<tok("key", n)>> /\ y = <<tok("scalar", n)>>
    BY PlainToken, TextOne
  <2>2. x \o y = <<tok("key", n), tok("scalar", n)>>
    <3>1. PICK a \in TextTokens : a = tok("key", n)
      BY PlainToken
    <3>2. PICK b \in TextTokens : b = tok("scalar", n)
      BY PlainToken
    <3>3. Append(x, b) = x \o y
      BY <2>1, <3>2, TextOne
    <3>4. Append(<<a>>, b) = <<a, b>>
      BY TwoElements
    <3> QED
      BY <2>1, <3>1, <3>2, <3>3, <3>4
  <2>3. d \in Texts
    BY ShowsText
  <2>4. (d \o x) \o y = d \o (x \o y)
    BY <2>3, TextAssoc
  <2> QED
    BY <1>5, <2>1, <2>2, <2>4 DEF FieldText
<1> QED
  BY <1>1, <1>7, <1>8, <1>9

\* A key and the start of its container.
LEMMA KeyOpened ==
  ASSUME NEW s, NEW w, NEW d, Shows(s, w, d), NEW n \in Int
  PROVE  (d \o <<tok("key", n)>>) \o <<Open("map")>> = d \o <<tok("key", n), Open("map")>>
<1>1. PICK a \in TextTokens : a = tok("key", n)
  BY PlainToken
<1>2. PICK b \in TextTokens : b = Open("map")
  BY Brackets
<1>3. PICK x \in Texts : x = <<a>>
  BY TextOne
<1>4. PICK y \in Texts : y = <<b>>
  BY TextOne
<1>5. x \o y = <<a, b>>
  <2>1. Append(x, b) = x \o y
    BY <1>4, TextOne
  <2>2. Append(<<a>>, b) = <<a, b>>
    BY TwoElements
  <2> QED
    BY <1>3, <2>1, <2>2
<1>6. d \in Texts
  BY ShowsText
<1>7. (d \o x) \o y = d \o (x \o y)
  BY <1>6, TextAssoc
<1> QED
  BY <1>1, <1>2, <1>3, <1>4, <1>5, <1>7

\* t is s with a frame on top.
Atop(s, t, kind) ==
    /\ Len(t) = Len(s) + 1
    /\ \A i \in 1..Len(s) : t[i].kind = s[i].kind
    /\ t[Len(s) + 1].kind = kind

\* A container is opened where a value can be added.
LEMMA ContainerOpened ==
  ASSUME NEW s, NEW d, Shows(s, Awaits(s), d), NEW kind \in Kinds
  PROVE  /\ Shows(OpenContainer(s, kind), 0, d \o <<Open(kind)>>)
         /\ Atop(s, OpenContainer(s, kind), kind)
<1>0. PICK w : w = Awaits(s)
  OBVIOUS
<1>1. PICK e \in Frames : e = Top(s) /\ e = s[Len(s)]
  BY TopIs
<1>2. e.count \in Nat /\ e.count + 1 \in Nat /\ e.kind \in Kinds /\ e.buf \in Texts
  BY DEF Frames
<1>3. PICK c \in Nat : c = IF e.kind = "array" THEN e.count + 1 ELSE e.count
  BY <1>2
<1>4. PICK f : f = [kind |-> e.kind, count |-> c, buf |-> e.buf]
  OBVIOUS
<1>5. f \in Frames /\ f.kind = e.kind /\ f.count = c /\ f.buf = e.buf
  BY <1>2, <1>4 DEF Frames
<1>6. PICK t : t = [s EXCEPT ![Len(s)] = f]
  OBVIOUS
<1>7. OpenContainer(s, kind) = Push(t, kind)
  <2>1. OpenContainer(s, kind) = Push([s EXCEPT ![Len(s)] = [e EXCEPT !.count = c]], kind)
    BY <1>1, <1>3 DEF OpenContainer
  <2>2. [e EXCEPT !.count = c] = f
    <3>1. PICK a, b, y : a = e.kind /\ b = e.count /\ y = e.buf
      OBVIOUS
    <3>2. e = [kind |-> a, count |-> b, buf |-> y]
      BY <3>1 DEF Frames
    <3>3. [[kind |-> a, count |-> b, buf |-> y] EXCEPT !.count = c]
            = [kind |-> a, count |-> c, buf |-> y]
      OBVIOUS
    <3> QED
      BY <1>4, <3>1, <3>2, <3>3, Zenon
  <2> QED
    BY <1>6, <2>1, <2>2
<1>8. Reads(<<>>, 0, <<>>) /\ Grown(e, w, f, 1, <<>>, 0)
  <2>1. e.buf \o <<>> = e.buf
    BY <1>2, ConcatEmptySeq DEF Texts
  <2>2. CASE e.kind = "map"
    <3>1. w = 1 /\ c = e.count
      BY <1>0, <1>1, <1>3, <2>2 DEF Awaits
    <3>2. 2 * e.count - 1 = 2 * e.count - 1 + 0
      BY <1>2
    <3> QED
      BY <1>5, <2>1, <2>2, <3>1, <3>2, ReadsNothing DEF Grown, Due
  <2>3. CASE e.kind = "array"
    <3>1. w = 0 /\ c = e.count + 1
      BY <1>0, <1>1, <1>3, <2>3 DEF Awaits
    <3>2. (e.count + 1) - 1 = e.count - 0 + 0
      BY <1>2
    <3> QED
      BY <1>5, <2>1, <2>3, <3>1, <3>2, ReadsNothing DEF Grown, Due
  <2> QED
    BY <1>2, <2>2, <2>3 DEF Kinds
<1>9. Shows(t, 1, d)
  <2>1. PICK B : B = <<>>
    OBVIOUS
  <2>2. Reads(B, 0, B) /\ Grown(s[Len(s)], w, f, 1, B, 0) /\ Shows(s, w, d)
    BY <1>0, <1>1, <1>8, <2>1
  <2>3. Shows([s EXCEPT ![Len(s)] = f], 1, d \o B)
    BY <1>5, <2>2, TopGrows
  <2>4. d \o B = d
    <3>1. d \in Texts
      BY ShowsText
    <3> QED
      BY <2>1, <3>1, ConcatEmptySeq DEF Texts
  <2> QED
    BY <1>6, <2>3, <2>4
<1>10. Alike(s, t, Len(s))
  BY <1>0, <1>1, <1>5, <1>6, TopAlike
<1>11. Len(t) = Len(s) /\ \A i \in 1..Len(s) : t[i].kind = s[i].kind
  BY <1>10 DEF Alike
<1>12. /\ Shows(Push(t, kind), 0, d \o <<Open(kind)>>)
       /\ Len(Push(t, kind)) = Len(t) + 1
       /\ \A i \in 1..Len(t) : Push(t, kind)[i] = t[i]
       /\ Push(t, kind)[Len(t) + 1].kind = kind
  BY <1>9, PushShows
<1>13. Atop(s, Push(t, kind), kind)
  BY <1>11, <1>12 DEF Atop
<1> QED
  BY <1>7, <1>12, <1>13

-----------------------------------------------------------------------------
\* The stack after each of the first n seals.
Seals(f, s, n) == f = [i \in 0..n |-> IF i = 0 THEN s ELSE seal(f[i - 1])]

\* Such a function exists for every n.
LEMMA SealsExist ==
  ASSUME NEW s, NEW n \in Nat
  PROVE  \E f : Seals(f, s, n)
<1> DEFINE T == {m \in Nat : \E f : Seals(f, s, m)}
<1>1. 0 \in T
  <2>1. Seals([i \in 0..0 |-> s], s, 0)
    BY DEF Seals
  <2> QED
    BY <2>1
<1>2. ASSUME NEW m \in Nat, m \in T PROVE m + 1 \in T
  <2>1. PICK f : Seals(f, s, m)
    BY <1>2
  <2> DEFINE g == [i \in 0..(m + 1) |-> IF i = m + 1 THEN seal(f[m]) ELSE f[i]]
  <2>2. \A i \in 0..m : g[i] = f[i] /\ f[i] = IF i = 0 THEN s ELSE seal(f[i - 1])
    BY <2>1 DEF Seals
  <2>3. \A i \in 0..(m + 1) : (i = m + 1 /\ i # 0 /\ i - 1 = m) \/ (i \in 0..m /\ i # m + 1)
    OBVIOUS
  <2>4. \A i \in 0..m : i = 0 \/ i - 1 \in 0..m
    OBVIOUS
  <2>5. \A i \in 0..(m + 1) : g[i] = IF i = 0 THEN s ELSE seal(g[i - 1])
    <3> TAKE i \in 0..(m + 1)
    <3>1. CASE i \in 0..m
      BY <2>2, <2>4, <3>1
    <3>2. CASE i = m + 1
      <4>1. i # 0 /\ i - 1 = m /\ m \in 0..m
        BY <3>2
      <4>2. g[i] = seal(f[m])
        BY <3>2
      <4> QED
        BY <2>2, <4>1, <4>2
    <3> QED
      BY <2>3, <3>1, <3>2
  <2>6. Seals(g, s, m + 1)
    BY <2>5 DEF Seals
  <2> QED
    BY <2>6
<1> HIDE DEF T
<1>3. n \in T
  BY <1>1, <1>2, NatSetInduction
<1> QED
  BY <1>3 DEF T

\* sealDownTo is its last value.
SealedBy(f, s, depth, n) ==
    /\ f[0] = s /\ sealDownTo(s, depth) = f[n]
    /\ \A i \in 1..n : f[i] = seal(f[i - 1])

\* sealDownTo is that function at the number of frames above depth.
LEMMA SealDownIs ==
  ASSUME NEW s, NEW depth, NEW n \in Nat, Len(s) - depth = n
  PROVE  \E f : SealedBy(f, s, depth, n)
<1> DEFINE f == CHOOSE g : Seals(g, s, n)
<1>1. Seals(f, s, n)
  BY SealsExist
<1>2. sealDownTo(s, depth) = f[n]
  BY Zenon DEF sealDownTo, Seals
<1> HIDE DEF f
<1>3. \A i \in 0..n : f[i] = IF i = 0 THEN s ELSE seal(f[i - 1])
  BY <1>1 DEF Seals
<1>4. f[0] = s /\ \A i \in 1..n : f[i] = seal(f[i - 1])
  BY <1>3
<1> QED
  BY <1>2, <1>4 DEF SealedBy

\* The brackets of the maps that are sealed.
LEMMA ClosersIs ==
  ASSUME NEW n \in Nat
  PROVE  /\ Closers(0) = <<>>
         /\ Closers(n) \in Texts
         /\ Closers(n + 1) = Closers(n) \o <<Close("map")>>
<1>1. PICK x \in TextTokens : x = Close("map")
  BY Brackets
<1>2. \A m \in Nat : /\ Closers(m) \in Texts /\ Len(Closers(m)) = m
                     /\ \A i \in 1..m : Closers(m)[i] = x
  BY <1>1 DEF Closers, Texts
<1>3. Closers(0) = <<>>
  BY <1>2, EmptySeq DEF Texts
<1>4. Closers(n + 1) = Append(Closers(n), x)
  <2>1. PICK a, b : a = Closers(n + 1) /\ b = Append(Closers(n), x)
    OBVIOUS
  <2>2. a \in Texts /\ Len(a) = n + 1 /\ \A i \in 1..(n + 1) : a[i] = x
    BY <1>2, <2>1
  <2>3. b \in Texts /\ Len(b) = n + 1 /\ \A i \in 1..(n + 1) : b[i] = x
    <3>1. Closers(n) \in Seq(TextTokens) /\ Len(Closers(n)) = n /\ \A i \in 1..n : Closers(n)[i] = x
      BY <1>2 DEF Texts
    <3>2. /\ b \in Seq(TextTokens) /\ Len(b) = n + 1
          /\ \A i \in 1..n : b[i] = Closers(n)[i]
          /\ b[n + 1] = x
      BY <2>1, <3>1, AppendProperties
    <3> QED
      BY <3>1, <3>2 DEF Texts
  <2>4. a = b
    BY <2>2, <2>3, SeqEqual DEF Texts
  <2> QED
    BY <2>1, <2>4
<1>5. Append(Closers(n), x) = Closers(n) \o <<x>>
  <2>1. PICK a \in Texts : a = Closers(n)
    BY <1>2
  <2> QED
    BY <2>1, TextOne
<1> QED
  BY <1>1, <1>2, <1>3, <1>4, <1>5

\* The maps on top of depth are sealed, and their ends are in the text.
LEMMA SealDownShows ==
  ASSUME NEW s, NEW d, Shows(s, 0, d), NEW depth \in Nat \ {0}, NEW n \in Nat, Len(s) = depth + n,
         \A i \in (depth + 1)..Len(s) : s[i].kind = "map"
  PROVE  /\ Shows(sealDownTo(s, depth), 0, d \o Closers(n))
         /\ Alike(s, sealDownTo(s, depth), depth)
<1>1. Len(s) - depth = n
  OBVIOUS
<1>2. PICK f : /\ f[0] = s /\ sealDownTo(s, depth) = f[n]
               /\ \A i \in 1..n : f[i] = seal(f[i - 1])
  <2>1. \E f : SealedBy(f, s, depth, n)
    BY <1>1, SealDownIs
  <2> QED
    BY <2>1 DEF SealedBy
<1> DEFINE Done(m) == Shows(f[m], 0, d \o Closers(m)) /\ Alike(s, f[m], depth + (n - m))
           T == {m \in Nat : m <= n => Done(m)}
<1>3. 0 \in T
  <2>1. d \in Texts
    BY ShowsText
  <2>2. d \o Closers(0) = d
    BY <2>1, ClosersIs, ConcatEmptySeq DEF Texts
  <2>3. Alike(s, s, depth + (n - 0))
    BY DEF Alike
  <2> QED
    BY <1>2, <2>2, <2>3
<1>4. ASSUME NEW m \in Nat, m \in T PROVE m + 1 \in T
  <2> SUFFICES ASSUME m + 1 <= n PROVE Done(m + 1)
    OBVIOUS
  <2>1. Done(m)
    BY <1>4
  <2>2. PICK t : t = f[m]
    OBVIOUS
  <2>3. PICK k \in Nat \ {0} : k = depth + (n - (m + 1)) /\ k + 1 = depth + (n - m) /\ k >= depth
    OBVIOUS
  <2>4. PICK c : c = d \o Closers(m)
    OBVIOUS
  <2>5. Shows(t, 0, c) /\ Alike(s, t, k + 1)
    BY <2>1, <2>2, <2>3, <2>4
  <2>6. Len(t) = k + 1 /\ t[k + 1].kind = "map"
    <3>1. k + 1 \in 1..(k + 1) /\ k + 1 \in (depth + 1)..Len(s)
      BY <2>3
    <3> QED
      BY <2>5, <3>1 DEF Alike
  <2>7. Shows(seal(t), 0, c \o <<Close("map")>>) /\ Alike(t, seal(t), k)
    BY <2>5, <2>6, SealShows
  <2>8. f[m + 1] = seal(t)
    <3>1. m + 1 \in 1..n /\ (m + 1) - 1 = m
      OBVIOUS
    <3> QED
      BY <1>2, <2>2, <3>1
  <2>9. c \o <<Close("map")>> = d \o Closers(m + 1)
    <3>1. PICK x \in Texts, y \in Texts : x = Closers(m) /\ y = <<Close("map")>>
      BY ClosersIs, Brackets, TextOne
    <3>2. Closers(m + 1) = x \o y
      BY <3>1, ClosersIs
    <3>3. d \in Texts
      BY ShowsText
    <3>4. (d \o x) \o y = d \o (x \o y)
      BY <3>3, TextAssoc
    <3> QED
      BY <2>4, <3>1, <3>2, <3>4
  <2>10. Alike(s, seal(t), k)
    <3>1. k + 1 \in Nat /\ k <= k + 1
      BY <2>3
    <3> QED
      BY <2>5, <2>7, <3>1, AlikeTwice
  <2> QED
    BY <2>3, <2>7, <2>8, <2>9, <2>10
<1> HIDE DEF T
<1>5. n \in T
  BY <1>3, <1>4, NatSetInduction
<1>6. Done(n)
  BY <1>5 DEF T
<1>7. depth + (n - n) = depth
  OBVIOUS
<1> QED
  BY <1>2, <1>6, <1>7

\* One frame is sealed.
LEMMA SealOnce ==
  ASSUME NEW s, NEW n \in Nat, Len(s) = n + 1
  PROVE  sealDownTo(s, n) = seal(s)
<1>1. 1 \in Nat /\ Len(s) - n = 1
  OBVIOUS
<1>2. PICK f : /\ f[0] = s /\ sealDownTo(s, n) = f[1]
               /\ \A i \in 1..1 : f[i] = seal(f[i - 1])
  <2>1. \E f : SealedBy(f, s, n, 1)
    BY <1>1, SealDownIs
  <2> QED
    BY <2>1 DEF SealedBy
<1>3. 1 \in 1..1 /\ 1 - 1 = 0
  OBVIOUS
<1> QED
  BY <1>2, <1>3

\* The text of a field.
LEMMA FieldTextIs ==
  ASSUME NEW n \in Int
  PROVE  FieldText(n) \in Texts
<1>1. tok("key", n) \in TextTokens
  BY PlainToken
<1>2. tok("scalar", n) \in TextTokens
  BY PlainToken
<1> QED
  BY <1>1, <1>2 DEF FieldText, Texts

\* A stack with one empty frame shows nothing.
LEMMA OneShows ==
  ASSUME NEW s \in Stacks, Len(s) = 1, NEW e \in Frames, s[1] = e, e.kind = "map", e.count = 0, e.buf = <<>>
  PROVE  Shows(s, 0, <<>>)
<1>1. <<>> \in Texts /\ <<>> \o <<>> = <<>>
  BY DEF Texts
<1>2. Due(e.kind, e.count) - 0 = 0
  BY DEF Due
<1>3. FrameShows(e, 0, <<>>, <<>>)
  BY <1>1, <1>2, ReadsNothing DEF FrameShows
<1>4. PICK P : P = [i \in 1..1 |-> <<>>]
  OBVIOUS
<1>5. \A i \in 1..1 : i = 1 /\ P[i] = <<>>
  BY <1>4
<1>6. Shown(P, s, 0)
  BY <1>1, <1>3, <1>5 DEF Shown, Before
<1>7. 1 \in 1..1
  OBVIOUS
<1> QED
  BY <1>5, <1>6, <1>7 DEF Shows

\* A stack with one frame shows the contents of the frame.
LEMMA OneFrame ==
  ASSUME NEW s, NEW d, Shows(s, 0, d), Len(s) = 1
  PROVE  s[1] \in Frames /\ Reads(s[1].buf, Due(s[1].kind, s[1].count), d)
<1>1. PICK e \in Frames : e = s[1]
  <2>1. 1 \in 1..Len(s)
    OBVIOUS
  <2> QED
    BY <2>1, ElementOfSeq DEF Shows, Stacks
<1>2. PICK P : Shown(P, s, 0) /\ d = P[1]
  BY DEF Shows
<1>3. FrameShows(e, 0, Before(P, s, 1), d)
  BY <1>1, <1>2 DEF Shown
<1>4. Before(P, s, 1) = <<>>
  BY DEF Before
<1>5. PICK T \in Texts : Reads(e.buf, Due(e.kind, e.count) - 0, T) /\ d = <<>> \o T
  BY <1>3, <1>4 DEF FrameShows
<1>6. d = T
  BY <1>5, ConcatEmptySeq DEF Texts
<1>7. Due(e.kind, e.count) - 0 = Due(e.kind, e.count)
  <2>1. PICK k \in Nat : k = Due(e.kind, e.count)
    BY DEF Due, Frames
  <2> QED
    BY <2>1
<1> QED
  BY <1>1, <1>5, <1>6, <1>7

\* The stack of the envelope after each of the first n fields.
Writes(f, hooks, n) ==
    f = [i \in 0..n |-> IF i = 0 THEN <<emptyFrame("map")>> ELSE envelopeField(f[i - 1], hooks[i])]

\* Such a function exists for every n.
LEMMA WritesExist ==
  ASSUME NEW hooks, NEW n \in Nat
  PROVE  \E f : Writes(f, hooks, n)
<1> DEFINE T == {m \in Nat : \E f : Writes(f, hooks, m)}
<1>1. 0 \in T
  <2>1. Writes([i \in 0..0 |-> <<emptyFrame("map")>>], hooks, 0)
    BY DEF Writes
  <2> QED
    BY <2>1
<1>2. ASSUME NEW m \in Nat, m \in T PROVE m + 1 \in T
  <2>1. PICK f : Writes(f, hooks, m)
    BY <1>2
  <2> DEFINE g == [i \in 0..(m + 1) |-> IF i = m + 1 THEN envelopeField(f[m], hooks[m + 1]) ELSE f[i]]
  <2>2. \A i \in 0..m : /\ g[i] = f[i]
                        /\ f[i] = IF i = 0 THEN <<emptyFrame("map")>>
                                           ELSE envelopeField(f[i - 1], hooks[i])
    BY <2>1 DEF Writes
  <2>3. \A i \in 0..(m + 1) : (i = m + 1 /\ i # 0 /\ i - 1 = m) \/ (i \in 0..m /\ i # m + 1)
    OBVIOUS
  <2>4. \A i \in 0..m : i = 0 \/ i - 1 \in 0..m
    OBVIOUS
  <2>5. \A i \in 0..(m + 1) : g[i] = IF i = 0 THEN <<emptyFrame("map")>>
                                              ELSE envelopeField(g[i - 1], hooks[i])
    <3> TAKE i \in 0..(m + 1)
    <3>1. CASE i \in 0..m
      BY <2>2, <2>4, <3>1
    <3>2. CASE i = m + 1
      <4>1. i # 0 /\ i - 1 = m /\ m \in 0..m
        BY <3>2
      <4>2. g[i] = envelopeField(f[m], hooks[i])
        BY <3>2
      <4> QED
        BY <2>2, <4>1, <4>2
    <3> QED
      BY <2>3, <3>1, <3>2
  <2>6. Writes(g, hooks, m + 1)
    BY <2>5 DEF Writes
  <2> QED
    BY <2>6
<1> HIDE DEF T
<1>3. n \in T
  BY <1>1, <1>2, NatSetInduction
<1> QED
  BY <1>3 DEF T

\* The text of n fields of the envelope.
EnvelopeText(n) == FlattenSeq([i \in 1..n |-> FieldText(0)])

\* It grows by one field at its end.
LEMMA EnvelopeTextIs ==
  ASSUME NEW n \in Nat
  PROVE  /\ EnvelopeText(0) = <<>>
         /\ EnvelopeText(n + 1) = EnvelopeText(n) \o FieldText(0)
<1>1. PICK x \in Texts : x = FieldText(0)
  <2>1. 0 \in Int
    OBVIOUS
  <2> QED
    BY <2>1, FieldTextIs
<1> DEFINE s(m) == [i \in 1..m |-> FieldText(0)]
<1>2. \A m \in Nat : s(m) \in Seq(Texts) /\ Len(s(m)) = m /\ \A i \in 1..m : s(m)[i] = x
  BY <1>1
<1> HIDE DEF s
<1>3. s(0) = <<>>
  BY <1>2, EmptySeq
<1>4. FlattenSeq(s(n + 1)) = FlattenSeq(s(n)) \o x
  <2>1. PICK t, u : t = s(n) /\ u = s(n + 1)
    OBVIOUS
  <2>2. /\ t \in Seq(Seq(TextTokens)) /\ u \in Seq(Seq(TextTokens)) /\ x \in Seq(TextTokens)
        /\ Len(t) = n /\ Len(u) = Len(t) + 1
    BY <1>2, <2>1 DEF Texts
  <2>3. \A i \in 1..n : i \in 1..(n + 1)
    OBVIOUS
  <2>4. (\A i \in 1..Len(t) : u[i] = t[i]) /\ u[Len(t) + 1] = x
    BY <1>2, <2>1, <2>2, <2>3
  <2>5. FlattenSeq(u) = FlattenSeq(t) \o x
    BY <2>2, <2>4, FlattenGrows
  <2> QED
    BY <2>1, <2>5
<1> QED
  BY <1>1, <1>3, <1>4, FlattenEmpty DEF EnvelopeText, s

\* The fields of the envelope read as what the hooks or the fallback wrote.
LEMMA EnvelopeReads ==
  ASSUME NEW n \in Nat, NEW hooks \in [1..n -> Hooks], Len(hooks) = n
  PROVE  /\ writeEnvelope(hooks) \in Frames
         /\ writeEnvelope(hooks).kind = "map"
         /\ Reads(writeEnvelope(hooks).buf, 2 * writeEnvelope(hooks).count, EnvelopeText(n))
<1> DEFINE f == CHOOSE g : Writes(g, hooks, n)
<1>1. Writes(f, hooks, n)
  BY WritesExist
<1>2. writeEnvelope(hooks) = f[n][1]
  BY Zenon DEF writeEnvelope, Writes
<1> HIDE DEF f
<1>3. \A i \in 0..n : f[i] = IF i = 0 THEN <<emptyFrame("map")>> ELSE envelopeField(f[i - 1], hooks[i])
  BY <1>1 DEF Writes
<1> DEFINE Done(m) == Shows(f[m], 0, EnvelopeText(m)) /\ Len(f[m]) = 1 /\ Top(f[m]).kind = "map"
           T == {m \in Nat : m <= n => Done(m)}
<1>4. 0 \in T
  <2>1. PICK e : e = emptyFrame("map")
    OBVIOUS
  <2>2. f[0] = <<e>>
    BY <1>3, <2>1
  <2>3. PICK s : s = <<e>>
    OBVIOUS
  <2>4. e \in Frames /\ e.kind = "map" /\ e.count = 0 /\ e.buf = <<>>
    BY <2>1 DEF emptyFrame, Frames, Kinds, Texts
  <2>5. s \in Stacks /\ Len(s) = 1 /\ s[1] = e /\ Shows(s, 0, <<>>)
    <3>1. s \in Stacks /\ Len(s) = 1 /\ s[1] = e
      BY <2>3, <2>4 DEF Stacks
    <3> QED
      BY <2>4, <3>1, OneShows
  <2>6. Top(s).kind = "map"
    BY <2>4, <2>5 DEF Top
  <2>7. EnvelopeText(0) = <<>>
    BY EnvelopeTextIs
  <2> QED
    BY <2>2, <2>3, <2>5, <2>6, <2>7
<1>5. ASSUME NEW m \in Nat, m \in T PROVE m + 1 \in T
  <2> SUFFICES ASSUME m + 1 <= n PROVE Done(m + 1)
    OBVIOUS
  <2>1. Done(m)
    BY <1>5
  <2>2. PICK s, d : s = f[m] /\ d = EnvelopeText(m)
    OBVIOUS
  <2>3. m + 1 \in 0..n /\ m + 1 # 0 /\ (m + 1) - 1 = m /\ m + 1 \in 1..n
    OBVIOUS
  <2>4. f[m + 1] = envelopeField(s, hooks[m + 1])
    BY <1>3, <2>2, <2>3
  <2>5. hooks[m + 1] \in Hooks
    BY <2>3
  <2>6. f[m + 1] = AppendValue(addKey(s, 0), 0)
    BY <2>4, <2>5, HookedIs DEF envelopeField
  <2>7. Shows(s, 0, d) /\ Top(s).kind = "map" /\ Len(s) = 1
    BY <2>1, <2>2
  <2>8. PICK z \in Int : z = 0
    OBVIOUS
  <2>9. /\ Shows(AppendValue(addKey(s, z), z), 0, d \o FieldText(z))
        /\ Alike(s, AppendValue(addKey(s, z), z), Len(s))
    BY <2>7, FieldAdded
  <2>10. Shows(f[m + 1], 0, d \o FieldText(0)) /\ Alike(s, f[m + 1], Len(s))
    BY <2>6, <2>8, <2>9
  <2>11. Len(f[m + 1]) = 1 /\ Top(f[m + 1]).kind = "map"
    <3>1. Len(s) \in Nat \ {0}
      BY <2>7
    <3> QED
      BY <2>7, <2>10, <3>1, AlikeTop
  <2>12. d \o FieldText(0) = EnvelopeText(m + 1)
    BY <2>2, EnvelopeTextIs
  <2> QED
    BY <2>10, <2>11, <2>12
<1> HIDE DEF T
<1>6. n \in T
  BY <1>4, <1>5, NatSetInduction
<1>7. Done(n)
  BY <1>6 DEF T
<1>8. PICK s : s = f[n]
  OBVIOUS
<1>9. s[1] \in Frames /\ Reads(s[1].buf, Due(s[1].kind, s[1].count), EnvelopeText(n))
  BY <1>7, <1>8, OneFrame
<1>10. s[1].kind = "map"
  BY <1>7, <1>8 DEF Top
<1>11. Due(s[1].kind, s[1].count) = 2 * s[1].count
  BY <1>10 DEF Due
<1> QED
  BY <1>2, <1>8, <1>9, <1>10, <1>11

\* Three elements are the third one behind the first two.
LEMMA OneElementMore ==
  ASSUME NEW S, NEW a \in S, NEW b \in S, NEW c \in S
  PROVE  Append(<<a, b>>, c) = <<a, b, c>>
<1>1. /\ <<a, b>> \in Seq(S) /\ Len(<<a, b>>) = 2 /\ <<a, b>>[1] = a /\ <<a, b>>[2] = b
      /\ <<a, b, c>> \in Seq(S) /\ Len(<<a, b, c>>) = 3
      /\ <<a, b, c>>[1] = a /\ <<a, b, c>>[2] = b /\ <<a, b, c>>[3] = c
  OBVIOUS
<1>2. /\ Append(<<a, b>>, c) \in Seq(S) /\ Len(Append(<<a, b>>, c)) = 3
      /\ Append(<<a, b>>, c)[1] = a /\ Append(<<a, b>>, c)[2] = b /\ Append(<<a, b>>, c)[3] = c
  BY <1>1, AppendProperties
<1>3. PICK p, q : p = Append(<<a, b>>, c) /\ q = <<a, b, c>>
  OBVIOUS
<1>4. /\ p \in Seq(S) /\ q \in Seq(S) /\ Len(p) = 3 /\ Len(q) = 3
      /\ p[1] = q[1] /\ p[2] = q[2] /\ p[3] = q[3]
  BY <1>1, <1>2, <1>3
<1>5. \A i \in 1..3 : p[i] = q[i]
  BY <1>4
<1>6. p = q
  BY <1>4, <1>5, SeqEqual
<1> QED
  BY <1>3, <1>6, Zenon

\* Three elements are three texts of one.
LEMMA ThreeElements ==
  ASSUME NEW a \in TextTokens, NEW b \in TextTokens, NEW c \in TextTokens
  PROVE  <<a, b, c>> = <<a>> \o (<<b>> \o <<c>>)
<1>1. PICK x \in Texts : x = <<a>>
  BY TextOne
<1>2. PICK y \in Texts : y = <<b>>
  BY TextOne
<1>3. PICK z \in Texts : z = <<c>>
  BY TextOne
<1>4. PICK u \in Texts : u = x \o y
  BY TextJoin
<1>5. u = <<a, b>>
  <2>1. Append(x, b) = x \o y
    BY <1>2, TextOne
  <2>2. Append(<<a>>, b) = <<a, b>>
    BY TwoElements
  <2> QED
    BY <1>1, <1>4, <2>1, <2>2
<1>6. u \o z = Append(u, c)
  BY <1>3, TextOne
<1>7. Append(u, c) = <<a, b, c>>
  BY <1>5, OneElementMore
<1>8. Regroups(x, y, z)
  BY TextRegroups
<1> QED
  BY <1>1, <1>2, <1>3, <1>4, <1>6, <1>7, <1>8 DEF Regroups

\* The parts of the payload.
FiveRegroup(a, b, c, x, y) ==
    ((a \o (b \o c)) \o x) \o y = a \o (b \o (c \o (x \o y)))

\* It holds for texts.
LEMMA PayloadParts ==
  ASSUME NEW a \in Texts, NEW b \in Texts, NEW c \in Texts, NEW x \in Texts, NEW y \in Texts
  PROVE  FiveRegroup(a, b, c, x, y)
<1>1. PICK v \in Texts : v = b \o c
  BY TextJoin
<1>2. PICK u \in Texts : u = x \o y
  BY TextJoin
<1>3. PICK w \in Texts : w = a \o v
  BY TextJoin
<1>4. Regroups(w, x, y)
  BY TextRegroups
<1>5. Regroups(a, v, u)
  BY TextRegroups
<1>6. Regroups(b, c, u)
  BY TextRegroups
<1> QED
  BY <1>1, <1>2, <1>3, <1>4, <1>5, <1>6 DEF Regroups, FiveRegroup

\* The parts of the text.
EightRegroup(o, t, m, e, d, c, x, y) ==
    o \o ((t \o (m \o ((e \o (d \o c)) \o x))) \o y)
      = ((((o \o (t \o m)) \o e) \o d) \o c) \o (x \o y)

\* It holds for texts.
LEMMA LoggedParts ==
  ASSUME NEW o \in Texts, NEW t \in Texts, NEW m \in Texts, NEW e \in Texts, NEW d \in Texts,
         NEW c \in Texts, NEW x \in Texts, NEW y \in Texts
  PROVE  EightRegroup(o, t, m, e, d, c, x, y)
<1>1. PICK q \in Texts : q = x \o y
  BY TextJoin
<1>2. PICK h \in Texts : h = d \o c
  BY TextJoin
<1>3. PICK g \in Texts : g = e \o h
  BY TextJoin
<1>4. PICK k \in Texts : k = g \o x
  BY TextJoin
<1>5. PICK j \in Texts : j = m \o k
  BY TextJoin
<1>6. PICK z \in Texts : z = g \o q
  BY TextJoin
<1>7. PICK n \in Texts : n = t \o m
  BY TextJoin
<1>8. PICK p \in Texts : p = o \o n
  BY TextJoin
<1>9. PICK u \in Texts : u = p \o e
  BY TextJoin
<1>10. (t \o j) \o y = t \o (m \o z)
  <2>1. Regroups(t, j, y)
    BY TextRegroups
  <2>2. Regroups(m, k, y)
    BY TextRegroups
  <2>3. Regroups(g, x, y)
    BY TextRegroups
  <2> QED
    BY <1>1, <1>4, <1>5, <1>6, <2>1, <2>2, <2>3 DEF Regroups
<1>11. ((u \o d) \o c) \o q = p \o z
  <2>1. Regroups(u, d, c)
    BY TextRegroups
  <2>2. Regroups(p, e, h)
    BY TextRegroups
  <2>3. Regroups(p, g, q)
    BY TextRegroups
  <2> QED
    BY <1>2, <1>3, <1>6, <1>9, <2>1, <2>2, <2>3 DEF Regroups
<1>12. p \o z = o \o (t \o (m \o z))
  <2>1. Regroups(o, n, z)
    BY TextRegroups
  <2>2. Regroups(t, m, z)
    BY TextRegroups
  <2> QED
    BY <1>7, <1>8, <2>1, <2>2 DEF Regroups
<1> QED
  BY <1>1, <1>2, <1>3, <1>4, <1>5, <1>7, <1>8, <1>9, <1>10, <1>11, <1>12 DEF EightRegroup

\* The parts behind three tokens, and between three and two.
PackedAs(x, y, z, W, X) ==
    (<<x, y, z>> \o W) \o X = <<x>> \o (<<y>> \o (<<z>> \o (W \o X)))

LoggedAs(o, t, p, x, y, E, d, C) ==
    <<o>> \o ((<<t>> \o (<<p>> \o ((E \o (d \o C)) \o <<x>>))) \o <<y>>)
      = (((<<o, t, p>> \o E) \o d) \o C) \o <<x, y>>

\* A payload is its five parts, each in front of the rest.
LEMMA PackedIs ==
  ASSUME NEW x \in TextTokens, NEW y \in TextTokens, NEW z \in TextTokens,
         NEW W \in Texts, NEW X \in Texts
  PROVE  PackedAs(x, y, z, W, X)
<1>1. PICK a \in Texts : a = <<x>>
  BY TextOne
<1>2. PICK b \in Texts : b = <<y>>
  BY TextOne
<1>3. PICK c \in Texts : c = <<z>>
  BY TextOne
<1>4. <<x, y, z>> = <<x>> \o (<<y>> \o <<z>>)
  BY ThreeElements
<1>5. FiveRegroup(a, b, c, W, X)
  BY PayloadParts
<1> QED
  BY <1>1, <1>2, <1>3, <1>4, <1>5 DEF FiveRegroup, PackedAs

\* The logged text is the envelope's and the fields inside the brackets.
LEMMA LoggedIs ==
  ASSUME NEW o \in TextTokens, NEW t \in TextTokens, NEW p \in TextTokens,
         NEW x \in TextTokens, NEW y \in TextTokens,
         NEW E \in Texts, NEW d \in Texts, NEW C \in Texts
  PROVE  LoggedAs(o, t, p, x, y, E, d, C)
<1>1. PICK a \in Texts : a = <<o>>
  BY TextOne
<1>2. PICK b \in Texts : b = <<t>>
  BY TextOne
<1>3. PICK c \in Texts : c = <<p>>
  BY TextOne
<1>4. PICK u \in Texts : u = <<x>>
  BY TextOne
<1>5. PICK v \in Texts : v = <<y>>
  BY TextOne
<1>6. <<o, t, p>> = <<o>> \o (<<t>> \o <<p>>)
  BY ThreeElements
<1>7. <<x, y>> = u \o v
  <2>1. Append(<<x>>, y) = <<x, y>>
    BY TwoElements
  <2>2. Append(u, y) = u \o v
    BY <1>5, TextOne
  <2> QED
    BY <1>4, <2>1, <2>2
<1>8. EightRegroup(a, b, c, E, d, C, u, v)
  BY LoggedParts
<1> QED
  BY <1>1, <1>2, <1>3, <1>4, <1>5, <1>6, <1>7, <1>8 DEF EightRegroup, LoggedAs

\* The payload, and the text that the application logged.
Packed(env, final) ==
    <<header("array", 2), tok("time", 0), header("map", env.count + final[1].count)>>
      \o env.buf \o final[1].buf

Logged(n, d, m) ==
    <<Open("array"), tok("time", 0), Open("map")>>
      \o EnvelopeText(n) \o d \o Closers(m) \o <<Close("map"), Close("array")>>

\* One value from the end of the stack.
LEMMA RecordReads ==
  ASSUME NEW s, NEW d, Shows(s, 0, d), NEW m \in Nat, Len(s) = 1 + m,
         \A i \in 1..Len(s) : s[i].kind = "map",
         NEW n \in Nat, NEW hooks \in [1..n -> Hooks], Len(hooks) = n
  PROVE  Reads(Packed(writeEnvelope(hooks), sealDownTo(s, 1)), 1, Logged(n, d, m))
<1>1. PICK final, env : final = sealDownTo(s, 1) /\ env = writeEnvelope(hooks)
  OBVIOUS
<1>2. PICK F : F = d \o Closers(m)
  OBVIOUS
<1>3. Shows(final, 0, F) /\ Alike(s, final, 1)
  <2>1. 1 \in Nat \ {0} /\ \A i \in (1 + 1)..Len(s) : s[i].kind = "map"
    OBVIOUS
  <2>2. /\ Shows(sealDownTo(s, 1), 0, d \o Closers(m))
        /\ Alike(s, sealDownTo(s, 1), 1)
    BY <2>1, SealDownShows
  <2> QED
    BY <1>1, <1>2, <2>2
<1>4. Len(final) = 1 /\ final[1].kind = "map"
  <2>1. 1 \in 1..1 /\ 1 \in 1..Len(s)
    OBVIOUS
  <2> QED
    BY <1>3, <2>1 DEF Alike
<1>5. final[1] \in Frames /\ Reads(final[1].buf, Due(final[1].kind, final[1].count), F)
  BY <1>3, <1>4, OneFrame
<1>6. PICK b \in Nat : \E X : b = final[1].count /\ X = final[1].buf /\ Reads(X, 2 * b, F)
  BY <1>4, <1>5 DEF Frames, Due
<1>7. PICK X : b = final[1].count /\ X = final[1].buf /\ Reads(X, 2 * b, F)
  BY <1>6
<1>8. PICK E : E = EnvelopeText(n)
  OBVIOUS
<1>9. PICK a \in Nat : \E W : a = env.count /\ W = env.buf /\ Reads(W, 2 * a, E)
  <2>1. env \in Frames /\ Reads(env.buf, 2 * env.count, EnvelopeText(n))
    BY <1>1, EnvelopeReads
  <2> QED
    BY <1>8, <2>1 DEF Frames
<1>10. PICK W : a = env.count /\ W = env.buf /\ Reads(W, 2 * a, E)
  BY <1>9
<1>11. PICK c \in Nat : c = a + b
  OBVIOUS
<1>12. Reads(W \o X, Due("map", c), E \o F)
  <2>1. Reads(W \o X, 2 * a + 2 * b, E \o F)
    BY <1>7, <1>10, ReadsJoin
  <2>2. Due("map", c) = 2 * a + 2 * b
    BY <1>11 DEF Due
  <2> QED
    BY <2>1, <2>2
<1>13. Reads(<<header("map", c)>> \o (W \o X), 1, Within("map", E \o F))
  <2>1. "map" \in Kinds
    BY DEF Kinds
  <2> QED
    BY <1>12, <2>1, ReadsContainer
<1>14. Reads(<<tok("time", 0)>>, 1, <<tok("time", 0)>>)
  <2>1. 0 \in Int
    OBVIOUS
  <2> QED
    BY <2>1, PlainToken
<1>15. PICK B, T : /\ B = <<tok("time", 0)>> \o (<<header("map", c)>> \o (W \o X))
                   /\ T = <<tok("time", 0)>> \o Within("map", E \o F)
  OBVIOUS
<1>16. Reads(B, 2, T)
  <2>1. Reads(B, 1 + 1, T)
    BY <1>13, <1>14, <1>15, ReadsJoin
  <2>2. 1 + 1 = 2
    OBVIOUS
  <2> QED
    BY <2>1, <2>2
<1>17. Reads(<<header("array", 2)>> \o B, 1, Within("array", T))
  <2>1. "array" \in Kinds /\ 2 \in Nat /\ Due("array", 2) = 2
    BY DEF Kinds, Due
  <2>2. Reads(B, Due("array", 2), T)
    BY <1>16, <2>1
  <2> QED
    BY <2>1, <2>2, ReadsContainer
<1>18. Packed(env, final) = <<header("array", 2)>> \o B
  <2>1. PICK x, y, z : x = header("array", 2) /\ y = tok("time", 0) /\ z = header("map", c)
    OBVIOUS
  <2>2. x \in TextTokens /\ y \in TextTokens /\ z \in TextTokens
    BY <2>1 DEF header, tok, TextTokens, Marks
  <2>3. W \in Texts /\ X \in Texts
    BY <1>7, <1>10 DEF Reads
  <2>4. PackedAs(x, y, z, W, X)
    BY <2>2, <2>3, PackedIs
  <2>5. Packed(env, final) = (<<x, y, z>> \o W) \o X
    BY <1>7, <1>10, <1>11, <2>1 DEF Packed
  <2> QED
    BY <1>15, <2>1, <2>4, <2>5 DEF PackedAs
<1>19. Within("array", T) = Logged(n, d, m)
  <2>1. PICK o, t, p : o = Open("array") /\ t = tok("time", 0) /\ p = Open("map")
    OBVIOUS
  <2>2. PICK x, y : x = Close("map") /\ y = Close("array")
    OBVIOUS
  <2>3. o \in TextTokens /\ p \in TextTokens /\ x \in TextTokens /\ y \in TextTokens
    BY <2>1, <2>2, Brackets
  <2>4. t \in TextTokens
    BY <2>1 DEF tok, TextTokens, Marks
  <2>5. PICK C \in Texts : C = Closers(m)
    BY ClosersIs
  <2>6. d \in Texts
    BY ShowsText
  <2>7. E \in Texts
    BY <1>10 DEF Reads
  <2>8. LoggedAs(o, t, p, x, y, E, d, C)
    BY <2>3, <2>4, <2>6, <2>7, LoggedIs
  <2>9. Within("array", T) = <<o>> \o ((<<t>> \o (<<p>> \o ((E \o (d \o C)) \o <<x>>))) \o <<y>>)
    BY <1>2, <1>15, <2>1, <2>2, <2>5 DEF Within
  <2>10. Logged(n, d, m) = (((<<o, t, p>> \o E) \o d) \o C) \o <<x, y>>
    BY <1>8, <2>1, <2>2, <2>5 DEF Logged
  <2> QED
    BY <2>8, <2>9, <2>10 DEF LoggedAs
<1> QED
  BY <1>1, <1>17, <1>18, <1>19

\* The reader at the start, and behind the record.
Unread     == [todo |-> <<[kind |-> "end", left |-> 1]>>, text |-> <<>>]
AllRead(T) == [todo |-> <<[kind |-> "end", left |-> 0]>>, text |-> T]

\* A payload that reads as one value leaves nothing to come and nothing unread.
LEMMA ReadsOne ==
  ASSUME NEW B, NEW T, Reads(B, 1, T)
  PROVE  ReadAll(Unread, B) = AllRead(T)
<1>1. PICK q : q = <<[kind |-> "end", left |-> 1]>>
  OBVIOUS
<1>2. q \in Seq(TodoItem) /\ Len(q) = 1 /\ q[1] = [kind |-> "end", left |-> 1]
  BY <1>1 DEF TodoItem
<1>3. PICK r : r = Unread
  OBVIOUS
<1>4. r = [todo |-> q, text |-> <<>>]
  BY <1>1, <1>3 DEF Unread
<1>5. r.todo = q /\ r.text = <<>> /\ <<>> \in Texts
  BY <1>4 DEF Texts
<1>6. r \in Readers
  BY <1>2, <1>4, <1>5 DEF Readers, Todos, TodoItem
<1>7. Left(r) = 1
  <2>1. Last(q) = [kind |-> "end", left |-> 1]
    BY <1>2 DEF Last
  <2>2. Last(q).left = 1
    BY <2>1
  <2> QED
    BY <1>5, <2>2 DEF Left
<1>8. Settled(r) /\ Left(r) >= 1
  <2>1. Len(r.todo) = 1
    BY <1>2, <1>5
  <2>2. Len(r.todo) > 0
    BY <2>1
  <2>3. Left(r) >= 1
    BY <1>7
  <2> QED
    BY <1>6, <2>1, <2>2, <2>3 DEF Settled
<1>9. ReadAll(r, B) = Unwind[Took(r, 1, T)]
  BY <1>6, <1>8 DEF Reads
<1>10. PICK a : a = Took(r, 1, T)
  OBVIOUS
<1>11. T \in Texts
  BY DEF Reads
<1>12. a \in Readers /\ Len(a.todo) = 1
  <2>1. 1 \in Int /\ Len(r.todo) > 0
    BY <1>2, <1>5
  <2> QED
    BY <1>2, <1>5, <1>6, <1>10, <1>11, <2>1, TookIs
<1>13. Unwind[a] = a
  <2>1. Len(a.todo) <= 1
    BY <1>12
  <2>2. Unwind[a] = IF Len(a.todo) <= 1 \/ Left(a) # 0 THEN a ELSE Unwind[Closed(a)]
    BY <1>12, UnwindIs
  <2> QED
    BY <2>1, <2>2
<1>14. a = AllRead(T)
  <2>1. <<>> \o T = T
    BY <1>11, ConcatEmptySeq DEF Texts
  <2>2. [q EXCEPT ![1].left = @ - 1] = <<[kind |-> "end", left |-> 0]>>
    BY <1>1
  <2>3. a = [todo |-> [q EXCEPT ![1].left = @ - 1], text |-> <<>> \o T]
    BY <1>2, <1>5, <1>10 DEF Took
  <2> QED
    BY <2>1, <2>2, <2>3 DEF AllRead
<1> QED
  BY <1>3, <1>9, <1>10, <1>13, <1>14

-----------------------------------------------------------------------------
(***************************************************************************)
(* The shape of the stack: level 0 is the record, level j the j-th call    *)
(* under way; each has its own frame and the namespaces opened in it.      *)
(***************************************************************************)
CallsUnderWay == Seq([kind : Kinds, depth : Nat \ {0}])

KindAt(c, j)     == IF j = 0 THEN "map" ELSE c[j].kind
Bottom(c, j)     == IF j = 0 THEN 1 ELSE c[j].depth + 1
Ceiling(s, c, j) == IF j = Len(c) THEN Len(s) ELSE c[j + 1].depth

Level(s, c, z, j) ==
    /\ KindAt(c, j) = "array" => z[j + 1] = 0
    /\ Ceiling(s, c, j) = Bottom(c, j) + z[j + 1]
    /\ \A i \in Bottom(c, j)..Ceiling(s, c, j) : s[i].kind = KindAt(c, j)

Shape(s, c, z) ==
    /\ Len(s) \in Nat
    /\ c \in CallsUnderWay
    /\ z \in Seq(Nat) /\ Len(z) = Len(c) + 1
    /\ \A j \in 0..Len(c) : Level(s, c, z, j)
    /\ \A j, k \in 0..Len(c) : j < k => Ceiling(s, c, j) < Bottom(c, k)

\* A level begins in the stack, and its namespaces are on top of it.
LEMMA LevelIs ==
  ASSUME NEW s, NEW c, NEW z, Shape(s, c, z), NEW j \in 0..Len(c)
  PROVE  /\ Len(c) \in Nat
         /\ Bottom(c, j) \in Nat \ {0} /\ z[j + 1] \in Nat /\ KindAt(c, j) \in Kinds
         /\ Ceiling(s, c, j) \in Nat \ {0} /\ Bottom(c, j) <= Ceiling(s, c, j)
<1>1. Len(c) \in Nat /\ Len(z) = Len(c) + 1
  BY LenProperties DEF Shape, CallsUnderWay
<1>2. z[j + 1] \in Nat
  <2>1. j + 1 \in 1..Len(z)
    BY <1>1
  <2> QED
    BY <2>1, ElementOfSeq DEF Shape
<1>3. Bottom(c, j) \in Nat \ {0} /\ KindAt(c, j) \in Kinds
  <2>1. CASE j = 0
    BY <2>1 DEF Bottom, KindAt, Kinds
  <2>2. CASE j # 0
    <3>1. j \in 1..Len(c)
      BY <1>1, <2>2
    <3>2. c[j] \in [kind : Kinds, depth : Nat \ {0}]
      BY <3>1, ElementOfSeq DEF Shape, CallsUnderWay
    <3> QED
      BY <2>2, <3>2 DEF Bottom, KindAt
  <2> QED
    BY <2>1, <2>2
<1>4. Ceiling(s, c, j) = Bottom(c, j) + z[j + 1]
  BY DEF Shape, Level
<1> QED
  BY <1>1, <1>2, <1>3, <1>4

\* The top frame is one of the innermost call.
LEMMA TopKind ==
  ASSUME NEW s, NEW c, NEW z, Shape(s, c, z)
  PROVE  /\ Len(s) \in Nat \ {0} /\ Len(c) \in Nat
         /\ Top(s).kind = KindAt(c, Len(c))
         /\ c # <<>> => KindAt(c, Len(c)) = Last(c).kind
         /\ c = <<>> => KindAt(c, Len(c)) = "map"
<1>1. PICK n \in Nat : n = Len(c) /\ n \in 0..Len(c)
  BY LenProperties DEF Shape, CallsUnderWay
<1>2. /\ Ceiling(s, c, n) \in Nat \ {0} /\ Bottom(c, n) \in Nat /\ Bottom(c, n) <= Ceiling(s, c, n)
  BY <1>1, LevelIs
<1>3. Ceiling(s, c, n) = Len(s)
  BY <1>1 DEF Ceiling
<1>4. Len(s) \in Bottom(c, n)..Ceiling(s, c, n)
  BY <1>2, <1>3
<1>5. s[Len(s)].kind = KindAt(c, n)
  BY <1>1, <1>4 DEF Shape, Level
<1>6. c # <<>> => n # 0
  BY <1>1, EmptySeq DEF Shape, CallsUnderWay
<1>7. c = <<>> => n = 0
  BY <1>1
<1> QED
  BY <1>1, <1>2, <1>3, <1>5, <1>6, <1>7 DEF Top, KindAt, Last

\* Every level is in the stack.
LEMMA LevelInStack ==
  ASSUME NEW s, NEW c, NEW z, Shape(s, c, z), NEW j \in 0..Len(c)
  PROVE  Ceiling(s, c, j) <= Len(s) /\ (j # Len(c) => Ceiling(s, c, j) < Len(s))
<1>1. PICK n \in Nat : n = Len(c) /\ n \in 0..Len(c)
  BY LenProperties DEF Shape, CallsUnderWay
<1>2. Ceiling(s, c, n) = Len(s) /\ Len(s) \in Nat
  BY <1>1 DEF Ceiling, Shape
<1>3. Bottom(c, n) \in Nat /\ Bottom(c, n) <= Ceiling(s, c, n)
  BY <1>1, LevelIs
<1>4. Ceiling(s, c, j) \in Nat
  BY LevelIs
<1>5. CASE j = n
  BY <1>1, <1>2, <1>5
<1>6. CASE j # n
  <2>1. j < n
    BY <1>1, <1>6
  <2>2. Ceiling(s, c, j) < Bottom(c, n)
    BY <1>1, <2>1 DEF Shape
  <2> QED
    BY <1>2, <1>3, <1>4, <2>2
<1> QED
  BY <1>5, <1>6

\* A level stays when the kinds up to its ceiling do.
LEMMA LevelStays ==
  ASSUME NEW s, NEW c, NEW z, Shape(s, c, z), NEW j \in 0..Len(c),
         NEW t, NEW e, NEW y,
         KindAt(e, j) = KindAt(c, j), Bottom(e, j) = Bottom(c, j), y[j + 1] = z[j + 1],
         Ceiling(t, e, j) = Ceiling(s, c, j),
         \A i \in 1..Ceiling(s, c, j) : t[i].kind = s[i].kind
  PROVE  Level(t, e, y, j)
<1>1. Level(s, c, z, j)
  BY DEF Shape
<1>2. Bottom(c, j) \in Nat \ {0} /\ Ceiling(s, c, j) \in Nat
  BY LevelIs
<1>3. \A i \in Bottom(c, j)..Ceiling(s, c, j) : i \in 1..Ceiling(s, c, j)
  BY <1>2
<1> QED
  BY <1>1, <1>3 DEF Level

\* The shape depends on the kinds.
LEMMA ShapeAlike ==
  ASSUME NEW s, NEW c, NEW z, Shape(s, c, z), NEW t, Alike(s, t, Len(s))
  PROVE  Shape(t, c, z)
<1>1. Len(t) = Len(s) /\ Len(s) \in Nat /\ \A i \in 1..Len(s) : t[i].kind = s[i].kind
  BY DEF Alike, Shape
<1>2. \A j \in 0..Len(c) : Ceiling(t, c, j) = Ceiling(s, c, j)
  BY <1>1 DEF Ceiling
<1>3. ASSUME NEW j \in 0..Len(c) PROVE Level(t, c, z, j)
  <2>1. Ceiling(s, c, j) <= Len(s) /\ Ceiling(s, c, j) \in Nat
    BY LevelIs, LevelInStack
  <2>2. \A i \in 1..Ceiling(s, c, j) : i \in 1..Len(s)
    BY <1>1, <2>1
  <2>3. \A i \in 1..Ceiling(s, c, j) : t[i].kind = s[i].kind
    BY <1>1, <2>2
  <2> QED
    BY <1>2, <2>3, LevelStays
<1> QED
  BY <1>1, <1>2, <1>3 DEF Shape

\* A namespace of the innermost call.
LEMMA ShapeSpace ==
  ASSUME NEW s, NEW c, NEW z, Shape(s, c, z), KindAt(c, Len(c)) = "map", NEW t, Atop(s, t, "map")
  PROVE  Shape(t, c, [z EXCEPT ![Len(z)] = @ + 1])
<1>1. PICK n \in Nat : n = Len(c) /\ n \in 0..Len(c)
  BY LenProperties DEF Shape, CallsUnderWay
<1>2. PICK h \in Nat : h = Len(s)
  BY DEF Shape
<1>3. Len(t) = h + 1 /\ (\A i \in 1..h : t[i].kind = s[i].kind) /\ t[h + 1].kind = "map"
  BY <1>2 DEF Atop
<1>4. z \in Seq(Nat) /\ Len(z) = n + 1 /\ n + 1 \in 1..Len(z) /\ z[n + 1] \in Nat
  BY <1>1, LevelIs DEF Shape
<1>5. PICK y : y = [z EXCEPT ![Len(z)] = @ + 1]
  OBVIOUS
<1>6. /\ y \in Seq(Nat) /\ Len(y) = n + 1
      /\ \A i \in 1..(n + 1) : y[i] = IF i = n + 1 THEN z[n + 1] + 1 ELSE z[i]
  <2>1. PICK m \in Nat : m = z[n + 1] + 1
    BY <1>4
  <2>2. y = [z EXCEPT ![n + 1] = m]
    BY <1>4, <1>5, <2>1
  <2> QED
    BY <1>4, <2>1, <2>2, ExceptSeq
<1>7. \A j \in 0..n : j # n => Ceiling(t, c, j) = Ceiling(s, c, j)
  BY <1>1 DEF Ceiling
<1>8. Ceiling(t, c, n) = h + 1 /\ Ceiling(s, c, n) = h
  BY <1>1, <1>2, <1>3 DEF Ceiling
<1>9. ASSUME NEW j \in 0..n PROVE Level(t, c, y, j)
  <2>1. CASE j # n
    <3>1. Ceiling(s, c, j) <= h /\ Ceiling(s, c, j) \in Nat
      BY <1>1, <1>2, LevelIs, LevelInStack
    <3>2. \A i \in 1..Ceiling(s, c, j) : i \in 1..h
      BY <3>1
    <3>3. \A i \in 1..Ceiling(s, c, j) : t[i].kind = s[i].kind
      BY <1>3, <3>2
    <3>4. y[j + 1] = z[j + 1]
      <4>1. j + 1 \in 1..(n + 1) /\ j + 1 # n + 1
        BY <2>1
      <4> QED
        BY <1>6, <4>1
    <3> QED
      BY <1>1, <1>7, <2>1, <3>3, <3>4, LevelStays
  <2>2. CASE j = n
    <3>1. Level(s, c, z, n)
      BY <1>1 DEF Shape
    <3>2. y[n + 1] = z[n + 1] + 1
      BY <1>4, <1>6
    <3>3. PICK b \in Nat \ {0} : b = Bottom(c, n)
      BY <1>1, LevelIs
    <3>4. h = b + z[n + 1] /\ \A i \in b..h : s[i].kind = "map"
      BY <1>1, <1>8, <3>1, <3>3 DEF Level
    <3>5. h + 1 = b + y[n + 1]
      BY <1>4, <3>2, <3>4
    <3>6. ASSUME NEW i \in b..(h + 1) PROVE t[i].kind = "map"
      <4>1. CASE i = h + 1
        BY <1>3, <4>1
      <4>2. CASE i # h + 1
        <5>1. i \in b..h /\ i \in 1..h
          BY <4>2
        <5> QED
          BY <1>3, <3>4, <5>1
      <4> QED
        BY <4>1, <4>2
    <3>7. KindAt(c, n) = "map"
      BY <1>1
    <3> QED
      BY <1>8, <2>2, <3>3, <3>5, <3>6, <3>7 DEF Level
  <2> QED
    BY <2>1, <2>2
<1>10. ASSUME NEW j \in 0..n, NEW k \in 0..n, j < k PROVE Ceiling(t, c, j) < Bottom(c, k)
  <2>1. j # n
    BY <1>10
  <2>2. Ceiling(s, c, j) < Bottom(c, k)
    BY <1>1, <1>10 DEF Shape
  <2> QED
    BY <1>7, <2>1, <2>2
<1>11. Len(t) \in Nat
  BY <1>3
<1>12. c \in CallsUnderWay
  BY DEF Shape
<1>13. Shape(t, c, y)
  BY <1>1, <1>6, <1>9, <1>10, <1>11, <1>12 DEF Shape
<1> QED
  BY <1>5, <1>13

\* A call that starts.
LEMMA ShapeBegin ==
  ASSUME NEW s, NEW c, NEW z, Shape(s, c, z), NEW kind \in Kinds, NEW t, Atop(s, t, kind)
  PROVE  Shape(t, Append(c, [kind |-> kind, depth |-> Len(s)]), Append(z, 0))
<1>1. PICK n \in Nat : n = Len(c)
  BY LenProperties DEF Shape, CallsUnderWay
<1>2. PICK h \in Nat \ {0} : h = Len(s)
  BY TopKind
<1>3. Len(t) = h + 1 /\ (\A i \in 1..h : t[i].kind = s[i].kind) /\ t[h + 1].kind = kind
  BY <1>2 DEF Atop
<1>4. PICK x : x = [kind |-> kind, depth |-> h]
  OBVIOUS
<1>5. x \in [kind : Kinds, depth : Nat \ {0}] /\ x.kind = kind /\ x.depth = h
  BY <1>4
<1>6. PICK e : e = Append(c, x)
  OBVIOUS
<1>7. /\ e \in CallsUnderWay /\ Len(e) = n + 1 /\ e[n + 1] = x
      /\ \A j \in 1..n : e[j] = c[j]
  BY <1>1, <1>5, <1>6, AppendProperties DEF Shape, CallsUnderWay
<1>8. PICK y : y = Append(z, 0)
  OBVIOUS
<1>9. /\ y \in Seq(Nat) /\ Len(y) = n + 2 /\ y[n + 2] = 0
      /\ \A j \in 1..(n + 1) : y[j] = z[j]
  <2>1. z \in Seq(Nat) /\ Len(z) = n + 1 /\ 0 \in Nat /\ (n + 1) + 1 = n + 2
    BY <1>1 DEF Shape
  <2> QED
    BY <1>8, <2>1, AppendProperties
<1>10. ASSUME NEW j \in 0..n
       PROVE  /\ KindAt(e, j) = KindAt(c, j) /\ Bottom(e, j) = Bottom(c, j)
              /\ Ceiling(t, e, j) = Ceiling(s, c, j) /\ y[j + 1] = z[j + 1]
  <2>1. j + 1 \in 1..(n + 1) /\ j # n + 1
    OBVIOUS
  <2>2. KindAt(e, j) = KindAt(c, j) /\ Bottom(e, j) = Bottom(c, j)
    <3>1. j # 0 => j \in 1..n
      OBVIOUS
    <3> QED
      BY <1>7, <3>1 DEF KindAt, Bottom
  <2>3. CASE j = n
    BY <1>1, <1>2, <1>5, <1>7, <1>9, <2>1, <2>2, <2>3 DEF Ceiling
  <2>4. CASE j # n
    <3>1. j + 1 \in 1..n
      BY <2>4
    <3> QED
      BY <1>1, <1>7, <1>9, <2>1, <2>2, <2>4, <3>1 DEF Ceiling
  <2> QED
    BY <2>3, <2>4
<1>11. /\ KindAt(e, n + 1) = kind /\ Bottom(e, n + 1) = h + 1
       /\ Ceiling(t, e, n + 1) = h + 1 /\ y[(n + 1) + 1] = 0
  <2>1. n + 1 # 0 /\ (n + 1) + 1 = n + 2
    OBVIOUS
  <2> QED
    BY <1>3, <1>5, <1>7, <1>9, <2>1 DEF KindAt, Bottom, Ceiling
<1>12. \A j \in 0..n : Ceiling(s, c, j) <= h /\ Ceiling(s, c, j) \in Nat
  BY <1>1, <1>2, LevelIs, LevelInStack
<1>13. ASSUME NEW j \in 0..n PROVE Level(t, e, y, j)
  <2>1. \A i \in 1..Ceiling(s, c, j) : i \in 1..h
    BY <1>12
  <2>2. \A i \in 1..Ceiling(s, c, j) : t[i].kind = s[i].kind
    BY <1>3, <2>1
  <2> QED
    BY <1>1, <1>10, <2>2, LevelStays
<1>14. Level(t, e, y, n + 1)
  <2>1. h + 1 = h + 1 + 0 /\ \A i \in (h + 1)..(h + 1) : i = h + 1
    OBVIOUS
  <2> QED
    BY <1>3, <1>11, <2>1 DEF Level
<1>15. \A j \in 0..(n + 1) : j \in 0..n \/ j = n + 1
  OBVIOUS
<1>16. ASSUME NEW j \in 0..(n + 1), NEW k \in 0..(n + 1), j < k PROVE Ceiling(t, e, j) < Bottom(e, k)
  <2>1. j \in 0..n
    BY <1>16
  <2>2. CASE k = n + 1
    <3>1. Ceiling(s, c, j) < h + 1
      BY <1>12, <2>1
    <3> QED
      BY <1>10, <1>11, <2>1, <2>2, <3>1
  <2>3. CASE k \in 0..n
    <3>1. Ceiling(s, c, j) < Bottom(c, k)
      BY <1>1, <1>16, <2>1, <2>3 DEF Shape
    <3> QED
      BY <1>10, <2>1, <2>3, <3>1
  <2> QED
    BY <1>15, <2>2, <2>3
<1>17. Len(t) \in Nat /\ n + 2 = (n + 1) + 1
  BY <1>3
<1>18. Shape(t, e, y)
  BY <1>7, <1>9, <1>13, <1>14, <1>15, <1>16, <1>17 DEF Shape
<1> QED
  BY <1>2, <1>4, <1>6, <1>8, <1>18

\* The innermost call, on top of the container it was made in.
LEMMA LastLevel ==
  ASSUME NEW s, NEW c, NEW z, Shape(s, c, z), NEW n \in Nat, Len(c) = n + 1
  PROVE  /\ Last(c) = c[n + 1] /\ Last(c).depth \in Nat \ {0} /\ Last(c).kind \in Kinds
         /\ Last(z) \in Nat /\ Len(s) = (Last(c).depth + 1) + Last(z)
         /\ \A i \in (Last(c).depth + 1)..Len(s) : s[i].kind = Last(c).kind
         /\ Last(c).kind = "array" => Last(z) = 0
<1>1. n + 1 \in 1..Len(c) /\ n + 1 \in 0..Len(c) /\ n + 1 # 0
  OBVIOUS
<1>2. Last(c) = c[n + 1] /\ Last(z) = z[(n + 1) + 1]
  BY DEF Last, Shape
<1>3. c[n + 1] \in [kind : Kinds, depth : Nat \ {0}]
  BY <1>1, ElementOfSeq DEF Shape, CallsUnderWay
<1>4. z[(n + 1) + 1] \in Nat
  BY <1>1, LevelIs
<1>5. Level(s, c, z, n + 1)
  BY <1>1 DEF Shape
<1>6. /\ KindAt(c, n + 1) = c[n + 1].kind /\ Bottom(c, n + 1) = c[n + 1].depth + 1
      /\ Ceiling(s, c, n + 1) = Len(s)
  BY <1>1 DEF KindAt, Bottom, Ceiling
<1> QED
  BY <1>2, <1>3, <1>4, <1>5, <1>6 DEF Level

\* A call that returns.
LEMMA ShapeEnd ==
  ASSUME NEW s, NEW c, NEW z, Shape(s, c, z), NEW n \in Nat, Len(c) = n + 1,
         NEW t, Alike(s, t, Last(c).depth)
  PROVE  Shape(t, Front(c), Front(z))
<1>1. PICK h \in Nat \ {0} : h = Last(c).depth /\ h = c[n + 1].depth
  BY LastLevel
<1>2. Len(t) = h /\ \A i \in 1..h : t[i].kind = s[i].kind
  BY <1>1 DEF Alike
<1>3. PICK e : e = Front(c)
  OBVIOUS
<1>4. e \in CallsUnderWay /\ Len(e) = n /\ \A j \in 1..n : e[j] = c[j]
  BY <1>3, FrontIs DEF Shape, CallsUnderWay
<1>5. PICK y : y = Front(z)
  OBVIOUS
<1>6. y \in Seq(Nat) /\ Len(y) = n + 1 /\ \A j \in 1..(n + 1) : y[j] = z[j]
  <2>1. PICK m \in Nat : m = n + 1
    OBVIOUS
  <2>2. z \in Seq(Nat) /\ Len(z) = m + 1
    BY <2>1 DEF Shape
  <2> QED
    BY <1>5, <2>1, <2>2, FrontIs
<1>7. ASSUME NEW j \in 0..n
      PROVE  /\ KindAt(e, j) = KindAt(c, j) /\ Bottom(e, j) = Bottom(c, j)
             /\ Ceiling(t, e, j) = Ceiling(s, c, j) /\ y[j + 1] = z[j + 1]
             /\ j \in 0..Len(c)
  <2>1. j + 1 \in 1..(n + 1) /\ j # n + 1 /\ j \in 0..Len(c) /\ j # Len(c)
    OBVIOUS
  <2>2. KindAt(e, j) = KindAt(c, j) /\ Bottom(e, j) = Bottom(c, j)
    <3>1. j # 0 => j \in 1..n
      OBVIOUS
    <3> QED
      BY <1>4, <3>1 DEF KindAt, Bottom
  <2>3. CASE j = n
    BY <1>1, <1>2, <1>4, <1>6, <2>1, <2>2, <2>3 DEF Ceiling
  <2>4. CASE j # n
    <3>1. j + 1 \in 1..n
      BY <2>4
    <3> QED
      BY <1>4, <1>6, <2>1, <2>2, <2>4, <3>1 DEF Ceiling
  <2> QED
    BY <2>3, <2>4
<1>8. ASSUME NEW j \in 0..n PROVE Level(t, e, y, j)
  <2>1. j \in 0..Len(c) /\ n \in 0..n /\ n \in 0..Len(c)
    BY <1>7
  <2>2. Ceiling(t, e, n) = h
    BY <1>2, <1>4 DEF Ceiling
  <2>3. Ceiling(s, c, n) = h
    BY <1>7, <2>1, <2>2
  <2>4. Ceiling(s, c, j) <= h
    <3>1. CASE j = n
      BY <2>3, <3>1
    <3>2. CASE j # n
      <4>1. j < n
        BY <3>2
      <4>2. Ceiling(s, c, j) < Bottom(c, n)
        BY <2>1, <4>1 DEF Shape
      <4>3. /\ Bottom(c, n) \in Nat /\ Bottom(c, n) <= Ceiling(s, c, n)
        BY <2>1, LevelIs
      <4>4. Ceiling(s, c, j) \in Nat
        BY <2>1, LevelIs
      <4> QED
        BY <2>3, <4>2, <4>3, <4>4
    <3> QED
      BY <3>1, <3>2
  <2>5. Ceiling(s, c, j) \in Nat
    BY <2>1, LevelIs
  <2>6. \A i \in 1..Ceiling(s, c, j) : i \in 1..h
    BY <2>4, <2>5
  <2>7. \A i \in 1..Ceiling(s, c, j) : t[i].kind = s[i].kind
    BY <1>2, <2>6
  <2> QED
    BY <1>7, <2>7, LevelStays
<1>9. ASSUME NEW j \in 0..n, NEW k \in 0..n, j < k PROVE Ceiling(t, e, j) < Bottom(e, k)
  <2>1. Ceiling(s, c, j) < Bottom(c, k)
    BY <1>7, <1>9 DEF Shape
  <2> QED
    BY <1>7, <2>1
<1>10. Len(t) \in Nat
  BY <1>2
<1>11. Shape(t, e, y)
  BY <1>4, <1>6, <1>8, <1>9, <1>10 DEF Shape
<1> QED
  BY <1>3, <1>5, <1>11

-----------------------------------------------------------------------------
\* The stack shows what was logged, and has the frames of the calls under way.
Built(s, d, c, z) == Shows(s, 0, d) /\ Shape(s, c, z)

RecInv ==
    /\ ops \in Nat
    /\ phase # "done" => Built(stack, doc, calls, spaces)
    /\ phase = "done" => calls = <<>>
    /\ MsgpackReadsBack

\* A step that adds to the record.
Adds == phase # "done" /\ phase' = phase /\ ops' \in Nat /\ Built(stack', doc', calls', spaces')

\* At the start nothing is logged.
LEMMA RecStarts ==
  ASSUME RecInit
  PROVE  RecInv
<1>1. PICK e : e = emptyFrame("map")
  OBVIOUS
<1>2. e \in Frames /\ e.kind = "map" /\ e.count = 0 /\ e.buf = <<>>
  BY <1>1 DEF emptyFrame, Frames, Kinds, Texts
<1>3. stack = <<e>> /\ calls = <<>> /\ phase = "with" /\ ops = 0 /\ spaces = <<0>> /\ doc = <<>>
  BY <1>1 DEF RecInit
<1>4. stack \in Stacks /\ Len(stack) = 1 /\ stack[1] = e
  BY <1>2, <1>3 DEF Stacks
<1>5. Shows(stack, 0, doc)
  BY <1>2, <1>3, <1>4, OneShows
<1>6. Shape(stack, calls, spaces)
  <2>1. Len(calls) = 0 /\ calls \in CallsUnderWay
    BY <1>3 DEF CallsUnderWay
  <2>2. spaces \in Seq(Nat) /\ Len(spaces) = 1 /\ spaces[1] = 0
    BY <1>3
  <2>3. KindAt(calls, 0) = "map" /\ Bottom(calls, 0) = 1 /\ Ceiling(stack, calls, 0) = 1
    BY <1>4, <2>1 DEF KindAt, Bottom, Ceiling
  <2>4. Level(stack, calls, spaces, 0)
    <3>1. 0 + 1 = 1 /\ 1 = 1 + 0 /\ \A i \in 1..1 : i = 1
      OBVIOUS
    <3>2. spaces[0 + 1] = 0
      BY <2>2, <3>1
    <3> QED
      BY <1>2, <1>4, <2>3, <3>1, <3>2 DEF Level
  <2>5. Len(calls) + 1 = 1 /\ \A j \in 0..0 : j = 0
    BY <2>1
  <2>6. \A j \in 0..Len(calls) : Level(stack, calls, spaces, j)
    BY <2>1, <2>4, <2>5
  <2>7. \A j, k \in 0..Len(calls) : ~(j < k)
    BY <2>1
  <2> QED
    BY <1>4, <2>1, <2>2, <2>5, <2>6, <2>7 DEF Shape
<1> QED
  BY <1>3, <1>5, <1>6 DEF RecInv, Built, MsgpackReadsBack

\* The encoder of a map and that of an array.
LEMMA InMapIs ==
  ASSUME RecInv, InMap
  PROVE  /\ phase # "done" /\ Shows(stack, 0, doc) /\ Shape(stack, calls, spaces)
         /\ Top(stack).kind = "map" /\ KindAt(calls, Len(calls)) = "map"
<1>1. phase # "done" /\ (calls # <<>> => Last(calls).kind = "map")
  BY DEF InMap
<1>2. Shows(stack, 0, doc) /\ Shape(stack, calls, spaces)
  BY <1>1 DEF RecInv, Built
<1>3. /\ Top(stack).kind = KindAt(calls, Len(calls))
      /\ calls # <<>> => KindAt(calls, Len(calls)) = Last(calls).kind
      /\ calls = <<>> => KindAt(calls, Len(calls)) = "map"
  BY <1>2, TopKind
<1> QED
  BY <1>1, <1>2, <1>3

\* In an array's encoder the top frame is an array, which awaits no value.
LEMMA InArrayIs ==
  ASSUME RecInv, InArray
  PROVE  /\ phase # "done" /\ Shows(stack, Awaits(stack), doc) /\ Shape(stack, calls, spaces)
<1>1. phase # "done" /\ calls # <<>> /\ Last(calls).kind = "array"
  BY DEF InArray
<1>2. Shows(stack, 0, doc) /\ Shape(stack, calls, spaces)
  BY <1>1 DEF RecInv, Built
<1>3. Top(stack).kind = "array"
  <2>1. /\ Top(stack).kind = KindAt(calls, Len(calls))
        /\ calls # <<>> => KindAt(calls, Len(calls)) = Last(calls).kind
    BY <1>2, TopKind
  <2> QED
    BY <1>1, <2>1
<1>4. Awaits(stack) = 0
  BY <1>3 DEF Awaits
<1> QED
  BY <1>1, <1>2, <1>4

\* One call more.
LEMMA CountIs ==
  ASSUME RecInv, Count
  PROVE  ops' \in Nat /\ ops' \in Int /\ -ops' \in Int
<1>1. ops \in Nat /\ ops' = ops + 1
  BY DEF RecInv, Count
<1>2. ops' \in Nat
  BY <1>1
<1> QED
  BY <1>2

\* What zap reports, or nothing.
LEMMA Reported ==
  ASSUME NEW s, NEW d, Shows(s, 0, d), NEW whole \in BOOLEAN, whole => Top(s).kind = "map",
         -ops' \in Int
  PROVE  /\ Shows(Report(s, whole), 0, d \o ReportText(whole))
         /\ Alike(s, Report(s, whole), Len(s))
<1>1. CASE whole
  <2>1. PICK n \in Int : n = -ops'
    OBVIOUS
  <2>2. /\ Shows(AppendValue(addKey(s, n), n), 0, d \o FieldText(n))
        /\ Alike(s, AppendValue(addKey(s, n), n), Len(s))
    BY <1>1, FieldAdded
  <2> QED
    BY <1>1, <2>1, <2>2 DEF Report, ReportText
<1>2. CASE ~whole
  <2>1. d \in Texts
    BY ShowsText
  <2>2. d \o <<>> = d
    BY <2>1, ConcatEmptySeq DEF Texts
  <2>3. Alike(s, s, Len(s))
    BY DEF Alike
  <2> QED
    BY <1>2, <2>2, <2>3 DEF Report, ReportText
<1> QED
  BY <1>1, <1>2

-----------------------------------------------------------------------------
\* AddString and the like, whether the hook writes or stays silent.
LEMMA AddScalarAdds ==
  ASSUME RecInv, AddScalar
  PROVE  Adds
<1>1. InMap /\ Count /\ phase' = phase /\ calls' = calls /\ spaces' = spaces
      /\ doc' = doc \o FieldText(ops')
  BY DEF AddScalar
<1>2. /\ phase # "done" /\ Shows(stack, 0, doc) /\ Shape(stack, calls, spaces)
      /\ Top(stack).kind = "map"
  BY <1>1, InMapIs
<1>3. PICK n \in Int : n = ops' /\ ops' \in Nat
  BY <1>1, CountIs
<1>4. stack' = AppendValue(addKey(stack, n), n)
  <2>1. PICK hook \in Hooks : stack' = hooked(addKey(stack, ops'), hook, ops')
    BY DEF AddScalar
  <2> QED
    BY <1>3, <2>1, HookedIs
<1>5. Shows(stack', 0, doc') /\ Alike(stack, stack', Len(stack))
  <2>1. /\ Shows(AppendValue(addKey(stack, n), n), 0, doc \o FieldText(n))
        /\ Alike(stack, AppendValue(addKey(stack, n), n), Len(stack))
    BY <1>2, FieldAdded
  <2> QED
    BY <1>1, <1>3, <1>4, <2>1
<1>6. Shape(stack', calls', spaces')
  BY <1>1, <1>2, <1>5, ShapeAlike
<1> QED
  BY <1>1, <1>2, <1>3, <1>5, <1>6 DEF Adds, Built

\* OpenNamespace: a key, and a map that the call under way will close.
LEMMA OpenNamespaceAdds ==
  ASSUME RecInv, OpenNamespace
  PROVE  Adds
<1>1. /\ InMap /\ Count /\ phase' = phase /\ calls' = calls
      /\ spaces' = [spaces EXCEPT ![Len(spaces)] = @ + 1]
      /\ stack' = Push(addKey(stack, ops'), "map")
      /\ doc' = doc \o <<tok("key", ops'), Open("map")>>
  BY DEF OpenNamespace
<1>2. /\ phase # "done" /\ Shows(stack, 0, doc) /\ Shape(stack, calls, spaces)
      /\ Top(stack).kind = "map" /\ KindAt(calls, Len(calls)) = "map"
  BY <1>1, InMapIs
<1>3. PICK n \in Int : n = ops' /\ ops' \in Nat
  BY <1>1, CountIs
<1>4. PICK s, d : s = addKey(stack, n) /\ d = doc \o <<tok("key", n)>>
  OBVIOUS
<1>5. Shows(s, 1, d) /\ Alike(stack, s, Len(stack))
  BY <1>2, <1>4, KeyAdded
<1>6. /\ Shows(Push(s, "map"), 0, d \o <<Open("map")>>)
      /\ Len(Push(s, "map")) = Len(s) + 1
      /\ \A i \in 1..Len(s) : Push(s, "map")[i] = s[i]
      /\ Push(s, "map")[Len(s) + 1].kind = "map"
  <2>1. "map" \in Kinds
    BY DEF Kinds
  <2> QED
    BY <1>5, <2>1, PushShows
<1>7. Atop(stack, stack', "map")
  BY <1>1, <1>3, <1>4, <1>5, <1>6 DEF Atop, Alike
<1>8. d \o <<Open("map")>> = doc'
  BY <1>1, <1>2, <1>3, <1>4, KeyOpened
<1>9. Shape(stack', calls', spaces')
  <2>1. Shape(stack', calls, [spaces EXCEPT ![Len(spaces)] = @ + 1])
    BY <1>2, <1>7, ShapeSpace
  <2> QED
    BY <1>1, <2>1
<1> QED
  BY <1>1, <1>2, <1>3, <1>4, <1>6, <1>8, <1>9 DEF Adds, Built

\* AddReflected of a value that cannot be encoded.
LEMMA AddReflectedErrorAdds ==
  ASSUME RecInv, AddReflectedError
  PROVE  Adds
<1>1. /\ InMap /\ Count /\ phase' = phase /\ calls' = calls /\ spaces' = spaces
      /\ stack' = Report(stack, calls = <<>>)
      /\ doc' = doc \o ReportText(calls = <<>>)
  BY DEF AddReflectedError
<1>2. /\ phase # "done" /\ Shows(stack, 0, doc) /\ Shape(stack, calls, spaces)
      /\ Top(stack).kind = "map"
  BY <1>1, InMapIs
<1>3. ops' \in Nat /\ -ops' \in Int
  BY <1>1, CountIs
<1>4. PICK whole \in BOOLEAN : whole = (calls = <<>>)
  OBVIOUS
<1>5. Shows(Report(stack, whole), 0, doc \o ReportText(whole))
      /\ Alike(stack, Report(stack, whole), Len(stack))
  BY <1>2, <1>3, Reported
<1>6. Shows(stack', 0, doc') /\ Alike(stack, stack', Len(stack))
  BY <1>1, <1>4, <1>5
<1>7. Shape(stack', calls', spaces')
  BY <1>1, <1>2, <1>6, ShapeAlike
<1> QED
  BY <1>1, <1>2, <1>3, <1>6, <1>7 DEF Adds, Built

\* A container that is begun.
LEMMA BeginAdds ==
  ASSUME NEW s, NEW text, NEW kind \in Kinds, Shows(s, Awaits(s), doc \o text),
         Shape(stack, calls, spaces), Alike(stack, s, Len(stack)), Begin(s, kind, text)
  PROVE  Built(stack', doc', calls', spaces')
<1>1. /\ stack' = OpenContainer(s, kind)
      /\ calls' = Append(calls, [kind |-> kind, depth |-> Len(s)])
      /\ spaces' = Append(spaces, 0)
      /\ doc' = (doc \o text) \o <<Open(kind)>>
  BY DEF Begin
<1>2. PICK d : d = doc \o text
  OBVIOUS
<1>3. Shows(stack', 0, doc') /\ Atop(s, stack', kind)
  BY <1>1, <1>2, ContainerOpened
<1>4. Shape(s, calls, spaces)
  BY ShapeAlike
<1>5. Shape(stack', calls', spaces')
  <2>1. \A t : Atop(s, t, kind) => Shape(t, Append(calls, [kind |-> kind, depth |-> Len(s)]), Append(spaces, 0))
    BY <1>4, ShapeBegin
  <2> QED
    BY <1>1, <1>3, <2>1
<1> QED
  BY <1>3, <1>5 DEF Built

\* AddObject and AddArray, at the depth cap and below it.
LEMMA AddContainerAdds ==
  ASSUME RecInv, NEW kind \in {"map", "array"}, AddContainer(kind)
  PROVE  Adds
<1>1. InMap /\ Count /\ phase' = phase
  BY DEF AddContainer
<1>2. /\ phase # "done" /\ Shows(stack, 0, doc) /\ Shape(stack, calls, spaces)
      /\ Top(stack).kind = "map"
  BY <1>1, InMapIs
<1>3. ops' \in Nat /\ ops' \in Int /\ -ops' \in Int
  BY <1>1, CountIs
<1>4. CASE /\ stack' = Report(stack, calls = <<>>)
           /\ doc' = doc \o ReportText(calls = <<>>)
           /\ UNCHANGED <<calls, spaces>>
  <2>1. PICK whole \in BOOLEAN : whole = (calls = <<>>)
    OBVIOUS
  <2>2. Shows(Report(stack, whole), 0, doc \o ReportText(whole))
        /\ Alike(stack, Report(stack, whole), Len(stack))
    BY <1>2, <1>3, Reported
  <2>3. Shows(stack', 0, doc') /\ Alike(stack, stack', Len(stack))
    BY <1>4, <2>1, <2>2
  <2>4. Shape(stack', calls', spaces')
    BY <1>2, <1>4, <2>3, ShapeAlike
  <2> QED
    BY <1>1, <1>2, <1>3, <2>3, <2>4 DEF Adds, Built
<1>5. CASE Begin(addKey(stack, ops'), kind, <<tok("key", ops')>>)
  <2>1. PICK n \in Int : n = ops'
    BY <1>3
  <2>2. Shows(addKey(stack, n), 1, doc \o <<tok("key", n)>>) /\ Alike(stack, addKey(stack, n), Len(stack))
    BY <1>2, KeyAdded
  <2>3. PICK s, text : s = addKey(stack, n) /\ text = <<tok("key", n)>>
    OBVIOUS
  <2>4. Top(s).kind = "map"
    <3>1. Len(stack) \in Nat \ {0}
      BY <1>2, TopIs
    <3> QED
      BY <1>2, <2>2, <2>3, <3>1, AlikeTop
  <2>5. Shows(s, Awaits(s), doc \o text)
    BY <2>2, <2>3, <2>4 DEF Awaits
  <2>6. Begin(s, kind, text) /\ kind \in Kinds /\ Alike(stack, s, Len(stack))
    BY <1>5, <2>1, <2>2, <2>3 DEF Kinds
  <2>7. Built(stack', doc', calls', spaces')
    BY <1>2, <2>5, <2>6, BeginAdds
  <2> QED
    BY <1>1, <1>2, <1>3, <2>7 DEF Adds
<1> QED
  BY <1>4, <1>5 DEF AddContainer

\* The Append methods of an array.
LEMMA AppendScalarAdds ==
  ASSUME RecInv, AppendScalar
  PROVE  Adds
<1>1. /\ InArray /\ Count /\ phase' = phase /\ calls' = calls /\ spaces' = spaces
      /\ doc' = Append(doc, tok("scalar", ops'))
  BY DEF AppendScalar
<1>2. phase # "done" /\ Shows(stack, Awaits(stack), doc) /\ Shape(stack, calls, spaces)
  BY <1>1, InArrayIs
<1>3. PICK n \in Int : n = ops' /\ ops' \in Nat
  BY <1>1, CountIs
<1>4. stack' = AppendValue(stack, n)
  <2>1. PICK hook \in Hooks : stack' = hooked(stack, hook, ops')
    BY DEF AppendScalar
  <2> QED
    BY <1>3, <2>1, HookedIs
<1>5. doc' = doc \o <<tok("scalar", n)>>
  <2>1. PICK d \in Texts : d = doc
    BY <1>2, ShowsText
  <2>2. PICK x \in TextTokens : x = tok("scalar", n)
    BY PlainToken
  <2>3. Append(d, x) = d \o <<x>>
    BY TextOne
  <2> QED
    BY <1>1, <1>3, <2>1, <2>2, <2>3
<1>6. Shows(stack', 0, doc') /\ Alike(stack, stack', Len(stack))
  <2>1. Shows(AppendValue(stack, n), 0, doc \o <<tok("scalar", n)>>)
        /\ Alike(stack, AppendValue(stack, n), Len(stack))
    BY <1>2, ValueAdded
  <2> QED
    BY <1>4, <1>5, <2>1
<1>7. Shape(stack', calls', spaces')
  BY <1>1, <1>2, <1>6, ShapeAlike
<1> QED
  BY <1>1, <1>2, <1>3, <1>6, <1>7 DEF Adds, Built

\* AppendObject and AppendArray, at the depth cap and below it.
LEMMA AppendContainerAdds ==
  ASSUME RecInv, NEW kind \in {"map", "array"}, AppendContainer(kind)
  PROVE  Adds
<1>1. InArray /\ Count /\ phase' = phase
  BY DEF AppendContainer
<1>2. phase # "done" /\ Shows(stack, Awaits(stack), doc) /\ Shape(stack, calls, spaces)
  BY <1>1, InArrayIs
<1>3. ops' \in Nat
  BY <1>1, CountIs
<1>4. CASE UNCHANGED <<stack, calls, spaces, doc>>
  <2>1. Built(stack, doc, calls, spaces)
    BY <1>2 DEF RecInv
  <2> QED
    BY <1>1, <1>2, <1>3, <1>4, <2>1 DEF Adds
<1>5. CASE Begin(stack, kind, <<>>)
  <2>1. doc \in Texts
    BY <1>2, ShowsText
  <2>2. PICK text : text = <<>>
    OBVIOUS
  <2>3. doc \o text = doc
    BY <2>1, <2>2, ConcatEmptySeq DEF Texts
  <2>4. Shows(stack, Awaits(stack), doc \o text) /\ Begin(stack, kind, text)
    BY <1>2, <1>5, <2>2, <2>3
  <2>5. Alike(stack, stack, Len(stack)) /\ kind \in Kinds
    BY DEF Alike, Kinds
  <2>6. Built(stack', doc', calls', spaces')
    BY <1>2, <2>4, <2>5, BeginAdds
  <2> QED
    BY <1>1, <1>2, <1>3, <2>6 DEF Adds
<1> QED
  BY <1>4, <1>5 DEF AppendContainer

\* A marshaler that returns closes its namespaces and its container, and zap
\* may report its error.
LEMMA MarshalerReturnsAdds ==
  ASSUME RecInv, NEW err \in BOOLEAN, MarshalerReturns(err)
  PROVE  Adds
<1>1. /\ calls # <<>> /\ calls' = Front(calls) /\ spaces' = Front(spaces) /\ ops' = ops
      /\ phase' = phase
      /\ stack' = Report(sealDownTo(sealDownTo(stack, Last(calls).depth + 1), Last(calls).depth),
                         err /\ Len(calls) = 1)
      /\ doc' = ((doc \o Closers(Last(spaces))) \o <<Close(Last(calls).kind)>>)
                   \o ReportText(err /\ Len(calls) = 1)
  BY DEF MarshalerReturns
<1>2. phase # "done" /\ ops' \in Nat /\ -ops' \in Int
  BY <1>1 DEF RecInv
<1>3. Shows(stack, 0, doc) /\ Shape(stack, calls, spaces)
  BY <1>2 DEF RecInv, Built
<1>4. PICK n \in Nat : Len(calls) = n + 1
  <2>1. calls \in CallsUnderWay
    BY <1>3 DEF Shape
  <2>2. Len(calls) \in Nat /\ Len(calls) # 0
    BY <1>1, <2>1, EmptySeq, LenProperties DEF CallsUnderWay
  <2>3. Len(calls) - 1 \in Nat /\ Len(calls) = (Len(calls) - 1) + 1
    BY <2>2
  <2> QED
    BY <2>3
<1>5. PICK h \in Nat \ {0} : h = Last(calls).depth
  BY <1>3, <1>4, LastLevel
<1>6. PICK m \in Nat : m = Last(spaces)
  BY <1>3, <1>4, LastLevel
<1>7. PICK k \in Kinds : k = Last(calls).kind
  BY <1>3, <1>4, LastLevel
<1>8. /\ Len(stack) = (h + 1) + m
      /\ \A i \in (h + 1)..Len(stack) : stack[i].kind = k
      /\ k = "array" => m = 0
  BY <1>3, <1>4, <1>5, <1>6, <1>7, LastLevel
<1>9. PICK b \in Nat \ {0} : b = h + 1
  OBVIOUS
<1>10. PICK t, d : t = sealDownTo(stack, b) /\ d = doc \o Closers(m)
  OBVIOUS
<1>11. Shows(t, 0, d) /\ Alike(stack, t, b)
  <2>1. Len(stack) = b + m
    BY <1>8, <1>9
  <2>2. ASSUME NEW i \in (b + 1)..Len(stack) PROVE stack[i].kind = "map"
    <3>1. m # 0 /\ i \in (h + 1)..Len(stack)
      BY <1>9, <2>1
    <3> QED
      BY <1>8, <3>1 DEF Kinds
  <2>3. Shows(sealDownTo(stack, b), 0, doc \o Closers(m)) /\ Alike(stack, sealDownTo(stack, b), b)
    BY <1>3, <2>1, <2>2, SealDownShows
  <2> QED
    BY <1>10, <2>3
<1>12. Len(t) = h + 1 /\ t[h + 1].kind = k
  <2>1. b \in 1..b /\ b \in (h + 1)..Len(stack)
    BY <1>8, <1>9
  <2> QED
    BY <1>8, <1>9, <1>11, <2>1 DEF Alike
<1>13. PICK u, e : u = sealDownTo(t, h) /\ e = d \o <<Close(k)>>
  OBVIOUS
<1>14. Shows(u, 0, e) /\ Alike(t, u, h)
  <2>1. Shows(seal(t), 0, d \o <<Close(t[h + 1].kind)>>) /\ Alike(t, seal(t), h)
    BY <1>11, <1>12, SealShows
  <2>2. sealDownTo(t, h) = seal(t)
    BY <1>12, SealOnce
  <2> QED
    BY <1>12, <1>13, <2>1, <2>2
<1>15. Alike(stack, u, h)
  <2>1. h <= b /\ h \in Nat /\ b \in Nat
    BY <1>9
  <2> QED
    BY <1>11, <1>14, <2>1, AlikeTwice
<1>16. Shape(u, calls', spaces')
  <2>1. Shape(u, Front(calls), Front(spaces))
    BY <1>3, <1>4, <1>5, <1>15, ShapeEnd
  <2> QED
    BY <1>1, <2>1
<1>17. PICK whole \in BOOLEAN : whole = (err /\ Len(calls) = 1)
  OBVIOUS
<1>18. whole => Top(u).kind = "map"
  <2> SUFFICES ASSUME whole PROVE Top(u).kind = "map"
    OBVIOUS
  <2>1. n = 0
    <3>1. Len(calls) = 1
      BY <1>17, Zenon
    <3>2. n + 1 = 1
      BY <1>4, <3>1, Zenon
    <3> QED
      BY <3>2
  <2>2. PICK c : c = calls'
    OBVIOUS
  <2>3. c \in CallsUnderWay /\ Len(c) = 0
    <3>1. calls \in CallsUnderWay
      BY <1>3 DEF Shape
    <3>2. Front(calls) \in CallsUnderWay /\ Len(Front(calls)) = n
      BY <1>4, <3>1, FrontIs DEF CallsUnderWay
    <3> QED
      BY <1>1, <2>1, <2>2, <3>2
  <2>4. c = <<>>
    BY <2>3, EmptySeq DEF CallsUnderWay
  <2>5. PICK z : z = spaces'
    OBVIOUS
  <2>6. Shape(u, c, z)
    BY <1>16, <2>2, <2>5
  <2>7. Top(u).kind = KindAt(c, Len(c)) /\ (c = <<>> => KindAt(c, Len(c)) = "map")
    BY <2>6, TopKind
  <2> QED
    BY <2>4, <2>7
<1>19. /\ Shows(Report(u, whole), 0, e \o ReportText(whole))
       /\ Alike(u, Report(u, whole), Len(u))
  BY <1>2, <1>14, <1>18, Reported
<1>20. stack' = Report(u, whole) /\ doc' = e \o ReportText(whole)
  BY <1>1, <1>5, <1>6, <1>7, <1>9, <1>10, <1>13, <1>17
<1>21. Shape(stack', calls', spaces')
  BY <1>16, <1>19, <1>20, ShapeAlike
<1> QED
  BY <1>1, <1>2, <1>19, <1>20, <1>21 DEF Adds, Built

\* EncodeEntry starts: nothing is added.
LEMMA EncodeEntryAdds ==
  ASSUME RecInv, EncodeEntry
  PROVE  RecInv'
<1>1. phase = "with" /\ phase' = "entry" /\ UNCHANGED <<stack, calls, ops, out, spaces, doc>>
  BY DEF EncodeEntry
<1>2. ops \in Nat /\ Built(stack, doc, calls, spaces)
  BY <1>1 DEF RecInv
<1>3. ops' \in Nat /\ Built(stack', doc', calls', spaces')
  BY <1>1, <1>2
<1> QED
  BY <1>1, <1>3 DEF RecInv, MsgpackReadsBack

\* The payload is assembled: the reader makes of it what was logged.
LEMMA AssembleReads ==
  ASSUME RecInv, Assemble
  PROVE  RecInv'
<1>1. phase = "entry" /\ calls = <<>> /\ phase' = "done" /\ calls' = calls /\ ops' = ops
  BY DEF Assemble
<1>2. ops \in Nat /\ Shows(stack, 0, doc) /\ Shape(stack, calls, spaces)
  BY <1>1 DEF RecInv, Built
<1>3. PICK n \in 0..MaxEnvelope : \E hooks \in [1..n -> Hooks] :
         /\ out' = Packed(writeEnvelope(hooks), sealDownTo(stack, 1))
         /\ doc' = Logged(n, doc, spaces[1])
  BY DEF Assemble, Packed, Logged, EnvelopeText
<1>4. PICK hooks \in [1..n -> Hooks] :
         /\ out' = Packed(writeEnvelope(hooks), sealDownTo(stack, 1))
         /\ doc' = Logged(n, doc, spaces[1])
  BY <1>3
<1>5. n \in Nat
  BY MsgpackBounds
<1>6. Len(hooks) = n
  BY <1>5
<1>7. Len(calls) = 0
  BY <1>1
<1>8. 0 \in 0..Len(calls) /\ 0 = Len(calls) /\ 0 + 1 = 1
  BY <1>7
<1>9. Level(stack, calls, spaces, 0)
  BY <1>2, <1>8 DEF Shape
<1>10. KindAt(calls, 0) = "map" /\ Bottom(calls, 0) = 1 /\ Ceiling(stack, calls, 0) = Len(stack)
  BY <1>8 DEF KindAt, Bottom, Ceiling
<1>11. PICK m \in Nat : m = spaces[1]
  <2>1. spaces[0 + 1] \in Nat
    BY <1>2, <1>8, LevelIs
  <2> QED
    BY <1>8, <2>1
<1>12. Len(stack) = 1 + m /\ \A i \in 1..Len(stack) : stack[i].kind = "map"
  BY <1>8, <1>9, <1>10, <1>11 DEF Level
<1>13. PICK s, d, B, T : /\ s = stack /\ d = doc
                         /\ B = Packed(writeEnvelope(hooks), sealDownTo(stack, 1))
                         /\ T = Logged(n, doc, m)
  OBVIOUS
<1>14. Reads(Packed(writeEnvelope(hooks), sealDownTo(s, 1)), 1, Logged(n, d, m))
  BY <1>2, <1>5, <1>6, <1>12, <1>13, RecordReads
<1>15. Reads(B, 1, T)
  BY <1>13, <1>14
<1>16. ReadAll(Unread, B) = AllRead(T)
  BY <1>15, ReadsOne
<1>17. out' = B /\ doc' = T
  BY <1>4, <1>11, <1>13
<1>18. ReadAll([todo |-> <<[kind |-> "end", left |-> 1]>>, text |-> <<>>], B)
         = [todo |-> <<[kind |-> "end", left |-> 0]>>, text |-> T]
  BY <1>16 DEF Unread, AllRead
<1>19. MsgpackReadsBack'
  BY <1>17, <1>18 DEF MsgpackReadsBack
<1> QED
  BY <1>1, <1>2, <1>19 DEF RecInv

\* A step that adds to the record keeps the invariant.
LEMMA AddsKeeps ==
  ASSUME Adds
  PROVE  RecInv'
  BY DEF Adds, RecInv, MsgpackReadsBack

\* Every step keeps the invariant.
LEMMA RecStep ==
  ASSUME RecInv, [RecNext]_recVars
  PROVE  RecInv'
<1>1. CASE UNCHANGED recVars
  BY <1>1 DEF recVars, RecInv, MsgpackReadsBack
<1>2. CASE AddScalar
  BY <1>2, AddScalarAdds, AddsKeeps
<1>3. CASE OpenNamespace
  BY <1>3, OpenNamespaceAdds, AddsKeeps
<1>4. CASE AddReflectedError
  BY <1>4, AddReflectedErrorAdds, AddsKeeps
<1>5. CASE AppendScalar
  BY <1>5, AppendScalarAdds, AddsKeeps
<1>6. ASSUME NEW kind \in {"map", "array"}, AddContainer(kind) PROVE RecInv'
  BY <1>6, AddContainerAdds, AddsKeeps
<1>7. ASSUME NEW kind \in {"map", "array"}, AppendContainer(kind) PROVE RecInv'
  BY <1>7, AppendContainerAdds, AddsKeeps
<1>8. ASSUME NEW err \in BOOLEAN, MarshalerReturns(err) PROVE RecInv'
  BY <1>8, MarshalerReturnsAdds, AddsKeeps
<1>9. CASE EncodeEntry
  BY <1>9, EncodeEntryAdds
<1>10. CASE Assemble
  BY <1>10, AssembleReads
<1> QED
  BY <1>1, <1>2, <1>3, <1>4, <1>5, <1>6, <1>7, <1>8, <1>9, <1>10 DEF RecNext

\* Whatever calls zap and the application's marshalers make, with namespaces left
\* open, hooks that stay silent, marshalers that fail half way, values that
\* cannot be encoded and containers above the depth cap: the payload is one
\* msgpack value, every count in it is right, and read back it is what was
\* logged, in order and in its container (addKey, OpenNamespace, AppendObject,
\* AppendArray, sealDownTo, writeEnvelope, EncodeEntry).
THEOREM RecordReadsBack == RecSpec => []MsgpackReadsBack
<1>1. RecInit => RecInv
  BY RecStarts
<1>2. RecInv /\ [RecNext]_recVars => RecInv'
  BY RecStep
<1>3. RecInv => MsgpackReadsBack
  BY DEF RecInv
<1> QED
  BY <1>1, <1>2, <1>3, PTL DEF RecSpec

=============================================================================
