----------------------------- MODULE OtlpProto -----------------------------
(***************************************************************************)
(* The protobuf wire format as the OTLP exporter writes and reads it       *)
(* (src/otlp/proto.go), on sequences of bytes.                             *)
(***************************************************************************)
EXTENDS Integers, SequencesExt

CONSTANT LenBits   \* numbers are below 2^LenBits

ASSUME LenBitsAssumption == LenBits \in Nat \ {0}

-----------------------------------------------------------------------------
(***************************************************************************)
(* Writing.                                                                *)
(***************************************************************************)

\* bits.Len64: the number of bits of v.
Len64(v) == Cardinality({n \in 0..(LenBits - 1) : 2^n <= v})

\* v | 1 makes zero one bit long.
uvarintLen(v) == (Len64(IF v = 0 THEN 1 ELSE v) + 6) \div 7

\* Seven bits to a byte, low bits first, 128 added to all bytes but the last.
appendUvarint[v \in Nat] ==
    IF v >= 128 THEN <<(v % 128) + 128>> \o appendUvarint[v \div 128] ELSE <<v>>

\* A signed number in two's complement.
appendVarint(v) == appendUvarint[v % 2^LenBits]

\* int64 of an unsigned number: the same bits.
signed(v) == IF v >= 2^(LenBits - 1) THEN v - 2^LenBits ELSE v

\* A length-delimited field.
appendTaggedBytes(tag, body) == <<tag>> \o appendUvarint[Len(body)] \o body

\* n bytes of v, the lowest first: the fixed64 and fixed32 fields.
LittleEndian[v \in Nat, n \in Nat] ==
    IF n = 0 THEN <<>> ELSE <<v % 256>> \o LittleEndian[v \div 256, n - 1]

-----------------------------------------------------------------------------
(***************************************************************************)
(* Reading.                                                                *)
(***************************************************************************)
From(b, n) == SubSeq(b, n + 1, Len(b))

MaxVarintLen == 10

\* binary.Uvarint: the length of the number at the start of b, 0 when b ends
\* inside it, and the number, which may overflow.
varintEnd[b \in Seq(0..255)] ==
    LET ends == {i \in 1..Min({Len(b), MaxVarintLen}) : b[i] < 128}
    IN  IF ends = {} THEN 0 ELSE Min(ends)

Uvarint[b \in Seq(0..255)] ==
    IF varintEnd[b] = 0 THEN 0
    ELSE IF b[1] < 128 THEN b[1] ELSE (b[1] - 128) + 128 * Uvarint[Tail(b)]

UvarintLen[b \in Seq(0..255)] == IF Uvarint[b] < 2^LenBits THEN varintEnd[b] ELSE 0

\* How many bytes the field at the start of b takes behind its tag: -1 when
\* that cannot be told.
fieldLen(b, wt) ==
    CASE wt = 0 -> IF UvarintLen[b] = 0 THEN -1 ELSE UvarintLen[b]
      [] wt = 1 -> 8
      [] wt = 2 -> IF UvarintLen[b] = 0 \/ Len(b) - UvarintLen[b] < Uvarint[b]
                     THEN -1 ELSE UvarintLen[b] + Uvarint[b]
      [] wt = 5 -> 4
      [] OTHER  -> -1

Field == [num : Int, wt : 0..7, v : Nat, body : Seq(0..255)]

unreadable == [num |-> -1, wt |-> 0, v |-> 0, body |-> <<>>]

\* Where the reader gives up.
stuck == [field |-> unreadable, rest |-> <<>>]

\* The first field of a message and what follows it: behind its tag it takes
\* n bytes.
split(b, tag, n) ==
    IF n < 0 \/ Len(b) < n THEN stuck
    ELSE [field |-> [num  |-> tag \div 8,
                     wt   |-> tag % 8,
                     v    |-> IF tag % 8 = 0 THEN Uvarint[b] ELSE 0,
                     body |-> CASE tag % 8 = 0 -> <<>>
                                [] tag % 8 = 2 -> SubSeq(b, UvarintLen[b] + 1, n)
                                [] OTHER       -> SubSeq(b, 1, n)],
          rest  |-> From(b, n)]

behindTag(b, tag) == split(b, tag, fieldLen(b, tag % 8))

cut[b \in Seq(0..255)] ==
    IF UvarintLen[b] = 0 THEN stuck ELSE behindTag(From(b, UvarintLen[b]), Uvarint[b])

\* The loop that findField, findVarint and forEachLenField share: the fields
\* of message b in order, up to its end or to where the loop gives up.
follow(f, c) == <<c.field>> \o f[c.rest]

scan[b \in Seq(0..255)] == IF b = <<>> THEN <<>> ELSE follow(scan, cut[b])

\* errTruncatedResponse
truncated(b) == Contains(scan[b], unreadable)

\* Which of the fields of a message forEachLenField passes on.
forEachLenField(fs, num) == {i \in 1..Len(fs) : fs[i].num = num /\ fs[i].wt = 2}

\* The last field with the given number and wire type, as a sequence of at
\* most one; nothing when truncated.
lastField(fs, num, wt) ==
    LET at == {i \in 1..Len(fs) : fs[i].num = num /\ fs[i].wt = wt}
    IN  IF at = {} \/ Contains(fs, unreadable) THEN <<>> ELSE <<fs[Max(at)]>>

\* findField, as a sequence of at most one, and findVarint.
findField(b, num) ==
    LET found == lastField(scan[b], num, 2)
    IN  IF found = <<>> THEN <<>> ELSE <<found[1].body>>

findVarint(b, num) ==
    LET found == lastField(scan[b], num, 0)
    IN  IF found = <<>> THEN 0 ELSE found[1].v

\* What a partial success field says: the number of rejected records and
\* whether there is a message.
partialSuccess(ps) ==
    IF ps = <<>> THEN [err |-> FALSE, rejected |-> 0, msg |-> FALSE]
    ELSE [err      |-> truncated(ps[1]),
          rejected |-> signed(findVarint(ps[1], 1)),
          msg      |-> findField(ps[1], 2) \notin {<<>>, <<(<<>>)>>}]

decodePartialSuccess(body) ==
    IF truncated(body) THEN [err |-> TRUE, rejected |-> 0, msg |-> FALSE]
                       ELSE partialSuccess(findField(body, 1))

=============================================================================
