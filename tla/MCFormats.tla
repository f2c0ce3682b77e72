------------------------------ MODULE MCFormats -----------------------------
(***************************************************************************)
(* The stream formats on bounded inputs.  A behaviour either builds one    *)
(* Fluent record, or lets goroutines build records with the pooled buffers *)
(* at once; every other input is a state of its own: payloads for a        *)
(* framer, syslog options and entries, a time and a JSON record.           *)
(***************************************************************************)
EXTENDS MsgpackEncoder, EncoderPools, StreamFormats, FluentTranscode, TLC

CONSTANTS
    g1, g2,
    PayloadLens,   \* the payload lengths tried
    Seconds,       \* seconds tried, from the time on that epochs are told apart
    Offsets        \* nanoseconds tried

VARIABLES
    what,     \* the kind of input
    input     \* the input of a framer or of the transcoder

vars == <<recVars, poolVars, what, input>>

-----------------------------------------------------------------------------
(***************************************************************************)
(* Inputs.                                                                 *)
(***************************************************************************)
SeqsUpTo(S, n) == UNION {[1..k -> S] : k \in 0..n}

\* A payload with bytes that mean something to the readers below.
Payload(n) == [i \in 1..n |-> <<196, 10, 32, 49, 129, 147>>[(i % 6) + 1]]

\* A field of the header: blanks, line feeds, angle brackets, nothing.
HeaderFields == {<<>>, <<104>>, <<104, 32, 60, 10, 49>>, <<10>>, [i \in 1..60 |-> 97]}

plain == [facility |-> 1, fields |-> <<<<104>>, <<97>>, <<49>>, <<45>>>>, bom |-> FALSE, severity |-> <<>>]

SyslogOptions ==
    {[plain EXCEPT !.facility = f, !.bom = b, !.severity = s] :
       f \in {-1, 0, 23, 24}, b \in BOOLEAN, s \in {<<>>, <<-1>>, <<5>>, <<8>>}}
      \cup {[plain EXCEPT !.fields[i] = v] : i \in 1..4, v \in HeaderFields}

\* Messages are JSON objects: without line feeds, zap escapes them.
SyslogEntries ==
    [level : {-2, -1, 0, 1, 2, 5}, time : {0, 17},
     msg : {<<123, 32, 49, 32, 62, 125>>, <<123>> \o [i \in 1..90 |-> 32] \o <<125>>}]

\* JSON records as zap hands them over, with its line ending.
NdjsonRecords ==
    {m \o e : m \in {<<123, 125>>, <<123, 34, 34, 125>>}, e \in {<<>>, <<LF>>, <<LF, LF>>}}

Codecs == {"auto", "nanos", "millis", "seconds", "RFC3339Nano", "RFC3339", "ISO8601"}

FluentOptions ==
    [codecSet : {TRUE}, codec : [codec : Codecs, key : {"ts", "time"}], keyOverride : {"", "at"}]
      \cup [codecSet : BOOLEAN, codec : {invalid}, keyOverride : {"", "at"}]

Instants == {s * Second + o : s \in Seconds, o \in Offsets}

Numbers ==
    {numeral(n, i) : n \in {0, 1, -1, 2^Mantissa + 1, 2^(IntWidth - 1) - 1, 2^(IntWidth - 1),
                            2^(IntWidth - 1) + 1, 2^IntWidth - 1, 2^IntWidth + 1,
                            -(2^(IntWidth - 1)), -(2^(IntWidth - 1)) - 1},
                     i \in BOOLEAN}

Values ==
    Numbers \cup {array(<<v, array(<<w>>)>>) : v \in Numbers, w \in Numbers} \cup {array(<<>>)}

Inputs ==
    [forward |-> [tag : {<<>>, <<116>>},
                  lens : SeqsUpTo(PayloadLens, 2), next : SeqsUpTo({0, 4, 5}, 1)],
     count   |-> {0, 15, 16, ByteBase^2 - 1, ByteBase^2, ByteBase^4 - 1},
     syslog  |-> [o : SyslogOptions, ent : SyslogEntries, octets : BOOLEAN],
     ndjson  |-> SeqsUpTo(NdjsonRecords, 3),
     time    |-> [o : FluentOptions, t : Instants, zone : {"Z", "+"}, value : {numeral(1, TRUE)}],
     unit    |-> [unit : {"nanos", "micros", "millis", "seconds"}, t : Instants],
     value   |-> Values]

Init ==
    /\ RecInit /\ PoolInit
    /\ \/ what = "pools" /\ encoder \in {"fluent", "otlp"} /\ input = <<>>
       \/ what = "record" /\ encoder = "none" /\ input = <<>>
       \/ what \in DOMAIN Inputs /\ encoder = "none" /\ input \in Inputs[what]

Finished ==
    \/ what = "record" /\ phase = "done"
    \/ what = "pools" /\ \A g \in Goroutines : pc[g] = "done"
    \/ what \in DOMAIN Inputs

Next ==
    \/ what = "record" /\ RecNext /\ UNCHANGED <<poolVars, what, input>>
    \/ what = "pools" /\ PoolNext /\ UNCHANGED <<recVars, what, input>>
    \/ Finished /\ UNCHANGED vars

Spec == Init /\ [][Next]_vars

Symmetry == Permutations({g1, g2})

-----------------------------------------------------------------------------
(***************************************************************************)
(* Readers.                                                                *)
(***************************************************************************)
Behind(b, n) == SubSeq(b, n + 1, Len(b))

FromDigits(digits, radix) == FoldLeft(LAMBDA n, d : n * radix + d, 0, digits)

\* Where byte c comes first in b.
Find(b, c) == Min({i \in DOMAIN b : b[i] = c})

\* A PackedForward message at the start of b and what follows it; tagLen bytes
\* of tag, and digits of a length behind the type of the bin.
BinDigits(type) == CASE type = 196 -> 1 [] type = 197 -> 2 [] type = 198 -> 4

Forwarded[b \in Seq(0..255)] ==
    LET tagLen == b[2] - 160
        digits == BinDigits(b[tagLen + 3])
        start  == tagLen + 3 + digits
        end    == start + FromDigits(SubSeq(b, tagLen + 4, start), ByteBase)
    IN  [tag     |-> SubSeq(b, 3, tagLen + 2),
         entries |-> SubSeq(b, start + 1, end),
         option  |-> SubSeq(b, end + 1, end + 6),
         size    |-> b[end + 7],
         rest    |-> Behind(b, end + 7)]

\* The messages of a stream: each behind its length, or before a line feed.
Octets[b \in Seq(0..255)] ==
    IF b = <<>> THEN <<>>
    ELSE LET sp == Find(b, SP)
             n  == FromDigits([i \in 1..(sp - 1) |-> b[i] - 48], 10)
         IN  <<SubSeq(b, sp + 1, sp + n)>> \o Octets[Behind(b, sp + n)]

Lines[b \in Seq(0..255)] ==
    IF b = <<>> THEN <<>>
    ELSE <<SubSeq(b, 1, Find(b, LF) - 1)>> \o Lines[Behind(b, Find(b, LF))]

\* The first n words of a message and what follows them.
Words[b \in Seq(0..255), n \in Nat] ==
    IF n = 0 THEN <<b>>
    ELSE <<SubSeq(b, 1, Find(b, SP) - 1)>> \o Words[Behind(b, Find(b, SP)), n - 1]

-----------------------------------------------------------------------------
Sum(lens) == FoldLeft(+, 0, lens)

Payloads(lens) == [i \in 1..Len(lens) |-> Payload(lens[i])]

ForwardReadsBack ==
    LET first  == PackedForward(tagOf(input.tag), Payloads(input.lens))
        second == PackedForward(tagOf(input.tag), Payloads(input.next))
        one    == Forwarded[first.frame \o second.frame]
        two    == Forwarded[one.rest]
        Says(f, lens) == /\ f.tag = tagOf(input.tag) /\ f.tag # <<>>
                         /\ f.entries = FlattenSeq(Payloads(lens))
                         /\ f.size = Len(lens)
                         /\ f.option = <<129, 164, 115, 105, 122, 101>>
    IN  /\ first.err = (Sum(input.lens) >= ByteBase^4)
        /\ ~first.err => /\ Says(one, input.lens) /\ Says(two, input.next)
                         /\ two.rest = <<>>

MapHeaderReadsBack ==
    LET h == appendMapHeaderTo(input)
    IN  \/ Len(h) = 1 /\ h[1] - 128 = input /\ h[1] < 144
        \/ h[1] = 222 /\ Len(h) = 3 /\ FromDigits(Tail(h), ByteBase) = input
        \/ h[1] = 223 /\ Len(h) = 5 /\ FromDigits(Tail(h), ByteBase) = input

\* A message read word by word.
MessageSays(m, ent) ==
    LET words == Words[m, 7]
        end   == Find(words[1], 62)
        pri   == FromDigits([i \in 1..(end - 2) |-> words[1][i + 1] - 48], 10)
        o     == input.o
    IN  /\ words[1][1] = 60 /\ Behind(words[1], end) = <<49>> /\ pri \in 0..191
        /\ o.facility \in 0..23 => pri \div 8 = o.facility
        /\ (o.severity # <<>> /\ o.severity[1] \in 0..7) => pri % 8 = o.severity[1]
        /\ o.severity = <<>> => pri % 8 >= 2 /\ (ent.level > 1) = (pri % 8 <= 3)
        /\ (words[2] = nilValue) = (ent.time = 0)
        /\ \A i \in 1..4 :
             /\ Len(words[i + 2]) \in 1..fieldLimits[i]
             /\ (Len(o.fields[i]) \in 1..fieldLimits[i] /\ \A c \in ToSet(o.fields[i]) : c \in 33..126)
                  => words[i + 2] = o.fields[i]
        /\ words[7] = nilValue
        /\ words[8] = (IF o.bom THEN Bom ELSE <<>>) \o ent.msg

SyslogReadsBack ==
    LET other    == [level |-> 0, time |-> 3, msg |-> <<123, 125>>]
        payloads == <<Passthrough(<<>>, EncodeEntrySyslog(input.o, input.ent)),
                      Passthrough(<<>>, EncodeEntrySyslog(input.o, other))>>
        stream   == FrameSyslog(input.octets, payloads)
        read     == IF input.octets THEN Octets[stream] ELSE Lines[stream]
    IN  /\ Len(read) = 2
        /\ MessageSays(read[1], input.ent) /\ MessageSays(read[2], other)

NdjsonReadsBack ==
    Lines[FrameNdjson([i \in 1..Len(input) |-> EncodeNdjson(<<>>, input[i])])]
      = [i \in 1..Len(input) |-> SelectSeq(input[i], LAMBDA c : c # LF)]

\* A receiver that reads the stream by the rules of its format gets the
\* records the application logged, one after the other and nothing between
\* them: lengths and counts on every side of a header's limit, headers of
\* syslog with blanks, line feeds or nothing in their fields, facilities and
\* severities out of range, line endings of zap.  A batch that no length can
\* announce is refused as a whole (Framer.Frame, EncodeEntry, sanitizeField).
StreamReadsBack ==
    /\ what = "forward" => ForwardReadsBack
    /\ what = "count"   => MapHeaderReadsBack
    /\ what = "syslog"  => SyslogReadsBack
    /\ what = "ndjson"  => NdjsonReadsBack

-----------------------------------------------------------------------------
Abs(n) == IF n < 0 THEN -n ELSE n

\* The distance between two floats at t, and of decoded times from t.
Ulp(t) == 2^Max({0, Bits(t) - Mantissa})
Near(a, t, d) == Abs(a - t) <= d

TimeReadsBack ==
    LET c   == resolveCodec(input.o)
        t   == input.t
        e   == Encode(c, (c.key :> ZapEncoder(c.codec, t, input.zone)) @@ ("k" :> input.value), 0)
        got == UnmarshalBinary(e.time)
    IN  (c.codec = "auto" => t >= Kilo^6) =>
        /\ DOMAIN e.record = {"k"}
        /\ CASE c.codec = "RFC3339Nano" -> got = t
             [] c.codec = "RFC3339"     -> got = t - (t % Second)
             [] c.codec = "ISO8601"     -> got = t - (t % Milli)
             [] c.codec = "millis"      -> Near(got, t, Milli - 1)
             [] c.codec \in {"nanos", "auto"} -> Near(got, t, Ulp(t) \div 2)
             [] c.codec = "seconds"     -> Near(got, t, Ulp(t) + 1)

\* A number that another encoder wrote, in its unit.
Foreign(unit, t) ==
    CASE unit = "nanos"   -> EpochNanosTimeEncoder(t)
      [] unit = "micros"  -> Number((t \div Kilo) * 2^FloatFrac)
      [] unit = "millis"  -> EpochMillisTimeEncoder(t)
      [] unit = "seconds" -> EpochTimeEncoder(t)

UnitTold ==
    LET e == Encode(defaultTimeCodec, "ts" :> Foreign(input.unit, input.t), 0)
    IN  input.t >= Kilo^6 =>
          Near(UnmarshalBinary(e.time), input.t, IF input.unit = "micros" THEN Kilo + Ulp(input.t)
                                                                          ELSE 2 * Ulp(input.t))

\* v is the numeral, w what became of it.
KeptNumber(v, w) ==
    IF v.integral /\ v.n >= -(2^(IntWidth - 1)) /\ v.n < 2^IntWidth
      THEN w.t \in {"int64", "uint64"} /\ w.n = v.n
      ELSE /\ w.t = "float64"
           /\ Near(w.n, v.n * 2^FloatFrac, (Abs(v.n) * 2^FloatFrac) \div 2^Mantissa)

ValueKept ==
    LET v == input
        e == Encode(defaultTimeCodec, "k" :> v, 7 * Second)
        w == e.record["k"]
    IN  /\ UnmarshalBinary(e.time) = 7 * Second
        /\ IF v.t = "number" THEN KeptNumber(v, w)
           ELSE /\ Len(w.items) = Len(v.items)
                /\ v.items # <<>> => /\ KeptNumber(v.items[1], w.items[1])
                                     /\ KeptNumber(v.items[2].items[1], w.items[2].items[1])

\* A transcoded entry has the time that the log call had, as exactly as its
\* codec promises, whatever codec and key the options give, and for times that
\* an EventTime can hold; the time leaves the record.  The default codec tells
\* the unit of an epoch from its magnitude.  Integers stay integers, as exact
\* as they were, also inside arrays; a record without a time gets the time of
\* its encoding (extractTime, epochToTime, normalizeNumber, EventTime).
TranscodeReadsBack ==
    /\ what = "time"  => TimeReadsBack
    /\ what = "unit"  => UnitTold
    /\ what = "value" => ValueKept

=============================================================================
