--------------------------- MODULE StreamFormats ----------------------------
(***************************************************************************)
(* What the stream formats put on a connection: the PackedForward framer   *)
(* (src/fluent/framer.go), the syslog encoder and framer (src/syslog), the *)
(* NDJSON encoder and framer (src/ndjson), on sequences of bytes.          *)
(***************************************************************************)
EXTENDS Integers, Sequences

LOCAL INSTANCE SequencesExt

\* The base of the digits of a binary length or count: 256 in the code, less
\* here, so that the limits of the header forms come within reach.
CONSTANT ByteBase

ASSUME ByteBaseAssumption == ByteBase \in 5..256

-----------------------------------------------------------------------------
(***************************************************************************)
(* Fluent: [tag, entries, {"size": n}].                                    *)
(***************************************************************************)
\* v in n digits, the highest first.
BigEndian[v \in Nat, n \in Nat] ==
    IF n = 0 THEN <<>> ELSE Append(BigEndian[v \div ByteBase, n - 1], v % ByteBase)

\* msgp, for what the framer gives it: short strings and small numbers.
AppendString(s) == <<160 + Len(s)>> \o s
AppendArrayHeader(n) == <<144 + n>>
AppendMapHeader(n) == <<128 + n>>
AppendInt(n) == <<n>>

size == <<115, 105, 122, 101>>

checkBinSize(total) == total < ByteBase^4

appendBinHeader(n) ==
    CASE n < ByteBase -> <<196>> \o BigEndian[n, 1]
      [] n >= ByteBase /\ n < ByteBase^2 -> <<197>> \o BigEndian[n, 2]
      [] OTHER -> <<198>> \o BigEndian[n, 4]

\* Frame: refused as a whole when a bin cannot hold the entries.
PackedForward(tag, payloads) ==
    LET entries == FlattenSeq(payloads)
    IN  IF ~checkBinSize(Len(entries)) THEN [err |-> TRUE, frame |-> <<>>]
        ELSE [err |-> FALSE,
              frame |-> AppendArrayHeader(3) \o AppendString(tag)
                          \o appendBinHeader(Len(entries)) \o entries
                          \o AppendMapHeader(1) \o AppendString(size) \o AppendInt(Len(payloads))]

\* buildWriter: an empty tag is the default one.
defaultTag == <<97, 112, 112, 46, 108, 111, 103, 115>>
tagOf(tag) == IF tag = <<>> THEN defaultTag ELSE tag

\* The header of a record of the native encoder: a fixmap, a map16 or a map32.
appendMapHeaderTo(count) ==
    CASE count < 16 -> <<128 + count>>
      [] count >= 16 /\ count < ByteBase^2 -> <<222>> \o BigEndian[count, 2]
      [] OTHER -> <<223>> \o BigEndian[count, 4]

-----------------------------------------------------------------------------
(***************************************************************************)
(* Syslog.                                                                 *)
(***************************************************************************)
LF == 10
SP == 32
nilValue == <<45>>
Bom == <<239, 187, 191>>

\* strconv.AppendInt, for numbers that are not negative.
decimal[n \in Nat] == (IF n < 10 THEN <<>> ELSE decimal[n \div 10]) \o <<48 + (n % 10)>>

LOCAL0 == 16
LOCAL7 == 23
validateFacility(f) == IF f < 0 \/ f > LOCAL7 THEN LOCAL0 ELSE f

clampSeverity(s) == IF s < 0 THEN 0 ELSE IF s > 7 THEN 7 ELSE s

\* zap levels: Debug is -1, Info 0, Warn 1, Error 2, all others are worse.
defaultSeverityMapper(level) ==
    CASE level <= -1 -> 7
      [] level = 0   -> 6
      [] level = 1   -> 4
      [] level = 2   -> 3
      [] OTHER       -> 2

\* Mutant: blanks are kept.
sanitizeFieldBlank(s, maxLen) ==
    LET kept == SelectSeq(s, LAMBDA c : c >= 32 /\ c <= 126)
    IN  IF kept = <<>> THEN nilValue ELSE SubSeq(kept, 1, IF Len(kept) < maxLen THEN Len(kept) ELSE maxLen)

sanitizeField(s, maxLen) ==
    LET kept == SelectSeq(s, LAMBDA c : c >= 33 /\ c <= 126)
    IN  IF kept = <<>> THEN nilValue ELSE SubSeq(kept, 1, IF Len(kept) < maxLen THEN Len(kept) ELSE maxLen)

\* The header fields in their order and their limits.
fieldLimits == <<255, 48, 128, 32>>

\* resolveHeader; o.severity is what a mapper of the application says, or none.
resolveHeader(o) ==
    [facility |-> validateFacility(o.facility),
     fields   |-> [i \in 1..4 |-> sanitizeField(o.fields[i], fieldLimits[i])],
     bom      |-> o.bom,
     severity |-> o.severity]

\* buffer.AppendTime in UTC: a text without blanks, shortened here.
AppendTime(t) == decimal[t] \o <<90>>

appendRFC3339Micros(t) == IF t = 0 THEN nilValue ELSE AppendTime(t)

jsonBody(bom, msg) == <<SP, 45, SP>> \o (IF bom THEN Bom ELSE <<>>) \o msg

severityOf(h, level) == IF h.severity = <<>> THEN defaultSeverityMapper(level) ELSE h.severity[1]

\* EncodeEntry: <PRI>1 TIMESTAMP HOSTNAME APP-NAME PROCID MSGID - MSG
EncodeEntrySyslog(o, ent) ==
    LET h   == resolveHeader(o)
        pri == 8 * h.facility + clampSeverity(severityOf(h, ent.level))
    IN  <<60>> \o decimal[pri] \o <<62, 49, SP>> \o appendRFC3339Micros(ent.time)
          \o FlattenSeq([i \in 1..4 |-> <<SP>> \o h.fields[i]])
          \o jsonBody(h.bom, ent.msg)

FrameSyslog(octetCounting, payloads) ==
    FlattenSeq([i \in 1..Len(payloads) |->
      IF octetCounting THEN decimal[Len(payloads[i])] \o <<SP>> \o payloads[i]
                       ELSE Append(payloads[i], LF)])

-----------------------------------------------------------------------------
(***************************************************************************)
(* NDJSON, and the passthrough encoder of the native formats.              *)
(***************************************************************************)
TrimRight[s \in Seq(0..255)] ==
    IF s # <<>> /\ Last(s) = LF THEN TrimRight[Front(s)] ELSE s

EncodeNdjson(dst, record) == dst \o TrimRight[record]

FrameNdjson(payloads) == FlattenSeq([i \in 1..Len(payloads) |-> Append(payloads[i], LF)])

Passthrough(dst, record) == dst \o record
=============================================================================
