------------------------------ MODULE OtlpJson ------------------------------
(***************************************************************************)
(* OTLP/JSON (src/otlp/json.go): the transcoder from the assembled binary  *)
(* request to JSON, and the reader of a JSON answer.                       *)
(*                                                                         *)
(* A JSON text is a sequence of tokens: a brace or bracket, the name of a  *)
(* member, or a value.  A numeral is represented by its value, quoted      *)
(* ("decimal") or not ("number"); commas and colons follow from the rest.  *)
(***************************************************************************)
EXTENDS OtlpProto

tok(t) == [t |-> t, v |-> <<>>]
val(t, v) == [t |-> t, v |-> v]

Scalar(name, kind) == [name |-> name, kind |-> kind, repeated |-> FALSE, sub |-> "none"]
Msg(name, sub)     == [name |-> name, kind |-> "msg", repeated |-> FALSE, sub |-> sub]
Repeated(name, sub) == [name |-> name, kind |-> "msg", repeated |-> TRUE, sub |-> sub]

jsonSchemas ==
    [ExportRequest |-> 1 :> Repeated("resourceLogs", "ResourceLogs"),
     ResourceLogs  |-> 1 :> Msg("resource", "Resource")
                       @@ 2 :> Repeated("scopeLogs", "ScopeLogs")
                       @@ 3 :> Scalar("schemaUrl", "string"),
     Resource      |-> 1 :> Repeated("attributes", "KeyValue")
                       @@ 2 :> Scalar("droppedAttributesCount", "uint"),
     ScopeLogs     |-> 1 :> Msg("scope", "Scope")
                       @@ 2 :> Repeated("logRecords", "LogRecord")
                       @@ 3 :> Scalar("schemaUrl", "string"),
     Scope         |-> 1 :> Scalar("name", "string")
                       @@ 2 :> Scalar("version", "string")
                       @@ 3 :> Repeated("attributes", "KeyValue")
                       @@ 4 :> Scalar("droppedAttributesCount", "uint"),
     LogRecord     |-> 1 :> Scalar("timeUnixNano", "u64")
                       @@ 2 :> Scalar("severityNumber", "uint")
                       @@ 3 :> Scalar("severityText", "string")
                       @@ 5 :> Msg("body", "AnyValue")
                       @@ 6 :> Repeated("attributes", "KeyValue")
                       @@ 7 :> Scalar("droppedAttributesCount", "uint")
                       @@ 8 :> Scalar("flags", "fixed32")
                       @@ 9 :> Scalar("traceId", "hex")
                       @@ 10 :> Scalar("spanId", "hex")
                       @@ 11 :> Scalar("observedTimeUnixNano", "u64")
                       @@ 12 :> Scalar("eventName", "string"),
     KeyValue      |-> 1 :> Scalar("key", "string") @@ 2 :> Msg("value", "AnyValue"),
     AnyValue      |-> 1 :> Scalar("stringValue", "string")
                       @@ 2 :> Scalar("boolValue", "bool")
                       @@ 3 :> Scalar("intValue", "i64")
                       @@ 4 :> Scalar("doubleValue", "double")
                       @@ 5 :> Msg("arrayValue", "ArrayValue")
                       @@ 6 :> Msg("kvlistValue", "KVList")
                       @@ 7 :> Scalar("bytesValue", "base64"),
     ArrayValue    |-> 1 :> Repeated("values", "AnyValue"),
     KVList        |-> 1 :> Repeated("values", "KeyValue")]

wireTypeFor(kind) ==
    CASE kind \in {"string", "hex", "base64", "msg"} -> 2
      [] kind \in {"u64", "double"} -> 1
      [] kind = "fixed32" -> 5
      [] kind \in {"i64", "uint", "bool"} -> 0

-----------------------------------------------------------------------------
(***************************************************************************)
(* Values.                                                                 *)
(***************************************************************************)
hexDigit(n) == IF n < 10 THEN 48 + n ELSE 87 + n

\* The length of the UTF-8 sequence at the start of s, 1 when there is none.
runeLen(s) ==
    LET cont(i) == i <= Len(s) /\ s[i] \in 128..191
    IN  CASE s[1] \in 194..223 /\ cont(2) -> 2
          [] s[1] \in 224..239 /\ cont(2) /\ cont(3)
               /\ (s[1] = 224 => s[2] >= 160) /\ (s[1] = 237 => s[2] < 160) -> 3
          [] s[1] \in 240..244 /\ cont(2) /\ cont(3) /\ cont(4)
               /\ (s[1] = 240 => s[2] >= 144) /\ (s[1] = 244 => s[2] < 144) -> 4
          [] OTHER -> 1

replacement == <<239, 191, 189>>   \* U+FFFD

escaped(c) ==
    CASE c \in {34, 92} -> <<92, c>>
      [] c = 10 -> <<92, 110>>
      [] c = 13 -> <<92, 114>>
      [] c = 9  -> <<92, 116>>
      [] c < 32 /\ c \notin {9, 10, 13} -> <<92, 117, 48, 48, hexDigit(c \div 16), hexDigit(c % 16)>>
      [] OTHER  -> <<c>>

\* What stands between the quotes.
appendJSONString[s \in Seq(0..255)] ==
    IF s = <<>> THEN <<>>
    ELSE LET n == runeLen(s)
         IN  (IF s[1] < 128 THEN escaped(s[1])
              ELSE IF n = 1 THEN replacement ELSE SubSeq(s, 1, n))
               \o appendJSONString[From(s, n)]

hex(b) == FlattenSeq([i \in 1..Len(b) |-> <<hexDigit(b[i] \div 16), hexDigit(b[i] % 16)>>])

\* Base64 as digits 0..63, with 64 for the padding.
base64[b \in Seq(0..255)] ==
    CASE Len(b) = 0 -> <<>>
      [] Len(b) = 1 -> <<b[1] \div 4, (b[1] % 4) * 16, 64, 64>>
      [] Len(b) = 2 -> <<b[1] \div 4, (b[1] % 4) * 16 + b[2] \div 16, (b[2] % 16) * 4, 64>>
      [] OTHER      -> <<b[1] \div 4, (b[1] % 4) * 16 + b[2] \div 16,
                         (b[2] % 16) * 4 + b[3] \div 64, b[3] % 64>> \o base64[From(b, 3)]

\* The number in a fixed64 or fixed32 field.
number[b \in Seq(0..255)] == IF b = <<>> THEN 0 ELSE b[1] + 256 * number[Tail(b)]

\* The eight bytes of a float64: infinite or not a number when the exponent
\* has all its bits set.
double(b) ==
    CASE b[8] % 128 # 127 \/ b[7] < 240              -> val("float", b)
      [] b[7] # 240 \/ \E i \in 1..6 : b[i] # 0        -> tok("NaN")
      [] b[8] < 128                                  -> tok("Infinity")
      [] OTHER                                       -> tok("-Infinity")

jsonError == tok("error")

-----------------------------------------------------------------------------
\* What a message must not contain: a field that cannot be read, that the
\* schema does not know or that has the wrong wire type.
misfit(f, schema) ==
    f = unreadable \/ f.num \notin DOMAIN schema \/ f.wt # wireTypeFor(schema[f.num].kind)

\* The field numbers of a message in the order of their first appearance.
order[fs \in Seq(Field)] ==
    IF fs = <<>> THEN <<>>
    ELSE LET before == order[Front(fs)]
         IN  IF Contains(before, Last(fs).num) THEN before ELSE Append(before, Last(fs).num)

\* The value of a field; a message is left to the caller.
appendValJSON(f, kind) ==
    CASE kind = "string"  -> val("string", appendJSONString[f.body])
      [] kind = "hex"     -> val("string", hex(f.body))
      [] kind = "base64"  -> val("base64", base64[f.body])
      [] kind = "u64"     -> val("decimal", <<number[f.body]>>)
      [] kind = "i64"     -> val("decimal", <<signed(f.v)>>)
      [] kind = "uint"    -> val("number", <<f.v>>)
      [] kind = "fixed32" -> val("number", <<number[f.body]>>)
      [] kind = "double"  -> double(f.body)
      [] kind = "bool"    -> tok(IF f.v # 0 THEN "true" ELSE "false")

\* The second phase of appendMsgJSON, for the fields of a message.  A repeated
\* field becomes an array of all its values, of another one the last value
\* counts.  An error token anywhere stands for an error of the whole.
emitJSON[fs \in Seq(Field), sid \in DOMAIN jsonSchemas] ==
    LET schema      == jsonSchemas[sid]
        all(num)    == SelectSeq(fs, LAMBDA f : f.num = num)
        value(f)    == IF schema[f.num].kind = "msg"
                         THEN emitJSON[scan[f.body], schema[f.num].sub]
                         ELSE <<appendValJSON(f, schema[f.num].kind)>>
        values(num) == IF schema[num].repeated
                         THEN <<tok("[")>> \o FlattenSeq([i \in 1..Len(all(num)) |-> value(all(num)[i])])
                                \o <<tok("]")>>
                         ELSE value(Last(all(num)))
        member(num) == <<tok(schema[num].name)>> \o values(num)
    IN  IF \E i \in 1..Len(fs) : misfit(fs[i], schema) THEN <<jsonError>>
        ELSE <<tok("{")>> \o FlattenSeq([i \in 1..Len(order[fs]) |-> member(order[fs][i])])
               \o <<tok("}")>>

appendRequestJSON(msg) == emitJSON[scan[msg], "ExportRequest"]

=============================================================================
