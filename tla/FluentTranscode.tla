-------------------------- MODULE FluentTranscode ---------------------------
(***************************************************************************)
(* The transcoding Fluent encoder (src/fluent/encoder.go): a JSON record   *)
(* of zap is parsed, its time taken out by a codec (timecodec.go), its     *)
(* numbers kept as integers where they are, and the entry written with a   *)
(* 64-bit EventTime (proto.go).                                            *)
(*                                                                         *)
(* Times are nanoseconds since 1970.  A JSON number is exact; a float64 is *)
(* a multiple of 2^-FloatFrac with Mantissa significant bits.              *)
(***************************************************************************)
EXTENDS Integers, Sequences

LOCAL INSTANCE FiniteSets

CONSTANTS
    Kilo,        \* nanoseconds in a microsecond and so on up: 1000 in the code
    TimeBase,    \* the base of the digits of an EventTime: 256 in the code
    Mantissa,    \* 53 in the code
    FloatFrac,   \* bits behind the point that a float is modelled with
    IntWidth,    \* 64 in the code
    MaxNesting   \* bound: how deep arrays nest

\* A nanosecond count takes more bits than a mantissa; the seconds of today
\* are between Kilo^3 and Kilo^4, as the thresholds of epochToTime want it.
ASSUME TranscodeBounds ==
    /\ Kilo \in Nat \ {0} /\ Mantissa \in Nat \ {0}
    /\ FloatFrac \in Nat /\ IntWidth \in Nat \ {0} /\ MaxNesting \in Nat
    /\ Kilo^3 < TimeBase^4 /\ TimeBase^4 <= Kilo^4

Milli  == Kilo^2
Second == Kilo^3

-----------------------------------------------------------------------------
(***************************************************************************)
(* Floats: x stands for x / 2^FloatFrac.                                   *)
(***************************************************************************)
Bits(x) == Cardinality({n \in 0..29 : 2^n <= x})

\* num / den to the nearest float.
Float(num, den) ==
    LET drop == Bits((num * 2^FloatFrac) \div den) - Mantissa
        ulp  == IF drop <= 0 THEN 1 ELSE 2^drop
    IN  ((2 * num * 2^FloatFrac + ulp * den) \div (2 * ulp * den)) * ulp

\* int64(f)
Trunc(x) == x \div 2^FloatFrac

\* f * n as a float.
Times(x, n) == Float(x * n, 2^FloatFrac)

-----------------------------------------------------------------------------
(***************************************************************************)
(* Timestamps in JSON: a number or a string with so many digits of a       *)
(* second and a zone.                                                      *)
(***************************************************************************)
Number(x)          == [t |-> "number", x |-> x, zone |-> "", digits |-> 0]
Text(x, dig, zone) == [t |-> "string", x |-> x, zone |-> zone, digits |-> dig]

\* zapcore's time encoders for time t of zone z ("Z" or an offset).
EpochNanosTimeEncoder(t)    == Number(t * 2^FloatFrac)   \* an integer
EpochMillisTimeEncoder(t)   == Number(Float(t, Milli))
EpochTimeEncoder(t)         == Number(Float(t, Second))
RFC3339NanoTimeEncoder(t, z) == Text(t, 9, IF z = "Z" THEN z ELSE "+hh:mm")
RFC3339TimeEncoder(t, z)    == Text(t - (t % Second), 0, IF z = "Z" THEN z ELSE "+hh:mm")
ISO8601TimeEncoder(t, z)    == Text(t - (t % Milli), 3, IF z = "Z" THEN z ELSE "+hhmm")

\* time.Parse: a fraction is read where the layout has none; the colon of an
\* offset and the digits of a fraction must be there when the layout asks.
Parses(layout, s) ==
    CASE layout \in {"RFC3339Nano", "RFC3339"} -> s.zone \in {"Z", "+hh:mm"}
      [] layout = "ISO8601" -> s.digits = 3 /\ s.zone \in {"Z", "+hhmm"}

\* What a codec decodes: a time, or nothing.
fail == <<>>

\* epochToTime: the unit is told by the magnitude.
epochToTime(x) ==
    LET at(n) == n * 2^FloatFrac
        secs  == (x \div 2^FloatFrac) * Second + ((x % 2^FloatFrac) * Second) \div 2^FloatFrac
    IN  CASE x >= at(Kilo^6) -> Trunc(x)
          [] x < at(Kilo^6) /\ x >= at(Kilo^5) -> Trunc(Times(x, Kilo))
          [] x < at(Kilo^5) /\ x >= at(Kilo^4) -> Trunc(Times(x, Milli))
          [] OTHER -> secs

stringDecode(layout, v) ==
    IF v.t = "string" /\ \E l \in {layout, "RFC3339Nano", "RFC3339"} : Parses(l, v)
      THEN <<v.x>> ELSE fail

\* n.Float64() of extractTime, before a codec sees the number.
Float64(v) == Float(v.x, 2^FloatFrac)

Decode(codec, v) ==
    CASE codec = "nanos"   -> IF v.t = "number" THEN <<Trunc(Float64(v))>> ELSE fail
      [] codec = "millis"  -> IF v.t = "number" THEN <<Trunc(Float64(v)) * Milli>> ELSE fail
      [] codec = "seconds" ->
           IF v.t = "number"
             THEN <<Trunc(Float64(v)) * Second + ((Float64(v) % 2^FloatFrac) * Second) \div 2^FloatFrac>>
             ELSE fail
      [] codec = "auto"    -> IF v.t = "number" THEN <<epochToTime(Float64(v))>> ELSE fail
      [] OTHER             -> stringDecode(codec, v)

\* The encode end of a codec.
ZapEncoder(codec, t, z) ==
    CASE codec \in {"auto", "nanos"} -> EpochNanosTimeEncoder(t)
      [] codec = "millis"      -> EpochMillisTimeEncoder(t)
      [] codec = "seconds"     -> EpochTimeEncoder(t)
      [] codec = "RFC3339Nano" -> RFC3339NanoTimeEncoder(t, z)
      [] codec = "RFC3339"     -> RFC3339TimeEncoder(t, z)
      [] codec = "ISO8601"     -> ISO8601TimeEncoder(t, z)

\* A codec without its parts is not valid.
invalid == [codec |-> "none", key |-> ""]
defaultTimeCodec == [codec |-> "auto", key |-> "ts"]

\* WithTimeKey overrides the key of any codec.
resolveCodec(o) ==
    LET c == IF ~o.codecSet \/ o.codec = invalid THEN defaultTimeCodec ELSE o.codec
    IN  IF o.keyOverride # "" THEN [c EXCEPT !.key = o.keyOverride] ELSE c

-----------------------------------------------------------------------------
(***************************************************************************)
(* Other values: a numeral with its value and whether it is written as an  *)
(* integer, or an array of values.  Integers that a value of the record    *)
(* becomes: int64, uint64, float64.                                        *)
(***************************************************************************)
numeral(n, integral) == [t |-> "number", n |-> n, integral |-> integral, items |-> <<>>]
array(items)         == [t |-> "array", n |-> 0, integral |-> FALSE, items |-> items]
as(type, n)          == [t |-> type, n |-> n, integral |-> TRUE, items |-> <<>>]

Wide(n) == IF n < 0 THEN -Float(-n, 1) ELSE Float(n, 1)

\* Mutant: integers that are not int64 become floats.
normalizeScalarSigned(v) ==
    CASE v.integral /\ v.n >= -(2^(IntWidth - 1)) /\ v.n < 2^(IntWidth - 1) -> as("int64", v.n)
      [] OTHER -> as("float64", Wide(v.n))

normalizeScalar(v) ==
    CASE v.integral /\ v.n >= -(2^(IntWidth - 1)) /\ v.n < 2^(IntWidth - 1) -> as("int64", v.n)
      [] v.integral /\ v.n >= 2^(IntWidth - 1) /\ v.n < 2^IntWidth -> as("uint64", v.n)
      [] OTHER -> as("float64", Wide(v.n))

\* The values nested at most d deep.
Json[d \in Nat] ==
    [t : {"number", "array"}, n : Int, integral : BOOLEAN,
     items : IF d = 0 THEN {<<>>} ELSE Seq(Json[d - 1])]

JsonValue == Json[MaxNesting]

\* normalizeNumber and normalizeNumbers, elements in place.
normalizeNumber[v \in JsonValue] ==
    IF v.t = "number" THEN normalizeScalar(v)
    ELSE [v EXCEPT !.items = [i \in DOMAIN v.items |-> normalizeNumber[v.items[i]]]]

-----------------------------------------------------------------------------
(***************************************************************************)
(* The entry.                                                              *)
(***************************************************************************)
BigEndianTime[v \in Nat, n \in Nat] ==
    IF n = 0 THEN <<>> ELSE Append(BigEndianTime[v \div TimeBase, n - 1], v % TimeBase)

\* EventTime.MarshalBinaryTo: 32 bits of seconds, 32 of nanoseconds.
MarshalBinaryTo(t) == BigEndianTime[t \div Second, 4] \o BigEndianTime[t % Second, 4]

\* EventTime.UnmarshalBinary
UnmarshalBinary(b) ==
    LET four(i) == ((b[i] * TimeBase + b[i + 1]) * TimeBase + b[i + 2]) * TimeBase + b[i + 3]
    IN  four(1) * Second + four(5)

\* Encode: the field of the codec's key is the time and leaves the record,
\* even when it cannot be read; without a time it is now.
Encode(c, rec, now) ==
    LET t == IF c.key \in DOMAIN rec THEN Decode(c.codec, rec[c.key]) ELSE fail
    IN  [time   |-> MarshalBinaryTo(IF t = fail THEN now ELSE t[1]),
         record |-> [k \in DOMAIN rec \ {c.key} |-> normalizeNumber[rec[k]]]]
=============================================================================
