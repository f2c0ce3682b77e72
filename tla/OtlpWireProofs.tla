--------------------------- MODULE OtlpWireProofs ---------------------------
(***************************************************************************)
(* What the OTLP wire format promises for inputs of any size: the          *)
(* invariants of MCOtlpWire, proved for every value of its constants.      *)
(***************************************************************************)
EXTENDS MCOtlpWire, OtlpEnvelopeProofs

-----------------------------------------------------------------------------
(***************************************************************************)
(* The input never changes.                                                *)
(***************************************************************************)
InputInv == what = "record" \/ (what \in DOMAIN Inputs /\ input \in Inputs[what])

\* No step changes what a run is about.
LEMMA InputFixed == Spec => []InputInv
<1>1. Init => InputInv
  BY DEF Init, InputInv
<1>2. InputInv /\ [Next]_vars => InputInv'
  <2> HIDE DEF Inputs
  <2>1. ASSUME InputInv, what' = what, input' = input PROVE InputInv'
    BY <2>1 DEF InputInv
  <2> QED
    BY <2>1 DEF Next, vars
<1> QED
  BY <1>1, <1>2, PTL DEF Spec

-----------------------------------------------------------------------------
(***************************************************************************)
(* Sizes.                                                                  *)
(***************************************************************************)
LEMMA PayloadLen ==
  ASSUME NEW n \in Nat
  PROVE  Payload(n) \in Octets /\ Len(Payload(n)) = n
  BY DEF Payload, Octets

\* The request is exactly as long as sizeFor predicts (otlp/envelope.go), for
\* batches of any records, below any resource and scope, as long as the size
\* is a number of the machine's width.
THEOREM SizesExact ==
  ASSUME RecordLens \subseteq Nat, MaxRecords \in Nat,
         \A lens \in SeqsUpTo(RecordLens, MaxRecords) : sizeFor(taggedLen(lens)) < 2^LenBits
  PROVE  Spec => []SizeIsExact
<1>1. InputInv => SizeIsExact
  <2> SUFFICES ASSUME InputInv, what = "batch"
               PROVE  Len(assemble(Payload(ResourceLen), Payload(ScopeLen),
                            [i \in 1..Len(input) |-> Payload(input[i])]))
                        = sizeFor(taggedLen(input))
    BY DEF SizeIsExact
  <2>1. input \in SeqsUpTo(RecordLens, MaxRecords)
    BY DEF InputInv, Inputs
  <2>2. PICK n \in Nat : input \in [1..n -> RecordLens]
    BY <2>1 DEF SeqsUpTo
  <2>3. Len(input) = n /\ \A i \in 1..n : input[i] \in Nat
    <3>1. input \in Seq(RecordLens) /\ DOMAIN input = 1..n
      BY <2>2, SeqDef
    <3>2. Len(input) = n
      BY <3>1, LenProperties
    <3> QED
      BY <2>2, <3>2
  <2> DEFINE records == [i \in 1..Len(input) |-> Payload(input[i])]
  <2>4. /\ records \in Seq(Octets) /\ Len(records) = n
        /\ \A i \in 1..n : Len(records[i]) = input[i]
    <3>1. \A i \in 1..n : records[i] \in Octets /\ Len(records[i]) = input[i]
      BY <2>3, PayloadLen
    <3>2. records = [i \in 1..n |-> records[i]]
      BY <2>3
    <3> HIDE DEF records
    <3>3. \A i \in 1..n : records[i] \in Octets
      BY <3>1
    <3> QED
      BY <3>1, <3>2, <3>3, IsASeq
  <2> HIDE DEF records
  <2>5. LensOf(records) = input
    BY <2>2, <2>3, <2>4 DEF LensOf
  <2>6. /\ Payload(ResourceLen) \in Octets /\ Len(Payload(ResourceLen)) = ResourceLen
        /\ Payload(ScopeLen) \in Octets /\ Len(Payload(ScopeLen)) = ScopeLen
    BY LenAssumption, PayloadLen
  <2>7. sizeFor(taggedLen(LensOf(records))) < 2^LenBits
    BY <2>1, <2>5
  <2>8. Len(assemble(Payload(ResourceLen), Payload(ScopeLen), records))
          = sizeFor(taggedLen(LensOf(records)))
    BY <2>4, <2>6, <2>7, PredictedSizeIsExact
  <2> QED
    BY <2>5, <2>8 DEF records
<1> QED
  BY <1>1, InputFixed, PTL

-----------------------------------------------------------------------------
(***************************************************************************)
(* Headers.                                                                *)
(***************************************************************************)
\* Over HTTP the transport has the last word on what describes the body.
LEMMA HttpHeadersDescribe ==
  ASSUME NEW user, NEW jsonOn \in BOOLEAN, NEW compressed \in BOOLEAN
  PROVE  LET http == httpHeaders(user, jsonOn, compressed)
         IN  /\ http["content-type"] = IF jsonOn THEN "json" ELSE "protobuf"
             /\ ("content-encoding" \in DOMAIN http) = compressed
             /\ compressed => http["content-encoding"] = "gzip"
  BY DEF httpHeaders

\* Over HTTP every header of the user survives but the two the transport owns.
LEMMA HttpHeadersKept ==
  ASSUME NEW user, NEW jsonOn, NEW compressed,
         NEW h \in (DOMAIN user) \ {"content-type", "content-encoding"}
  PROVE  httpHeaders(user, jsonOn, compressed)[h] = user[h]
  BY DEF httpHeaders

\* Over gRPC a name that describes the body is not the user's to set.
LEMMA GrpcHeadersDescribe ==
  ASSUME NEW user, NEW compressed \in BOOLEAN, validateGRPCHeaders(user)
  PROVE  LET grpc == grpcHeaders(user, compressed)
         IN  /\ grpc["content-type"] = "grpc" /\ grpc["te"] = "own"
             /\ ("grpc-encoding" \in DOMAIN grpc) = compressed
             /\ compressed => grpc["grpc-encoding"] = "gzip"
  BY DEF grpcHeaders, validateGRPCHeaders, reserved

\* Over gRPC every header of the user survives.
LEMMA GrpcHeadersKept ==
  ASSUME NEW user, NEW compressed, NEW h \in DOMAIN user
  PROVE  grpcHeaders(user, compressed)[h] = user[h]
  BY DEF grpcHeaders

\* The headers of a request describe its body whatever WithHeaders adds, and
\* the user's other headers are sent as they are (http_transport.go,
\* grpc_transport.go).
THEOREM HeadersDescribe == Spec => []HeadersDescribeBody
<1>1. InputInv => HeadersDescribeBody
  <2> SUFFICES ASSUME InputInv, what = "headers" PROVE HeadersDescribeBody
    BY DEF HeadersDescribeBody
  <2>1. input \in [user : UserHeaders, jsonOn : BOOLEAN, compressed : BOOLEAN]
    <3>1. Inputs["headers"] = [user : UserHeaders, jsonOn : BOOLEAN, compressed : BOOLEAN]
      BY Zenon DEF Inputs
    <3>2. input \in Inputs["headers"]
      BY DEF InputInv
    <3> QED
      BY <3>1, <3>2, Zenon
  <2>2. PICK user \in UserHeaders, jsonOn \in BOOLEAN, compressed \in BOOLEAN :
          input = [user |-> user, jsonOn |-> jsonOn, compressed |-> compressed]
    BY <2>1
  <2>3. input.user = user /\ input.jsonOn = jsonOn /\ input.compressed = compressed
    BY <2>2
  <2>4. "authorization" \in DOMAIN user =>
          /\ httpHeaders(user, jsonOn, compressed)["authorization"] = user["authorization"]
          /\ grpcHeaders(user, compressed)["authorization"] = user["authorization"]
    BY HttpHeadersKept, GrpcHeadersKept
  <2>5. PICK http, grpc : /\ http = httpHeaders(user, jsonOn, compressed)
                          /\ grpc = grpcHeaders(user, compressed)
    OBVIOUS
  <2>6. /\ http["content-type"] = IF jsonOn THEN "json" ELSE "protobuf"
        /\ ("content-encoding" \in DOMAIN http) = compressed
        /\ compressed => http["content-encoding"] = "gzip"
    BY <2>5, HttpHeadersDescribe
  <2>7. validateGRPCHeaders(user) =>
          /\ grpc["content-type"] = "grpc" /\ grpc["te"] = "own"
          /\ ("grpc-encoding" \in DOMAIN grpc) = compressed
          /\ compressed => grpc["grpc-encoding"] = "gzip"
    BY <2>5, GrpcHeadersDescribe
  <2> QED
    BY <2>3, <2>4, <2>5, <2>6, <2>7 DEF HeadersDescribeBody
<1> QED
  BY <1>1, InputFixed, PTL

-----------------------------------------------------------------------------
(***************************************************************************)
(* Options.                                                                *)
(***************************************************************************)
LEMMA MaxIs ==
  ASSUME NEW S \in SUBSET Int, NEW m \in S, \A x \in S : x <= m
  PROVE  Max(S) = m
<1>1. m \in S /\ \A y \in S : m >= y
  OBVIOUS
<1>2. Max(S) \in S /\ \A y \in S : Max(S) >= y
  BY <1>1, Zenon DEF Max
<1>3. Max(S) >= m /\ m >= Max(S) /\ Max(S) \in Int
  BY <1>1, <1>2
<1> QED
  BY <1>3

\* The lesser of two numbers.
LEMMA MinOfTwo ==
  ASSUME NEW a \in Int, NEW b \in Int
  PROVE  Min({a, b}) = IF a <= b THEN a ELSE b
<1> DEFINE m == IF a <= b THEN a ELSE b
<1>1. m \in {a, b} /\ \A y \in {a, b} : m =< y
  OBVIOUS
<1>2. Min({a, b}) \in {a, b} /\ \A y \in {a, b} : Min({a, b}) =< y
  BY <1>1, Zenon DEF Min
<1> QED
  BY <1>2

\* The greater of two numbers.
LEMMA MaxOfTwo ==
  ASSUME NEW a \in Int, NEW b \in Int
  PROVE  Max({a, b}) = IF a <= b THEN b ELSE a
<1> DEFINE m == IF a <= b THEN b ELSE a
<1>1. m \in {a, b} /\ \A y \in {a, b} : y <= m /\ {a, b} \in SUBSET Int
  OBVIOUS
<1> QED
  BY <1>1, MaxIs

\* A configuration with one option more, and all of the first n.
Put(c, o) == [c EXCEPT ![o.field] = o.value]

Applies(c, start, opts, n) ==
    c = [i \in 0..n |-> IF i = 0 THEN start ELSE Put(c[i - 1], opts[i])]

\* The settings after each of n options exist as one function.
LEMMA AppliesExist ==
  ASSUME NEW start, NEW opts, NEW n \in Nat
  PROVE  \E c : Applies(c, start, opts, n)
<1> DEFINE S == {m \in Nat : \E c : Applies(c, start, opts, m)}
<1>1. 0 \in S
  <2>1. Applies([i \in 0..0 |-> start], start, opts, 0)
    BY DEF Applies
  <2> QED
    BY <2>1
<1>2. ASSUME NEW m \in Nat, m \in S PROVE m + 1 \in S
  <2>1. PICK c : Applies(c, start, opts, m)
    BY <1>2
  <2> DEFINE d == [i \in 0..(m + 1) |-> IF i = m + 1 THEN Put(c[m], opts[m + 1]) ELSE c[i]]
  <2>2. \A i \in 0..m :
          d[i] = c[i] /\ c[i] = IF i = 0 THEN start ELSE Put(c[i - 1], opts[i])
    BY <2>1 DEF Applies
  <2>3. \A i \in 0..(m + 1) : i = m + 1 \/ i \in 0..m
    OBVIOUS
  <2>4. \A i \in 0..m : i = 0 \/ i - 1 \in 0..m
    OBVIOUS
  <2>5. \A i \in 0..(m + 1) : d[i] = IF i = 0 THEN start ELSE Put(d[i - 1], opts[i])
    BY <2>2, <2>3, <2>4
  <2>6. Applies(d, start, opts, m + 1)
    BY <2>5 DEF Applies
  <2> QED
    BY <2>6
<1> HIDE DEF S
<1>3. n \in S
  BY <1>1, <1>2, NatSetInduction
<1> QED
  BY <1>3 DEF S

\* apply is the last of these settings.
LEMMA ApplyIsLast ==
  ASSUME NEW start, NEW opts, Len(opts) \in Nat
  PROVE  \E c : Applies(c, start, opts, Len(opts)) /\ apply(start, opts) = c[Len(opts)]
<1> DEFINE c == CHOOSE d : Applies(d, start, opts, Len(opts))
<1>1. Applies(c, start, opts, Len(opts))
  BY AppliesExist
<1>2. apply(start, opts) = c[Len(opts)]
  BY Zenon DEF apply, Applies, Put
<1> QED
  BY <1>1, <1>2

\* What the first n options say last for a field.
Latest(opts, n, f, default) ==
    LET set == {i \in 1..n : opts[i].field = f}
    IN  IF set = {} THEN default ELSE opts[Max(set)].value

\* Without an option a field keeps its default.
LEMMA LatestNone ==
  ASSUME NEW opts, NEW f, NEW default
  PROVE  Latest(opts, 0, f, default) = default
  BY DEF Latest

\* An option for another field leaves this one alone.
LEMMA LatestSame ==
  ASSUME NEW opts, NEW n \in Nat, NEW f, NEW default, opts[n + 1].field # f
  PROVE  Latest(opts, n + 1, f, default) = Latest(opts, n, f, default)
<1>1. {i \in 1..(n + 1) : opts[i].field = f} = {i \in 1..n : opts[i].field = f}
  OBVIOUS
<1> QED
  BY <1>1, Zenon DEF Latest

\* An option for this field replaces what was there.
LEMMA LatestNew ==
  ASSUME NEW opts, NEW n \in Nat, NEW f, NEW default, opts[n + 1].field = f
  PROVE  Latest(opts, n + 1, f, default) = opts[n + 1].value
<1> DEFINE S == {i \in 1..(n + 1) : opts[i].field = f}
<1>1. S \in SUBSET Int /\ n + 1 \in S /\ \A x \in S : x <= n + 1
  OBVIOUS
<1> HIDE DEF S
<1>2. Max(S) = n + 1 /\ S # {}
  BY <1>1, MaxIs
<1> QED
  BY <1>2, Zenon DEF Latest, S

\* The last option on a field wins (applyOptions).
LEMMA LastOptionWins ==
  ASSUME NEW start, NEW F, start \in [F -> Int], NEW opts, Len(opts) \in Nat,
         \A i \in 1..Len(opts) : opts[i].field \in F /\ opts[i].value \in Int
  PROVE  /\ apply(start, opts) \in [F -> Int]
         /\ \A f \in F : apply(start, opts)[f] = Latest(opts, Len(opts), f, start[f])
<1> DEFINE n == Len(opts)
<1>1. PICK c : Applies(c, start, opts, n) /\ apply(start, opts) = c[n]
  BY ApplyIsLast
<1>2. \A i \in 0..n : c[i] = IF i = 0 THEN start ELSE Put(c[i - 1], opts[i])
  BY <1>1 DEF Applies
<1> DEFINE Right(m) == /\ c[m] \in [F -> Int]
                       /\ \A f \in F : c[m][f] = Latest(opts, m, f, start[f])
           S == {m \in Nat : m <= n => Right(m)}
<1>3. 0 \in S
  <2>1. c[0] = start
    BY <1>2
  <2> QED
    BY <2>1, LatestNone
<1>4. ASSUME NEW m \in Nat, m \in S PROVE m + 1 \in S
  <2> SUFFICES ASSUME m + 1 <= n PROVE Right(m + 1)
    OBVIOUS
  <2>1. Right(m) /\ m + 1 \in 0..n /\ m + 1 \in 1..n /\ m + 1 # 0 /\ (m + 1) - 1 = m
    BY <1>4
  <2>2. PICK old \in [F -> Int] : old = c[m]
    BY <2>1
  <2>3. PICK g \in F, v \in Int : g = opts[m + 1].field /\ v = opts[m + 1].value
    BY <2>1
  <2>4. c[m + 1] = [old EXCEPT ![g] = v]
    BY <1>2, <2>1, <2>2, <2>3 DEF Put
  <2>5. c[m + 1] \in [F -> Int]
    BY <2>4
  <2>6. ASSUME NEW f \in F PROVE c[m + 1][f] = Latest(opts, m + 1, f, start[f])
    <3>1. CASE f = g
      <4>1. c[m + 1][f] = v
        BY <2>4, <3>1
      <4> QED
        BY <2>3, <3>1, <4>1, LatestNew
    <3>2. CASE f # g
      <4>1. c[m + 1][f] = old[f]
        BY <2>4, <3>2
      <4>2. old[f] = Latest(opts, m, f, start[f])
        BY <2>1, <2>2
      <4> QED
        BY <2>3, <3>2, <4>1, <4>2, LatestSame
    <3> QED
      BY <3>1, <3>2
  <2> QED
    BY <2>5, <2>6
<1> HIDE DEF S
<1>5. n \in S
  BY <1>3, <1>4, NatSetInduction
<1> QED
  BY <1>1, <1>5 DEF S

\* w holds the first n waits.
Longer(v, max) == Min({2 * v, max})

Waits(w, first, max, n) ==
    w = [k \in 1..n |-> IF k = 1 THEN first ELSE Longer(w[k - 1], max)]

\* The waits of the first n attempts exist as one function.
LEMMA WaitsExist ==
  ASSUME NEW first, NEW max, NEW n \in Nat
  PROVE  \E w : Waits(w, first, max, n)
<1> DEFINE S == {m \in Nat : \E w : Waits(w, first, max, m)}
<1>1. 0 \in S
  <2>1. \A k \in 1..0 : FALSE
    OBVIOUS
  <2>2. Waits([k \in 1..0 |-> first], first, max, 0)
    BY <2>1 DEF Waits
  <2> QED
    BY <2>2
<1>2. ASSUME NEW m \in Nat, m \in S PROVE m + 1 \in S
  <2>1. PICK w : Waits(w, first, max, m)
    BY <1>2
  <2> DEFINE next == IF m + 1 = 1 THEN first ELSE Longer(w[m], max)
             u    == [k \in 1..(m + 1) |-> IF k = m + 1 THEN next ELSE w[k]]
  <2>2. \A k \in 1..m :
          u[k] = w[k] /\ w[k] = IF k = 1 THEN first ELSE Longer(w[k - 1], max)
    BY <2>1 DEF Waits
  <2>3. \A k \in 1..(m + 1) : k = m + 1 \/ k \in 1..m
    OBVIOUS
  <2>4. \A k \in 1..(m + 1) : k = 1 \/ k - 1 \in 1..m
    OBVIOUS
  <2>5. u[m + 1] = next /\ (m + 1) - 1 = m
    OBVIOUS
  <2>6. ASSUME NEW k \in 1..(m + 1)
        PROVE  u[k] = IF k = 1 THEN first ELSE Longer(u[k - 1], max)
    <3>1. k # 1 => u[k - 1] = w[k - 1]
      BY <2>2, <2>4
    <3> HIDE DEF u
    <3>2. CASE k = m + 1
      BY <2>5, <3>1, <3>2
    <3>3. CASE k \in 1..m
      BY <2>2, <3>1, <3>3
    <3> QED
      BY <2>3, <3>2, <3>3
  <2>7. Waits(u, first, max, m + 1)
    BY <2>6 DEF Waits
  <2> QED
    BY <2>7
<1> HIDE DEF S
<1>3. n \in S
  BY <1>1, <1>2, NatSetInduction
<1> QED
  BY <1>3 DEF S

\* However often an export or a dial fails, the next wait is positive and no
\* longer than the longer of the first wait and the cap (writer.go).
LEMMA BackoffPositive ==
  ASSUME NEW first \in Nat \ {0}, NEW max \in Nat \ {0}, NEW n \in Nat \ {0}
  PROVE  backoff(first, max, n) \in Nat \ {0} /\ backoff(first, max, n) <= Max({first, max})
<1> DEFINE w == CHOOSE v : Waits(v, first, max, n)
<1>1. Waits(w, first, max, n)
  BY WaitsExist
<1>2. backoff(first, max, n) = w[n]
  BY Zenon DEF backoff, Waits, Longer
<1>3. \A k \in 1..n : w[k] = IF k = 1 THEN first ELSE Longer(w[k - 1], max)
  BY <1>1 DEF Waits
<1> HIDE DEF w
<1>4. PICK top \in Nat : top = Max({first, max}) /\ first <= top /\ max <= top
  BY MaxOfTwo
<1> DEFINE S == {m \in Nat : m + 1 <= n => w[m + 1] \in Nat \ {0} /\ w[m + 1] <= top}
<1>5. 0 \in S
  <2>1. 1 \in 1..n
    OBVIOUS
  <2>2. w[1] = first
    BY <1>3, <2>1
  <2> QED
    BY <1>4, <2>2
<1>6. ASSUME NEW m \in Nat, m \in S PROVE m + 1 \in S
  <2> SUFFICES ASSUME (m + 1) + 1 <= n
               PROVE  w[(m + 1) + 1] \in Nat \ {0} /\ w[(m + 1) + 1] <= top
    OBVIOUS
  <2>1. PICK a \in Nat \ {0} : a = w[m + 1]
    BY <1>6
  <2>2. (m + 1) + 1 \in 1..n /\ (m + 1) + 1 # 1 /\ ((m + 1) + 1) - 1 = m + 1
    OBVIOUS
  <2>3. w[(m + 1) + 1] = Longer(a, max)
    BY <1>3, <2>1, <2>2
  <2>4. Longer(a, max) = IF 2 * a <= max THEN 2 * a ELSE max
    BY MinOfTwo DEF Longer
  <2> QED
    BY <1>4, <2>3, <2>4
<1> HIDE DEF S
<1>7. n - 1 \in S /\ (n - 1) + 1 = n
  BY <1>5, <1>6, NatSetInduction
<1> QED
  BY <1>2, <1>4, <1>7 DEF S

\* A number that is not positive is replaced by a default that is.
LEMMA PositiveIs ==
  ASSUME NEW v \in Int, NEW default \in Nat \ {0}
  PROVE  positive(v, default) \in Nat \ {0} /\ (v > 0 => positive(v, default) = v)
  BY DEF positive

\* A bounded setting is positive, below its ceiling, and the given one when that fits.
LEMMA WithinIs ==
  ASSUME NEW v \in Int, NEW default \in Nat \ {0}, NEW ceil \in Nat \ {0}
  PROVE  /\ within(v, default, ceil) \in Nat \ {0}
         /\ within(v, default, ceil) <= ceil
         /\ v \in 1..ceil => within(v, default, ceil) = v
<1>1. PICK p \in Nat \ {0} : p = positive(v, default) /\ (v > 0 => p = v)
  BY PositiveIs, ZenonT(40)
<1>2. within(v, default, ceil) = IF p <= ceil THEN p ELSE ceil
  BY <1>1, MinOfTwo DEF within
<1> QED
  BY <1>1, <1>2

\* What normalizeConfig makes of any values.
LEMMA NormalizedConfig ==
  ASSUME NEW c \in [DOMAIN defaultConfig -> Int]
  PROVE  LET d == normalizeConfig(c)
         IN  /\ DOMAIN d = DOMAIN defaultConfig
             /\ \A f \in DOMAIN defaultConfig :
                  /\ d[f] \in Nat \ {0}
                  /\ c[f] \in 1..maxBufferSize => d[f] = c[f]
             /\ d["bufferSize"] <= maxBufferSize
<1> DEFINE d == normalizeConfig(c)
<1>1. PICK top \in Nat \ {0} : top = maxBufferSize
  BY SMT DEF maxBufferSize
<1>2. \A f \in DOMAIN defaultConfig :
        defaultConfig[f] \in Nat \ {0} /\ c[f] \in Int
  BY SMT DEF defaultConfig
<1>3. /\ DOMAIN d = DOMAIN defaultConfig
      /\ \A f \in DOMAIN defaultConfig :
           d[f] = IF f = "bufferSize" THEN within(c[f], defaultConfig[f], maxBufferSize)
                                      ELSE positive(c[f], defaultConfig[f])
  BY DEF normalizeConfig
<1> HIDE DEF d
<1>6. "bufferSize" \in DOMAIN defaultConfig
  BY DEF defaultConfig
<1>7. ASSUME NEW f \in DOMAIN defaultConfig
      PROVE  /\ d[f] \in Nat \ {0} /\ (c[f] \in 1..top => d[f] = c[f])
             /\ f = "bufferSize" => d[f] <= top
  <2>1. PICK v \in Int, default \in Nat \ {0} : v = c[f] /\ default = defaultConfig[f]
    BY <1>2
  <2>2. CASE f = "bufferSize"
    <3>1. d[f] = within(v, default, top)
      BY <1>1, <1>3, <2>1, <2>2
    <3> QED
      BY <2>1, <3>1, WithinIs
  <2>3. CASE f # "bufferSize"
    <3>1. d[f] = positive(v, default)
      BY <1>3, <2>1, <2>3
    <3> QED
      BY <2>1, <2>3, <3>1, PositiveIs
  <2> QED
    BY <2>2, <2>3
<1>8. d["bufferSize"] <= top
  BY <1>6, <1>7
<1> QED
  BY <1>1, <1>3, <1>7, <1>8 DEF d

\* What normalize makes of any values.
LEMMA NormalizedOptions ==
  ASSUME NEW o \in [DOMAIN defaultOptions -> Int]
  PROVE  LET d == normalize(o)
         IN  /\ DOMAIN d = DOMAIN defaultOptions
             /\ \A f \in DOMAIN defaultOptions :
                  /\ d[f] \in Nat /\ (f # "drainTimeout" => d[f] > 0)
                  /\ o[f] \in 1..maxQueueSize => d[f] = o[f]
             /\ d["queueSize"] <= maxQueueSize
             /\ d["maxRequestBytes"] <= maxRequestBytesCeil
<1> DEFINE d == normalize(o)
<1>1. PICK top \in Nat \ {0}, large \in Nat :
        top = maxQueueSize /\ large = maxRequestBytesCeil /\ top <= large
  BY SMT DEF maxQueueSize, maxRequestBytesCeil
<1>2. \A f \in DOMAIN defaultOptions :
        /\ f # "drainTimeout" => defaultOptions[f] \in Nat \ {0}
        /\ o[f] \in Int
  BY SMT DEF defaultOptions
<1>3. /\ DOMAIN d = DOMAIN defaultOptions
      /\ \A f \in DOMAIN defaultOptions :
           d[f] = IF f = "queueSize" THEN within(o[f], defaultOptions[f], maxQueueSize)
                  ELSE IF f = "maxRequestBytes"
                         THEN within(o[f], defaultOptions[f], maxRequestBytesCeil)
                  ELSE IF f = "drainTimeout" THEN Max({o[f], 0})
                  ELSE positive(o[f], defaultOptions[f])
  BY DEF normalize
<1> HIDE DEF d
<1>6. "queueSize" \in DOMAIN defaultOptions /\ "maxRequestBytes" \in DOMAIN defaultOptions
  BY DEF defaultOptions
<1>8. ASSUME NEW f \in DOMAIN defaultOptions
      PROVE  /\ d[f] \in Nat /\ (f # "drainTimeout" => d[f] > 0)
             /\ o[f] \in 1..top => d[f] = o[f]
             /\ f = "queueSize" => d[f] <= top
             /\ f = "maxRequestBytes" => d[f] <= large
  <2>1. CASE f = "drainTimeout"
    <3>1. PICK v \in Int : v = o[f] /\ d[f] = Max({v, 0})
      BY <1>2, <1>3, <2>1
    <3> QED
      BY <2>1, <3>1, MaxOfTwo
  <2>2. CASE f # "drainTimeout"
    <3>1. PICK v \in Int, default \in Nat \ {0} : v = o[f] /\ default = defaultOptions[f]
      BY <1>2, <2>2
    <3>2. CASE f = "queueSize"
      <4>1. d[f] = within(v, default, top)
        BY <1>1, <1>3, <3>1, <3>2
      <4>2. d[f] \in Nat \ {0} /\ d[f] <= top /\ (v \in 1..top => d[f] = v)
        BY <4>1, WithinIs
      <4> QED
        BY <3>1, <3>2, <4>2
    <3>3. CASE f = "maxRequestBytes"
      <4>1. d[f] = within(v, default, large)
        BY <1>1, <1>3, <3>1, <3>3
      <4>2. large \in Nat \ {0} /\ (v \in 1..top => v \in 1..large)
        BY <1>1
      <4>3. PICK w : w = within(v, default, large)
        OBVIOUS
      <4>4. w \in Nat \ {0} /\ w <= large /\ (v \in 1..large => w = v)
        BY <4>2, <4>3, WithinIs
      <4>5. d[f] = w
        BY <4>1, <4>3
      <4> QED
        BY <3>1, <3>3, <4>2, <4>4, <4>5
    <3>4. CASE f \notin {"queueSize", "maxRequestBytes"}
      <4>1. d[f] = positive(v, default)
        BY <1>3, <2>2, <3>1, <3>4
      <4> QED
        BY <3>1, <3>4, <4>1, PositiveIs
    <3> QED
      BY <3>2, <3>3, <3>4
  <2> QED
    BY <2>1, <2>2
<1>9. d["queueSize"] <= top /\ d["maxRequestBytes"] <= large
  BY <1>6, <1>8
<1> QED
  BY <1>1, <1>3, <1>8, <1>9 DEF d

\* The inputs of the options, the configurations and the endpoints.
LEMMA OptsGiven ==
  ASSUME RawValues \subseteq Int, MaxFields \in Nat, NEW F, NEW opts \in Opts(F)
  PROVE  /\ Len(opts) \in Nat
         /\ \A i \in 1..Len(opts) : opts[i].field \in F /\ opts[i].value \in Int
<1>1. opts \in SeqsUpTo([field : F, value : {-1} \cup RawValues], MaxFields)
  BY DEF Opts
<1>2. PICK n \in Nat : opts \in [1..n -> [field : F, value : {-1} \cup RawValues]]
  BY <1>1 DEF SeqsUpTo
<1> DEFINE W == {-1} \cup RawValues
<1>3. \A v \in W : v \in Int
  BY SMT
<1> HIDE DEF W
<1>4. PICK V : V = W /\ V \subseteq Int
  BY <1>3
<1>5. PICK O : O = [field : F, value : V]
  OBVIOUS
<1>6. \A o \in O : o.field \in F /\ o.value \in Int
  BY <1>4, <1>5
<1>7. opts \in [1..n -> O]
  BY <1>2, <1>4, <1>5, Zenon DEF W
<1>8. opts \in Seq(O) /\ DOMAIN opts = 1..n
  BY <1>7, SeqDef
<1>9. Len(opts) = n /\ \A i \in 1..n : opts[i] \in O
  BY <1>8, LenProperties
<1> QED
  BY <1>9, <1>6

\* Whatever values the options carry, however many there are and in whatever
\* order, what normalizeConfig and normalize make of them can be run: channels,
\* tickers and the jitter of a backoff get positive arguments below the
\* ceilings, and a usable value is used as the last option gives it.  A TLS
\* configuration is used or the endpoint is refused (options.go,
\* grpc_transport.go).
THEOREM ConfigsUsable ==
  ASSUME RawValues \subseteq Int, MaxFields \in Nat
  PROVE  Spec => []ConfigUsable
<1>1. ASSUME InputInv, what = "config"
      PROVE  LET c == config(input)
             IN  /\ \A f \in DOMAIN c : c[f] > 0
                 /\ c.bufferSize <= maxBufferSize
                 /\ \A n \in 1..5 : backoff(c.reconnectInterval, c.maxReconnect, n) > 0
                 /\ \A f \in DOMAIN c : LET g == Given(f, defaultConfig[f])
                                        IN  g \in 1..maxBufferSize => c[f] = g
  <2>1. input \in Opts(DOMAIN defaultConfig)
    BY <1>1, Zenon DEF InputInv, Inputs
  <2>2. PICK opts : opts = input /\ opts \in Opts(DOMAIN defaultConfig)
    BY <2>1
  <2>3. defaultConfig \in [DOMAIN defaultConfig -> Int]
    BY SMT DEF defaultConfig
  <2>4. PICK raw \in [DOMAIN defaultConfig -> Int] :
          /\ raw = apply(defaultConfig, opts)
          /\ \A f \in DOMAIN defaultConfig :
               raw[f] = Latest(opts, Len(opts), f, defaultConfig[f])
    BY <2>2, <2>3, OptsGiven, LastOptionWins
  <2>5. PICK c : c = normalizeConfig(raw)
    OBVIOUS
  <2>6. /\ DOMAIN c = DOMAIN defaultConfig
        /\ \A f \in DOMAIN defaultConfig :
             c[f] \in Nat \ {0} /\ (raw[f] \in 1..maxBufferSize => c[f] = raw[f])
        /\ c["bufferSize"] <= maxBufferSize
    BY <2>5, NormalizedConfig
  <2>7. c = config(input)
    BY <2>2, <2>4, <2>5 DEF config
  <2>8. \A f \in DOMAIN defaultConfig : raw[f] = Given(f, defaultConfig[f])
    BY <2>2, <2>4, Zenon DEF Given, Latest
  <2>9. \A n \in 1..5 : backoff(c["reconnectInterval"], c["maxReconnect"], n) > 0
    <3>1. "reconnectInterval" \in DOMAIN defaultConfig /\ "maxReconnect" \in DOMAIN defaultConfig
      BY DEF defaultConfig
    <3>2. PICK a \in Nat \ {0}, b \in Nat \ {0} : a = c["reconnectInterval"] /\ b = c["maxReconnect"]
      BY <2>6, <3>1
    <3>3. \A n \in 1..5 : n \in Nat \ {0}
      OBVIOUS
    <3>4. \A n \in 1..5 : backoff(a, b, n) \in Nat \ {0}
      BY <3>3, BackoffPositive
    <3>5. \A k \in Nat \ {0} : k > 0
      OBVIOUS
    <3> QED
      BY <3>2, <3>4, <3>5, Zenon
  <2> QED
    BY <2>6, <2>7, <2>8, <2>9
<1>2. ASSUME InputInv, what = "options"
      PROVE  LET o == options(input)
             IN  /\ \A f \in DOMAIN o \ {"drainTimeout"} : o[f] > 0
                 /\ o.drainTimeout >= 0
                 /\ o.queueSize <= maxQueueSize /\ o.maxRequestBytes <= maxRequestBytesCeil
                 /\ \A n \in 1..5 : backoff(o.initial, o.maxInterval, n) \div 2 + 1 > 0
                 /\ \A f \in DOMAIN o : LET g == Given(f, defaultOptions[f])
                                        IN  g \in 1..maxQueueSize => o[f] = g
  <2>1. input \in Opts(DOMAIN defaultOptions)
    BY <1>2, Zenon DEF InputInv, Inputs
  <2>2. PICK opts : opts = input /\ opts \in Opts(DOMAIN defaultOptions)
    BY <2>1
  <2>3. defaultOptions \in [DOMAIN defaultOptions -> Int]
    BY SMT DEF defaultOptions
  <2>4. PICK raw \in [DOMAIN defaultOptions -> Int] :
          /\ raw = apply(defaultOptions, opts)
          /\ \A f \in DOMAIN defaultOptions :
               raw[f] = Latest(opts, Len(opts), f, defaultOptions[f])
    BY <2>2, <2>3, OptsGiven, LastOptionWins
  <2>5. PICK o : o = normalize(raw)
    OBVIOUS
  <2>6. /\ DOMAIN o = DOMAIN defaultOptions
        /\ \A f \in DOMAIN defaultOptions :
             /\ o[f] \in Nat /\ (f # "drainTimeout" => o[f] > 0)
             /\ raw[f] \in 1..maxQueueSize => o[f] = raw[f]
        /\ o["queueSize"] <= maxQueueSize /\ o["maxRequestBytes"] <= maxRequestBytesCeil
    BY <2>5, NormalizedOptions
  <2>7. o = options(input)
    BY <2>2, <2>4, <2>5 DEF options
  <2>8. \A f \in DOMAIN defaultOptions : raw[f] = Given(f, defaultOptions[f])
    BY <2>2, <2>4, Zenon DEF Given, Latest
  <2>9. /\ "initial" \in DOMAIN defaultOptions /\ "maxInterval" \in DOMAIN defaultOptions
        /\ "drainTimeout" \in DOMAIN defaultOptions
    BY DEF defaultOptions
  <2>10. \A n \in 1..5 : backoff(o["initial"], o["maxInterval"], n) \div 2 + 1 > 0
    <3>1. PICK a \in Nat \ {0}, b \in Nat \ {0} : a = o["initial"] /\ b = o["maxInterval"]
      BY <2>6, <2>9
    <3>2. \A n \in 1..5 : n \in Nat \ {0}
      OBVIOUS
    <3>3. \A n \in 1..5 : backoff(a, b, n) \in Nat \ {0}
      BY <3>2, BackoffPositive
    <3>4. \A k \in Nat \ {0} : k \div 2 + 1 > 0
      OBVIOUS
    <3> QED
      BY <3>1, <3>3, <3>4, Zenon
  <2>11. o["drainTimeout"] >= 0
    BY <2>6, <2>9
  <2> QED
    BY <2>6, <2>7, <2>8, <2>10, <2>11
<1>3. ASSUME InputInv, what = "endpoint"
      PROVE  LET kind == newTransport(input.grpc, input.e, input)
             IN  /\ (input.grpc /\ input.tls) => kind \in {"tls", refused}
                 /\ (input.grpc /\ input.e.scheme = "https") => kind \in {"tls", refused}
                 /\ (input.grpc /\ kind # refused) => input.encoding = "protobuf"
  <2>1. input \in [grpc : BOOLEAN, e : Endpoints, insecure : BOOLEAN, tls : BOOLEAN,
                   encoding : {"protobuf", "json", "undefined"}]
    BY <1>3, Zenon DEF InputInv, Inputs
  <2> QED
    BY <2>1 DEF newTransport, resolveGRPCEndpoint, resolveEndpoint, refused
<1>4. InputInv => ConfigUsable
  BY <1>1, <1>2, <1>3, Zenon DEF ConfigUsable
<1> QED
  BY <1>4, InputFixed, PTL

-----------------------------------------------------------------------------
(***************************************************************************)
(* Reading a number.                                                       *)
(***************************************************************************)
LEMMA MinIs ==
  ASSUME NEW S \in SUBSET Int, NEW m \in S, \A x \in S : m <= x
  PROVE  Min(S) = m
<1>1. m \in S /\ \A y \in S : m =< y
  OBVIOUS
<1>2. Min(S) \in S /\ \A y \in S : Min(S) =< y
  BY <1>1, Zenon DEF Min
<1>3. Min(S) <= m /\ m <= Min(S) /\ Min(S) \in Int
  BY <1>1, <1>2
<1> QED
  BY <1>3

Ends(b) == {i \in 1..Min({Len(b), MaxVarintLen}) : b[i] < 128}

\* varintEnd is the first of the bytes that can end a varint.
LEMMA EndsAre ==
  ASSUME NEW b \in Octets
  PROVE  /\ varintEnd[b] = IF Ends(b) = {} THEN 0 ELSE Min(Ends(b))
         /\ Ends(b) \subseteq 1..Len(b)
         /\ \A i \in 1..Len(b) : i \in Ends(b) <=> i <= 10 /\ b[i] < 128
<1>1. varintEnd[b] = IF Ends(b) = {} THEN 0 ELSE Min(Ends(b))
  BY Zenon DEF varintEnd, Ends, Octets
<1>2. PICK n \in Nat : n = Len(b)
  BY LenProperties DEF Octets
<1>3. PICK top \in Nat : /\ top = Min({n, MaxVarintLen})
                        /\ \A i \in Int : i <= top <=> i <= n /\ i <= 10
  BY MinOfTwo DEF MaxVarintLen
<1>4. Ends(b) = {i \in 1..top : b[i] < 128}
  BY <1>2, <1>3 DEF Ends
<1>5. \A i \in 1..top : i \in 1..n
  BY <1>3
<1>6. \A i \in 1..n : i \in 1..top <=> i <= 10
  BY <1>3
<1> QED
  BY <1>1, <1>2, <1>4, <1>5, <1>6

\* A varint ends at the first byte without the continuation bit.
LEMMA VarintEndIs ==
  ASSUME NEW b \in Octets, NEW n \in 1..Len(b), n <= 10, b[n] < 128,
         \A i \in 1..(n - 1) : b[i] >= 128
  PROVE  varintEnd[b] = n
<1>1. Len(b) \in Nat /\ \A i \in 1..Len(b) : b[i] \in 0..255
  BY LenProperties, ZenonT(40) DEF Octets
<1>2. n \in Ends(b) /\ Ends(b) \in SUBSET Int /\ \A i \in Ends(b) : i \in 1..Len(b) /\ b[i] < 128
  BY <1>1, EndsAre
<1>3. \A i \in Ends(b) : n <= i
  <2> SUFFICES ASSUME NEW i \in Ends(b), i < n PROVE FALSE
    BY <1>1, <1>2
  <2>1. i \in 1..(n - 1) /\ b[i] < 128
    BY <1>1, <1>2
  <2>2. PICK c \in 0..255 : c = b[i]
    BY <1>1, <1>2
  <2>3. c >= 128
    BY <2>1, <2>2
  <2> QED
    BY <2>1, <2>2, <2>3
<1>4. Min(Ends(b)) = n
  BY <1>2, <1>3, MinIs
<1> QED
  BY <1>2, <1>4, EndsAre

\* Bytes that all continue hold no varint.
LEMMA VarintEndNone ==
  ASSUME NEW b \in Octets, \A i \in 1..Len(b) : b[i] >= 128
  PROVE  varintEnd[b] = 0
<1>1. \A i \in 1..Len(b) : b[i] \in 0..255
  BY LenProperties DEF Octets
<1>3. \A c \in 0..255 : c >= 128 => ~(c < 128)
  OBVIOUS
<1>4. \A i \in 1..Len(b) : ~(b[i] < 128)
  BY <1>1, <1>3
<1>2. Ends(b) = {}
  BY <1>4, EndsAre
<1> QED
  BY <1>2, EndsAre

\* A varint ends within its bytes.
LEMMA VarintEndType ==
  ASSUME NEW b \in Octets
  PROVE  varintEnd[b] \in 0..Len(b)
<1>1. Len(b) \in Nat
  BY LenProperties DEF Octets
<1>2. Ends(b) \subseteq 1..Len(b)
  BY EndsAre
<1>3. CASE Ends(b) # {}
  <2>1. PICK m \in Ends(b) : \A j \in Ends(b) : m <= j
    BY <1>1, <1>2, <1>3, LeastNumber
  <2>2. Min(Ends(b)) = m
    BY <1>2, <2>1, MinIs
  <2> QED
    BY <1>1, <1>2, <1>3, <2>2, EndsAre
<1>4. CASE Ends(b) = {}
  BY <1>1, <1>4, EndsAre
<1> QED
  BY <1>3, <1>4

-----------------------------------------------------------------------------
(***************************************************************************)
(* Bytes in front of bytes.                                                *)
(***************************************************************************)
LEMMA JoinIs ==
  ASSUME NEW a \in Octets, NEW b \in Octets
  PROVE  /\ \A i \in 1..Len(a) : (a \o b)[i] = a[i]
         /\ \A i \in 1..Len(b) : (a \o b)[Len(a) + i] = b[i]
<1>1. Len(a) \in Nat /\ Len(b) \in Nat
  BY JoinLen
<1>2. PICK m \in Nat, n \in Nat : m = Len(a) /\ n = Len(b)
  BY <1>1
<1>3. PICK c : c = a \o b
  OBVIOUS
<1>4. \A i \in 1..(m + n) : c[i] = IF i <= m THEN a[i] ELSE b[i - m]
  BY <1>2, <1>3, ConcatProperties DEF Octets
<1>5. \A i \in 1..m : c[i] = a[i]
  <2>1. \A i \in 1..m : i \in 1..(m + n) /\ i <= m
    BY <1>2
  <2> QED
    BY <1>4, <2>1
<1>6. \A i \in 1..n : c[m + i] = b[i]
  <2>1. \A i \in 1..n : m + i \in 1..(m + n) /\ ~(m + i <= m) /\ (m + i) - m = i
    BY <1>2
  <2> QED
    BY <1>4, <2>1
<1> QED
  BY <1>2, <1>3, <1>5, <1>6

\* Joining bytes is associative.
LEMMA JoinAssoc ==
  ASSUME NEW a \in Octets, NEW b \in Octets, NEW c \in Octets
  PROVE  (a \o b) \o c = a \o (b \o c)
  BY ConcatAssociative DEF Octets

\* No bytes join to nothing.
LEMMA JoinNothing ==
  ASSUME NEW a \in Octets
  PROVE  a \o <<>> = a /\ <<>> \o a = a
  BY ConcatEmptySeq DEF Octets

\* A prefix is a prefix of the first part, or reaches into the second.
LEMMA PrefixType ==
  ASSUME NEW a \in Octets, NEW n \in 0..Len(a)
  PROVE  /\ SubSeq(a, 1, n) \in Octets /\ Len(SubSeq(a, 1, n)) = n
         /\ \A i \in 1..n : SubSeq(a, 1, n)[i] = a[i]
<1>1. PICK m \in Nat : m = Len(a)
  BY JoinLen
<1>2. n \in Nat /\ \A i \in 1..n : i \in 1..Len(a)
  BY <1>1
<1>4. \A i \in 1..n : a[i] \in 0..255
  BY <1>2, LenProperties, ZenonT(40) DEF Octets
<1>3. 1 \in Int /\ n \in Int /\ (IF 1 <= n THEN n - 1 + 1 ELSE 0) = n /\ n - 1 + 1 = n
      /\ \A i \in 1..n : 1 + i - 1 = i
  BY <1>2
<1> QED
  BY <1>4, <1>3, SubSeqProperties DEF Octets

\* The whole is its own prefix.
LEMMA PrefixWhole ==
  ASSUME NEW a \in Octets
  PROVE  SubSeq(a, 1, Len(a)) = a
  BY SubSeqFull DEF Octets

\* What follows the first part is a prefix of the second.
LEMMA MidJoin ==
  ASSUME NEW a \in Octets, NEW b \in Octets, NEW n \in 0..Len(b)
  PROVE  SubSeq(a \o b, Len(a) + 1, Len(a) + n) = SubSeq(b, 1, n)
<1>1. PICK m \in Nat, k \in Nat, c \in Octets :
         m = Len(a) /\ k = Len(b) /\ c = a \o b /\ Len(c) = m + k
  BY JoinLen
<1>2. n \in Nat /\ \A i \in 1..n : i \in 1..k
  BY <1>1
<1>3. \A i \in 1..n : c[m + i] = b[i] /\ b[i] \in 0..255
  <2>1. \A i \in 1..k : c[m + i] = b[i] /\ b[i] \in 0..255
    BY <1>1, JoinIs, LenProperties DEF Octets
  <2> QED
    BY <1>2, <2>1
<1>4. \A j \in (m + 1)..(m + n) : j - m \in 1..n /\ m + (j - m) = j
  BY <1>2
<1>5. \A j \in (m + 1)..(m + n) : c[j] \in 0..255
  BY <1>3, <1>4
<1>6. PICK d : d = SubSeq(c, m + 1, m + n)
  OBVIOUS
<1>7. d \in Octets /\ Len(d) = n /\ \A i \in 1..n : d[i] = c[m + i]
  <2>1. m + 1 \in Int /\ m + n \in Int /\ (m + n) - (m + 1) + 1 = n
        /\ (IF m + 1 <= m + n THEN n ELSE 0) = n
        /\ \A i \in 1..n : (m + 1) + i - 1 = m + i
    BY <1>2
  <2> QED
    BY <1>5, <1>6, <2>1, SubSeqProperties DEF Octets
<1>8. PICK e \in Octets : e = SubSeq(b, 1, n) /\ Len(e) = n /\ \A i \in 1..n : e[i] = b[i]
  BY PrefixType
<1>9. d = e
  <2>1. \A i \in 1..Len(d) : d[i] = e[i]
    BY <1>3, <1>7, <1>8
  <2> QED
    BY <1>7, <1>8, <2>1, SeqEqual DEF Octets
<1> QED
  BY <1>1, <1>6, <1>8, <1>9

\* What is behind the first part.
LEMMA FromJoin ==
  ASSUME NEW a \in Octets, NEW b \in Octets
  PROVE  From(a \o b, Len(a)) = b
<1>1. PICK m \in Nat, n \in Nat : m = Len(a) /\ n = Len(b) /\ Len(a \o b) = m + n
  BY JoinLen
<1>2. SubSeq(a \o b, Len(a) + 1, Len(a) + n) = SubSeq(b, 1, n)
  <2>1. n \in 0..Len(b)
    BY <1>1
  <2> QED
    BY <2>1, MidJoin
<1>3. SubSeq(b, 1, n) = b
  BY <1>1, PrefixWhole
<1> QED
  BY <1>1, <1>2, <1>3 DEF From

\* A prefix no longer than the first part is a prefix of it.
LEMMA PrefixOfFirst ==
  ASSUME NEW a \in Octets, NEW b \in Octets, NEW n \in 0..Len(a)
  PROVE  SubSeq(a \o b, 1, n) = SubSeq(a, 1, n)
<1>1. PICK m \in Nat, k \in Nat, c \in Octets :
         m = Len(a) /\ k = Len(b) /\ c = a \o b /\ Len(c) = m + k
  BY JoinLen
<1>2. n \in 0..m /\ n \in 0..(m + k)
  BY <1>1
<1>3. PICK d \in Octets : d = SubSeq(c, 1, n) /\ Len(d) = n /\ \A i \in 1..n : d[i] = c[i]
  BY <1>1, <1>2, PrefixType
<1>4. PICK e \in Octets : e = SubSeq(a, 1, n) /\ Len(e) = n /\ \A i \in 1..n : e[i] = a[i]
  BY <1>1, <1>2, PrefixType
<1>5. \A i \in 1..n : i \in 1..m
  BY <1>2
<1>6. \A i \in 1..n : d[i] = e[i]
  BY <1>1, <1>3, <1>4, <1>5, JoinIs
<1>7. d = e
  BY <1>3, <1>4, <1>6, SeqEqual DEF Octets
<1> QED
  BY <1>1, <1>3, <1>4, <1>7

\* A longer prefix is the first part and a prefix of the second.
LEMMA PrefixBeyond ==
  ASSUME NEW a \in Octets, NEW b \in Octets, NEW n \in 0..Len(b)
  PROVE  SubSeq(a \o b, 1, Len(a) + n) = a \o SubSeq(b, 1, n)
<1>1. PICK m \in Nat, k \in Nat, c \in Octets :
         m = Len(a) /\ k = Len(b) /\ c = a \o b /\ Len(c) = m + k
  BY JoinLen
<1>2. n \in 0..k /\ m + n \in 0..(m + k) /\ n \in Nat
  BY <1>1
<1>3. PICK d \in Octets :
         d = SubSeq(c, 1, m + n) /\ Len(d) = m + n /\ \A i \in 1..(m + n) : d[i] = c[i]
  BY <1>1, <1>2, PrefixType
<1>4. PICK e \in Octets : e = SubSeq(b, 1, n) /\ Len(e) = n /\ \A i \in 1..n : e[i] = b[i]
  BY PrefixType
<1>5. PICK f \in Octets : f = a \o e /\ Len(f) = m + n
  <2>1. a \o e \in Octets /\ Len(a \o e) = Len(a) + Len(e)
    BY JoinLen
  <2> QED
    BY <1>1, <1>4, <2>1
<1>6. /\ \A i \in 1..m : c[i] = a[i] /\ f[i] = a[i]
      /\ \A i \in 1..n : f[m + i] = e[i]
      /\ \A i \in 1..k : c[m + i] = b[i]
  BY <1>1, <1>4, <1>5, JoinIs
<1>7. ASSUME NEW i \in 1..(m + n) PROVE d[i] = f[i]
  <2>1. d[i] = c[i]
    BY <1>3
  <2>2. CASE i \in 1..m
    BY <1>6, <2>1, <2>2
  <2>3. CASE i - m \in 1..n
    <3>1. PICK j \in 1..n : j = i - m /\ m + j = i /\ j \in 1..k
      BY <1>2, <2>3
    <3> QED
      BY <1>4, <1>6, <2>1, <3>1
  <2>4. i \in 1..m \/ i - m \in 1..n
    BY <1>1, <1>2
  <2> QED
    BY <2>2, <2>3, <2>4
<1>8. d = f
  BY <1>3, <1>5, <1>7, SeqEqual DEF Octets
<1> QED
  BY <1>1, <1>3, <1>4, <1>5, <1>8

\* One byte is a text of length one.
LEMMA OneByte ==
  ASSUME NEW c \in 0..255
  PROVE  <<c>> \in Octets /\ Len(<<c>>) = 1 /\ <<c>>[1] = c
  BY DEF Octets

-----------------------------------------------------------------------------
(***************************************************************************)
(* Reading what appendUvarint writes.                                      *)
(***************************************************************************)
LEMMA VarintEndMeans ==
  ASSUME NEW b \in Octets, varintEnd[b] # 0
  PROVE  /\ varintEnd[b] \in 1..Len(b) /\ varintEnd[b] <= 10 /\ b[varintEnd[b]] < 128
         /\ \A i \in 1..Len(b) : b[i] \in 0..255 /\ (i < varintEnd[b] => b[i] >= 128)
<1>1. PICK m \in Nat : m = Len(b)
  BY JoinLen
<1>2. Ends(b) # {} /\ varintEnd[b] = Min(Ends(b))
  BY EndsAre
<1>3. /\ Ends(b) \subseteq 1..m /\ Ends(b) \subseteq Nat
      /\ \A i \in 1..m : i \in Ends(b) <=> i <= 10 /\ b[i] < 128
  BY <1>1, EndsAre
<1>4. PICK e \in Ends(b) : \A j \in Ends(b) : e <= j
  BY <1>2, <1>3, LeastNumber
<1>5. varintEnd[b] = e
  BY <1>2, <1>3, <1>4, MinIs
<1>6. \A i \in 1..m : b[i] \in 0..255
  BY <1>1, LenProperties DEF Octets
<1>7. e \in 1..m /\ e <= 10 /\ b[e] < 128
  BY <1>3, <1>4
<1>8. ASSUME NEW i \in 1..m, i < e PROVE b[i] >= 128
  <2>1. i <= 10 /\ ~(e <= i)
    BY <1>7, <1>8
  <2>2. ~(b[i] < 128)
    BY <1>3, <1>4, <2>1
  <2>3. PICK c \in 0..255 : c = b[i]
    BY <1>6
  <2> QED
    BY <2>2, <2>3
<1> QED
  BY <1>1, <1>5, <1>6, <1>7, <1>8

\* Behind a byte that continues the varint ends one byte earlier.
LEMMA VarintEndTail ==
  ASSUME NEW b \in Octets, varintEnd[b] # 0, ~(b[1] < 128)
  PROVE  /\ b # <<>> /\ Tail(b) \in Octets
         /\ varintEnd[b] - 1 \in Nat /\ varintEnd[Tail(b)] = varintEnd[b] - 1
<1>1. PICK m \in Nat, n \in Nat : m = Len(b) /\ n = varintEnd[b]
  BY JoinLen, VarintEndMeans
<1>2. /\ n \in 1..m /\ n <= 10 /\ b[n] < 128
      /\ \A i \in 1..m : b[i] \in 0..255 /\ (i < n => b[i] >= 128)
  BY <1>1, VarintEndMeans
<1>3. n # 1
  BY <1>2
<1>4. b # <<>>
  BY <1>1, <1>2
<1>5. PICK t \in Octets :
         t = Tail(b) /\ Len(t) = m - 1 /\ \A i \in 1..(m - 1) : t[i] = b[i + 1]
  <2>1. Tail(b) \in Octets /\ Len(Tail(b)) = Len(b) - 1
        /\ \A i \in 1..Len(Tail(b)) : Tail(b)[i] = b[i + 1]
    BY <1>4, HeadTailProperties DEF Octets
  <2> QED
    BY <1>1, <2>1
<1>6. PICK k \in 1..(m - 1) : k = n - 1 /\ k + 1 = n
  BY <1>2, <1>3
<1>7. t[k] < 128
  BY <1>2, <1>5, <1>6
<1>8. ASSUME NEW i \in 1..(k - 1) PROVE t[i] >= 128
  <2>1. i \in 1..(m - 1) /\ i + 1 \in 1..m /\ i + 1 < n
    BY <1>6
  <2> QED
    BY <1>2, <1>5, <2>1
<1>9. k \in 1..Len(t) /\ k <= 10
  BY <1>2, <1>5, <1>6
<1>10. varintEnd[t] = k
  BY <1>7, <1>8, <1>9, VarintEndIs
<1> QED
  BY <1>1, <1>4, <1>5, <1>6, <1>10

\* The number at the start of b, given by f that of its tail.
Digits(f, b) == IF b[1] < 128 THEN b[1] ELSE (b[1] - 128) + 128 * f[Tail(b)]

\* f[k] reads numbers of k bytes.
Reads(f, n) == f = [k \in 0..n |-> [b \in Octets |-> IF k = 0 THEN 0 ELSE Digits(f[k - 1], b)]]

\* The reader of varints of n bytes exists as one function.
LEMMA ReadsExist ==
  ASSUME NEW n \in Nat
  PROVE  \E f : Reads(f, n)
<1> DEFINE One(f, k) == [b \in Octets |-> IF k = 0 THEN 0 ELSE Digits(f, b)]
           Upto(f, m) == f = [k \in 0..m |-> One(f[k - 1], k)]
           S == {m \in Nat : \E f : Upto(f, m)}
<1>0. \A f, g : One(f, 0) = One(g, 0)
  OBVIOUS
<1> HIDE DEF One, Upto
<1>1. 0 \in S
  <2> DEFINE f == [k \in 0..0 |-> One(0, 0)]
  <2>1. \A k \in 0..0 : f[k] = One(f[k - 1], k)
    BY <1>0
  <2>2. Upto(f, 0)
    BY <2>1 DEF Upto
  <2> QED
    BY <2>2
<1>2. ASSUME NEW m \in Nat, m \in S PROVE m + 1 \in S
  <2>1. PICK f : Upto(f, m)
    BY <1>2
  <2> DEFINE g == [k \in 0..(m + 1) |-> IF k = m + 1 THEN One(f[m], m + 1) ELSE f[k]]
  <2>2. \A k \in 0..m : g[k] = f[k] /\ f[k] = One(f[k - 1], k)
    BY <2>1 DEF Upto
  <2>3. ASSUME NEW k \in 0..(m + 1) PROVE g[k] = One(g[k - 1], k)
    <3>1. CASE k = m + 1
      <4>1. k - 1 = m /\ m \in 0..m /\ g[m] = f[m]
        BY <2>2, <3>1
      <4> QED
        BY <3>1, <4>1
    <3>2. CASE k = 0
      <4>1. k \in 0..m
        BY <3>2
      <4> QED
        BY <1>0, <2>2, <3>2, <4>1
    <3>3. CASE k # 0 /\ k # m + 1
      <4>1. k \in 0..m /\ k - 1 \in 0..m
        BY <3>3
      <4> QED
        BY <2>2, <4>1
    <3> QED
      BY <3>1, <3>2, <3>3
  <2>4. Upto(g, m + 1)
    BY <2>3 DEF Upto
  <2> QED
    BY <2>4
<1> HIDE DEF S
<1>3. n \in S
  BY <1>1, <1>2, NatSetInduction
<1> QED
  BY <1>3 DEF S, One, Upto, Reads

\* The recursion of Uvarint has a solution.
LEMMA UvarintStep ==
  ASSUME NEW b \in Octets
  PROVE  Uvarint[b] = IF varintEnd[b] = 0 THEN 0 ELSE Digits(Uvarint, b)
<1>1. PICK f : Reads(f, 10)
  BY ReadsExist
<1>2. \A k \in 0..10 : \A c \in Octets : f[k][c] = IF k = 0 THEN 0 ELSE Digits(f[k - 1], c)
  BY <1>1 DEF Reads
<1> DEFINE g == [c \in Octets |-> f[varintEnd[c]][c]]
<1>3. ASSUME NEW c \in Octets
      PROVE  g[c] = IF varintEnd[c] = 0 THEN 0 ELSE Digits(g, c)
  <2>1. PICK n \in 0..10 : n = varintEnd[c]
    BY VarintEndMeans
  <2>2. g[c] = IF n = 0 THEN 0 ELSE Digits(f[n - 1], c)
    BY <1>2, <2>1
  <2>3. ASSUME n # 0, ~(c[1] < 128) PROVE f[n - 1][Tail(c)] = g[Tail(c)]
    BY <2>1, <2>3, VarintEndTail
  <2> HIDE DEF g
  <2>4. n # 0 => Digits(f[n - 1], c) = Digits(g, c)
    BY <2>3, Zenon DEF Digits
  <2> QED
    BY <2>1, <2>2, <2>4
<1>4. g = [c \in Octets |-> IF varintEnd[c] = 0 THEN 0 ELSE Digits(g, c)]
  BY <1>3
<1> HIDE DEF g
<1>5. Uvarint = [c \in Octets |-> IF varintEnd[c] = 0 THEN 0 ELSE Digits(Uvarint, c)]
  <2>1. \E h : h = [c \in Seq(0..255) |->
                      IF varintEnd[c] = 0 THEN 0
                      ELSE IF c[1] < 128 THEN c[1] ELSE (c[1] - 128) + 128 * h[Tail(c)]]
    BY <1>4, Zenon DEF Digits, Octets
  <2>2. Uvarint = [c \in Seq(0..255) |->
                      IF varintEnd[c] = 0 THEN 0
                      ELSE IF c[1] < 128 THEN c[1] ELSE (c[1] - 128) + 128 * Uvarint[Tail(c)]]
    BY <2>1, Zenon DEF Uvarint
  <2> QED
    BY <2>2, Zenon DEF Digits, Octets
<1>6. \A h : h = [c \in Octets |-> IF varintEnd[c] = 0 THEN 0 ELSE Digits(h, c)]
                => h[b] = IF varintEnd[b] = 0 THEN 0 ELSE Digits(h, b)
  BY Zenon
<1> QED
  BY <1>5, <1>6, Zenon

\* The number at the start of b is v and takes n bytes.
ReadsAs(b, v, n) == varintEnd[b] = n /\ Uvarint[b] = v

\* A byte without the continuation bit is read as itself.
LEMMA ReadLast ==
  ASSUME NEW c \in 0..127, NEW t \in Octets
  PROVE  ReadsAs(<<c>> \o t, c, 1)
<1>0. c \in 0..255
  OBVIOUS
<1>1. <<c>> \in Octets /\ Len(<<c>>) = 1 /\ <<c>>[1] = c
  BY <1>0, OneByte
<1>2. PICK b \in Octets : b = <<c>> \o t /\ Len(b) = 1 + Len(t) /\ Len(t) \in Nat
  BY <1>1, JoinLen
<1>3. b[1] = c
  BY <1>1, <1>2, JoinIs
<1>4. varintEnd[b] = 1
  <2>1. 1 \in 1..Len(b) /\ 1 <= 10 /\ b[1] < 128 /\ \A i \in 1..(1 - 1) : b[i] >= 128
    BY <1>2, <1>3
  <2> QED
    BY <2>1, VarintEndIs
<1>5. Uvarint[b] = c
  <2>1. Uvarint[b] = Digits(Uvarint, b)
    BY <1>4, UvarintStep
  <2> QED
    BY <1>3, <2>1 DEF Digits
<1> QED
  BY <1>2, <1>4, <1>5 DEF ReadsAs

\* Dropping the byte put in front gives back the rest.
LEMMA TailJoin ==
  ASSUME NEW c \in 0..255, NEW t \in Octets
  PROVE  Tail(<<c>> \o t) = t
<1>1. <<c>> \in Octets /\ Len(<<c>>) = 1
  BY OneByte
<1>2. PICK b \in Octets, m \in Nat : b = <<c>> \o t /\ m = Len(t) /\ Len(b) = 1 + m
  BY <1>1, JoinLen
<1>3. b # <<>>
  BY <1>2
<1>4. Tail(b) = SubSeq(b, 2, Len(b))
  BY <1>3, TailIsSubSeq DEF Octets
<1>5. From(b, 1) = t
  BY <1>1, <1>2, FromJoin
<1> QED
  BY <1>2, <1>4, <1>5 DEF From

\* A byte that continues adds its seven bits below those that follow.
LEMMA ReadMore ==
  ASSUME NEW c \in 128..255, NEW t \in Octets, NEW v \in Nat, NEW n \in 1..9, ReadsAs(t, v, n)
  PROVE  ReadsAs(<<c>> \o t, c - 128 + 128 * v, n + 1)
<1>0. c \in 0..255
  OBVIOUS
<1>1. <<c>> \in Octets /\ Len(<<c>>) = 1 /\ <<c>>[1] = c
  BY <1>0, OneByte
<1>2. PICK b \in Octets : b = <<c>> \o t /\ Len(b) = 1 + Len(t) /\ Len(t) \in Nat
  BY <1>1, JoinLen
<1>3. b[1] = c /\ \A i \in 1..Len(t) : b[1 + i] = t[i]
  BY <1>1, <1>2, JoinIs
<1>4. PICK m \in Nat : m = Len(t)
  BY <1>2
<1>5. n \in 1..m /\ t[n] < 128 /\ \A i \in 1..m : i < n => t[i] >= 128
  <2>1. varintEnd[t] = n /\ n # 0
    BY DEF ReadsAs
  <2> QED
    BY <1>4, <2>1, VarintEndMeans
<1>6. varintEnd[b] = n + 1
  <2>1. \A i \in 1..n : i \in 1..m /\ b[1 + i] = t[i]
    BY <1>3, <1>4, <1>5
  <2>2. b[n + 1] < 128
    BY <1>5, <2>1
  <2>3. ASSUME NEW i \in 1..((n + 1) - 1) PROVE b[i] >= 128
    <3>1. CASE i = 1
      BY <1>3, <3>1
    <3>2. CASE i # 1
      <4>1. PICK j \in 1..n : j = i - 1 /\ 1 + j = i /\ j < n
        BY <3>2
      <4> QED
        BY <1>5, <2>1, <4>1
    <3> QED
      BY <3>1, <3>2
  <2>4. n + 1 \in 1..Len(b) /\ n + 1 <= 10
    BY <1>2, <1>4, <1>5
  <2> QED
    BY <2>2, <2>3, <2>4, VarintEndIs
<1>7. Uvarint[b] = c - 128 + 128 * v
  <2>1. n + 1 # 0
    OBVIOUS
  <2>2. Uvarint[b] = Digits(Uvarint, b)
    BY <1>6, <2>1, UvarintStep
  <2>3. Tail(b) = t
    BY <1>0, <1>2, TailJoin
  <2>4. Uvarint[t] = v
    BY DEF ReadsAs
  <2>5. ~(b[1] < 128)
    BY <1>3
  <2> QED
    BY <1>3, <2>2, <2>3, <2>4, <2>5 DEF Digits
<1> QED
  BY <1>2, <1>6, <1>7 DEF ReadsAs

\* A number takes at most ten bytes (MaxVarintLen) and a tag is a number.
Widths == LenBits \in 7..70

\* A number of the width takes at most ten bytes.
LEMMA FewBytes ==
  ASSUME Widths, NEW v \in Nat
  PROVE  uvarintLen(v) <= 10
<1> DEFINE w == IF v = 0 THEN 1 ELSE v
           B == {n \in 0..(LenBits - 1) : 2^n <= w}
<1>1. LenBits \in Nat /\ LenBits <= 70
  BY DEF Widths
<1>2. IsFiniteSet(0..(LenBits - 1)) /\ Cardinality(0..(LenBits - 1)) = LenBits
  <2>1. PICK m \in Nat : m = LenBits - 1 /\ m + 1 = LenBits
    BY LenBitsAssumption
  <2>2. IsFiniteSet(0..m) /\ Cardinality(0..m) = m + 1
    BY FS_Interval
  <2> QED
    BY <2>1, <2>2
<1>3. B \subseteq 0..(LenBits - 1)
  OBVIOUS
<1>4. Len64(w) = Cardinality(B)
  BY DEF Len64
<1> HIDE DEF w, B
<1>5. IsFiniteSet(B) /\ Cardinality(B) <= Cardinality(0..(LenBits - 1))
  BY <1>2, <1>3, FS_Subset
<1>6. PICK k \in Nat : k = Len64(w) /\ k <= 70
  BY <1>1, <1>2, <1>4, <1>5, FS_CardinalityType
<1>7. uvarintLen(v) = (k + 6) \div 7
  BY <1>6 DEF uvarintLen, w
<1> QED
  BY <1>6, <1>7

\* What appendUvarint writes, by its cases.
LEMMA WrittenShort ==
  ASSUME NEW v \in 0..127
  PROVE  appendUvarint[v] = <<v>>
<1>1. v \in Nat /\ ~(v >= 128)
  OBVIOUS
<1>2. appendUvarint[v] = UvarintBytes(appendUvarint, v)
  BY <1>1, AppendUvarintStep
<1> QED
  BY <1>1, <1>2, Zenon DEF UvarintBytes

\* A number of eight bits or more is written as a byte that continues and a lesser number.
LEMMA WrittenLong ==
  ASSUME NEW v \in Nat, v >= 128, v < 2^LenBits
  PROVE  \E c \in 128..255, w \in Nat :
           /\ w < v /\ w < 2^LenBits /\ v = c - 128 + 128 * w
           /\ appendUvarint[w] \in Octets
           /\ appendUvarint[v] = <<c>> \o appendUvarint[w]
<1>1. 2^LenBits \in Nat
  BY LenBitsAssumption, PowerDoubles
<1>2. PICK w \in Nat : w = v \div 128 /\ w < v
  OBVIOUS
<1>3. PICK c \in 128..255 : c = (v % 128) + 128 /\ v = c - 128 + 128 * w
  BY <1>2
<1>4. w < 2^LenBits
  BY <1>1, <1>2
<1>5. appendUvarint[v] = <<c>> \o appendUvarint[w]
  BY <1>2, <1>3, AppendUvarintStep DEF UvarintBytes
<1>6. appendUvarint[w] \in Octets
  BY <1>4, AppendUvarintLen
<1> QED
  BY <1>2, <1>3, <1>4, <1>5, <1>6

\* A number is read back with its length, whatever follows it; only its last
\* byte is below 128.
LEMMA UvarintReadsBack ==
  ASSUME Widths, NEW v \in Nat, v < 2^LenBits
  PROVE  /\ appendUvarint[v] \in Octets /\ Len(appendUvarint[v]) \in 1..10
         /\ \A t \in Octets : ReadsAs(appendUvarint[v] \o t, v, Len(appendUvarint[v]))
         /\ \A i \in 1..(Len(appendUvarint[v]) - 1) : appendUvarint[v][i] >= 128
<1> DEFINE Back(x, u) == /\ Len(u) \in 1..10
                         /\ \A t \in Octets : ReadsAs(u \o t, x, Len(u))
                         /\ \A i \in 1..(Len(u) - 1) : u[i] >= 128
           S == {m \in Nat : \A x \in 0..m : x < 2^LenBits => Back(x, appendUvarint[x])}
<1>0. 2^LenBits \in Nat
  BY LenBitsAssumption, PowerDoubles
<1>1. ASSUME NEW x \in 0..127 PROVE Back(x, appendUvarint[x])
  <2>1. PICK u : u = <<x>> /\ u = appendUvarint[x] /\ Len(u) = 1
    <3>1. x \in 0..255
      OBVIOUS
    <3> QED
      BY <3>1, WrittenShort, OneByte
  <2>2. \A t \in Octets : ReadsAs(u \o t, x, 1)
    BY <2>1, ReadLast
  <2> QED
    BY <2>1, <2>2
<1>2. ASSUME NEW x \in Nat, x >= 128, x < 2^LenBits,
             \A w \in Nat : w < x /\ w < 2^LenBits => Back(w, appendUvarint[w])
      PROVE  Back(x, appendUvarint[x])
  <2>1. PICK c \in 128..255, w \in Nat :
           /\ w < x /\ w < 2^LenBits /\ x = c - 128 + 128 * w
           /\ appendUvarint[w] \in Octets
           /\ appendUvarint[x] = <<c>> \o appendUvarint[w]
    BY <1>2, WrittenLong
  <2>2. PICK u \in Octets, t \in Octets :
           u = appendUvarint[x] /\ t = appendUvarint[w] /\ Len(u) <= 10 /\ Back(w, t)
    <3>1. appendUvarint[x] \in Octets /\ Len(appendUvarint[x]) <= 10
      BY <1>2, AppendUvarintLen, FewBytes
    <3> QED
      BY <1>2, <2>1, <3>1, ZenonT(40)
  <2>3. c \in 0..255
    OBVIOUS
  <2>4. <<c>> \in Octets /\ Len(<<c>>) = 1 /\ <<c>>[1] = c
    BY <2>3, OneByte
  <2>5. u = <<c>> \o t /\ Len(u) = 1 + Len(t) /\ Len(t) \in Nat
    BY <2>1, <2>2, <2>4, JoinLen
  <2>6. PICK n \in 1..9 : n = Len(t)
    <3>1. Len(t) \in 1..10 /\ Len(u) <= 10 /\ Len(u) = 1 + Len(t)
      BY <2>2, <2>5, Zenon
    <3>2. PICK k \in 1..10 : k = Len(t)
      BY <3>1
    <3>3. 1 + k <= 10
      BY <3>1, <3>2, Zenon
    <3>4. k \in 1..9
      BY <3>3
    <3> QED
      BY <3>2, <3>4, Zenon
  <2>7. ASSUME NEW r \in Octets PROVE ReadsAs(u \o r, x, n + 1)
    <3>1. t \o r \in Octets /\ ReadsAs(t \o r, w, n)
      BY <2>2, <2>6, JoinLen
    <3>2. PICK q \in Octets : q = t \o r
      BY <3>1
    <3>3. ReadsAs(<<c>> \o q, c - 128 + 128 * w, n + 1)
      BY <3>1, <3>2, ReadMore
    <3>4. u \o r = <<c>> \o q
      BY <2>4, <2>5, <3>2, JoinAssoc
    <3> QED
      BY <2>1, <3>3, <3>4
  <2>8. ASSUME NEW i \in 1..((n + 1) - 1) PROVE u[i] >= 128
    <3>1. CASE i = 1
      <4>1. u[1] = c
        BY <2>4, <2>5, JoinIs
      <4> QED
        BY <3>1, <4>1
    <3>2. CASE i # 1
      <4>1. PICK j \in 1..(n - 1) : j = i - 1 /\ 1 + j = i /\ j \in 1..n
        BY <3>2
      <4>2. u[1 + j] = t[j]
        <5>1. \A k \in 1..Len(t) : (<<c>> \o t)[Len(<<c>>) + k] = t[k]
          BY <2>4, JoinIs
        <5> QED
          BY <2>4, <2>5, <2>6, <4>1, <5>1
      <4> QED
        BY <2>2, <2>6, <4>1, <4>2
    <3> QED
      BY <3>1, <3>2
  <2>9. Len(u) = n + 1 /\ n + 1 \in 1..10
    <3>1. Len(u) = 1 + n
      BY <2>5, <2>6, Zenon
    <3> QED
      BY <3>1
  <2> QED
    BY <2>2, <2>7, <2>8, <2>9
<1> HIDE DEF Back
<1>3. 0 \in S
  BY <1>1
<1>4. ASSUME NEW m \in Nat, m \in S PROVE m + 1 \in S
  <2> SUFFICES ASSUME m + 1 < 2^LenBits PROVE Back(m + 1, appendUvarint[m + 1])
    BY <1>4
  <2>1. CASE m + 1 < 128
    BY <1>1, <2>1
  <2>2. CASE m + 1 >= 128
    <3>1. \A w \in Nat : w < m + 1 /\ w < 2^LenBits => Back(w, appendUvarint[w])
      BY <1>4
    <3> QED
      BY <1>2, <2>2, <3>1
  <2> QED
    BY <2>1, <2>2
<1> HIDE DEF S
<1>5. v \in S
  BY <1>3, <1>4, NatSetInduction
<1>6. Back(v, appendUvarint[v])
  BY <1>5 DEF S
<1> QED
  BY <1>6, AppendUvarintLen DEF Back

\* What the reader of varints found is what Uvarint and UvarintLen say.
LEMMA UvarintLenIs ==
  ASSUME NEW b \in Octets, NEW v \in Nat, NEW n, ReadsAs(b, v, n), v < 2^LenBits
  PROVE  UvarintLen[b] = n /\ Uvarint[b] = v
<1>1. UvarintLen[b] = IF Uvarint[b] < 2^LenBits THEN varintEnd[b] ELSE 0
  BY Zenon DEF UvarintLen, Octets
<1> QED
  BY <1>1 DEF ReadsAs

\* A number that is cut off is not read.
LEMMA UvarintCutOff ==
  ASSUME Widths, NEW v \in Nat, v < 2^LenBits, NEW n \in Nat, n < Len(appendUvarint[v])
  PROVE  UvarintLen[SubSeq(appendUvarint[v], 1, n)] = 0
<1>1. PICK u \in Octets : u = appendUvarint[v] /\ \A i \in 1..(Len(u) - 1) : u[i] >= 128
  BY UvarintReadsBack
<1>2. n \in 0..Len(u) /\ Len(u) \in Nat /\ \A i \in 1..n : i \in 1..(Len(u) - 1)
  BY <1>1, JoinLen
<1>3. PICK b \in Octets : b = SubSeq(u, 1, n) /\ Len(b) = n /\ \A i \in 1..n : b[i] = u[i]
  BY <1>2, PrefixType
<1>4. varintEnd[b] = 0
  BY <1>1, <1>2, <1>3, VarintEndNone
<1>5. UvarintLen[b] = IF Uvarint[b] < 2^LenBits THEN varintEnd[b] ELSE 0
  BY Zenon DEF UvarintLen, Octets
<1> QED
  BY <1>1, <1>3, <1>4, <1>5

-----------------------------------------------------------------------------
(***************************************************************************)
(* Reading one field.                                                      *)
(***************************************************************************)
LEMMA SmallTag ==
  ASSUME Widths, NEW v \in 0..127
  PROVE  v \in Nat /\ v < 2^LenBits
<1>1. LenBits \in Nat /\ 7 <= LenBits
  BY DEF Widths
<1>2. 2^7 <= 2^LenBits /\ 2^LenBits \in Nat
  BY <1>1, PowerGrows, PowerDoubles
<1>3. 2^7 = 128
  BY PowerOfSeven
<1> QED
  BY <1>2, <1>3

\* A tag below 128 takes one byte.
LEMMA CutTag ==
  ASSUME Widths, NEW tag \in 0..127, NEW t \in Octets
  PROVE  cut[<<tag>> \o t] = behindTag(t, tag)
<1>1. tag \in 0..255 /\ tag \in Nat /\ tag < 2^LenBits
  BY SmallTag
<1>2. <<tag>> \in Octets /\ Len(<<tag>>) = 1
  BY <1>1, OneByte
<1>3. PICK b \in Octets : b = <<tag>> \o t
  BY <1>2, JoinLen
<1>4. ReadsAs(b, tag, 1)
  BY <1>3, ReadLast
<1>5. UvarintLen[b] = 1 /\ Uvarint[b] = tag
  BY <1>1, <1>4, UvarintLenIs
<1>6. From(b, 1) = t
  BY <1>2, <1>3, FromJoin
<1>7. cut[b] = IF UvarintLen[b] = 0 THEN stuck ELSE behindTag(From(b, UvarintLen[b]), Uvarint[b])
  BY Zenon DEF cut, Octets
<1> QED
  BY <1>3, <1>5, <1>6, <1>7

\* A field that takes the whole of x in front of t.
LEMMA SplitJoin ==
  ASSUME NEW x \in Octets, NEW t \in Octets, NEW tag \in Nat
  PROVE  split(x \o t, tag, Len(x)) =
           [field |-> [num  |-> tag \div 8,
                       wt   |-> tag % 8,
                       v    |-> IF tag % 8 = 0 THEN Uvarint[x \o t] ELSE 0,
                       body |-> CASE tag % 8 = 0 -> <<>>
                                  [] tag % 8 = 2 -> SubSeq(x \o t, UvarintLen[x \o t] + 1, Len(x))
                                  [] OTHER       -> x],
            rest  |-> t]
<1>1. PICK b \in Octets, m \in Nat, n \in Nat :
         b = x \o t /\ m = Len(x) /\ n = Len(t) /\ Len(b) = m + n
  <2>1. x \o t \in Octets /\ Len(x \o t) = Len(x) + Len(t)
    BY JoinLen
  <2>2. Len(x) \in Nat /\ Len(t) \in Nat
    BY JoinLen
  <2> QED
    BY <2>1, <2>2
<1>2. ~(m < 0 \/ Len(b) < m)
  BY <1>1
<1>3. SubSeq(b, 1, m) = x
  <2>1. m \in 0..Len(x)
    BY <1>1
  <2> QED
    BY <1>1, <2>1, PrefixOfFirst, PrefixWhole
<1>4. From(b, m) = t
  BY <1>1, FromJoin
<1>5. split(b, tag, m) =
           [field |-> [num  |-> tag \div 8,
                       wt   |-> tag % 8,
                       v    |-> IF tag % 8 = 0 THEN Uvarint[b] ELSE 0,
                       body |-> CASE tag % 8 = 0 -> <<>>
                                  [] tag % 8 = 2 -> SubSeq(b, UvarintLen[b] + 1, m)
                                  [] OTHER       -> SubSeq(b, 1, m)],
            rest  |-> From(b, m)]
  BY <1>2, Zenon DEF split
<1> QED
  BY <1>1, <1>3, <1>4, <1>5

\* A written number is read behind its tag.
LEMMA VarintBehindTag ==
  ASSUME Widths, NEW tag \in Nat, tag % 8 = 0, NEW v \in Nat, v < 2^LenBits, NEW t \in Octets
  PROVE  behindTag(appendUvarint[v] \o t, tag) =
           [field |-> [num |-> tag \div 8, wt |-> 0, v |-> v, body |-> <<>>], rest |-> t]
<1>1. PICK u \in Octets, n \in 1..10 :
         u = appendUvarint[v] /\ n = Len(u) /\ ReadsAs(u \o t, v, n)
  BY UvarintReadsBack
<1>2. PICK b \in Octets : b = u \o t
  BY JoinLen
<1>3. UvarintLen[b] = n /\ Uvarint[b] = v
  BY <1>1, <1>2, UvarintLenIs
<1>4. fieldLen(b, tag % 8) = n
  <2>1. n # 0
    OBVIOUS
  <2> QED
    BY <1>3, <2>1 DEF fieldLen
<1>5. behindTag(b, tag) = split(b, tag, n)
  BY <1>4 DEF behindTag
<1>6. split(b, tag, n) = [field |-> [num |-> tag \div 8, wt |-> 0, v |-> v, body |-> <<>>], rest |-> t]
  BY <1>1, <1>2, <1>3, SplitJoin, SMTT(30)
<1> QED
  BY <1>1, <1>2, <1>5, <1>6

\* Written bytes are read behind their tag.
LEMMA BytesBehindTag ==
  ASSUME Widths, NEW tag \in Nat, tag % 8 = 2, NEW body \in Octets, Len(body) < 2^LenBits,
         NEW t \in Octets
  PROVE  behindTag((appendUvarint[Len(body)] \o body) \o t, tag) =
           [field |-> [num |-> tag \div 8, wt |-> 2, v |-> 0, body |-> body], rest |-> t]
<1>1. PICK m \in Nat : m = Len(body)
  BY JoinLen
<1>2. PICK u \in Octets, n \in 1..10, r \in Octets :
         /\ u = appendUvarint[m] /\ n = Len(u)
         /\ r = body \o t /\ ReadsAs(u \o r, m, n)
  BY <1>1, JoinLen, UvarintReadsBack
<1>3. PICK x \in Octets, b \in Octets : /\ x = u \o body /\ Len(x) = n + m
                                        /\ b = x \o t /\ b = u \o r
  <2>1. PICK x \in Octets : x = u \o body /\ Len(x) = Len(u) + Len(body)
    BY JoinLen
  <2>2. x \o t \in Octets /\ x \o t = u \o r
    <3>1. x \o t \in Octets
      BY JoinLen
    <3>2. (u \o body) \o t = u \o (body \o t)
      BY JoinAssoc
    <3> QED
      BY <1>2, <2>1, <3>1, <3>2, Zenon
  <2> QED
    BY <1>1, <1>2, <2>1, <2>2
<1>4. UvarintLen[b] = n /\ Uvarint[b] = m
  BY <1>1, <1>2, <1>3, UvarintLenIs
<1>5. PICK k \in Nat : k = Len(b) /\ n + m <= k
  <2>1. PICK l \in Nat : l = Len(t)
    BY JoinLen
  <2>2. Len(x \o t) = Len(x) + Len(t)
    BY JoinLen
  <2>3. Len(b) = n + m + l
    BY <1>3, <2>1, <2>2
  <2> QED
    BY <2>3
<1>6. fieldLen(b, tag % 8) = n + m
  <2>1. n # 0 /\ ~(k - n < m)
    BY <1>5
  <2> QED
    BY <1>4, <1>5, <2>1 DEF fieldLen
<1>7. behindTag(b, tag) = split(b, tag, n + m)
  BY <1>6 DEF behindTag
<1>8. SubSeq(b, n + 1, n + m) = body
  <2>1. m \in 0..Len(r)
    <3>1. PICK l \in Nat : l = Len(t)
      BY JoinLen
    <3>2. Len(body \o t) = Len(body) + Len(t)
      BY JoinLen
    <3> QED
      BY <1>1, <1>2, <3>1, <3>2
  <2>2. SubSeq(b, n + 1, n + m) = SubSeq(r, 1, m)
    <3>1. SubSeq(u \o r, Len(u) + 1, Len(u) + m) = SubSeq(r, 1, m)
      BY <2>1, MidJoin
    <3> QED
      BY <1>2, <1>3, <3>1, Zenon
  <2>3. m \in 0..Len(body)
    BY <1>1
  <2> QED
    BY <1>1, <1>2, <2>2, <2>3, PrefixOfFirst, PrefixWhole
<1>9. split(b, tag, n + m) = [field |-> [num |-> tag \div 8, wt |-> 2, v |-> 0, body |-> body], rest |-> t]
  <2>1. split(x \o t, tag, Len(x)) =
           [field |-> [num  |-> tag \div 8, wt |-> tag % 8,
                       v    |-> IF tag % 8 = 0 THEN Uvarint[x \o t] ELSE 0,
                       body |-> CASE tag % 8 = 0 -> <<>>
                                  [] tag % 8 = 2 -> SubSeq(x \o t, UvarintLen[x \o t] + 1, Len(x))
                                  [] OTHER       -> x],
            rest  |-> t]
    BY SplitJoin
  <2>2. split(b, tag, n + m) =
           [field |-> [num |-> tag \div 8, wt |-> 2, v |-> 0, body |-> SubSeq(b, n + 1, n + m)],
            rest  |-> t]
    <3>1. ~(tag % 8 = 0)
      OBVIOUS
    <3> QED
      BY <1>3, <1>4, <2>1, <3>1, Zenon
  <2> QED
    BY <1>8, <2>2, Zenon
<1> QED
  BY <1>1, <1>2, <1>3, <1>7, <1>9

\* Four or eight fixed bytes are read behind their tag.
LEMMA FixedBehindTag ==
  ASSUME NEW tag \in Nat, NEW x \in Octets, NEW t \in Octets,
         (tag % 8 = 1 /\ Len(x) = 8) \/ (tag % 8 = 5 /\ Len(x) = 4)
  PROVE  behindTag(x \o t, tag) =
           [field |-> [num |-> tag \div 8, wt |-> tag % 8, v |-> 0, body |-> x], rest |-> t]
<1>1. PICK b \in Octets : b = x \o t
  BY JoinLen
<1>2. fieldLen(b, tag % 8) = Len(x)
  BY DEF fieldLen
<1>3. behindTag(b, tag) = split(b, tag, Len(x))
  BY <1>2 DEF behindTag
<1> QED
  BY <1>1, <1>3, SplitJoin

-----------------------------------------------------------------------------
(***************************************************************************)
(* Recursion on bytes: f of b is a piece made of b and f of what remains,  *)
(* which is shorter.                                                       *)
(***************************************************************************)
Piece(one, next, f, b) == IF b = <<>> THEN <<>> ELSE one[b] \o f[next[b]]

Short(n) == {b \in Octets : Len(b) <= n}

Shortens(next) == \A b \in Octets : b # <<>> => next[b] \in Octets /\ Len(next[b]) < Len(b)

\* f has the pieces of what is not longer than n.
Pieces(one, next, f, n) == f = [b \in Short(n) |-> Piece(one, next, f, b)]

\* A piece depends only on what follows it.
LEMMA PieceKept ==
  ASSUME NEW one, NEW next, NEW f, NEW g, NEW b, b # <<>> => f[next[b]] = g[next[b]]
  PROVE  Piece(one, next, f, b) = Piece(one, next, g, b)
  BY Zenon DEF Piece

\* What follows is shorter.
LEMMA ShortNext ==
  ASSUME NEW next, Shortens(next), NEW n \in Nat, NEW b \in Short(n + 1), b # <<>>
  PROVE  next[b] \in Short(n)
<1>1. b \in Octets /\ Len(b) <= n + 1
  BY DEF Short
<1>2. next[b] \in Octets /\ Len(next[b]) < Len(b)
  BY <1>1 DEF Shortens
<1>3. Len(b) \in Nat /\ Len(next[b]) \in Nat
  BY <1>1, <1>2, JoinLen
<1>4. Len(next[b]) <= n
  BY <1>1, <1>2, <1>3
<1> QED
  BY <1>2, <1>4 DEF Short

\* Short texts are among the longer.
LEMMA ShortGrows ==
  ASSUME NEW m \in Nat, NEW n \in Nat, m <= n
  PROVE  Short(m) \subseteq Short(n)
<1>1. \A b \in Octets : Len(b) \in Nat
  BY JoinLen
<1>2. \A k \in Nat : k <= m => k <= n
  OBVIOUS
<1> QED
  BY <1>1, <1>2 DEF Short

\* Only the empty text has no length.
LEMMA ShortNone ==
  ASSUME NEW b \in Short(0)
  PROVE  b = <<>>
<1>1. b \in Octets /\ Len(b) <= 0
  BY DEF Short
<1>2. Len(b) = 0
  BY <1>1, JoinLen
<1> QED
  BY <1>1, <1>2, EmptySeq DEF Octets

\* The piece by piece reader of texts of n bytes exists.
LEMMA PiecesExist ==
  ASSUME NEW one, NEW next, Shortens(next), NEW n \in Nat
  PROVE  \E f : Pieces(one, next, f, n)
<1> DEFINE S == {m \in Nat : \E f : Pieces(one, next, f, m)}
<1>1. 0 \in S
  <2> DEFINE f == [b \in Short(0) |-> <<>>]
  <2>1. \A b \in Short(0) : f[b] = Piece(one, next, f, b)
    BY ShortNone, Zenon DEF Piece
  <2>2. Pieces(one, next, f, 0)
    BY <2>1, Zenon DEF Pieces
  <2> QED
    BY <2>2
<1>2. ASSUME NEW m \in Nat, m \in S PROVE m + 1 \in S
  <2>1. PICK f : Pieces(one, next, f, m)
    BY <1>2
  <2> DEFINE g == [b \in Short(m + 1) |-> Piece(one, next, f, b)]
  <2>2. \A b \in Short(m) : f[b] = Piece(one, next, f, b)
    BY <2>1, Zenon DEF Pieces
  <2>3. Short(m) \subseteq Short(m + 1)
    BY ShortGrows
  <2>4. \A b \in Short(m) : g[b] = f[b]
    BY <2>2, <2>3, Zenon
  <2>5. ASSUME NEW b \in Short(m + 1) PROVE g[b] = Piece(one, next, g, b)
    <3>1. g[b] = Piece(one, next, f, b)
      BY Zenon
    <3> HIDE DEF g
    <3>2. b # <<>> => f[next[b]] = g[next[b]]
      BY <2>4, ShortNext
    <3>3. Piece(one, next, f, b) = Piece(one, next, g, b)
      BY <3>2, PieceKept
    <3> QED
      BY <3>1, <3>3, Zenon
  <2>6. Pieces(one, next, g, m + 1)
    BY <2>5, Zenon DEF Pieces
  <2> QED
    BY <2>6
<1> HIDE DEF S
<1>3. n \in S
  BY <1>1, <1>2, NatSetInduction
<1> QED
  BY <1>3 DEF S

\* Two such readers agree on the texts both read.
LEMMA PiecesUnique ==
  ASSUME NEW one, NEW next, Shortens(next),
         NEW m \in Nat, NEW f, Pieces(one, next, f, m),
         NEW n \in Nat, NEW g, Pieces(one, next, g, n),
         NEW k \in Nat, k <= m, k <= n
  PROVE  \A b \in Short(k) : f[b] = g[b]
<1> DEFINE S == {j \in Nat : j <= m /\ j <= n => \A b \in Short(j) : f[b] = g[b]}
<1>1. /\ \A b \in Short(m) : f[b] = Piece(one, next, f, b)
      /\ \A b \in Short(n) : g[b] = Piece(one, next, g, b)
  BY Zenon DEF Pieces
<1>2. 0 \in S
  <2>1. Short(0) \subseteq Short(m) /\ Short(0) \subseteq Short(n)
    BY ShortGrows
  <2>2. \A b \in Short(0) : f[b] = g[b]
    BY <1>1, <2>1, ShortNone, Zenon DEF Piece
  <2> QED
    BY <2>2
<1>3. ASSUME NEW j \in Nat, j \in S PROVE j + 1 \in S
  <2> SUFFICES ASSUME j + 1 <= m, j + 1 <= n, NEW b \in Short(j + 1) PROVE f[b] = g[b]
    OBVIOUS
  <2>1. j <= m /\ j <= n
    OBVIOUS
  <2>2. \A c \in Short(j) : f[c] = g[c]
    BY <1>3, <2>1
  <2>3. b \in Short(m) /\ b \in Short(n)
    BY ShortGrows
  <2>4. b # <<>> => f[next[b]] = g[next[b]]
    BY <2>2, ShortNext
  <2>5. Piece(one, next, f, b) = Piece(one, next, g, b)
    BY <2>4, PieceKept
  <2> QED
    BY <1>1, <2>3, <2>5, Zenon
<1> HIDE DEF S
<1>4. k \in S
  BY <1>2, <1>3, NatSetInduction
<1> QED
  BY <1>4 DEF S

\* The piece by piece reader of every text exists.
LEMMA PieceByPiece ==
  ASSUME NEW one, NEW next, Shortens(next)
  PROVE  \E f : f = [b \in Octets |-> Piece(one, next, f, b)]
<1> DEFINE upTo(n) == CHOOSE f : Pieces(one, next, f, n)
           g == [b \in Octets |-> upTo(Len(b))[b]]
<1>1. \A n \in Nat : Pieces(one, next, upTo(n), n)
  BY PiecesExist
<1> HIDE DEF upTo
<1>2. ASSUME NEW b \in Octets PROVE g[b] = Piece(one, next, g, b)
  <2>1. PICK n \in Nat : n = Len(b)
    BY JoinLen
  <2>2. b \in Short(n)
    BY <2>1 DEF Short
  <2>3. \A c \in Short(n) : upTo(n)[c] = Piece(one, next, upTo(n), c)
    <3>1. Pieces(one, next, upTo(n), n)
      BY <1>1
    <3> QED
      BY <3>1, Zenon DEF Pieces
  <2>4. g[b] = Piece(one, next, upTo(n), b)
    BY <2>1, <2>2, <2>3, Zenon
  <2>5. ASSUME b # <<>> PROVE upTo(n)[next[b]] = g[next[b]]
    <3>1. next[b] \in Octets /\ Len(next[b]) < Len(b)
      BY <2>5 DEF Shortens
    <3>2. PICK k \in Nat : k = Len(next[b]) /\ k <= n
      BY <2>1, <3>1, JoinLen
    <3>3. next[b] \in Short(k)
      BY <3>1, <3>2 DEF Short
    <3>4. Pieces(one, next, upTo(n), n) /\ Pieces(one, next, upTo(k), k) /\ k <= k
      BY <1>1, <3>2
    <3>5. \A c \in Short(k) : upTo(n)[c] = upTo(k)[c]
      BY <3>2, <3>4, PiecesUnique
    <3> QED
      BY <3>1, <3>2, <3>3, <3>5, Zenon
  <2> HIDE DEF g
  <2>6. Piece(one, next, upTo(n), b) = Piece(one, next, g, b)
    BY <2>5, PieceKept
  <2> QED
    BY <2>4, <2>6, Zenon
<1>3. g = [b \in Octets |-> Piece(one, next, g, b)]
  BY <1>2, Zenon
<1> QED
  BY <1>3, Zenon

-----------------------------------------------------------------------------
(***************************************************************************)
(* The fields of a message.                                                *)
(***************************************************************************)
LEMMA UvarintType ==
  ASSUME NEW b \in Octets
  PROVE  Uvarint[b] \in Nat
<1> DEFINE S == {k \in Nat : \A c \in Octets : varintEnd[c] = k => Uvarint[c] \in Nat}
<1>1. 0 \in S
  BY UvarintStep
<1>2. ASSUME NEW k \in Nat, k \in S PROVE k + 1 \in S
  <2> SUFFICES ASSUME NEW c \in Octets, varintEnd[c] = k + 1 PROVE Uvarint[c] \in Nat
    OBVIOUS
  <2>1. varintEnd[c] # 0
    OBVIOUS
  <2>2. Uvarint[c] = Digits(Uvarint, c)
    BY <2>1, UvarintStep
  <2>3. PICK d \in 0..255 : d = c[1]
    <3>1. 1 \in 1..Len(c)
      BY <2>1, VarintEndMeans
    <3> QED
      BY <2>1, <3>1, VarintEndMeans
  <2>4. CASE d < 128
    BY <2>2, <2>3, <2>4 DEF Digits
  <2>5. CASE ~(d < 128)
    <3>1. Tail(c) \in Octets /\ varintEnd[Tail(c)] = (k + 1) - 1
      BY <2>1, <2>3, <2>5, VarintEndTail
    <3>2. (k + 1) - 1 = k
      OBVIOUS
    <3>3. PICK v \in Nat : v = Uvarint[Tail(c)]
      BY <1>2, <3>1, <3>2
    <3>4. Uvarint[c] = (d - 128) + 128 * v
      BY <2>2, <2>3, <2>5, <3>3 DEF Digits
    <3> QED
      BY <2>5, <3>4
  <2> QED
    BY <2>4, <2>5
<1> HIDE DEF S
<1>3. PICK k \in Nat : k = varintEnd[b]
  BY VarintEndType, JoinLen
<1>4. k \in S
  BY <1>1, <1>2, NatSetInduction
<1> QED
  BY <1>3, <1>4 DEF S

\* A varint read is within its bytes.
LEMMA UvarintLenRange ==
  ASSUME NEW b \in Octets
  PROVE  UvarintLen[b] \in 0..Len(b)
<1>1. UvarintLen[b] = IF Uvarint[b] < 2^LenBits THEN varintEnd[b] ELSE 0
  BY Zenon DEF UvarintLen, Octets
<1>2. varintEnd[b] \in 0..Len(b) /\ Len(b) \in Nat
  BY VarintEndType, JoinLen
<1>3. 0 \in 0..Len(b)
  BY <1>2
<1> QED
  BY <1>1, <1>2, <1>3

\* What is behind the first k bytes.
LEMMA FromType ==
  ASSUME NEW b \in Octets, NEW k \in 0..Len(b)
  PROVE  From(b, k) \in Octets /\ Len(From(b, k)) = Len(b) - k
<1>1. PICK n \in Nat : n = Len(b) /\ k \in 0..n
  BY JoinLen
<1>2. \A i \in (k + 1)..n : i \in 1..n
  BY <1>1
<1>3. \A i \in (k + 1)..n : b[i] \in 0..255
  BY <1>1, <1>2, LenProperties DEF Octets
<1>4. k + 1 \in Int /\ n \in Int /\ (IF k + 1 <= n THEN n - (k + 1) + 1 ELSE 0) = n - k
  BY <1>1
<1>5. SubSeq(b, k + 1, n) \in Seq(0..255)
      /\ Len(SubSeq(b, k + 1, n)) = IF k + 1 <= n THEN n - (k + 1) + 1 ELSE 0
  BY <1>3, <1>4, SubSeqProperties
<1> QED
  BY <1>1, <1>4, <1>5 DEF From, Octets

\* The length of a field is a number, -1 when it is unknown.
LEMMA FieldLenType ==
  ASSUME NEW b \in Octets, NEW wt
  PROVE  fieldLen(b, wt) \in Int
<1>1. UvarintLen[b] \in Int /\ Uvarint[b] \in Int
  BY UvarintLenRange, UvarintType, JoinLen
<1> QED
  BY <1>1 DEF fieldLen

\* Cutting a field leaves fewer bytes.
LEMMA CutShortens ==
  ASSUME NEW b \in Octets, b # <<>>
  PROVE  cut[b].rest \in Octets /\ Len(cut[b].rest) < Len(b)
<1>1. PICK m \in Nat : m = Len(b) /\ m > 0
  <2>1. Len(b) \in Nat /\ Len(b) # 0
    BY JoinLen, EmptySeq DEF Octets
  <2> QED
    BY <2>1
<1>2. cut[b] = IF UvarintLen[b] = 0 THEN stuck ELSE behindTag(From(b, UvarintLen[b]), Uvarint[b])
  BY Zenon DEF cut, Octets
<1>3. stuck.rest \in Octets /\ Len(stuck.rest) = 0
  BY DEF stuck, Octets
<1>4. CASE UvarintLen[b] = 0
  BY <1>1, <1>2, <1>3, <1>4
<1>5. CASE UvarintLen[b] # 0
  <2>1. PICK k \in 1..m : k = UvarintLen[b]
    BY <1>1, <1>5, UvarintLenRange
  <2>2. PICK t \in Octets : t = From(b, k) /\ Len(t) = m - k
    <3>1. k \in 0..Len(b)
      BY <1>1
    <3>2. From(b, k) \in Octets /\ Len(From(b, k)) = Len(b) - k
      BY <3>1, FromType
    <3> QED
      BY <1>1, <3>2
  <2>3. PICK n \in Int : n = fieldLen(t, Uvarint[b] % 8)
    BY FieldLenType
  <2>4. cut[b] = split(t, Uvarint[b], n)
    BY <1>2, <1>5, <2>1, <2>2, <2>3 DEF behindTag
  <2>5. CASE n < 0 \/ Len(t) < n
    <3>1. cut[b] = stuck
      BY <2>4, <2>5 DEF split
    <3> QED
      BY <1>1, <1>3, <3>1
  <2>6. CASE ~(n < 0 \/ Len(t) < n)
    <3>1. cut[b].rest = From(t, n)
      BY <2>4, <2>6 DEF split
    <3>2. n \in 0..Len(t)
      BY <2>2, <2>6
    <3>3. From(t, n) \in Octets /\ Len(From(t, n)) = Len(t) - n
      BY <3>2, FromType
    <3> QED
      BY <1>1, <2>1, <2>2, <3>1, <3>2, <3>3
  <2> QED
    BY <2>5, <2>6
<1> QED
  BY <1>4, <1>5

\* The recursion of scan has a solution.
LEMMA ScanStep ==
  ASSUME NEW b \in Octets
  PROVE  scan[b] = IF b = <<>> THEN <<>> ELSE <<cut[b].field>> \o scan[cut[b].rest]
<1> DEFINE one  == [c \in Octets |-> <<cut[c].field>>]
           next == [c \in Octets |-> cut[c].rest]
<1>1. Shortens(next)
  BY CutShortens DEF Shortens
<1>2. PICK f : f = [c \in Octets |-> Piece(one, next, f, c)]
  BY <1>1, PieceByPiece, Zenon
<1>3. \A c \in Octets : one[c] = <<cut[c].field>> /\ next[c] = cut[c].rest
  OBVIOUS
<1> HIDE DEF one, next
<1>4. \A c \in Octets : f[c] = IF c = <<>> THEN <<>> ELSE follow(f, cut[c])
  <2>1. \A c \in Octets : f[c] = Piece(one, next, f, c)
    BY <1>2, Zenon
  <2> QED
    BY <1>3, <2>1, Zenon DEF Piece, follow
<1>5. f = [c \in Octets |-> IF c = <<>> THEN <<>> ELSE follow(f, cut[c])]
  <2>1. f = [c \in Octets |-> f[c]]
    BY <1>2, Zenon
  <2> QED
    BY <1>4, <2>1, Zenon
<1>6. scan = [c \in Octets |-> IF c = <<>> THEN <<>> ELSE follow(scan, cut[c])]
  BY <1>5, Zenon DEF scan, Octets
<1>7. scan[b] = IF b = <<>> THEN <<>> ELSE follow(scan, cut[b])
  BY <1>6, Zenon
<1> QED
  BY <1>7, Zenon DEF follow

\* B is the field F as a collector writes it: it is read as F whatever follows
\* it, and a part of it is noticed.
Block(B, F) ==
    /\ B \in Octets /\ B # <<>>
    /\ F.num \in Nat
    /\ \A t \in Octets : cut[B \o t] = [field |-> F, rest |-> t]
    /\ \A n \in 1..(Len(B) - 1) : cut[SubSeq(B, 1, n)] = stuck

\* A field is not the mark of an unreadable rest.
LEMMA BlockReadable ==
  ASSUME NEW F, F.num \in Nat
  PROVE  F # unreadable
<1>1. unreadable.num = -1
  BY DEF unreadable
<1>2. -1 \notin Nat
  OBVIOUS
<1> QED
  BY <1>1, <1>2

\* A field whose bytes are not all there stops the scan.
LEMMA BehindTagStuck ==
  ASSUME NEW q \in Octets, NEW tag \in Nat,
         fieldLen(q, tag % 8) = -1 \/ Len(q) < fieldLen(q, tag % 8)
  PROVE  behindTag(q, tag) = stuck
<1>1. PICK n : n = fieldLen(q, tag % 8)
  OBVIOUS
<1>2. n < 0 \/ Len(q) < n
  <2>1. -1 < 0
    OBVIOUS
  <2> QED
    BY <1>1, <2>1
<1> QED
  BY <1>1, <1>2 DEF behindTag, split

\* A field is a tag of one byte and what is behind it.
LEMMA BlockOfTag ==
  ASSUME Widths, NEW tag \in 0..127, NEW x \in Octets, NEW F, F.num \in Nat,
         \A t \in Octets : behindTag(x \o t, tag) = [field |-> F, rest |-> t],
         \A k \in 0..(Len(x) - 1) : behindTag(SubSeq(x, 1, k), tag) = stuck
  PROVE  Block(<<tag>> \o x, F)
<1>1. tag \in 0..255
  OBVIOUS
<1>2. PICK h \in Octets : h = <<tag>> /\ Len(h) = 1
  BY <1>1, OneByte
<1>3. PICK m \in Nat : m = Len(x)
  BY JoinLen
<1>4. PICK B \in Octets : B = h \o x /\ Len(B) = 1 + m
  <2>1. h \o x \in Octets /\ Len(h \o x) = Len(h) + Len(x)
    BY JoinLen
  <2> QED
    BY <1>2, <1>3, <2>1
<1>5. B # <<>>
  <2>1. Len(B) # 0
    BY <1>4
  <2> QED
    BY <2>1
<1>6. ASSUME NEW t \in Octets PROVE cut[B \o t] = [field |-> F, rest |-> t]
  <2>1. x \o t \in Octets
    BY JoinLen
  <2>2. cut[h \o (x \o t)] = behindTag(x \o t, tag)
    BY <1>2, <2>1, CutTag
  <2>3. B \o t = h \o (x \o t)
    BY <1>4, JoinAssoc
  <2> QED
    BY <2>2, <2>3, Zenon
<1>7. ASSUME NEW n \in 1..(Len(B) - 1) PROVE cut[SubSeq(B, 1, n)] = stuck
  <2>1. PICK k \in 0..(m - 1) : n = 1 + k
    <3>1. n - 1 \in 0..(m - 1) /\ n = 1 + (n - 1)
      BY <1>4
    <3> QED
      BY <3>1
  <2>2. k \in 0..Len(x)
    BY <1>3
  <2>3. SubSeq(h \o x, 1, Len(h) + k) = h \o SubSeq(x, 1, k)
    BY <2>2, PrefixBeyond
  <2>4. PICK q \in Octets : q = SubSeq(x, 1, k)
    BY <2>2, PrefixType
  <2>5. cut[h \o q] = behindTag(q, tag)
    BY <1>2, CutTag
  <2>6. behindTag(q, tag) = stuck
    BY <1>3, <2>4
  <2> QED
    BY <1>2, <1>4, <2>1, <2>3, <2>4, <2>5, <2>6, Zenon
<1> QED
  BY <1>2, <1>4, <1>5, <1>6, <1>7 DEF Block

\* A tag and a number are a field of wire type 0.
LEMMA VarintBlock ==
  ASSUME Widths, NEW tag \in 0..127, tag % 8 = 0, NEW v \in Nat, v < 2^LenBits
  PROVE  Block(<<tag>> \o appendUvarint[v],
               [num |-> tag \div 8, wt |-> 0, v |-> v, body |-> <<>>])
<1>1. PICK u \in Octets, m \in 1..10 : u = appendUvarint[v] /\ m = Len(u)
  BY UvarintReadsBack
<1>2. tag \in Nat /\ tag \div 8 \in Nat
  OBVIOUS
<1>3. \A t \in Octets : behindTag(u \o t, tag) =
        [field |-> [num |-> tag \div 8, wt |-> 0, v |-> v, body |-> <<>>], rest |-> t]
  BY <1>1, <1>2, VarintBehindTag
<1>4. ASSUME NEW k \in 0..(m - 1) PROVE behindTag(SubSeq(u, 1, k), tag) = stuck
  <2>1. k \in Nat /\ k < m /\ k \in 0..Len(u)
    BY <1>1
  <2>2. PICK q \in Octets : q = SubSeq(u, 1, k)
    BY <2>1, PrefixType
  <2>3. UvarintLen[q] = 0
    BY <1>1, <2>1, <2>2, UvarintCutOff
  <2>4. fieldLen(q, tag % 8) = -1
    BY <2>3 DEF fieldLen
  <2> QED
    BY <1>2, <2>2, <2>4, BehindTagStuck
<1>5. PICK F : F = [num |-> tag \div 8, wt |-> 0, v |-> v, body |-> <<>>]
  BY Zenon
<1>6. Block(<<tag>> \o u, F)
  <2>1. F.num = tag \div 8
    BY <1>5, Zenon
  <2>2. \A t \in Octets : behindTag(u \o t, tag) = [field |-> F, rest |-> t]
    BY <1>3, <1>5, Zenon
  <2>3. \A k \in 0..(Len(u) - 1) : behindTag(SubSeq(u, 1, k), tag) = stuck
    BY <1>1, <1>4, Zenon
  <2> QED
    BY <1>2, <2>1, <2>2, <2>3, BlockOfTag
<1> QED
  BY <1>1, <1>5, <1>6

\* A tag and fixed bytes are a field of wire type 1 or 5.
LEMMA FixedBlock ==
  ASSUME Widths, NEW tag \in 0..127, NEW x \in Octets,
         (tag % 8 = 1 /\ Len(x) = 8) \/ (tag % 8 = 5 /\ Len(x) = 4)
  PROVE  Block(<<tag>> \o x, [num |-> tag \div 8, wt |-> tag % 8, v |-> 0, body |-> x])
<1>1. tag \in Nat /\ tag \div 8 \in Nat
  OBVIOUS
<1>2. \A t \in Octets : behindTag(x \o t, tag) =
        [field |-> [num |-> tag \div 8, wt |-> tag % 8, v |-> 0, body |-> x], rest |-> t]
  BY <1>1, FixedBehindTag
<1>3. PICK m \in Nat : m = Len(x)
  BY JoinLen
<1>4. ASSUME NEW k \in 0..(m - 1) PROVE behindTag(SubSeq(x, 1, k), tag) = stuck
  <2>1. k \in 0..Len(x) /\ k < m
    BY <1>3
  <2>2. PICK q \in Octets : q = SubSeq(x, 1, k) /\ Len(q) = k
    BY <2>1, PrefixType
  <2>3. fieldLen(q, tag % 8) = m
    BY <1>3, SMTT(30) DEF fieldLen
  <2> QED
    BY <1>1, <2>1, <2>2, <2>3, BehindTagStuck
<1>5. PICK F : F = [num |-> tag \div 8, wt |-> tag % 8, v |-> 0, body |-> x]
  BY Zenon
<1>6. Block(<<tag>> \o x, F)
  <2>1. F.num = tag \div 8
    BY <1>5, Zenon
  <2>2. \A t \in Octets : behindTag(x \o t, tag) = [field |-> F, rest |-> t]
    BY <1>2, <1>5, Zenon
  <2>3. \A k \in 0..(Len(x) - 1) : behindTag(SubSeq(x, 1, k), tag) = stuck
    BY <1>3, <1>4, Zenon
  <2> QED
    BY <1>1, <2>1, <2>2, <2>3, BlockOfTag
<1> QED
  BY <1>5, <1>6

\* A tag, a length and bytes are a field of wire type 2.
LEMMA BytesBlock ==
  ASSUME Widths, NEW tag \in 0..127, tag % 8 = 2, NEW body \in Octets, Len(body) < 2^LenBits
  PROVE  Block(appendTaggedBytes(tag, body),
               [num |-> tag \div 8, wt |-> 2, v |-> 0, body |-> body])
<1>1. PICK m \in Nat : m = Len(body)
  BY JoinLen
<1>2. PICK u \in Octets, n \in 1..10 :
         /\ u = appendUvarint[m] /\ n = Len(u)
         /\ \A t \in Octets : ReadsAs(u \o t, m, n)
  BY <1>1, UvarintReadsBack
<1>3. PICK x \in Octets : x = u \o body /\ Len(x) = n + m
  <2>1. u \o body \in Octets /\ Len(u \o body) = Len(u) + Len(body)
    BY JoinLen
  <2> QED
    BY <1>1, <1>2, <2>1
<1>4. tag \in Nat /\ tag \div 8 \in Nat
  OBVIOUS
<1>5. \A t \in Octets : behindTag(x \o t, tag) =
        [field |-> [num |-> tag \div 8, wt |-> 2, v |-> 0, body |-> body], rest |-> t]
  BY <1>1, <1>2, <1>3, <1>4, BytesBehindTag
<1>6. ASSUME NEW k \in 0..(Len(x) - 1) PROVE behindTag(SubSeq(x, 1, k), tag) = stuck
  <2>0. k \in Nat /\ k < n + m
    BY <1>3
  <2>1. CASE k < n
    <3>1. k \in 0..Len(u)
      BY <1>2, <2>0, <2>1
    <3>2. SubSeq(x, 1, k) = SubSeq(u, 1, k)
      BY <1>3, <3>1, PrefixOfFirst
    <3>3. PICK q \in Octets : q = SubSeq(u, 1, k)
      BY <3>1, PrefixType
    <3>4. UvarintLen[q] = 0
      BY <1>1, <1>2, <2>0, <2>1, <3>3, UvarintCutOff
    <3>5. fieldLen(q, tag % 8) = -1
      BY <3>4 DEF fieldLen
    <3> QED
      BY <1>4, <3>2, <3>3, <3>5, BehindTagStuck
  <2>2. CASE n <= k
    <3>1. PICK j \in 0..m : k = n + j /\ j < m
      <4>1. k - n \in 0..m /\ k = n + (k - n) /\ k - n < m
        BY <2>0, <2>2
      <4> QED
        BY <4>1
    <3>2. PICK p \in Octets : p = SubSeq(body, 1, j) /\ Len(p) = j
      BY <1>1, <3>1, PrefixType
    <3>3. SubSeq(u \o body, 1, Len(u) + j) = u \o SubSeq(body, 1, j)
      BY <1>1, PrefixBeyond
    <3>4. PICK q \in Octets : q = u \o p /\ Len(q) = n + j
      <4>1. u \o p \in Octets /\ Len(u \o p) = Len(u) + Len(p)
        BY JoinLen
      <4> QED
        BY <1>2, <3>2, <4>1
    <3>5. UvarintLen[q] = n /\ Uvarint[q] = m
      BY <1>1, <1>2, <3>4, UvarintLenIs
    <3>6. (n + j) - n < m
      BY <3>1
    <3>7. fieldLen(q, tag % 8) = -1
      BY <3>4, <3>5, <3>6 DEF fieldLen
    <3>8. SubSeq(x, 1, k) = q
      BY <1>2, <1>3, <3>1, <3>2, <3>3, <3>4, Zenon
    <3> QED
      BY <1>4, <3>7, <3>8, BehindTagStuck
  <2> QED
    BY <2>0, <2>1, <2>2
<1>7. PICK F : F = [num |-> tag \div 8, wt |-> 2, v |-> 0, body |-> body]
  BY Zenon
<1>8. Block(<<tag>> \o x, F)
  <2>1. F.num = tag \div 8
    BY <1>7, Zenon
  <2>2. \A t \in Octets : behindTag(x \o t, tag) = [field |-> F, rest |-> t]
    BY <1>5, <1>7, Zenon
  <2> QED
    BY <1>4, <2>1, <2>2, <1>6, BlockOfTag
<1>9. appendTaggedBytes(tag, body) = <<tag>> \o x
  <2>1. tag \in 0..255
    OBVIOUS
  <2>2. PICK h \in Octets : h = <<tag>>
    BY <2>1, OneByte
  <2>3. (h \o u) \o body = h \o (u \o body)
    BY JoinAssoc
  <2>4. appendTaggedBytes(tag, body) = (h \o u) \o body
    BY <1>1, <1>2, <2>2 DEF appendTaggedBytes
  <2> QED
    BY <1>3, <2>2, <2>3, <2>4, Zenon
<1> QED
  BY <1>7, <1>8, <1>9

-----------------------------------------------------------------------------
\* No bytes hold no field.
LEMMA ScanNothing == scan[<<>>] = <<>>
<1>1. <<>> \in Octets
  BY DEF Octets
<1> QED
  BY <1>1, ScanStep

\* The scan finds a field and goes on behind it.
LEMMA ScanBlock ==
  ASSUME NEW B, NEW F, Block(B, F), NEW t \in Octets
  PROVE  scan[B \o t] = <<F>> \o scan[t]
<1>1. B \in Octets /\ B # <<>> /\ cut[B \o t] = [field |-> F, rest |-> t]
  BY DEF Block
<1>2. PICK b \in Octets : b = B \o t
  BY <1>1, JoinLen
<1>3. b # <<>>
  BY <1>1, <1>2, ConcatEqualIffEmpty DEF Octets
<1>4. cut[b].field = F /\ cut[b].rest = t
  BY <1>1, <1>2
<1> QED
  BY <1>2, <1>3, <1>4, ScanStep

\* The scan of a part of a field finds it unreadable.
LEMMA ScanPart ==
  ASSUME NEW B, NEW F, Block(B, F), NEW n \in 1..(Len(B) - 1)
  PROVE  scan[SubSeq(B, 1, n)] = <<unreadable>>
<1>1. B \in Octets /\ cut[SubSeq(B, 1, n)] = stuck
  BY DEF Block
<1>2. Len(B) \in Nat
  BY <1>1, JoinLen
<1>3. n \in 0..Len(B)
  BY <1>2
<1>4. PICK b \in Octets : b = SubSeq(B, 1, n) /\ Len(b) = n
  BY <1>1, <1>3, PrefixType
<1>5. b # <<>>
  BY <1>4
<1>6. cut[b].field = unreadable /\ cut[b].rest = <<>>
  BY <1>1, <1>4 DEF stuck
<1>7. scan[b] = <<unreadable>> \o <<>>
  BY <1>5, <1>6, ScanStep, ScanNothing
<1> QED
  BY <1>4, <1>7

\* What the reader may find at the start of a message.
Found == {cut[b].field : b \in Octets}

\* The scan finds fields and at most an unreadable rest.
LEMMA ScanType ==
  ASSUME NEW b \in Octets
  PROVE  scan[b] \in Seq(Found)
<1> DEFINE S == {m \in Nat : \A c \in Short(m) : scan[c] \in Seq(Found)}
<1>0. <<>> \in Seq(Found)
  OBVIOUS
<1>1. 0 \in S
  BY <1>0, ShortNone, ScanNothing
<1>2. ASSUME NEW m \in Nat, m \in S PROVE m + 1 \in S
  <2>1. ASSUME NEW c \in Short(m + 1) PROVE scan[c] \in Seq(Found)
    <3>1. c \in Octets /\ Len(c) <= m + 1
      BY DEF Short
    <3>2. CASE c = <<>>
      BY <1>0, <3>2, ScanNothing
    <3>3. CASE c # <<>>
      <4>1. PICK r \in Octets : r = cut[c].rest /\ Len(r) < Len(c)
        BY <3>1, <3>3, CutShortens
      <4>2. r \in Short(m)
        <5>1. Len(r) \in Nat /\ Len(c) \in Nat
          BY <3>1, JoinLen
        <5>2. Len(r) <= m
          BY <3>1, <4>1, <5>1
        <5> QED
          BY <5>2 DEF Short
      <4>3. scan[r] \in Seq(Found)
        BY <1>2, <4>2
      <4>4. PICK F \in Found : F = cut[c].field
        BY <3>1 DEF Found
      <4>5. scan[c] = <<F>> \o scan[r]
        BY <3>1, <3>3, <4>1, <4>4, ScanStep
      <4>6. <<F>> \in Seq(Found)
        BY <4>4
      <4>7. <<F>> \o scan[r] \in Seq(Found)
        BY <4>3, <4>6, ConcatProperties
      <4> QED
        BY <4>5, <4>7
    <3> QED
      BY <3>2, <3>3
  <2> QED
    BY <2>1
<1> HIDE DEF S
<1>3. \A m \in Nat : m \in S
  BY <1>1, <1>2, NatSetInduction
<1>4. Len(b) \in Nat /\ b \in Short(Len(b))
  BY JoinLen DEF Short
<1> QED
  BY <1>3, <1>4 DEF S

\* p[k] is a message of the first k of n blocks x, which are the fields F.
Builds(p, x, F, n) ==
    /\ p[0] = <<>>
    /\ \A k \in 0..(n - 1) : p[k + 1] = p[k] \o x[k + 1]
    /\ \A k \in 1..n : Block(x[k], F[k])

\* Each prefix of a message is the one before it and a field.
LEMMA BuildsStep ==
  ASSUME NEW p, NEW x, NEW F, NEW n \in Nat, Builds(p, x, F, n), NEW k \in Nat, k + 1 <= n
  PROVE  /\ p[k + 1] = p[k] \o x[k + 1]
         /\ Block(x[k + 1], F[k + 1]) /\ x[k + 1] \in Octets
<1>1. k \in 0..(n - 1) /\ k + 1 \in 1..n
  OBVIOUS
<1> QED
  BY <1>1 DEF Builds, Block

\* Each prefix of a message is bytes.
LEMMA BuildsType ==
  ASSUME NEW p, NEW x, NEW F, NEW n \in Nat, Builds(p, x, F, n)
  PROVE  \A k \in 0..n : p[k] \in Octets
<1> DEFINE S == {k \in Nat : k <= n => p[k] \in Octets}
<1>1. 0 \in S
  <2>1. <<>> \in Octets
    BY DEF Octets
  <2> QED
    BY <2>1 DEF Builds
<1>2. ASSUME NEW k \in Nat, k \in S PROVE k + 1 \in S
  <2> SUFFICES ASSUME k + 1 <= n PROVE p[k + 1] \in Octets
    OBVIOUS
  <2>1. p[k] \in Octets
    BY <1>2
  <2>2. p[k + 1] = p[k] \o x[k + 1] /\ x[k + 1] \in Octets
    BY BuildsStep, ZenonT(40)
  <2>3. p[k] \o x[k + 1] \in Octets
    BY <2>1, <2>2, JoinLen
  <2> QED
    BY <2>2, <2>3
<1> HIDE DEF S
<1>3. \A k \in Nat : k \in S
  BY <1>1, <1>2, NatSetInduction
<1> QED
  BY <1>3 DEF S

\* r reads every block of x as one of S, whatever follows it.
ReadsEach(r, S, p, x, F, n) ==
    /\ p[0] = <<>>
    /\ \A k \in 0..(n - 1) : p[k + 1] = p[k] \o x[k + 1]
    /\ \A b \in Octets : r[b] \in Seq(S)
    /\ \A k \in 1..n : /\ x[k] \in Octets /\ F[k] \in S
                       /\ \A t \in Octets : r[x[k] \o t] = <<F[k]>> \o r[t]

\* r reads b as m of S, those of F, whatever follows it.
Prefixed(r, S, b, F, m, fs) ==
    /\ b \in Octets /\ fs \in Seq(S) /\ Len(fs) = m
    /\ \A i \in 1..m : fs[i] = F[i]
    /\ \A t \in Octets : r[b \o t] = fs \o r[t]

\* What r reads block by block it reads in order.
LEMMA ReadInOrder ==
  ASSUME NEW r, NEW S, NEW p, NEW x, NEW F, NEW n \in Nat, ReadsEach(r, S, p, x, F, n), NEW m \in 0..n
  PROVE  \E fs : Prefixed(r, S, p[m], F, m, fs)
<1> DEFINE T == {k \in Nat : k <= n => \E fs : Prefixed(r, S, p[k], F, k, fs)}
<1>1. 0 \in T
  <2>1. p[0] = <<>> /\ <<>> \in Octets
    BY DEF ReadsEach, Octets
  <2>2. \A t \in Octets : <<>> \o t = t
    BY JoinNothing
  <2>3. \A t \in Octets : r[t] = <<>> \o r[t]
    <3>1. \A t \in Octets : r[t] \in Seq(S)
      BY DEF ReadsEach
    <3> QED
      BY <3>1, ConcatEmptySeq
  <2>4. \A t \in Octets : r[p[0] \o t] = <<>> \o r[t]
    BY <2>1, <2>2, <2>3, Zenon
  <2>5. <<>> \in Seq(S) /\ Len(<<>>) = 0 /\ 1..0 = {}
    OBVIOUS
  <2>6. Prefixed(r, S, p[0], F, 0, <<>>)
    BY <2>1, <2>4, <2>5 DEF Prefixed
  <2> QED
    BY <2>6
<1>2. ASSUME NEW k \in Nat, k \in T PROVE k + 1 \in T
  <2> SUFFICES ASSUME k + 1 <= n PROVE \E fs : Prefixed(r, S, p[k + 1], F, k + 1, fs)
    OBVIOUS
  <2>1. k <= n /\ k \in 0..(n - 1) /\ k + 1 \in 1..n
    OBVIOUS
  <2>2. PICK fs : Prefixed(r, S, p[k], F, k, fs)
    BY <1>2, <2>1
  <2>3. /\ p[k] \in Octets /\ fs \in Seq(S) /\ Len(fs) = k
        /\ \A i \in 1..k : fs[i] = F[i]
        /\ \A t \in Octets : r[p[k] \o t] = fs \o r[t]
    BY <2>2 DEF Prefixed
  <2>4. /\ p[k + 1] = p[k] \o x[k + 1] /\ x[k + 1] \in Octets
        /\ \A t \in Octets : r[x[k + 1] \o t] = <<F[k + 1]>> \o r[t]
    BY <2>1 DEF ReadsEach
  <2>5. PICK G \in S : G = F[k + 1]
    BY <2>1 DEF ReadsEach
  <2> DEFINE gs == Append(fs, G)
  <2>6. gs \in Seq(S) /\ Len(gs) = k + 1 /\ gs = fs \o <<G>>
        /\ \A i \in 1..(k + 1) : gs[i] = F[i]
    <3>1. /\ gs \in Seq(S) /\ Len(gs) = Len(fs) + 1
          /\ \A i \in 1..Len(fs) : gs[i] = fs[i]
          /\ gs[Len(fs) + 1] = G
      BY <2>3, AppendProperties
    <3>2. Append(fs, G) = fs \o <<G>>
      BY <2>3, AppendIsConcat
    <3>3. \A i \in 1..(k + 1) : i \in 1..k \/ i = k + 1
      OBVIOUS
    <3> QED
      BY <2>3, <2>5, <3>1, <3>2, <3>3
  <2>7. ASSUME NEW t \in Octets PROVE r[p[k + 1] \o t] = gs \o r[t]
    <3>1. (p[k] \o x[k + 1]) \o t = p[k] \o (x[k + 1] \o t)
      BY <2>3, <2>4, JoinAssoc
    <3>2. x[k + 1] \o t \in Octets
      BY <2>4, JoinLen
    <3>3. r[p[k] \o (x[k + 1] \o t)] = fs \o r[x[k + 1] \o t]
      BY <2>3, <3>2
    <3>4. r[x[k + 1] \o t] = <<F[k + 1]>> \o r[t]
      BY <2>4
    <3>5. <<G>> \in Seq(S) /\ r[t] \in Seq(S)
      BY DEF ReadsEach
    <3>6. fs \o (<<G>> \o r[t]) = (fs \o <<G>>) \o r[t]
      <4>1. PICK g \in Seq(S), q \in Seq(S) : g = <<G>> /\ q = r[t]
        BY <3>5
      <4>2. (fs \o g) \o q = fs \o (g \o q)
        BY <2>3, ConcatAssociative
      <4> QED
        BY <4>1, <4>2, Zenon
    <3> QED
      BY <2>4, <2>5, <2>6, <3>1, <3>3, <3>4, <3>6, Zenon
  <2>8. p[k + 1] \in Octets
    BY <2>3, <2>4, JoinLen
  <2>9. Prefixed(r, S, p[k + 1], F, k + 1, gs)
    BY <2>6, <2>7, <2>8 DEF Prefixed
  <2> QED
    BY <2>9
<1> HIDE DEF T
<1>3. \A k \in Nat : k \in T
  BY <1>1, <1>2, NatSetInduction
<1>4. m \in Nat /\ m <= n
  OBVIOUS
<1>5. m \in T
  BY <1>3, <1>4
<1> QED
  BY <1>4, <1>5 DEF T

\* The scan of a prefix of a message finds its fields.
LEMMA ScanFields ==
  ASSUME NEW p, NEW x, NEW F, NEW n \in Nat, Builds(p, x, F, n), NEW m \in 0..n
  PROVE  \E fs : Prefixed(scan, Found, p[m], F, m, fs)
<1>1. \A b \in Octets : scan[b] \in Seq(Found)
  BY ScanType
<1>2. ASSUME NEW k \in 1..n
      PROVE  /\ x[k] \in Octets /\ F[k] \in Found
             /\ \A t \in Octets : scan[x[k] \o t] = <<F[k]>> \o scan[t]
  <2>1. Block(x[k], F[k])
    BY DEF Builds
  <2>2. PICK b \in Octets : b = x[k]
    BY <2>1 DEF Block
  <2>3. F[k] \in Found
    <3>1. <<>> \in Octets
      BY DEF Octets
    <3>2. \A t \in Octets : cut[b \o t] = [field |-> F[k], rest |-> t]
      BY <2>1, <2>2 DEF Block
    <3>3. cut[b \o <<>>] = [field |-> F[k], rest |-> <<>>]
      BY <3>1, <3>2, Zenon
    <3>4. b \o <<>> = b
      BY JoinNothing
    <3> QED
      BY <3>3, <3>4 DEF Found
  <2>4. \A t \in Octets : scan[x[k] \o t] = <<F[k]>> \o scan[t]
    BY <2>1, ScanBlock
  <2> QED
    BY <2>2, <2>3, <2>4
<1>3. ReadsEach(scan, Found, p, x, F, n)
  BY <1>1, <1>2 DEF Builds, ReadsEach
<1> QED
  BY <1>3, ReadInOrder

\* All of a message.
LEMMA ScanWhole ==
  ASSUME NEW p, NEW x, NEW F, NEW n \in Nat, Builds(p, x, F, n)
  PROVE  /\ p[n] \in Octets /\ scan[p[n]] \in Seq(Found) /\ Len(scan[p[n]]) = n
         /\ \A i \in 1..n : scan[p[n]][i] = F[i]
<1>1. n \in 0..n
  OBVIOUS
<1>2. PICK fs : Prefixed(scan, Found, p[n], F, n, fs)
  BY <1>1, ScanFields
<1>3. p[n] \in Octets /\ <<>> \in Octets
  BY <1>1, BuildsType DEF Octets
<1>4. scan[p[n] \o <<>>] = fs \o <<>>
  BY <1>2, <1>3, ScanNothing DEF Prefixed
<1>5. p[n] \o <<>> = p[n] /\ fs \o <<>> = fs
  BY <1>2, <1>3, JoinNothing, ConcatEmptySeq DEF Prefixed
<1>6. scan[p[n]] = fs
  BY <1>4, <1>5, Zenon
<1> QED
  BY <1>2, <1>3, <1>6 DEF Prefixed

\* A message cut short inside a field is noticed; cut between two fields it is
\* a message of its own.
LEMMA ScanCut ==
  ASSUME NEW p, NEW x, NEW F, NEW n \in Nat, Builds(p, x, F, n),
         NEW j \in 0..Len(p[n]), \A k \in 0..n : j # Len(p[k])
  PROVE  Contains(scan[SubSeq(p[n], 1, j)], unreadable)
<1> DEFINE Noticed(k, i) == Contains(scan[SubSeq(p[k], 1, i)], unreadable)
           S == {k \in Nat : k <= n =>
                   \A i \in 0..Len(p[k]) : (\A h \in 0..n : i # Len(p[h])) => Noticed(k, i)}
<1>1. 0 \in S
  <2>1. Len(p[0]) = 0 /\ 0 \in 0..n
    BY DEF Builds
  <2>2. \A i \in 0..0 : i = 0
    OBVIOUS
  <2> QED
    BY <2>1, <2>2
<1>2. ASSUME NEW k \in Nat, k \in S PROVE k + 1 \in S
  <2> SUFFICES ASSUME k + 1 <= n, NEW i \in 0..Len(p[k + 1]), \A h \in 0..n : i # Len(p[h])
               PROVE  Noticed(k + 1, i)
    OBVIOUS
  <2>1. k <= n /\ k \in 0..n /\ k + 1 \in 0..n
    OBVIOUS
  <2>2. p[k + 1] = p[k] \o x[k + 1] /\ Block(x[k + 1], F[k + 1])
    BY BuildsStep, ZenonT(40)
  <2>3. PICK a \in Octets, b \in Octets : a = p[k] /\ b = x[k + 1]
    BY <2>1, BuildsType, BuildsStep
  <2>4. PICK u \in Nat, v \in Nat : u = Len(a) /\ v = Len(b)
    BY JoinLen
  <2>5. Len(p[k + 1]) = u + v
    <3>1. Len(a \o b) = Len(a) + Len(b)
      BY JoinLen
    <3> QED
      BY <2>2, <2>3, <2>4, <3>1
  <2>6. i \in 0..(u + v) /\ i # u /\ i # u + v
    <3>1. i # Len(p[k]) /\ i # Len(p[k + 1])
      BY <2>1
    <3> QED
      BY <2>3, <2>4, <2>5, <3>1
  <2>7. CASE i < u
    <3>1. i \in 0..Len(a)
      BY <2>4, <2>6, <2>7
    <3>2. SubSeq(a \o b, 1, i) = SubSeq(a, 1, i)
      BY <3>1, PrefixOfFirst
    <3>3. Noticed(k, i)
      BY <1>2, <2>1, <2>3, <3>1
    <3> QED
      BY <2>2, <2>3, <3>2, <3>3, Zenon
  <2>8. CASE u < i
    <3>1. PICK q \in 1..(v - 1) : i = u + q
      <4>1. i - u \in 1..(v - 1) /\ i = u + (i - u)
        BY <2>6, <2>8
      <4> QED
        BY <4>1
    <3>2. q \in 0..Len(b) /\ q \in 1..(Len(b) - 1)
      BY <2>4
    <3>3. SubSeq(a \o b, 1, Len(a) + q) = a \o SubSeq(b, 1, q)
      BY <3>2, PrefixBeyond
    <3>4. PICK t \in Octets : t = SubSeq(b, 1, q)
      BY <3>2, PrefixType
    <3>5. scan[t] = <<unreadable>>
      BY <2>2, <2>3, <3>2, <3>4, ScanPart
    <3>6. PICK fs \in Seq(Found) : Len(fs) = k /\ scan[a \o t] = fs \o scan[t]
      <4>1. PICK fs : Prefixed(scan, Found, p[k], F, k, fs)
        BY <2>1, ScanFields
      <4> QED
        BY <2>3, <4>1 DEF Prefixed
    <3>7. Contains(fs \o <<unreadable>>, unreadable)
      <4>1. Append(fs, unreadable) = fs \o <<unreadable>>
        BY AppendIsConcat
      <4>2. unreadable \in Found
        <5>1. scan[t] \in Seq(Found)
          BY ScanType
        <5>2. <<unreadable>> \in Seq(Found)
          BY <3>5, <5>1
        <5> QED
          BY <5>2
      <4>3. Len(Append(fs, unreadable)) = Len(fs) + 1 /\ Append(fs, unreadable)[Len(fs) + 1] = unreadable
        BY <4>2, AppendProperties
      <4>4. Len(fs) + 1 \in 1..(Len(fs) + 1)
        BY <3>6
      <4> QED
        BY <4>1, <4>3, <4>4 DEF Contains
    <3> QED
      BY <2>2, <2>3, <2>4, <3>1, <3>3, <3>4, <3>5, <3>6, <3>7, Zenon
  <2> QED
    BY <2>6, <2>7, <2>8
<1> HIDE DEF S
<1>3. \A k \in Nat : k \in S
  BY <1>1, <1>2, NatSetInduction
<1> QED
  BY <1>3 DEF S

\* A set of positions that is not empty has a greatest one.
LEMMA GreatestOf ==
  ASSUME NEW n \in Nat, NEW S \in SUBSET (1..n), S # {}
  PROVE  Max(S) \in S /\ \A i \in S : i <= Max(S)
<1>1. PICK T : T = {k \in Nat : \E i \in S : k = n - i}
  OBVIOUS
<1>2. \A i \in S : i \in Int /\ n - i \in Nat
  OBVIOUS
<1>3. T \subseteq Nat /\ \A i \in S : n - i \in T
  BY <1>1, <1>2
<1>4. T # {}
  BY <1>3
<1>5. PICK d \in T : \A k \in T : d <= k
  BY <1>3, <1>4, LeastNumber
<1>6. PICK m \in S : d = n - m
  BY <1>1, <1>5
<1>7. ASSUME NEW i \in S PROVE i <= m
  <2>1. d <= n - i
    BY <1>3, <1>5
  <2>2. i \in Int /\ m \in Int
    BY <1>2
  <2> QED
    BY <1>6, <2>1, <2>2
<1>8. S \in SUBSET Int
  BY <1>2
<1>9. Max(S) = m
  BY <1>7, <1>8, MaxIs
<1> QED
  BY <1>7, <1>9

\* A field of a message has a number.
LEMMA BlockNum ==
  ASSUME NEW p, NEW x, NEW F, NEW n \in Nat, Builds(p, x, F, n)
  PROVE  \A i \in 1..n : F[i].num \in Nat
BY DEF Builds, Block

\* The last field of a number and wire type among those of a message.
Kind(F, n, num, wt) == {i \in 1..n : F[i].num = num /\ F[i].wt = wt}

\* The last field of a kind in a message is the last one written.
LEMMA LastOf ==
  ASSUME NEW p, NEW x, NEW F, NEW n \in Nat, Builds(p, x, F, n), NEW num, NEW wt,
         NEW at, at = Kind(F, n, num, wt)
  PROVE  /\ ~truncated(p[n])
         /\ lastField(scan[p[n]], num, wt) = IF at = {} THEN <<>> ELSE <<F[Max(at)]>>
<1>1. PICK fs \in Seq(Found) : fs = scan[p[n]] /\ Len(fs) = n
  BY ScanWhole
<1>2. \A i \in 1..n : fs[i] = F[i]
  BY <1>1, ScanWhole
<1>3. ~Contains(fs, unreadable)
  <2> SUFFICES ASSUME NEW i \in 1..n PROVE fs[i] # unreadable
    BY <1>1 DEF Contains
  <2>1. F[i].num \in Nat
    BY BlockNum
  <2>2. PICK G : G = F[i] /\ G.num \in Nat
    BY <2>1
  <2>3. G # unreadable
    BY <2>2, BlockReadable
  <2> QED
    BY <1>2, <2>2, <2>3
<1>4. {i \in 1..Len(fs) : fs[i].num = num /\ fs[i].wt = wt} = at
  BY <1>1, <1>2 DEF Kind
<1>5. lastField(fs, num, wt) = IF at = {} THEN <<>> ELSE <<fs[Max(at)]>>
  BY <1>3, <1>4 DEF lastField
<1>6. at # {} => Max(at) \in 1..n
  <2> SUFFICES ASSUME at # {} PROVE Max(at) \in 1..n
    OBVIOUS
  <2>1. at \subseteq 1..n
    BY DEF Kind
  <2>2. Max(at) \in at
    BY <2>1, GreatestOf
  <2> QED
    BY <2>1, <2>2
<1>7. lastField(fs, num, wt) = IF at = {} THEN <<>> ELSE <<F[Max(at)]>>
  BY <1>2, <1>5, <1>6
<1> QED
  BY <1>1, <1>3, <1>7 DEF truncated

-----------------------------------------------------------------------------
\* The body of a partial success is its count and, perhaps, its message.
PartialBody(f) ==
    <<8>> \o appendUvarint[f.count] \o (IF f.msg THEN appendTaggedBytes(18, <<65>>) ELSE <<>>)

CountField(f) == [num |-> 1, wt |-> 0, v |-> f.count, body |-> <<>>]
NoteField     == [num |-> 2, wt |-> 2, v |-> 0, body |-> <<65>>]

\* The error message of an answer is a short field.
LEMMA NoteBlock ==
  ASSUME Widths
  PROVE  /\ Block(appendTaggedBytes(18, <<65>>), NoteField)
         /\ appendTaggedBytes(18, <<65>>) \in Octets
         /\ Len(appendTaggedBytes(18, <<65>>)) < 20
<1>1. <<65>> \in Octets /\ Len(<<65>>) = 1
  BY OneByte
<1>2. 1 < 2^LenBits /\ 18 \in 0..127 /\ 18 % 8 = 2 /\ 18 \div 8 = 2
  BY SmallTag
<1>3. Block(appendTaggedBytes(18, <<65>>), [num |-> 18 \div 8, wt |-> 2, v |-> 0, body |-> <<65>>])
  BY <1>1, <1>2, BytesBlock
<1>4. Block(appendTaggedBytes(18, <<65>>), NoteField)
  BY <1>2, <1>3 DEF NoteField
<1>5. PICK u \in Octets, n \in 1..10 : u = appendUvarint[1] /\ n = Len(u)
  BY <1>2, UvarintReadsBack
<1>6. PICK h \in Octets : h = <<18>> /\ Len(h) = 1
  BY OneByte
<1>7. PICK c \in Octets : c = <<65>> /\ Len(c) = 1
  BY <1>1
<1>8. h \o u \in Octets /\ Len(h \o u) = 1 + n
  BY <1>5, <1>6, JoinLen
<1>9. (h \o u) \o c \in Octets /\ Len((h \o u) \o c) = (1 + n) + 1
  BY <1>7, <1>8, JoinLen
<1>10. appendTaggedBytes(18, <<65>>) = (h \o u) \o c
  BY <1>1, <1>5, <1>6, <1>7 DEF appendTaggedBytes
<1>11. (1 + n) + 1 < 20
  OBVIOUS
<1> QED
  BY <1>4, <1>9, <1>10, <1>11

\* The partial success read is the count and the message written.
LEMMA PartialBodyIs ==
  ASSUME Widths, NEW f, f.count \in Nat, f.count < 2^LenBits, f.msg \in BOOLEAN
  PROVE  /\ PartialBody(f) \in Octets /\ Len(PartialBody(f)) < 2^LenBits
         /\ ~truncated(PartialBody(f))
         /\ findVarint(PartialBody(f), 1) = f.count
         /\ findField(PartialBody(f), 2) = IF f.msg THEN <<(<<65>>)>> ELSE <<>>
<1>1. PICK u \in Octets, n \in 1..10 : u = appendUvarint[f.count] /\ n = Len(u)
  BY UvarintReadsBack
<1>2. PICK h \in Octets : h = <<8>> /\ Len(h) = 1
  BY OneByte
<1>3. PICK c \in Octets : c = h \o u /\ Len(c) = 1 + n
  <2>1. h \o u \in Octets /\ Len(h \o u) = Len(h) + Len(u)
    BY JoinLen
  <2> QED
    BY <1>1, <1>2, <2>1
<1>4. Block(c, CountField(f))
  <2>1. 8 \in 0..127 /\ 8 % 8 = 0 /\ 8 \div 8 = 1
    OBVIOUS
  <2>2. Block(<<8>> \o appendUvarint[f.count], [num |-> 8 \div 8, wt |-> 0, v |-> f.count, body |-> <<>>])
    BY <2>1, VarintBlock
  <2> QED
    BY <1>1, <1>2, <1>3, <2>1, <2>2 DEF CountField
<1>5. PICK w \in Octets : w = (IF f.msg THEN appendTaggedBytes(18, <<65>>) ELSE <<>>) /\ Len(w) < 20
  <2>1. <<>> \in Octets /\ Len(<<>>) < 20
    BY DEF Octets
  <2> QED
    BY <2>1, NoteBlock
<1>6. PICK b \in Octets : b = c \o w /\ Len(b) = (1 + n) + Len(w)
  <2>1. c \o w \in Octets /\ Len(c \o w) = Len(c) + Len(w)
    BY JoinLen
  <2> QED
    BY <1>3, <2>1
<1>7. PartialBody(f) = b
  BY <1>1, <1>2, <1>3, <1>5, <1>6, Zenon DEF PartialBody
<1>8. Len(b) < 2^LenBits
  <2>1. Len(b) < 127
    <3>1. PICK l \in Nat : l = Len(w)
      BY JoinLen
    <3>2. l < 20 /\ Len(b) = (1 + n) + l
      BY <1>5, <1>6, <3>1
    <3> QED
      BY <3>2
  <2>2. 127 < 2^LenBits /\ 2^LenBits \in Nat
    <3>1. LenBits \in Nat /\ 127 \in 0..127
      BY LenBitsAssumption
    <3> QED
      BY <3>1, SmallTag, PowerDoubles
  <2>3. Len(b) \in Nat
    BY JoinLen
  <2> QED
    BY <2>1, <2>2, <2>3
<1>9. PICK m \in 1..2 : m = (IF f.msg THEN 2 ELSE 1)
  OBVIOUS
<1>10. PICK d \in Octets : d = appendTaggedBytes(18, <<65>>) /\ Block(d, NoteField)
  BY NoteBlock
<1>11. PICK F : F[1] = CountField(f) /\ F[2] = NoteField
  <2>1. <<CountField(f), NoteField>>[1] = CountField(f) /\ <<CountField(f), NoteField>>[2] = NoteField
    OBVIOUS
  <2> QED
    BY <2>1
<1>12. PICK x : x[1] = c /\ x[2] = d
  <2>1. <<c, d>>[1] = c /\ <<c, d>>[2] = d
    OBVIOUS
  <2> QED
    BY <2>1
<1>13. PICK p : p[0] = <<>> /\ p[1] = c /\ p[2] = b
  <2> DEFINE q == [k \in 0..2 |-> IF k = 0 THEN <<>> ELSE IF k = 1 THEN c ELSE b]
  <2>1. q[0] = <<>> /\ q[1] = c /\ q[2] = b
    OBVIOUS
  <2> QED
    BY <2>1
<1>14. p[m] = b
  <2>1. CASE f.msg
    BY <1>9, <1>13, <2>1
  <2>2. CASE ~f.msg
    <3>1. c \o <<>> = c
      BY JoinNothing
    <3>2. b = c
      BY <1>5, <1>6, <2>2, <3>1
    <3> QED
      BY <1>9, <1>13, <2>2, <3>2
  <2> QED
    BY <2>1, <2>2
<1>15. Builds(p, x, F, m)
  <2>1. <<>> \o c = c
    BY JoinNothing
  <2>2. ASSUME NEW k \in 0..(m - 1) PROVE p[k + 1] = p[k] \o x[k + 1]
    <3>1. CASE k = 0
      <4>1. k + 1 = 1
        BY <3>1
      <4> QED
        BY <1>12, <1>13, <2>1, <3>1, <4>1, Zenon
    <3>2. CASE k # 0
      <4>1. k = 1 /\ k + 1 = 2 /\ f.msg
        BY <1>9, <3>2
      <4>2. w = d
        BY <1>5, <1>10, <4>1
      <4> QED
        BY <1>6, <1>12, <1>13, <4>1, <4>2, Zenon
    <3> QED
      BY <3>1, <3>2
  <2>3. ASSUME NEW k \in 1..m PROVE Block(x[k], F[k])
    <3>1. k = 1 \/ k = 2
      OBVIOUS
    <3> QED
      BY <1>4, <1>10, <1>11, <1>12, <3>1, Zenon
  <2> QED
    BY <1>13, <2>2, <2>3 DEF Builds
<1>16. /\ F[1].num = 1 /\ F[1].wt = 0 /\ F[1].v = f.count
       /\ F[2].num = 2 /\ F[2].wt = 2 /\ F[2].body = <<65>>
  BY <1>11 DEF CountField, NoteField
<1>17. PICK counts : counts = Kind(F, m, 1, 0)
  OBVIOUS
<1>18. PICK notes : notes = Kind(F, m, 2, 2)
  OBVIOUS
<1>19. ~truncated(b) /\ lastField(scan[b], 1, 0) = IF counts = {} THEN <<>> ELSE <<F[Max(counts)]>>
  <2>1. m \in Nat
    OBVIOUS
  <2>2. /\ ~truncated(p[m])
        /\ lastField(scan[p[m]], 1, 0) = IF counts = {} THEN <<>> ELSE <<F[Max(counts)]>>
    BY <1>15, <1>17, <2>1, LastOf
  <2> QED
    BY <1>14, <2>2, Zenon
<1>20. lastField(scan[b], 2, 2) = IF notes = {} THEN <<>> ELSE <<F[Max(notes)]>>
  <2>1. m \in Nat
    OBVIOUS
  <2>2. lastField(scan[p[m]], 2, 2) = IF notes = {} THEN <<>> ELSE <<F[Max(notes)]>>
    BY <1>15, <1>18, <2>1, LastOf
  <2> QED
    BY <1>14, <2>2, Zenon
<1>21. counts = {1}
  BY <1>16, <1>17 DEF Kind
<1>22. notes = IF f.msg THEN {2} ELSE {}
  BY <1>9, <1>16, <1>18 DEF Kind
<1>23. Max({1}) = 1 /\ Max({2}) = 2
  BY MaxIs
<1>24. lastField(scan[b], 1, 0) = <<F[1]>>
  BY <1>19, <1>21, <1>23
<1>25. lastField(scan[b], 2, 2) = IF f.msg THEN <<F[2]>> ELSE <<>>
  BY <1>20, <1>22, <1>23
<1>26. findVarint(b, 1) = f.count
  <2>1. PICK G : G = F[1] /\ G.v = f.count
    BY <1>16
  <2>2. lastField(scan[b], 1, 0) = <<G>> /\ <<G>> # <<>> /\ <<G>>[1] = G
    BY <1>24, <2>1
  <2> QED
    BY <2>1, <2>2 DEF findVarint
<1>27. findField(b, 2) = IF f.msg THEN <<(<<65>>)>> ELSE <<>>
  <2>1. PICK G : G = F[2] /\ G.body = <<65>>
    BY <1>16
  <2>2. lastField(scan[b], 2, 2) = (IF f.msg THEN <<G>> ELSE <<>>) /\ <<G>> # <<>> /\ <<G>>[1] = G
    BY <1>25, <2>1
  <2> QED
    BY <2>1, <2>2 DEF findField
<1> QED
  BY <1>7, <1>8, <1>19, <1>26, <1>27

-----------------------------------------------------------------------------
(***************************************************************************)
(* The answers of a collector.  The widths and counts it can have: numbers *)
(* hold an unknown field's value, and a count is one that fits the int64    *)
(* the code reads it into.                                                 *)
(***************************************************************************)
AnswerBounds ==
    /\ LenBits \in 8..70
    /\ Counts \subseteq 0..(2^(LenBits - 1) - 1)
    /\ MaxFields \in Nat

\* Eight bits are a width, and a byte fits.
LEMMA EightBits ==
  ASSUME LenBits \in 8..70
  PROVE  Widths /\ 256 <= 2^LenBits /\ 2^LenBits \in Nat
<1>1. 2^8 <= 2^LenBits /\ 2^LenBits \in Nat
  <2>1. LenBits \in Nat /\ 8 <= LenBits
    OBVIOUS
  <2> QED
    BY <2>1, PowerGrows, PowerDoubles
<1>2. 2^8 = 256
  <2>1. 2^7 = 128
    BY PowerOfSeven
  <2>2. 2^(7 + 1) = 2^7 + 2^7
    BY PowerDoubles
  <2> QED
    BY <2>1, <2>2
<1> QED
  BY <1>1, <1>2 DEF Widths

\* The bounds of the answers give the widths.
LEMMA AnswerWidths ==
  ASSUME AnswerBounds
  PROVE  Widths /\ 256 <= 2^LenBits /\ 2^LenBits \in Nat
BY EightBits DEF AnswerBounds

\* A count is below the sign bit.
LEMMA CountRange ==
  ASSUME AnswerBounds, NEW c \in Counts
  PROVE  c \in Nat /\ c < 2^LenBits /\ signed(c) = c
<1>1. PICK h \in Nat : h = 2^(LenBits - 1) /\ 2^LenBits = h + h
  <2>1. LenBits \in 8..70
    BY DEF AnswerBounds
  <2>2. LenBits - 1 \in Nat /\ (LenBits - 1) + 1 = LenBits
    BY <2>1
  <2> QED
    BY <2>2, PowerDoubles
<1>2. c \in 0..(h - 1)
  BY <1>1 DEF AnswerBounds
<1>3. ~(c >= h) /\ c \in Nat /\ c < h + h
  BY <1>2
<1> QED
  BY <1>1, <1>3 DEF signed

-----------------------------------------------------------------------------
\* The fields of every kind as they are read.
FieldOf(f) ==
    CASE f.kind = "partial" -> [num |-> 1, wt |-> 2, v |-> 0, body |-> PartialBody(f)]
      [] f.kind = "varint"  -> [num |-> 2, wt |-> 0, v |-> 150, body |-> <<>>]
      [] f.kind = "fixed64" -> [num |-> 3, wt |-> 1, v |-> 0, body |-> <<0, 0, 0, 0, 0, 0, 0, 10>>]
      [] f.kind = "bytes"   -> [num |-> 4, wt |-> 2, v |-> 0, body |-> <<10, 8>>]
      [] f.kind = "fixed32" -> [num |-> 5, wt |-> 5, v |-> 0, body |-> <<0, 0, 0, 10>>]

\* A number below 128 is one byte.
LEMMA SmallUvarint ==
  ASSUME NEW v \in 0..127
  PROVE  appendUvarint[v] = <<v>>
<1>1. v \in Nat /\ ~(v >= 128)
  OBVIOUS
<1> QED
  BY <1>1, AppendUvarintStep DEF UvarintBytes

\* A byte in front of a tuple of bytes.
LEMMA ConsTuple ==
  ASSUME NEW c \in 0..255, NEW b \in Octets, NEW w \in Octets, Len(w) = Len(b) + 1, w[1] = c,
         \A i \in 1..Len(b) : w[i + 1] = b[i]
  PROVE  <<c>> \o b = w
<1>1. PICK h \in Octets : h = <<c>> /\ Len(h) = 1 /\ h[1] = c
  BY OneByte
<1>2. PICK a \in Octets : a = h \o b /\ Len(a) = 1 + Len(b)
  BY <1>1, JoinLen
<1>3. PICK m \in Nat : m = Len(b)
  BY JoinLen
<1>4. ASSUME NEW i \in 1..(m + 1) PROVE a[i] = w[i]
  <2>1. CASE i = 1
    BY <1>1, <1>2, <2>1, JoinIs
  <2>2. CASE i # 1
    <3>1. i - 1 \in 1..m /\ i = 1 + (i - 1)
      BY <2>2
    <3>2. a[1 + (i - 1)] = b[i - 1]
      BY <1>1, <1>2, <1>3, <3>1, JoinIs
    <3>3. w[(i - 1) + 1] = b[i - 1]
      BY <1>3, <3>1
    <3> QED
      BY <3>1, <3>2, <3>3
  <2> QED
    BY <2>1, <2>2
<1>5. a = w
  BY <1>2, <1>3, <1>4, SeqEqual DEF Octets
<1> QED
  BY <1>1, <1>2, <1>5

\* The unknown varint of an answer is a field.
LEMMA VarintKind ==
  ASSUME AnswerBounds
  PROVE  Block(<<16, 150, 1>>, [num |-> 2, wt |-> 0, v |-> 150, body |-> <<>>])
<1>1. Widths /\ 150 < 2^LenBits
  BY AnswerWidths
<1>2. 16 \in 0..127 /\ 16 % 8 = 0 /\ 16 \div 8 = 2
  OBVIOUS
<1>3. appendUvarint[150] = <<150, 1>>
  <2>1. 150 \in Nat /\ 150 >= 128 /\ (150 % 128) + 128 = 150 /\ 150 \div 128 = 1 /\ 1 \in 0..127
    OBVIOUS
  <2>2. appendUvarint[150] = <<150>> \o appendUvarint[1]
    <3>1. PICK v \in Nat : v = 150 /\ v >= 128 /\ (v % 128) + 128 = 150 /\ v \div 128 = 1
      BY <2>1
    <3>2. appendUvarint[v] = <<(v % 128) + 128>> \o appendUvarint[v \div 128]
      BY <3>1, AppendUvarintStep, ZenonT(40) DEF UvarintBytes
    <3> QED
      BY <3>1, <3>2
  <2>3. appendUvarint[1] = <<1>>
    BY <2>1, SmallUvarint
  <2>4. <<150>> \o <<1>> = <<150, 1>>
    <3>1. PICK b : b = <<1>>
      OBVIOUS
    <3>2. PICK w : w = <<150, 1>>
      OBVIOUS
    <3>3. b \in Octets /\ Len(b) = 1 /\ w \in Octets /\ Len(w) = 2 /\ w[1] = 150
      BY <3>1, <3>2 DEF Octets
    <3>4. ASSUME NEW i \in 1..1 PROVE w[i + 1] = b[i]
      <4>1. i = 1
        OBVIOUS
      <4> QED
        BY <3>1, <3>2, <4>1
    <3>5. Len(w) = Len(b) + 1 /\ 150 \in 0..255 /\ \A i \in 1..Len(b) : w[i + 1] = b[i]
      BY <3>3, <3>4
    <3>6. PICK c \in 0..255 : c = 150
      OBVIOUS
    <3>7. b \in Octets /\ w \in Octets /\ Len(w) = Len(b) + 1 /\ w[1] = c
      BY <3>3, <3>5, <3>6
    <3>8. \A i \in 1..Len(b) : w[i + 1] = b[i]
      BY <3>5
    <3>9. <<c>> \o b = w
      BY <3>7, <3>8, ConsTuple
    <3> QED
      BY <3>1, <3>2, <3>6, <3>9, Zenon
  <2> QED
    BY <2>2, <2>3, <2>4, Zenon
<1>4. Block(<<16>> \o appendUvarint[150], [num |-> 16 \div 8, wt |-> 0, v |-> 150, body |-> <<>>])
  BY <1>1, <1>2, VarintBlock
<1>5. <<16>> \o <<150, 1>> = <<16, 150, 1>>
  <2>1. PICK b : b = <<150, 1>>
    OBVIOUS
  <2>2. PICK w : w = <<16, 150, 1>>
    OBVIOUS
  <2>3. b \in Octets /\ Len(b) = 2 /\ w \in Octets /\ Len(w) = 3 /\ w[1] = 16
    BY <2>1, <2>2 DEF Octets
  <2>4. ASSUME NEW i \in 1..2 PROVE w[i + 1] = b[i]
    <3>1. i = 1 \/ i = 2
      OBVIOUS
    <3> QED
      BY <2>1, <2>2, <3>1
  <2>5. Len(w) = Len(b) + 1 /\ 16 \in 0..255 /\ \A i \in 1..Len(b) : w[i + 1] = b[i]
    BY <2>3, <2>4
  <2> QED
    BY <2>1, <2>2, <2>3, <2>5, ConsTuple, ZenonT(40)
<1>6. Block(<<16>> \o <<150, 1>>, [num |-> 2, wt |-> 0, v |-> 150, body |-> <<>>])
  BY <1>2, <1>3, <1>4
<1> QED
  BY <1>5, <1>6, Zenon

\* The unknown bytes of an answer are a field.
LEMMA BytesKind ==
  ASSUME AnswerBounds
  PROVE  Block(<<34, 2, 10, 8>>, [num |-> 4, wt |-> 2, v |-> 0, body |-> <<10, 8>>])
<1>0. PICK body : body = <<10, 8>>
  OBVIOUS
<1>1. body \in Octets /\ body = <<10, 8>> /\ Len(body) = 2
  BY <1>0 DEF Octets
<1>2. 2 < 2^LenBits /\ Widths
  BY AnswerWidths
<1>3. 34 \in 0..127 /\ 34 % 8 = 2 /\ 34 \div 8 = 4
  OBVIOUS
<1>4. Block(appendTaggedBytes(34, body), [num |-> 34 \div 8, wt |-> 2, v |-> 0, body |-> body])
  BY <1>1, <1>2, <1>3, BytesBlock
<1>5. appendUvarint[2] = <<2>>
  BY SmallUvarint
<1>6. <<2>> \o <<10, 8>> = <<2, 10, 8>>
  <2>1. PICK b : b = <<10, 8>>
    OBVIOUS
  <2>2. PICK w : w = <<2, 10, 8>>
    OBVIOUS
  <2>3. b \in Octets /\ Len(b) = 2 /\ w \in Octets /\ Len(w) = 3 /\ w[1] = 2
    BY <2>1, <2>2 DEF Octets
  <2>4. ASSUME NEW i \in 1..2 PROVE w[i + 1] = b[i]
    <3>1. i = 1 \/ i = 2
      OBVIOUS
    <3> QED
      BY <2>1, <2>2, <3>1
  <2>5. Len(w) = Len(b) + 1 /\ 2 \in 0..255 /\ \A i \in 1..Len(b) : w[i + 1] = b[i]
    BY <2>3, <2>4
  <2> QED
    BY <2>1, <2>2, <2>3, <2>5, ConsTuple
<1>7. <<34>> \o <<2, 10, 8>> = <<34, 2, 10, 8>>
  <2>1. PICK b : b = <<2, 10, 8>>
    OBVIOUS
  <2>2. PICK w : w = <<34, 2, 10, 8>>
    OBVIOUS
  <2>3. b \in Octets /\ Len(b) = 3 /\ w \in Octets /\ Len(w) = 4 /\ w[1] = 34
    BY <2>1, <2>2 DEF Octets
  <2>4. ASSUME NEW i \in 1..3 PROVE w[i + 1] = b[i]
    <3>1. i = 1 \/ i = 2 \/ i = 3
      OBVIOUS
    <3> QED
      BY <2>1, <2>2, <3>1
  <2>5. Len(w) = Len(b) + 1 /\ 34 \in 0..255 /\ \A i \in 1..Len(b) : w[i + 1] = b[i]
    BY <2>3, <2>4
  <2> QED
    BY <2>1, <2>2, <2>3, <2>5, ConsTuple
<1>8. appendTaggedBytes(34, body) = <<34, 2, 10, 8>>
  <2>1. PICK h \in Octets, u \in Octets : h = <<34>> /\ u = <<2>>
    BY OneByte
  <2>2. (h \o u) \o body = h \o (u \o body)
    BY JoinAssoc
  <2>3. appendTaggedBytes(34, body) = (h \o u) \o body
    BY <1>1, <1>5, <2>1 DEF appendTaggedBytes
  <2> QED
    BY <1>1, <1>6, <1>7, <2>1, <2>2, <2>3, Zenon
<1> QED
  BY <1>1, <1>3, <1>4, <1>8

\* The unknown eight bytes of an answer are a field.
LEMMA Fixed64Kind ==
  ASSUME AnswerBounds
  PROVE  Block(<<25, 0, 0, 0, 0, 0, 0, 0, 10>>,
               [num |-> 3, wt |-> 1, v |-> 0, body |-> <<0, 0, 0, 0, 0, 0, 0, 10>>])
<1>0. PICK x : x = <<0, 0, 0, 0, 0, 0, 0, 10>>
  OBVIOUS
<1>1. x \in Octets /\ x = <<0, 0, 0, 0, 0, 0, 0, 10>> /\ Len(x) = 8
  BY <1>0 DEF Octets
<1>2. 25 \in 0..127 /\ 25 % 8 = 1 /\ 25 \div 8 = 3 /\ Widths
  BY AnswerWidths
<1>3. Block(<<25>> \o x, [num |-> 25 \div 8, wt |-> 25 % 8, v |-> 0, body |-> x])
  BY <1>1, <1>2, FixedBlock
<1>4. <<25>> \o <<0, 0, 0, 0, 0, 0, 0, 10>> = <<25, 0, 0, 0, 0, 0, 0, 0, 10>>
  <2>1. PICK b : b = <<0, 0, 0, 0, 0, 0, 0, 10>>
    OBVIOUS
  <2>2. PICK w : w = <<25, 0, 0, 0, 0, 0, 0, 0, 10>>
    OBVIOUS
  <2>3. b \in Octets /\ Len(b) = 8 /\ w \in Octets /\ Len(w) = 9 /\ w[1] = 25
    BY <2>1, <2>2 DEF Octets
  <2>4. ASSUME NEW i \in 1..8 PROVE w[i + 1] = b[i]
    <3>1. i = 1 \/ i = 2 \/ i = 3 \/ i = 4 \/ i = 5 \/ i = 6 \/ i = 7 \/ i = 8
      OBVIOUS
    <3> QED
      BY <2>1, <2>2, <3>1
  <2>5. Len(w) = Len(b) + 1 /\ 25 \in 0..255 /\ \A i \in 1..Len(b) : w[i + 1] = b[i]
    BY <2>3, <2>4
  <2> QED
    BY <2>1, <2>2, <2>3, <2>5, ConsTuple
<1>5. <<25>> \o x = <<25, 0, 0, 0, 0, 0, 0, 0, 10>>
  BY <1>1, <1>4, Zenon
<1>6. Block(<<25>> \o x, [num |-> 3, wt |-> 1, v |-> 0, body |-> x])
  BY <1>2, <1>3
<1> QED
  BY <1>1, <1>5, <1>6, Zenon

\* The unknown four bytes of an answer are a field.
LEMMA Fixed32Kind ==
  ASSUME AnswerBounds
  PROVE  Block(<<45, 0, 0, 0, 10>>, [num |-> 5, wt |-> 5, v |-> 0, body |-> <<0, 0, 0, 10>>])
<1>0. PICK x : x = <<0, 0, 0, 10>>
  OBVIOUS
<1>1. x \in Octets /\ x = <<0, 0, 0, 10>> /\ Len(x) = 4
  BY <1>0 DEF Octets
<1>2. 45 \in 0..127 /\ 45 % 8 = 5 /\ 45 \div 8 = 5 /\ Widths
  BY AnswerWidths
<1>3. Block(<<45>> \o x, [num |-> 45 \div 8, wt |-> 45 % 8, v |-> 0, body |-> x])
  BY <1>1, <1>2, FixedBlock
<1>4. <<45>> \o <<0, 0, 0, 10>> = <<45, 0, 0, 0, 10>>
  <2>1. PICK b : b = <<0, 0, 0, 10>>
    OBVIOUS
  <2>2. PICK w : w = <<45, 0, 0, 0, 10>>
    OBVIOUS
  <2>3. b \in Octets /\ Len(b) = 4 /\ w \in Octets /\ Len(w) = 5 /\ w[1] = 45
    BY <2>1, <2>2 DEF Octets
  <2>4. ASSUME NEW i \in 1..4 PROVE w[i + 1] = b[i]
    <3>1. i = 1 \/ i = 2 \/ i = 3 \/ i = 4
      OBVIOUS
    <3> QED
      BY <2>1, <2>2, <3>1
  <2>5. Len(w) = Len(b) + 1 /\ 45 \in 0..255 /\ \A i \in 1..Len(b) : w[i + 1] = b[i]
    BY <2>3, <2>4
  <2> QED
    BY <2>1, <2>2, <2>3, <2>5, ConsTuple
<1>5. <<45>> \o x = <<45, 0, 0, 0, 10>>
  BY <1>1, <1>4, Zenon
<1>6. Block(<<45>> \o x, [num |-> 5, wt |-> 5, v |-> 0, body |-> x])
  BY <1>2, <1>3
<1> QED
  BY <1>1, <1>5, <1>6, Zenon

\* A field of an answer is what Fields says.
LEMMA FieldsAre ==
  ASSUME AnswerBounds, NEW f \in Fields
  PROVE  /\ f.count \in Counts \cup {0} /\ f.msg \in BOOLEAN
         /\ f.kind \in {"partial", "varint", "fixed64", "bytes", "fixed32"}
         /\ f.kind = "partial" => f.count \in Counts
BY DEF Fields

\* Every part of an answer is a field.
LEMMA BytesAreBlocks ==
  ASSUME AnswerBounds, NEW f \in Fields
  PROVE  Block(Bytes(f), FieldOf(f))
<1>1. CASE f.kind = "partial"
  <2>1. f.count \in Nat /\ f.count < 2^LenBits /\ f.msg \in BOOLEAN
    BY <1>1, FieldsAre, CountRange
  <2>2. PICK body \in Octets : body = PartialBody(f) /\ Len(body) < 2^LenBits
    BY <2>1, AnswerWidths, PartialBodyIs
  <2>3. 10 \in 0..127 /\ 10 % 8 = 2 /\ 10 \div 8 = 1 /\ Widths
    BY AnswerWidths
  <2>4. Block(appendTaggedBytes(10, body), [num |-> 10 \div 8, wt |-> 2, v |-> 0, body |-> body])
    BY <2>2, <2>3, BytesBlock
  <2>5. Bytes(f) = appendTaggedBytes(10, body)
    BY <1>1, <2>2 DEF Bytes, PartialBody
  <2>6. FieldOf(f) = [num |-> 1, wt |-> 2, v |-> 0, body |-> body]
    BY <1>1, <2>2 DEF FieldOf
  <2> QED
    BY <2>3, <2>4, <2>5, <2>6
<1>2. CASE f.kind = "varint"
  BY <1>2, VarintKind DEF Bytes, FieldOf
<1>3. CASE f.kind = "fixed64"
  BY <1>3, Fixed64Kind DEF Bytes, FieldOf
<1>4. CASE f.kind = "bytes"
  BY <1>4, BytesKind DEF Bytes, FieldOf
<1>5. CASE f.kind = "fixed32"
  BY <1>5, Fixed32Kind DEF Bytes, FieldOf
<1> QED
  BY <1>1, <1>2, <1>3, <1>4, <1>5, FieldsAre

\* What a field says to decodePartialSuccess.
LEMMA PartialIs ==
  ASSUME NEW f \in Fields, AnswerBounds
  PROVE  /\ (FieldOf(f).num = 1 /\ FieldOf(f).wt = 2) <=> f.kind = "partial"
         /\ f.kind = "partial" => FieldOf(f).body = PartialBody(f)
<1>1. f.kind \in {"partial", "varint", "fixed64", "bytes", "fixed32"}
  BY FieldsAre
<1> QED
  BY <1>1 DEF FieldOf

\* The blocks of the first k fields of an answer.
Parts(fields, k) == [i \in 1..Len(SubSeq(fields, 1, k)) |-> Bytes(SubSeq(fields, 1, k)[i])]

\* The first k fields of an answer.
LEMMA FirstFields ==
  ASSUME NEW fields \in Seq(Fields), NEW k \in 0..Len(fields)
  PROVE  /\ SubSeq(fields, 1, k) \in Seq(Fields) /\ Len(SubSeq(fields, 1, k)) = k
         /\ \A i \in 1..k : SubSeq(fields, 1, k)[i] = fields[i]
<1>1. PICK m \in Nat : m = Len(fields)
  BY LenProperties
<1>2. k \in Nat /\ \A i \in 1..k : i \in 1..Len(fields)
  BY <1>1
<1>3. \A i \in 1..k : fields[i] \in Fields
  BY <1>2, ElementOfSeq
<1>4. 1 \in Int /\ k \in Int /\ k - 1 + 1 = k
  BY <1>2
<1>5. /\ SubSeq(fields, 1, k) \in Seq(Fields)
      /\ Len(SubSeq(fields, 1, k)) = IF 1 <= k THEN k - 1 + 1 ELSE 0
      /\ \A i \in 1..(k - 1 + 1) : SubSeq(fields, 1, k)[i] = fields[1 + i - 1]
  BY <1>3, <1>4, SubSeqProperties
<1> QED
  BY <1>2, <1>5

\* The bytes of the first k fields are their bytes joined.
LEMMA PartsAre ==
  ASSUME AnswerBounds, NEW fields \in Seq(Fields), NEW k \in 0..Len(fields)
  PROVE  /\ Parts(fields, k) \in Seq(Octets) /\ Len(Parts(fields, k)) = k
         /\ \A i \in 1..k : Parts(fields, k)[i] = Bytes(fields[i])
         /\ Concat(SubSeq(fields, 1, k)) = FlattenSeq(Parts(fields, k))
<1>1. PICK s \in Seq(Fields) : s = SubSeq(fields, 1, k) /\ Len(s) = k
  BY FirstFields
<1>2. \A i \in 1..k : s[i] = fields[i] /\ s[i] \in Fields
  BY <1>1, FirstFields, ElementOfSeq
<1>3. \A f \in Fields : Bytes(f) \in Octets
  BY BytesAreBlocks DEF Block
<1>4. k \in Nat
  BY LenProperties
<1>5. Parts(fields, k) = [i \in 1..k |-> Bytes(s[i])]
  BY <1>1 DEF Parts
<1>6. \A i \in 1..k : Bytes(s[i]) \in Octets
  BY <1>2, <1>3
<1>7. Parts(fields, k) \in Seq(Octets) /\ Len(Parts(fields, k)) = k
  BY <1>4, <1>5, <1>6
<1>8. \A i \in 1..k : Parts(fields, k)[i] = Bytes(fields[i])
  BY <1>2, <1>5
<1>9. Concat(SubSeq(fields, 1, k)) = FlattenSeq(Parts(fields, k))
  BY DEF Concat, Parts
<1> QED
  BY <1>7, <1>8, <1>9

\* One more piece of a message.
LEMMA PieceAdded ==
  ASSUME NEW s \in Seq(Octets), NEW t \in Seq(Octets), NEW x \in Octets,
         Len(t) = Len(s) + 1, \A i \in 1..Len(s) : t[i] = s[i], t[Len(s) + 1] = x
  PROVE  FlattenSeq(t) = FlattenSeq(s) \o x
<1>1. PICK S : S = 0..255
  OBVIOUS
<1>2. Octets = Seq(S)
  BY <1>1 DEF Octets
<1>3. s \in Seq(Seq(S)) /\ t \in Seq(Seq(S)) /\ x \in Seq(S)
  BY <1>2
<1> QED
  BY <1>3, FlattenGrows

\* The messages of the first fields of an answer.
Messages(fields) == [k \in 0..Len(fields) |-> Concat(SubSeq(fields, 1, k))]
Blocks(fields) == [i \in 1..Len(fields) |-> Bytes(fields[i])]
FieldsOf(fields) == [i \in 1..Len(fields) |-> FieldOf(fields[i])]

\* An answer is built of its fields, one after the other.
LEMMA AnswerBuilds ==
  ASSUME AnswerBounds, NEW fields \in Seq(Fields)
  PROVE  /\ Builds(Messages(fields), Blocks(fields), FieldsOf(fields), Len(fields))
         /\ Messages(fields)[Len(fields)] = Concat(fields)
<1>1. PICK n \in Nat : n = Len(fields)
  BY LenProperties
<1>2. \A k \in 0..n : Messages(fields)[k] = FlattenSeq(Parts(fields, k))
  BY <1>1, PartsAre DEF Messages
<1>3. Messages(fields)[0] = <<>>
  <2>1. 0 \in 0..n
    OBVIOUS
  <2>2. Parts(fields, 0) \in Seq(Octets) /\ Len(Parts(fields, 0)) = 0
    BY <1>1, <2>1, PartsAre
  <2>3. Parts(fields, 0) = <<>>
    BY <2>2, EmptySeq
  <2> QED
    BY <1>2, <2>1, <2>3, FlattenEmpty
<1>4. ASSUME NEW k \in 0..(n - 1)
      PROVE  Messages(fields)[k + 1] = Messages(fields)[k] \o Blocks(fields)[k + 1]
  <2>1. k \in 0..n /\ k + 1 \in 0..n /\ k + 1 \in 1..n /\ k \in Nat
    BY <1>1
  <2>2. PICK s \in Seq(Octets) : s = Parts(fields, k) /\ Len(s) = k
    BY <1>1, <2>1, PartsAre
  <2>3. PICK t \in Seq(Octets) : t = Parts(fields, k + 1) /\ Len(t) = k + 1
    BY <1>1, <2>1, PartsAre
  <2>4. /\ \A i \in 1..k : s[i] = Bytes(fields[i])
        /\ \A i \in 1..(k + 1) : t[i] = Bytes(fields[i])
    BY <1>1, <2>1, <2>2, <2>3, PartsAre
  <2>5. PICK x \in Octets : x = Bytes(fields[k + 1])
    <3>1. fields[k + 1] \in Fields
      BY <1>1, <2>1, ElementOfSeq
    <3> QED
      BY <3>1, BytesAreBlocks DEF Block
  <2>6. Len(t) = Len(s) + 1 /\ t[Len(s) + 1] = x /\ \A i \in 1..Len(s) : t[i] = s[i]
    <3>1. k + 1 \in 1..(k + 1) /\ \A i \in 1..k : i \in 1..(k + 1)
      BY <2>1
    <3> QED
      BY <2>2, <2>3, <2>4, <2>5, <3>1
  <2>7. FlattenSeq(t) = FlattenSeq(s) \o x
    BY <2>2, <2>3, <2>5, <2>6, PieceAdded
  <2>8. Blocks(fields)[k + 1] = x
    BY <1>1, <2>1, <2>5 DEF Blocks
  <2> QED
    BY <1>2, <2>1, <2>2, <2>3, <2>7, <2>8
<1>5. ASSUME NEW k \in 1..n PROVE Block(Blocks(fields)[k], FieldsOf(fields)[k])
  <2>1. fields[k] \in Fields
    BY <1>1, ElementOfSeq
  <2>2. Block(Bytes(fields[k]), FieldOf(fields[k]))
    BY <2>1, BytesAreBlocks
  <2>3. Blocks(fields)[k] = Bytes(fields[k]) /\ FieldsOf(fields)[k] = FieldOf(fields[k])
    BY <1>1 DEF Blocks, FieldsOf
  <2> QED
    BY <2>2, <2>3
<1>6. Messages(fields)[n] = Concat(fields)
  <2>1. SubSeq(fields, 1, n) = fields
    BY <1>1, SubSeqFull
  <2>2. Messages(fields)[n] = Concat(SubSeq(fields, 1, n))
    BY <1>1 DEF Messages
  <2> QED
    BY <2>1, <2>2
<1> QED
  BY <1>1, <1>3, <1>4, <1>5, <1>6 DEF Builds

-----------------------------------------------------------------------------
LastPartials(fields) == {i \in 1..Len(fields) : fields[i].kind = "partial"}

\* A count that is not negative is accepted as it is.
LEMMA CountAccepted ==
  ASSUME NEW n \in Nat, NEW tells \in BOOLEAN
  PROVE  classifyAccept([err |-> FALSE, rejected |-> n, msg |-> tells]) = Accepted(n, n > 0 \/ tells)
<1>1. CASE n > 0
  BY <1>1 DEF classifyAccept
<1>2. CASE n = 0
  <2>1. ~(n > 0) /\ (n > 0 \/ tells) = tells
    BY <1>2
  <2> QED
    BY <1>2, <2>1 DEF classifyAccept
<1> QED
  BY <1>1, <1>2

\* What resolveAccept makes of an answer.
LEMMA AnswerRead ==
  ASSUME AnswerBounds, NEW fields \in Seq(Fields), NEW at, at = LastPartials(fields)
  PROVE  /\ at # {} => Max(at) \in at
         /\ resolveAccept(Concat(fields)) =
              IF at = {} THEN Accepted(0, FALSE)
              ELSE Accepted(fields[Max(at)].count,
                            fields[Max(at)].count > 0 \/ fields[Max(at)].msg)
<1>1. PICK n \in Nat : n = Len(fields)
  BY LenProperties
<1>2. PICK p, x, F : /\ p = Messages(fields) /\ x = Blocks(fields) /\ F = FieldsOf(fields)
  OBVIOUS
<1>3. Builds(p, x, F, n) /\ p[n] = Concat(fields)
  BY <1>1, <1>2, AnswerBuilds
<1>4. \A i \in 1..n : fields[i] \in Fields /\ F[i] = FieldOf(fields[i])
  BY <1>1, <1>2, ElementOfSeq DEF FieldsOf
<1>5. at = Kind(F, n, 1, 2)
  <2>1. \A i \in 1..n : fields[i].kind = "partial" <=> (F[i].num = 1 /\ F[i].wt = 2)
    <3> SUFFICES ASSUME NEW i \in 1..n
                 PROVE  fields[i].kind = "partial" <=> (F[i].num = 1 /\ F[i].wt = 2)
      OBVIOUS
    <3>1. PICK f \in Fields : f = fields[i]
      BY <1>4
    <3>2. f.kind = "partial" <=> (FieldOf(f).num = 1 /\ FieldOf(f).wt = 2)
      BY PartialIs
    <3> QED
      BY <1>4, <3>1, <3>2
  <2> QED
    BY <1>1, <2>1 DEF Kind, LastPartials
<1>6. ~truncated(p[n]) /\ lastField(scan[p[n]], 1, 2) = IF at = {} THEN <<>> ELSE <<F[Max(at)]>>
  BY <1>3, <1>5, LastOf
<1>7. PICK m \in Octets : m = Concat(fields)
  BY <1>3, ScanWhole
<1>8. ~truncated(m) /\ lastField(scan[m], 1, 2) = IF at = {} THEN <<>> ELSE <<F[Max(at)]>>
  BY <1>3, <1>6, <1>7, Zenon
<1>9. CASE at = {}
  <2>1. findField(m, 1) = <<>>
    BY <1>8, <1>9 DEF findField
  <2>2. decodePartialSuccess(m) = [err |-> FALSE, rejected |-> 0, msg |-> FALSE]
    BY <1>8, <2>1 DEF decodePartialSuccess, partialSuccess
  <2>3. resolveAccept(m) = Accepted(0, FALSE)
    <3>1. (0 > 0 \/ FALSE) = FALSE
      OBVIOUS
    <3>2. resolveAccept(m) = Accepted(0, 0 > 0 \/ FALSE)
      BY <2>2, CountAccepted DEF resolveAccept
    <3> QED
      BY <3>1, <3>2, Zenon
  <2> QED
    BY <1>7, <1>9, <2>3
<1>10. CASE at # {}
  <2>1. Max(at) \in at /\ at \subseteq 1..n
    <3>1. at \in SUBSET (1..n)
      BY <1>5 DEF Kind
    <3> QED
      BY <1>10, <3>1, GreatestOf
  <2>2. PICK f \in Fields : f = fields[Max(at)] /\ f.kind = "partial" /\ F[Max(at)] = FieldOf(f)
    <3>1. fields[Max(at)].kind = "partial"
      BY <2>1 DEF LastPartials
    <3> QED
      BY <1>4, <2>1, <3>1
  <2>3. f.count \in Counts /\ f.msg \in BOOLEAN
    BY <2>2, FieldsAre
  <2>4. f.count \in Nat /\ f.count < 2^LenBits /\ signed(f.count) = f.count /\ Widths
    BY <2>3, CountRange, AnswerWidths
  <2>5. PICK b : b = PartialBody(f)
    OBVIOUS
  <2>6. findField(m, 1) = <<b>>
    <3>1. PICK G : G = FieldOf(f) /\ G.body = b
      BY <2>2, <2>5, PartialIs
    <3>2. lastField(scan[m], 1, 2) = <<G>> /\ <<G>> # <<>> /\ <<G>>[1] = G
      BY <1>8, <1>10, <2>2, <3>1
    <3> QED
      BY <3>1, <3>2 DEF findField
  <2>7. /\ ~truncated(b) /\ findVarint(b, 1) = f.count
        /\ findField(b, 2) = IF f.msg THEN <<(<<65>>)>> ELSE <<>>
    BY <2>3, <2>4, <2>5, PartialBodyIs
  <2>8. (findField(b, 2) \notin {<<>>, <<(<<>>)>>}) = f.msg
    <3>1. <<(<<65>>)>> # <<>> /\ <<(<<65>>)>> # <<(<<>>)>>
      <4>1. <<65>> # <<>>
        OBVIOUS
      <4> QED
        BY <4>1
    <3> QED
      BY <2>3, <2>7, <3>1
  <2>9. partialSuccess(<<b>>) = [err |-> FALSE, rejected |-> f.count, msg |-> f.msg]
    <3>1. <<b>> # <<>> /\ <<b>>[1] = b
      OBVIOUS
    <3>2. truncated(b) = FALSE
      BY <2>7 DEF truncated, Contains
    <3> QED
      BY <2>4, <2>7, <2>8, <3>1, <3>2 DEF partialSuccess
  <2>10. decodePartialSuccess(m) = [err |-> FALSE, rejected |-> f.count, msg |-> f.msg]
    BY <1>8, <2>6, <2>9 DEF decodePartialSuccess
  <2>11. resolveAccept(m) = Accepted(f.count, f.count > 0 \/ f.msg)
    BY <2>3, <2>4, <2>10, CountAccepted DEF resolveAccept
  <2> QED
    BY <1>7, <1>10, <2>1, <2>2, <2>11
<1> QED
  BY <1>9, <1>10

\* A truncated answer counts as accepted, with a warning.
LEMMA TruncatedAccepted ==
  ASSUME NEW b, truncated(b)
  PROVE  resolveAccept(b) = Accepted(0, TRUE)
<1>1. decodePartialSuccess(b) = [err |-> TRUE, rejected |-> 0, msg |-> FALSE]
  BY DEF decodePartialSuccess
<1> QED
  BY <1>1 DEF resolveAccept, classifyAccept

\* So does an answer cut anywhere but between two of its fields.
LEMMA CutAccepted ==
  ASSUME AnswerBounds, NEW fields \in Seq(Fields), NEW j \in 0..Len(Concat(fields)),
         \A k \in 0..Len(fields) : j # Len(Concat(SubSeq(fields, 1, k)))
  PROVE  resolveAccept(SubSeq(Concat(fields), 1, j)) = Accepted(0, TRUE)
<1>1. PICK n \in Nat : n = Len(fields)
  BY LenProperties
<1>2. PICK p, x, F : p = Messages(fields) /\ x = Blocks(fields) /\ F = FieldsOf(fields)
  OBVIOUS
<1>3. Builds(p, x, F, n) /\ p[n] = Concat(fields)
  BY <1>1, <1>2, AnswerBuilds
<1>4. \A k \in 0..n : j # Len(p[k])
  BY <1>1, <1>2 DEF Messages
<1>5. j \in 0..Len(p[n])
  BY <1>3
<1>6. Contains(scan[SubSeq(p[n], 1, j)], unreadable)
  BY <1>3, <1>4, <1>5, ScanCut
<1>7. truncated(SubSeq(Concat(fields), 1, j))
  BY <1>3, <1>6, Zenon DEF truncated
<1> QED
  BY <1>7, TruncatedAccepted

\* The answer of a run is the message of its fields.
LEMMA AnswerIs ==
  ASSUME AnswerBounds, InputInv, what = "answer"
  PROVE  /\ input.body.fields \in Seq(Fields)
         /\ Message = Concat(input.body.fields)
         /\ Partials = LastPartials(input.body.fields)
         /\ input.inHeader \in BOOLEAN
<1>1. input \in Answers
  BY DEF InputInv, Inputs
<1>2. input.inHeader \in BOOLEAN /\ (input.body \in Bodies(1) \/ input.body \in Bodies(MaxFields))
  BY <1>1 DEF Answers
<1>3. \E n \in Nat : input.body \in Bodies(n)
  BY <1>2 DEF AnswerBounds
<1>4. PICK n \in Nat : input.body \in Bodies(n)
  BY <1>3
<1>5. PICK fs \in SeqsUpTo(Fields, n) : input.body = [fields |-> fs, bytes |-> Concat(fs)]
  BY <1>4 DEF Bodies
<1>6. input.body.fields = fs /\ input.body.bytes = Concat(fs)
  BY <1>5
<1>7. fs \in Seq(Fields)
  <2>1. PICK k \in 0..n : fs \in [1..k -> Fields]
    BY DEF SeqsUpTo
  <2>2. k \in Nat
    OBVIOUS
  <2> QED
    BY <2>1, <2>2, SeqDef
<1> QED
  BY <1>2, <1>6, <1>7 DEF Message, Partials, LastPartials

\* What an answer without error in its frame, or with one, comes to.
LEMMA GrpcFrame ==
  ASSUME input.stat = grpcOK, NEW n \in Nat, NEW m \in Nat, m = Len(Message)
  PROVE  Grpc(n) = IF n > 0 /\ n # m + 5 THEN Accepted(0, TRUE)
                   ELSE resolveAccept(IF n = 0 THEN <<>> ELSE Message)
<1> DEFINE f == [size |-> n, mlen |-> m, compressed |-> FALSE, encoding |-> "", msg |-> Message]
           r == [lost |-> FALSE, http |-> input.code, details |-> <<>>,
                 trailer |-> IF input.inHeader THEN none ELSE input.stat,
                 header  |-> IF input.inHeader THEN input.stat ELSE none,
                 frame   |-> f]
<1>1. Grpc(n) = grpcAttempt(r)
  BY DEF Grpc
<1>2. status(r) = grpcOK /\ grpcOK # none
  BY DEF status, none, grpcOK
<1>3. r.lost = FALSE /\ r.frame = f
  OBVIOUS
<1>4. frameErr(f) <=> (n > 0 /\ n # m + 5)
  BY DEF frameErr
<1>5. deframeGRPCResponse(f) = IF n = 0 THEN <<>> ELSE Message
  BY DEF deframeGRPCResponse
<1> HIDE DEF r, f
<1>6. grpcAttempt(r) = IF frameErr(f) THEN Accepted(0, TRUE) ELSE resolveAccept(deframeGRPCResponse(f))
  BY <1>2, <1>3 DEF grpcAttempt
<1> QED
  BY <1>1, <1>4, <1>5, <1>6

\* The count of the last partial success is what the accounting gets, whatever
\* fields surround it; answers that are cut inside a field and gRPC frames that
\* are not exactly one message are noticed and count nothing (otlp/proto.go
\* findField and findVarint, otlp/transport.go decodePartialSuccess and
\* classifyAccept, otlp/grpc_transport.go deframeGRPCResponse): for answers of
\* any number of fields, any counts an int64 holds, any cut.
THEOREM RejectionsAlwaysCounted ==
  ASSUME AnswerBounds
  PROVE  Spec => []RejectionsCounted
<1>1. ASSUME InputInv PROVE RejectionsCounted
  <2> SUFFICES ASSUME what = "answer"
               PROVE  /\ resolveAccept(Message) =
                           IF Partials = {} THEN Accepted(0, FALSE)
                           ELSE Accepted(said.count, said.count > 0 \/ said.msg)
                      /\ \A n \in (0..Len(Message))
                                 \ {Len(Concat(SubSeq(input.body.fields, 1, k))) :
                                      k \in 0..Len(input.body.fields)} :
                           resolveAccept(SubSeq(Message, 1, n)) = Accepted(0, TRUE)
                      /\ input.stat = grpcOK =>
                           \A n \in (1..(Len(Message) + 7)) \ {Len(Message) + 5} :
                             Grpc(n) = Accepted(0, TRUE)
    BY DEF RejectionsCounted
  <2>1. PICK fields \in Seq(Fields) : fields = input.body.fields
    BY <1>1, AnswerIs
  <2>2. Message = Concat(fields) /\ Partials = LastPartials(fields)
    BY <1>1, <2>1, AnswerIs
  <2>3. resolveAccept(Message) =
           IF Partials = {} THEN Accepted(0, FALSE)
           ELSE Accepted(said.count, said.count > 0 \/ said.msg)
    BY <2>1, <2>2, AnswerRead DEF said
  <2>4. ASSUME NEW n \in 0..Len(Message),
               \A k \in 0..Len(fields) : n # Len(Concat(SubSeq(fields, 1, k)))
        PROVE  resolveAccept(SubSeq(Message, 1, n)) = Accepted(0, TRUE)
    BY <2>2, <2>4, CutAccepted
  <2>5. \A n \in (0..Len(Message))
               \ {Len(Concat(SubSeq(input.body.fields, 1, k))) : k \in 0..Len(input.body.fields)} :
          resolveAccept(SubSeq(Message, 1, n)) = Accepted(0, TRUE)
    BY <2>1, <2>4
  <2>6. ASSUME input.stat = grpcOK, NEW n \in (1..(Len(Message) + 7)) \ {Len(Message) + 5}
        PROVE  Grpc(n) = Accepted(0, TRUE)
    <3>1. Message \in Octets
      BY <2>2, AnswerBuilds, ScanWhole, LenProperties
    <3>2. PICK m \in Nat : m = Len(Message)
      BY <3>1, JoinLen
    <3>3. n \in Nat /\ n > 0 /\ n # m + 5
      BY <3>2
    <3> QED
      BY <2>6, <3>2, <3>3, GrpcFrame
  <2> QED
    BY <2>3, <2>5, <2>6
<1>2. InputInv => RejectionsCounted
  BY <1>1
<1> QED
  BY <1>2, InputFixed, PTL

-----------------------------------------------------------------------------

\* JSON starts with a byte that no field starts with.
LEMMA NoProtobuf ==
  ASSUME Widths
  PROVE  truncated(<<123>>)
<1>1. PICK b \in Octets : b = <<123>> /\ Len(b) = 1
  BY OneByte
<1>2. PICK e \in Octets : e = <<>>
  <2>1. <<>> \in Octets
    BY DEF Octets
  <2> QED
    BY <2>1
<1>3. b # <<>>
  BY <1>1
<1>4. 123 \in 0..127 /\ 123 % 8 = 3
  OBVIOUS
<1>5. fieldLen(e, 123 % 8) = -1
  BY <1>4 DEF fieldLen
<1>6. behindTag(e, 123) = stuck
  BY <1>2, <1>5, BehindTagStuck
<1>7. cut[b \o e] = stuck
  BY <1>1, <1>2, <1>4, <1>6, CutTag
<1>8. b \o e = b
  BY <1>2, JoinNothing
<1>9. cut[b].field = unreadable /\ cut[b].rest = <<>>
  BY <1>7, <1>8 DEF stuck
<1>10. scan[b] = <<unreadable>> \o <<>>
  BY <1>3, <1>9, ScanStep, ScanNothing
<1>11. scan[b] = <<unreadable>>
  BY <1>10
<1>12. Len(<<unreadable>>) = 1 /\ <<unreadable>>[1] = unreadable
  OBVIOUS
<1> QED
  BY <1>1, <1>11, <1>12 DEF truncated, Contains

\* A JSON answer comes to what its document says.
LEMMA JsonAbsent ==
  ASSUME NEW body, body # <<>>
  PROVE  resolveAcceptJSON(body, [wellFormed |-> TRUE, rejected |-> "absent", n |-> 0, msg |-> FALSE])
           = Accepted(0, FALSE)
<1> DEFINE json == [wellFormed |-> TRUE, rejected |-> "absent", n |-> 0, msg |-> FALSE]
<1>1. decodePartialSuccessJSON(body, json) = [err |-> FALSE, rejected |-> 0, msg |-> FALSE]
  BY DEF decodePartialSuccessJSON
<1>2. (0 > 0 \/ FALSE) = FALSE
  OBVIOUS
<1> HIDE DEF json
<1>3. resolveAcceptJSON(body, json) = Accepted(0, 0 > 0 \/ FALSE)
  BY <1>1, CountAccepted DEF resolveAcceptJSON
<1> QED
  BY <1>2, <1>3, Zenon DEF json

\* A JSON answer with a count is accepted with that count.
LEMMA JsonNumeral ==
  ASSUME NEW body, body # <<>>, NEW n \in Nat, NEW msg \in BOOLEAN
  PROVE  resolveAcceptJSON(body, [wellFormed |-> TRUE, rejected |-> "numeral", n |-> n, msg |-> msg])
           = Accepted(n, n > 0 \/ msg)
<1> DEFINE json == [wellFormed |-> TRUE, rejected |-> "numeral", n |-> n, msg |-> msg]
<1>1. decodePartialSuccessJSON(body, json) = [err |-> FALSE, rejected |-> n, msg |-> msg]
  BY DEF decodePartialSuccessJSON
<1> HIDE DEF json
<1>2. resolveAcceptJSON(body, json) = Accepted(n, n > 0 \/ msg)
  BY <1>1, CountAccepted DEF resolveAcceptJSON
<1> QED
  BY <1>2, Zenon DEF json

\* A JSON answer that is not well formed is accepted with a warning.
LEMMA NoJson ==
  ASSUME NEW body, body # <<>>, NEW json, json.wellFormed = FALSE
  PROVE  resolveAcceptJSON(body, json) = Accepted(0, TRUE)
<1>1. decodePartialSuccessJSON(body, json) = [err |-> TRUE, rejected |-> 0, msg |-> FALSE]
  BY DEF decodePartialSuccessJSON
<1> QED
  BY <1>1 DEF resolveAcceptJSON, classifyAccept

\* A successful HTTP answer comes to what its encoding makes of its body.
LEMMA HttpOk ==
  ASSUME input.code = 200, NEW jsonOn \in BOOLEAN, NEW contentType, NEW body, NEW json
  PROVE  Http(jsonOn, contentType, body, json) =
           IF ~jsonOn \/ contentType = "protobuf" THEN resolveAccept(body)
                                                  ELSE resolveAcceptJSON(body, json)
<1> DEFINE r == [lost |-> FALSE, status |-> input.code, delay |-> FALSE, jsonOn |-> jsonOn,
                 contentType |-> contentType, body |-> body, doc |-> json]
<1>2. /\ r.lost = FALSE /\ r.status = 200 /\ r.jsonOn = jsonOn /\ r.contentType = contentType
      /\ r.body = body /\ r.doc = json
  OBVIOUS
<1>3. Http(jsonOn, contentType, body, json) = httpAttempt(r)
  BY DEF Http
<1> HIDE DEF r
<1>4. httpAttempt(r) = resolve(r)
  BY <1>2 DEF httpAttempt, retryableStatus
<1>5. resolve(r) = IF ~jsonOn \/ contentType = "protobuf" THEN resolveAccept(body)
                                                         ELSE resolveAcceptJSON(body, json)
  BY <1>2, Zenon DEF resolve
<1> QED
  BY <1>3, <1>4, <1>5, Zenon

\* A JSON answer to a JSON request is read as JSON.
LEMMA HttpJson ==
  ASSUME input.code = 200, NEW body, NEW json
  PROVE  Http(TRUE, "json", body, json) = resolveAcceptJSON(body, json)
<1>1. "json" # "protobuf" /\ TRUE \in BOOLEAN
  OBVIOUS
<1>2. Http(TRUE, "json", body, json) =
           IF ~TRUE \/ "json" = "protobuf" THEN resolveAccept(body) ELSE resolveAcceptJSON(body, json)
  BY <1>1, HttpOk, Zenon
<1> QED
  BY <1>1, <1>2

\* The answers of a proxy that are retried.
ProxyRetries == {429, 502, 503, 504}

\* An answer of a proxy that HTTP retries is UNAVAILABLE for gRPC, which retries it too.
LEMMA ProxyRetried ==
  ASSUME NEW code, code \in ProxyRetries
  PROVE  retryableStatus(code) /\ retryableGRPCStatus(httpStatusToGRPCStatus(code), FALSE)
<1>1. httpStatusToGRPCStatus(code) = 14
  BY DEF ProxyRetries, httpStatusToGRPCStatus, grpcUnavailable
<1> QED
  BY <1>1 DEF ProxyRetries, retryableGRPCStatus, retryableStatus

\* An HTTP attempt answered with a status that is retried fails so.
LEMMA RetriedAttempt ==
  ASSUME NEW r, r.lost = FALSE, r.status # 200, retryableStatus(r.status)
  PROVE  httpAttempt(r) = Failure(TRUE, r.delay)
  BY DEF httpAttempt

\* Any other answer of a proxy is final for both.
LEMMA ProxyDropped ==
  ASSUME NEW code, code \notin ProxyRetries
  PROVE  ~retryableStatus(code) /\ ~retryableGRPCStatus(httpStatusToGRPCStatus(code), FALSE)
<1>1. httpStatusToGRPCStatus(code) \in {13, 16, 7, 12, 2}
  BY DEF ProxyRetries, httpStatusToGRPCStatus, grpcInternal, grpcUnauthenticated, grpcPermissionDenied,
         grpcUnimplemented, grpcUnknown
<1> QED
  BY <1>1 DEF ProxyRetries, retryableGRPCStatus, retryableStatus, grpcResourceExhausted

\* The transports retry the same answers of a proxy.
LEMMA ProxyAgrees ==
  ASSUME input.code # 200, input.stat = none
  PROVE  Grpc(0).retryable = Http(FALSE, "protobuf", <<>>, Malformed).retryable
<1> DEFINE code == input.code
           r == [lost |-> FALSE, status |-> code, delay |-> FALSE, jsonOn |-> FALSE,
                 contentType |-> "protobuf", body |-> <<>>, doc |-> Malformed]
           g == [lost |-> FALSE, http |-> code, details |-> <<>>,
                 trailer |-> IF input.inHeader THEN none ELSE input.stat,
                 header  |-> IF input.inHeader THEN input.stat ELSE none,
                 frame   |-> [size |-> 0, mlen |-> Len(Message), compressed |-> FALSE,
                              encoding |-> "", msg |-> Message]]
<1>1. r.lost = FALSE /\ r.status = code /\ r.delay = FALSE
  OBVIOUS
<1>2. g.lost = FALSE /\ g.http = code /\ g.trailer = none /\ g.header = none
  OBVIOUS
<1>3. Http(FALSE, "protobuf", <<>>, Malformed) = httpAttempt(r)
  BY DEF Http
<1>4. Grpc(0) = grpcAttempt(g)
  BY DEF Grpc
<1>5. status(g) = none
  BY <1>2 DEF status
<1> HIDE DEF r, g
<1>7. code # 200
  OBVIOUS
<1> HIDE DEF code
<1>10. grpcAttempt(g) = Failure(retryableGRPCStatus(httpStatusToGRPCStatus(code), FALSE), FALSE)
  <2>1. none # grpcOK
    BY DEF none, grpcOK
  <2> QED
    BY <1>2, <1>5, <2>1 DEF grpcAttempt
<1>8. CASE code \in ProxyRetries
  <2>1. retryableStatus(code) /\ retryableGRPCStatus(httpStatusToGRPCStatus(code), FALSE)
    BY <1>8, ProxyRetried
  <2>2. httpAttempt(r).retryable = TRUE
    <3>1. r.lost = FALSE /\ r.status # 200 /\ retryableStatus(r.status)
      BY <1>1, <1>7, <2>1
    <3>2. httpAttempt(r) = Failure(TRUE, r.delay)
      BY <3>1, RetriedAttempt
    <3> QED
      BY <3>2 DEF Failure
  <2>3. grpcAttempt(g).retryable = TRUE
    <3>1. retryableGRPCStatus(httpStatusToGRPCStatus(code), FALSE) = TRUE
      BY <2>1 DEF retryableGRPCStatus
    <3>2. grpcAttempt(g) = Failure(TRUE, FALSE)
      BY <1>10, <3>1, Zenon
    <3> QED
      BY <3>2 DEF Failure
  <2> QED
    BY <1>3, <1>4, <2>2, <2>3
<1>9. CASE code \notin ProxyRetries
  <2>1. ~retryableStatus(code) /\ ~retryableGRPCStatus(httpStatusToGRPCStatus(code), FALSE)
    BY <1>9, ProxyDropped
  <2>2. httpAttempt(r).retryable = FALSE
    BY <1>1, <1>7, <2>1 DEF httpAttempt, Failure
  <2>3. grpcAttempt(g).retryable = FALSE
    <3>1. retryableGRPCStatus(httpStatusToGRPCStatus(code), FALSE) = FALSE
      BY <2>1 DEF retryableGRPCStatus
    <3>2. grpcAttempt(g) = Failure(FALSE, FALSE)
      BY <1>10, <3>1, Zenon
    <3> QED
      BY <3>2 DEF Failure
  <2> QED
    BY <1>3, <1>4, <2>2, <2>3
<1> QED
  BY <1>8, <1>9

\* The transports and encodings agree on the accounting of the same answer and
\* on which answers of a proxy are retried; a body in the wrong encoding does
\* not undo the acceptance (otlp/http_transport.go resolve,
\* otlp/grpc_transport.go attempt, otlp/transport.go): for answers of any
\* number of fields and any counts an int64 holds.
THEOREM TransportsAlwaysAgree ==
  ASSUME AnswerBounds
  PROVE  Spec => []TransportsAgree
<1>1. ASSUME InputInv PROVE TransportsAgree
  <2> SUFFICES ASSUME what = "answer", input.code = 200, input.stat = grpcOK
               PROVE
                 /\ Grpc(Len(Message) + 5) = Http(FALSE, "protobuf", Message, Malformed)
                 /\ Http(TRUE, "protobuf", Message, Malformed) = Http(FALSE, "protobuf", Message, Malformed)
                 /\ Http(TRUE, "json", <<123>>, Document) = Http(FALSE, "protobuf", Message, Malformed)
                 /\ Http(TRUE, "json", <<123>>, Malformed) = Accepted(0, TRUE)
                 /\ Http(FALSE, "json", <<123>>, Document) = Accepted(0, TRUE)
    BY ProxyAgrees DEF TransportsAgree
  <2>1. PICK fields \in Seq(Fields) : fields = input.body.fields
    BY <1>1, AnswerIs
  <2>2. Message = Concat(fields) /\ Partials = LastPartials(fields)
    BY <1>1, <2>1, AnswerIs
  <2>3. PICK m \in Nat : m = Len(Message)
    <3>1. Message \in Octets
      BY <2>2, AnswerBuilds, ScanWhole, LenProperties
    <3> QED
      BY <3>1, JoinLen
  <2>4. Http(FALSE, "protobuf", Message, Malformed) = resolveAccept(Message)
    BY HttpOk
  <2>5. Http(TRUE, "protobuf", Message, Malformed) = resolveAccept(Message)
    BY HttpOk
  <2>6. Grpc(m + 5) = resolveAccept(Message)
    <3>1. m + 5 \in Nat /\ m + 5 > 0 /\ m + 5 # 0
      OBVIOUS
    <3> QED
      BY <2>3, <3>1, GrpcFrame
  <2>7. <<123>> # <<>>
    OBVIOUS
  <2>8. Http(TRUE, "json", <<123>>, Document) = resolveAcceptJSON(<<123>>, Document)
    BY HttpJson
  <2>9. resolveAcceptJSON(<<123>>, Document) = resolveAccept(Message)
    <3>0. Partials # {} => Max(Partials) \in Partials
      BY <2>2, AnswerRead
    <3>1. resolveAccept(Message) =
            IF Partials = {} THEN Accepted(0, FALSE)
            ELSE Accepted(said.count, said.count > 0 \/ said.msg)
      BY <2>1, <2>2, AnswerRead DEF said
    <3>2. CASE Partials = {}
      <4>1. Document = [wellFormed |-> TRUE, rejected |-> "absent", n |-> 0, msg |-> FALSE]
        BY <3>2 DEF Document
      <4>2. resolveAcceptJSON(<<123>>, Document) = Accepted(0, FALSE)
        BY <2>7, <4>1, JsonAbsent, Zenon
      <4> QED
        BY <3>1, <3>2, <4>2
    <3>3. CASE Partials # {}
      <4>1. said \in Fields /\ said.kind = "partial"
        <5>1. Max(Partials) \in 1..Len(fields) /\ fields[Max(Partials)].kind = "partial"
          BY <2>2, <3>0, <3>3 DEF LastPartials
        <5> QED
          BY <2>1, <5>1, ElementOfSeq DEF said
      <4>2. said.count \in Nat /\ said.msg \in BOOLEAN
        BY <4>1, FieldsAre, CountRange
      <4>3. Document = [wellFormed |-> TRUE, rejected |-> "numeral", n |-> said.count, msg |-> said.msg]
        BY <3>3 DEF Document
      <4>4. resolveAcceptJSON(<<123>>, Document) = Accepted(said.count, said.count > 0 \/ said.msg)
        BY <2>7, <4>2, <4>3, JsonNumeral, Zenon
      <4> QED
        BY <3>1, <3>3, <4>4
    <3> QED
      BY <3>2, <3>3
  <2>10. Http(TRUE, "json", <<123>>, Malformed) = Accepted(0, TRUE)
    <3>1. Http(TRUE, "json", <<123>>, Malformed) = resolveAcceptJSON(<<123>>, Malformed)
      BY HttpJson
    <3>2. Malformed.wellFormed = FALSE
      BY DEF Malformed
    <3> QED
      BY <2>7, <3>1, <3>2, NoJson
  <2>11. Http(FALSE, "json", <<123>>, Document) = Accepted(0, TRUE)
    <3>1. Http(FALSE, "json", <<123>>, Document) = resolveAccept(<<123>>)
      BY HttpOk, ZenonT(40)
    <3> QED
      BY <3>1, AnswerWidths, NoProtobuf, TruncatedAccepted
  <2> QED
    BY <2>3, <2>4, <2>5, <2>6, <2>8, <2>9, <2>10, <2>11
<1>2. InputInv => TransportsAgree
  BY <1>1
<1> QED
  BY <1>2, InputFixed, PTL

-----------------------------------------------------------------------------
(***************************************************************************)
(* The texts of gRPC.                                                      *)
(***************************************************************************)
Escaped(s) == s[1] = 37 /\ Len(s) > 2 /\ unhex(s[2]) # none /\ unhex(s[3]) # none

\* A byte is read as a hexadecimal digit or as none.
LEMMA UnhexType ==
  ASSUME NEW c
  PROVE  c \in 0..255 => unhex(c) \in Int
BY DEF unhex, none

\* A text that is not empty has a first byte and a rest.
LEMMA TailType ==
  ASSUME NEW b \in Octets, b # <<>>
  PROVE  Tail(b) \in Octets /\ Len(Tail(b)) = Len(b) - 1 /\ Len(b) \in Nat \ {0} /\ b[1] \in 0..255
<1>1. Len(b) \in Nat \ {0}
  <2>1. Len(b) \in Nat
    BY JoinLen
  <2>2. b # <<>> => Len(b) # 0
    BY DEF Octets
  <2> QED
    BY <2>1, <2>2
<1>2. Tail(b) \in Octets /\ Len(Tail(b)) = Len(b) - 1
  BY HeadTailProperties DEF Octets
<1>3. 1 \in 1..Len(b)
  BY <1>1
<1>4. b[1] \in 0..255
  BY <1>3, ElementOfSeq DEF Octets
<1> QED
  BY <1>1, <1>2, <1>4

\* What percentDecode takes is shorter.
LEMMA DecodeStep ==
  ASSUME NEW s \in Octets
  PROVE  percentDecode[s] =
           IF s = <<>> THEN <<>>
           ELSE IF Escaped(s) THEN <<16 * unhex(s[2]) + unhex(s[3])>> \o percentDecode[From(s, 3)]
                              ELSE <<s[1]>> \o percentDecode[Tail(s)]
<1> DEFINE one  == [b \in Octets |-> IF Escaped(b) THEN <<16 * unhex(b[2]) + unhex(b[3])>> ELSE <<b[1]>>]
           next == [b \in Octets |-> IF Escaped(b) THEN From(b, 3) ELSE Tail(b)]
           Step(f, b) == IF b = <<>> THEN <<>>
                         ELSE IF Escaped(b)
                           THEN <<16 * unhex(b[2]) + unhex(b[3])>> \o f[From(b, 3)]
                           ELSE <<b[1]>> \o f[Tail(b)]
<1>1. Shortens(next)
  <2> SUFFICES ASSUME NEW b \in Octets, b # <<>>
               PROVE  next[b] \in Octets /\ Len(next[b]) < Len(b)
    BY DEF Shortens
  <2>1. PICK n \in Nat : n = Len(b)
    BY JoinLen
  <2>2. CASE Escaped(b)
    <3>1. 3 \in 0..Len(b)
      BY <2>1, <2>2 DEF Escaped
    <3>2. From(b, 3) \in Octets /\ Len(From(b, 3)) = Len(b) - 3
      BY <3>1, FromType
    <3>3. next[b] = From(b, 3)
      BY <2>2
    <3> QED
      BY <2>1, <3>2, <3>3
  <2>3. CASE ~Escaped(b)
    <3>1. next[b] = Tail(b)
      BY <2>3
    <3>2. PICK d \in Octets : d = Tail(b) /\ Len(d) = Len(b) - 1
      BY TailType
    <3>3. Len(d) < Len(b)
      BY <2>1, <3>2
    <3> QED
      BY <3>1, <3>2, <3>3, Zenon
  <2> QED
    BY <2>2, <2>3
<1>2. PICK f : f = [c \in Octets |-> Piece(one, next, f, c)]
  BY <1>1, PieceByPiece, Zenon
<1>3. \A c \in Octets : /\ one[c] = IF Escaped(c) THEN <<16 * unhex(c[2]) + unhex(c[3])>> ELSE <<c[1]>>
                        /\ next[c] = IF Escaped(c) THEN From(c, 3) ELSE Tail(c)
  BY Zenon
<1> HIDE DEF one, next
<1>4. \A c \in Octets : f[c] = Step(f, c)
  <2>1. \A c \in Octets : f[c] = Piece(one, next, f, c)
    BY <1>2, Zenon
  <2>2. ASSUME NEW c \in Octets PROVE f[c] = Step(f, c)
    <3>1. f[c] = IF c = <<>> THEN <<>> ELSE one[c] \o f[next[c]]
      BY <2>1, Zenon DEF Piece
    <3>2. CASE Escaped(c)
      BY <1>3, <3>1, <3>2, Zenon
    <3>3. CASE ~Escaped(c)
      BY <1>3, <3>1, <3>3, Zenon
    <3> QED
      BY <3>2, <3>3
  <2> QED
    BY <2>2
<1>5. f = [c \in Octets |-> Step(f, c)]
  <2> HIDE DEF Step
  <2>1. f = [c \in Octets |-> f[c]]
    BY <1>2, Zenon
  <2> QED
    BY <1>4, <2>1, Zenon
<1>6. percentDecode = [c \in Octets |-> Step(percentDecode, c)]
  BY <1>5, Zenon DEF percentDecode, Octets, Escaped
<1> HIDE DEF Step
<1>7. percentDecode[s] = Step(percentDecode, s)
  BY <1>6, Zenon
<1> QED
  BY <1>7, Zenon DEF Step

\* Decoding gives numbers.
LEMMA DecodeType ==
  ASSUME NEW b \in Octets
  PROVE  percentDecode[b] \in Seq(Int)
<1> DEFINE S == {m \in Nat : \A c \in Short(m) : percentDecode[c] \in Seq(Int)}
<1>0. <<>> \in Seq(Int) /\ <<>> \in Octets
  BY DEF Octets
<1>1. percentDecode[<<>>] = <<>>
  BY <1>0, DecodeStep
<1>2. 0 \in S
  BY <1>0, <1>1, ShortNone
<1>3. ASSUME NEW m \in Nat, m \in S PROVE m + 1 \in S
  <2>1. ASSUME NEW c \in Short(m + 1) PROVE percentDecode[c] \in Seq(Int)
    <3>1. c \in Octets /\ Len(c) <= m + 1
      BY DEF Short
    <3>2. CASE c = <<>>
      BY <1>0, <1>1, <3>2
    <3>3. CASE c # <<>>
      <4>1. Tail(c) \in Octets /\ Len(Tail(c)) = Len(c) - 1 /\ Len(c) \in Nat \ {0} /\ c[1] \in 0..255
        BY <3>1, <3>3, TailType
      <4>2. CASE Escaped(c)
        <5>1. 3 \in 0..Len(c) /\ 2 \in 1..Len(c) /\ 3 \in 1..Len(c)
          BY <4>1, <4>2 DEF Escaped
        <5>2. c[2] \in 0..255 /\ c[3] \in 0..255
          BY <3>1, <5>1, ElementOfSeq DEF Octets
        <5>3. PICK u \in Int, v \in Int : u = unhex(c[2]) /\ v = unhex(c[3])
          BY <5>2, UnhexType
        <5>4. PICK d \in Octets : d = From(c, 3) /\ Len(d) = Len(c) - 3
          BY <3>1, <5>1, FromType
        <5>5. Len(d) <= m
          BY <3>1, <4>1, <5>4
        <5>6. percentDecode[d] \in Seq(Int)
          BY <1>3, <5>5 DEF Short
        <5>7. percentDecode[c] = <<16 * u + v>> \o percentDecode[d]
          BY <3>1, <3>3, <4>2, <5>3, <5>4, DecodeStep
        <5>8. <<16 * u + v>> \in Seq(Int)
          OBVIOUS
        <5> QED
          BY <5>6, <5>7, <5>8, ConcatProperties
      <4>3. CASE ~Escaped(c)
        <5>0. PICK d \in Octets : d = Tail(c) /\ Len(d) = Len(c) - 1
          BY <4>1, Zenon
        <5>1. d = Tail(c) /\ Len(d) <= m
          BY <3>1, <4>1, <5>0
        <5>2. percentDecode[d] \in Seq(Int)
          BY <1>3, <5>1 DEF Short
        <5>3. percentDecode[c] = <<c[1]>> \o percentDecode[d]
          BY <3>1, <3>3, <4>3, <5>1, DecodeStep
        <5>4. <<c[1]>> \in Seq(Int)
          <6>1. PICK e \in Int : e = c[1]
            BY <4>1
          <6> QED
            BY <6>1
        <5> QED
          BY <5>2, <5>3, <5>4, ConcatProperties
      <4> QED
        BY <4>2, <4>3
    <3> QED
      BY <3>2, <3>3
  <2> QED
    BY <2>1
<1> HIDE DEF S
<1>4. \A m \in Nat : m \in S
  BY <1>2, <1>3, NatSetInduction
<1>5. Len(b) \in Nat /\ b \in Short(Len(b))
  BY JoinLen DEF Short
<1> QED
  BY <1>4, <1>5 DEF S

\* A byte as PercentEncode writes it.
Escape(c) == IF c \in 32..126 /\ c # 37 THEN <<c>> ELSE <<37, Upper(c \div 16), Upper(c % 16)>>

\* A hexadecimal digit is read back.
LEMMA HexDigit ==
  ASSUME NEW d \in 0..15
  PROVE  Upper(d) \in 0..255 /\ unhex(Upper(d)) = d /\ d # none
<1>1. CASE d < 10
  BY <1>1 DEF Upper, unhex, none
<1>2. CASE ~(d < 10)
  BY <1>2 DEF Upper, unhex, none
<1> QED
  BY <1>1, <1>2

\* A byte escaped is decoded as itself, whatever follows it.
LEMMA EscapeDecoded ==
  ASSUME NEW c \in 0..255
  PROVE  /\ Escape(c) \in Octets
         /\ \A t \in Octets : percentDecode[Escape(c) \o t] = <<c>> \o percentDecode[t]
<1>1. CASE c \in 32..126 /\ c # 37
  <2>1. Escape(c) = <<c>> /\ <<c>> \in Octets /\ Len(<<c>>) = 1 /\ <<c>>[1] = c
    BY <1>1, OneByte DEF Escape
  <2>2. ASSUME NEW t \in Octets PROVE percentDecode[<<c>> \o t] = <<c>> \o percentDecode[t]
    <3>1. PICK h \in Octets : h = <<c>> /\ Len(h) = 1 /\ h[1] = c
      BY <2>1
    <3>2. PICK b \in Octets : b = h \o t /\ Len(b) = Len(h) + Len(t)
      BY JoinLen
    <3>3. 1 \in 1..Len(h)
      BY <3>1
    <3>4. b[1] = c
      BY <3>1, <3>2, <3>3, JoinIs
    <3>5. Tail(b) = t
      BY <3>1, <3>2, TailJoin
    <3>6. b # <<>>
      <4>1. Len(t) \in Nat
        BY JoinLen
      <4>2. Len(b) # 0
        BY <3>1, <3>2, <4>1
      <4> QED
        BY <4>2
    <3>7. ~Escaped(b)
      BY <1>1, <3>4 DEF Escaped
    <3>8. percentDecode[b] = <<c>> \o percentDecode[t]
      BY <3>4, <3>5, <3>6, <3>7, DecodeStep
    <3> QED
      BY <3>1, <3>2, <3>8
  <2> QED
    BY <2>1, <2>2
<1>2. CASE ~(c \in 32..126 /\ c # 37)
  <2>1. PICK x \in 0..15, y \in 0..15 : x = c \div 16 /\ y = c % 16 /\ 16 * x + y = c
    <3>1. c \div 16 \in 0..15 /\ c % 16 \in 0..15 /\ 16 * (c \div 16) + (c % 16) = c
      OBVIOUS
    <3> QED
      BY <3>1
  <2>2. PICK u \in 0..255, v \in 0..255 :
          u = Upper(x) /\ v = Upper(y) /\ unhex(u) = x /\ unhex(v) = y /\ x # none /\ y # none
    BY HexDigit
  <2>3. PICK e : e = <<37, u, v>>
    OBVIOUS
  <2>4. e \in Octets /\ Len(e) = 3 /\ e[1] = 37 /\ e[2] = u /\ e[3] = v
    BY <2>3 DEF Octets
  <2>5. Escape(c) = e
    BY <1>2, <2>1, <2>2, <2>3 DEF Escape
  <2>6. ASSUME NEW t \in Octets PROVE percentDecode[e \o t] = <<c>> \o percentDecode[t]
    <3>1. PICK b \in Octets : b = e \o t /\ Len(b) = Len(e) + Len(t)
      BY <2>4, JoinLen
    <3>2. Len(t) \in Nat
      BY JoinLen
    <3>3. 1 \in 1..Len(e) /\ 2 \in 1..Len(e) /\ 3 \in 1..Len(e)
      BY <2>4
    <3>4. b[1] = 37 /\ b[2] = u /\ b[3] = v
      BY <2>4, <3>1, <3>3, JoinIs
    <3>5. From(b, 3) = t
      BY <2>4, <3>1, FromJoin
    <3>6. Len(b) > 2 /\ b # <<>>
      <4>1. Len(b) > 2
        BY <2>4, <3>1, <3>2
      <4> QED
        BY <4>1
    <3>7. Escaped(b)
      BY <2>2, <3>4, <3>6 DEF Escaped
    <3>8. percentDecode[b] = <<16 * unhex(b[2]) + unhex(b[3])>> \o percentDecode[From(b, 3)]
      BY <3>6, <3>7, DecodeStep
    <3> QED
      BY <2>1, <2>2, <3>1, <3>4, <3>5, <3>8
  <2> QED
    BY <2>4, <2>5, <2>6
<1> QED
  BY <1>1, <1>2

\* What the first k of some pieces are together.
Firsts(q) == [k \in 0..Len(q) |-> FlattenSeq(SubSeq(q, 1, k))]

\* The first k parts joined are the first k - 1 and part k.
LEMMA FirstsGrow ==
  ASSUME NEW S, NEW q \in Seq(Seq(S))
  PROVE  /\ Firsts(q)[0] = <<>>
         /\ \A k \in 0..(Len(q) - 1) : Firsts(q)[k + 1] = Firsts(q)[k] \o q[k + 1]
         /\ Firsts(q)[Len(q)] = FlattenSeq(q)
<1>1. PICK n \in Nat : n = Len(q)
  BY LenProperties
<1>2. ASSUME NEW k \in 0..n
      PROVE  /\ SubSeq(q, 1, k) \in Seq(Seq(S)) /\ Len(SubSeq(q, 1, k)) = k
             /\ \A i \in 1..k : SubSeq(q, 1, k)[i] = q[i]
             /\ Firsts(q)[k] = FlattenSeq(SubSeq(q, 1, k))
  <2>1. k \in Nat /\ \A i \in 1..k : i \in 1..Len(q)
    BY <1>1
  <2>2. \A i \in 1..k : q[i] \in Seq(S)
    BY <2>1, ElementOfSeq
  <2>3. 1 \in Int /\ k \in Int /\ k - 1 + 1 = k
    BY <2>1
  <2>4. /\ SubSeq(q, 1, k) \in Seq(Seq(S))
        /\ Len(SubSeq(q, 1, k)) = IF 1 <= k THEN k - 1 + 1 ELSE 0
        /\ \A i \in 1..(k - 1 + 1) : SubSeq(q, 1, k)[i] = q[1 + i - 1]
    BY <2>2, <2>3, SubSeqProperties
  <2>5. Firsts(q)[k] = FlattenSeq(SubSeq(q, 1, k))
    BY <1>1 DEF Firsts
  <2> QED
    BY <2>1, <2>4, <2>5
<1>3. Firsts(q)[0] = <<>>
  <2>1. 0 \in 0..n
    OBVIOUS
  <2>2. SubSeq(q, 1, 0) = <<>>
    BY <1>2, <2>1, EmptySeq
  <2> QED
    BY <1>2, <2>1, <2>2, FlattenEmpty
<1>4. ASSUME NEW k \in 0..(n - 1) PROVE Firsts(q)[k + 1] = Firsts(q)[k] \o q[k + 1]
  <2>1. k \in 0..n /\ k + 1 \in 0..n /\ k + 1 \in 1..n /\ k \in Nat
    BY <1>1
  <2>2. PICK s \in Seq(Seq(S)) : s = SubSeq(q, 1, k) /\ Len(s) = k /\ \A i \in 1..k : s[i] = q[i]
    BY <1>2, <2>1
  <2>3. PICK t \in Seq(Seq(S)) :
           t = SubSeq(q, 1, k + 1) /\ Len(t) = k + 1 /\ \A i \in 1..(k + 1) : t[i] = q[i]
    BY <1>2, <2>1
  <2>4. PICK x \in Seq(S) : x = q[k + 1]
    BY <1>1, <2>1, ElementOfSeq
  <2>5. Len(t) = Len(s) + 1 /\ t[Len(s) + 1] = x /\ \A i \in 1..Len(s) : t[i] = s[i]
    <3>1. k + 1 \in 1..(k + 1) /\ \A i \in 1..k : i \in 1..(k + 1)
      BY <2>1
    <3> QED
      BY <2>2, <2>3, <2>4, <3>1
  <2>6. FlattenSeq(t) = FlattenSeq(s) \o x
    BY <2>2, <2>3, <2>4, <2>5, FlattenGrows
  <2>7. Firsts(q)[k] = FlattenSeq(s) /\ Firsts(q)[k + 1] = FlattenSeq(t)
    BY <1>2, <2>1, <2>2, <2>3
  <2> QED
    BY <2>4, <2>6, <2>7
<1>5. Firsts(q)[n] = FlattenSeq(q)
  <2>1. SubSeq(q, 1, n) = q
    BY <1>1, SubSeqFull
  <2>2. n \in 0..n
    OBVIOUS
  <2>3. Firsts(q)[n] = FlattenSeq(SubSeq(q, 1, n))
    BY <1>2, <2>2
  <2> QED
    BY <2>1, <2>3
<1> QED
  BY <1>1, <1>3, <1>4, <1>5

\* Any text is read as it was before the server escaped it.
LEMMA TextReadsBack ==
  ASSUME NEW s \in Octets
  PROVE  percentDecode[PercentEncode(s)] = s
<1>1. PICK n \in Nat : n = Len(s)
  BY JoinLen
<1>2. \A i \in 1..n : s[i] \in 0..255 /\ s[i] \in Int
  <2>1. \A i \in 1..n : s[i] \in 0..255
    BY <1>1, ElementOfSeq DEF Octets
  <2> QED
    BY <2>1
<1>3. PICK q : q = [i \in 1..n |-> Escape(s[i])]
  OBVIOUS
<1>4. \A i \in 1..n : q[i] = Escape(s[i]) /\ q[i] \in Octets
  BY <1>2, <1>3, EscapeDecoded
<1>5. q \in Seq(Octets) /\ Len(q) = n
  BY <1>3, <1>4
<1>6. PICK p : p = Firsts(q)
  OBVIOUS
<1>7. PercentEncode(s) = p[n]
  <2>1. PercentEncode(s) = FlattenSeq(q)
    BY <1>1, <1>3 DEF PercentEncode, Escape
  <2> QED
    <3>1. q \in Seq(Seq(0..255))
      BY <1>5 DEF Octets
    <3> QED
      BY <1>5, <1>6, <2>1, <3>1, FirstsGrow
<1>8. ReadsEach(percentDecode, Int, p, q, s, n)
  <2>1. p[0] = <<>> /\ \A k \in 0..(n - 1) : p[k + 1] = p[k] \o q[k + 1]
    <3>1. q \in Seq(Seq(0..255))
      BY <1>5 DEF Octets
    <3> QED
      BY <1>5, <1>6, <3>1, FirstsGrow
  <2>2. \A b \in Octets : percentDecode[b] \in Seq(Int)
    BY DecodeType
  <2>3. ASSUME NEW k \in 1..n
        PROVE  /\ q[k] \in Octets /\ s[k] \in Int
               /\ \A t \in Octets : percentDecode[q[k] \o t] = <<s[k]>> \o percentDecode[t]
    <3>1. PICK c \in 0..255 : c = s[k] /\ q[k] = Escape(c)
      BY <1>2, <1>4
    <3>2. \A t \in Octets : percentDecode[Escape(c) \o t] = <<c>> \o percentDecode[t]
      BY EscapeDecoded
    <3> QED
      BY <1>2, <1>4, <3>1, <3>2, Zenon
  <2> QED
    BY <2>1, <2>2, <2>3, Zenon DEF ReadsEach
<1>9. PICK fs : Prefixed(percentDecode, Int, p[n], s, n, fs)
  <2>1. n \in 0..n
    OBVIOUS
  <2> QED
    BY <1>8, <2>1, ReadInOrder
<1>10. /\ p[n] \in Octets /\ fs \in Seq(Int) /\ Len(fs) = n
       /\ \A i \in 1..n : fs[i] = s[i]
       /\ \A t \in Octets : percentDecode[p[n] \o t] = fs \o percentDecode[t]
  BY <1>9, Zenon DEF Prefixed
<1>11. percentDecode[p[n]] = fs
  <2>1. <<>> \in Octets
    BY DEF Octets
  <2>2. percentDecode[<<>>] = <<>>
    BY <2>1, DecodeStep
  <2>3. percentDecode[p[n] \o <<>>] = fs \o <<>>
    BY <1>10, <2>1, <2>2, Zenon
  <2>4. p[n] \o <<>> = p[n] /\ fs \o <<>> = fs
    BY <1>10, JoinNothing, ConcatEmptySeq
  <2> QED
    BY <2>3, <2>4, Zenon
<1>12. fs = s
  <2>1. s \in Seq(Int)
    BY <1>1, <1>2 DEF Octets
  <2> QED
    BY <1>1, <1>10, <2>1, SeqEqual
<1> QED
  BY <1>7, <1>11, <1>12

\* Messages of one field or of two.
LEMMA OneBlock ==
  ASSUME NEW B, NEW F, Block(B, F)
  PROVE  /\ B \in Octets /\ ~truncated(B)
         /\ F.wt = 2 => findField(B, F.num) = <<F.body>>
<1>1. B \in Octets /\ F.num \in Nat /\ <<>> \in Octets
  BY DEF Block, Octets
<1>2. PICK p : p[0] = <<>> /\ p[1] = B
  <2> DEFINE q == [k \in 0..1 |-> IF k = 0 THEN <<>> ELSE B]
  <2>1. q[0] = <<>> /\ q[1] = B
    OBVIOUS
  <2> QED
    BY <2>1
<1>3. PICK x, G : x[1] = B /\ G[1] = F
  <2>1. <<B>>[1] = B /\ <<F>>[1] = F
    OBVIOUS
  <2> QED
    BY <2>1
<1>4. Builds(p, x, G, 1)
  <2>1. ASSUME NEW k \in 0..(1 - 1) PROVE p[k + 1] = p[k] \o x[k + 1]
    <3>1. k = 0 /\ k + 1 = 1
      OBVIOUS
    <3>2. <<>> \o B = B
      BY <1>1, JoinNothing
    <3> QED
      BY <1>2, <1>3, <3>1, <3>2, Zenon
  <2>2. ASSUME NEW k \in 1..1 PROVE Block(x[k], G[k])
    <3>1. k = 1
      OBVIOUS
    <3> QED
      BY <1>3, <3>1, Zenon
  <2> QED
    BY <1>2, <2>1, <2>2 DEF Builds
<1>5. PICK at : at = Kind(G, 1, F.num, 2)
  OBVIOUS
<1>6. ~truncated(p[1]) /\ lastField(scan[p[1]], F.num, 2) = IF at = {} THEN <<>> ELSE <<G[Max(at)]>>
  <2>1. 1 \in Nat
    OBVIOUS
  <2> QED
    BY <1>4, <1>5, <2>1, LastOf
<1>7. ASSUME F.wt = 2 PROVE findField(B, F.num) = <<F.body>>
  <2>1. at = {1}
    BY <1>3, <1>5, <1>7 DEF Kind
  <2>2. Max({1}) = 1
    BY MaxIs
  <2>3. lastField(scan[B], F.num, 2) = <<F>>
    BY <1>2, <1>3, <1>6, <2>1, <2>2
  <2> QED
    BY <2>3 DEF findField
<1> QED
  BY <1>1, <1>2, <1>6, <1>7

\* Two fields of different numbers are both found in their message.
LEMMA TwoBlocks ==
  ASSUME NEW B, NEW F, Block(B, F), NEW C, NEW G, Block(C, G), F.num # G.num
  PROVE  /\ B \o C \in Octets /\ ~truncated(B \o C)
         /\ F.wt = 2 => findField(B \o C, F.num) = <<F.body>>
         /\ G.wt = 2 => findField(B \o C, G.num) = <<G.body>>
         /\ F.wt = 0 => findVarint(B \o C, F.num) = F.v
         /\ G.wt = 0 => findVarint(B \o C, G.num) = G.v
<1>1. B \in Octets /\ C \in Octets /\ F.num \in Nat /\ G.num \in Nat
  BY DEF Block
<1>2. PICK D \in Octets : D = B \o C
  BY <1>1, JoinLen
<1>3. PICK p : p[0] = <<>> /\ p[1] = B /\ p[2] = D
  <2> DEFINE q == [k \in 0..2 |-> IF k = 0 THEN <<>> ELSE IF k = 1 THEN B ELSE D]
  <2>1. q[0] = <<>> /\ q[1] = B /\ q[2] = D
    OBVIOUS
  <2> QED
    BY <2>1
<1>4. PICK x : x[1] = B /\ x[2] = C
  <2>1. <<B, C>>[1] = B /\ <<B, C>>[2] = C
    OBVIOUS
  <2> QED
    BY <2>1
<1>5. PICK H : H[1] = F /\ H[2] = G
  <2>1. <<F, G>>[1] = F /\ <<F, G>>[2] = G
    OBVIOUS
  <2> QED
    BY <2>1
<1>6. Builds(p, x, H, 2)
  <2>1. <<>> \o B = B
    BY <1>1, JoinNothing
  <2>2. ASSUME NEW k \in 0..(2 - 1) PROVE p[k + 1] = p[k] \o x[k + 1]
    <3>1. CASE k = 0
      <4>1. k + 1 = 1
        BY <3>1
      <4> QED
        BY <1>3, <1>4, <2>1, <3>1, <4>1, Zenon
    <3>2. CASE k # 0
      <4>1. k = 1 /\ k + 1 = 2
        BY <3>2
      <4> QED
        BY <1>2, <1>3, <1>4, <4>1, Zenon
    <3> QED
      BY <3>1, <3>2
  <2>3. ASSUME NEW k \in 1..2 PROVE Block(x[k], H[k])
    <3>1. k = 1 \/ k = 2
      OBVIOUS
    <3> QED
      BY <1>4, <1>5, <3>1, Zenon
  <2> QED
    BY <1>3, <2>2, <2>3 DEF Builds
<1>7. ASSUME NEW i \in 1..2, NEW num, NEW wt, NEW K,
             K = H[i], num = K.num, wt = K.wt
      PROVE  ~truncated(D) /\ lastField(scan[D], num, wt) = <<K>>
  <2>1. PICK at : at = Kind(H, 2, num, wt)
    OBVIOUS
  <2>2. /\ ~truncated(p[2])
        /\ lastField(scan[p[2]], num, wt) = IF at = {} THEN <<>> ELSE <<H[Max(at)]>>
    <3>1. 2 \in Nat
      OBVIOUS
    <3> QED
      BY <1>6, <2>1, <3>1, LastOf
  <2>3. at = {i}
    <3>1. i = 1 \/ i = 2
      OBVIOUS
    <3> QED
      BY <1>5, <1>7, <2>1, <3>1 DEF Kind
  <2>4. Max({i}) = i
    BY MaxIs
  <2> QED
    BY <1>3, <1>7, <2>2, <2>3, <2>4
<1>8. ~truncated(D) /\ lastField(scan[D], F.num, F.wt) = <<F>>
  <2>1. 1 \in 1..2
    OBVIOUS
  <2> QED
    BY <1>5, <1>7, <2>1
<1>9. lastField(scan[D], G.num, G.wt) = <<G>>
  <2>1. 2 \in 1..2
    OBVIOUS
  <2> QED
    BY <1>5, <1>7, <2>1
<1>10. <<F>> # <<>> /\ <<F>>[1] = F /\ <<G>> # <<>> /\ <<G>>[1] = G
  OBVIOUS
<1>11. /\ F.wt = 2 => findField(D, F.num) = <<F.body>>
       /\ F.wt = 0 => findVarint(D, F.num) = F.v
  BY <1>8, <1>10 DEF findField, findVarint
<1>12. /\ G.wt = 2 => findField(D, G.num) = <<G.body>>
       /\ G.wt = 0 => findVarint(D, G.num) = G.v
  BY <1>9, <1>10 DEF findField, findVarint
<1> QED
  BY <1>2, <1>8, <1>11, <1>12

\* A field of bytes is a little longer than the bytes.
LEMMA TaggedSize ==
  ASSUME Widths, NEW tag \in 0..127, NEW body \in Octets, Len(body) < 2^LenBits
  PROVE  /\ appendTaggedBytes(tag, body) \in Octets
         /\ Len(appendTaggedBytes(tag, body)) <= Len(body) + 11
<1>1. PICK m \in Nat : m = Len(body)
  BY JoinLen
<1>2. PICK u \in Octets, n \in 1..10 : u = appendUvarint[m] /\ n = Len(u)
  BY <1>1, UvarintReadsBack
<1>3. PICK h \in Octets : h = <<tag>> /\ Len(h) = 1
  <2>1. tag \in 0..255
    OBVIOUS
  <2> QED
    BY <2>1, OneByte
<1>4. h \o u \in Octets /\ Len(h \o u) = 1 + n
  BY <1>2, <1>3, JoinLen
<1>5. (h \o u) \o body \in Octets /\ Len((h \o u) \o body) = (1 + n) + m
  BY <1>1, <1>4, JoinLen
<1>6. appendTaggedBytes(tag, body) = (h \o u) \o body
  BY <1>1, <1>2, <1>3 DEF appendTaggedBytes
<1>7. (1 + n) + m <= m + 11
  OBVIOUS
<1> QED
  BY <1>1, <1>5, <1>6, <1>7

-----------------------------------------------------------------------------
(***************************************************************************)
(* The details of a gRPC status.  The widths and seconds they can have.    *)
(***************************************************************************)
DetailBounds ==
    /\ LenBits \in 8..70
    /\ Secs \subseteq 0..(2^LenBits - 1)
    /\ MaxFields \in Nat

\* The bounds of the details give the widths.
LEMMA DetailWidths ==
  ASSUME DetailBounds
  PROVE  Widths /\ 256 <= 2^LenBits /\ 2^LenBits \in Nat
BY EightBits DEF DetailBounds

\* The numbers of a detail fit the width.
LEMMA DetailSecs ==
  ASSUME DetailBounds, NEW d \in Details
  PROVE  /\ d.secs \in Nat /\ d.secs < 2^LenBits /\ d.nanos \in {0, 50} /\ d.nanos < 2^LenBits
         /\ d.kind \in {"other", "no delay", "cut", "delay"}
         /\ d.kind # "delay" => d.secs = 0 /\ d.nanos = 0
<1>1. PICK m \in Nat : m = 2^LenBits /\ 256 <= m
  BY DetailWidths
<1>2. Secs \subseteq 0..(m - 1)
  BY <1>1 DEF DetailBounds
<1>3. /\ d.secs \in {0} \cup Secs /\ d.nanos \in {0, 50}
      /\ d.kind \in {"other", "no delay", "cut", "delay"}
      /\ d.kind # "delay" => d.secs = 0 /\ d.nanos = 0
  BY DEF Details
<1>4. d.secs \in Nat /\ d.secs < m
  <2>1. PICK s \in {0} \cup Secs : s = d.secs
    BY <1>3
  <2>2. s \in Nat /\ s < m
    BY <1>1, <1>2
  <2> QED
    BY <2>1, <2>2
<1>5. d.nanos < m
  <2>1. d.nanos = 0 \/ d.nanos = 50
    BY <1>3
  <2> QED
    BY <1>1, <2>1
<1> QED
  BY <1>1, <1>3, <1>4, <1>5

\* A number in a field of its own.
NumberBlock(tag, v) == <<tag>> \o appendUvarint[v]

\* A number of a duration is a short field.
LEMMA NumberBlockIs ==
  ASSUME Widths, NEW tag \in {8, 16}, NEW v \in Nat, v < 2^LenBits
  PROVE  /\ Block(NumberBlock(tag, v), [num |-> tag \div 8, wt |-> 0, v |-> v, body |-> <<>>])
         /\ NumberBlock(tag, v) \in Octets /\ Len(NumberBlock(tag, v)) <= 11
<1>1. tag \in 0..127 /\ tag % 8 = 0 /\ tag \in 0..255
  OBVIOUS
<1>2. Block(<<tag>> \o appendUvarint[v], [num |-> tag \div 8, wt |-> 0, v |-> v, body |-> <<>>])
  BY <1>1, VarintBlock
<1>3. PICK u \in Octets, n \in 1..10 : u = appendUvarint[v] /\ n = Len(u)
  BY UvarintReadsBack
<1>4. PICK h \in Octets : h = <<tag>> /\ Len(h) = 1
  BY <1>1, OneByte
<1>5. h \o u \in Octets /\ Len(h \o u) = 1 + n
  BY <1>3, <1>4, JoinLen
<1>6. 1 + n <= 11
  OBVIOUS
<1> QED
  BY <1>2, <1>3, <1>4, <1>5, <1>6 DEF NumberBlock

\* A Duration is its seconds and its nanoseconds.
Dur(d) == <<8>> \o appendUvarint[d.secs] \o <<16>> \o appendUvarint[d.nanos]

\* A duration is read as the seconds and nanoseconds written.
LEMMA DurIs ==
  ASSUME Widths, NEW d, d.secs \in Nat, d.nanos \in Nat,
         d.secs < 2^LenBits, d.nanos < 2^LenBits
  PROVE  /\ Dur(d) = NumberBlock(8, d.secs) \o NumberBlock(16, d.nanos)
         /\ Dur(d) \in Octets /\ Len(Dur(d)) <= 22
         /\ ~truncated(Dur(d))
         /\ findVarint(Dur(d), 1) = d.secs /\ findVarint(Dur(d), 2) = d.nanos
<1>1. 8 \in {8, 16} /\ 16 \in {8, 16} /\ 8 \div 8 = 1 /\ 16 \div 8 = 2
  OBVIOUS
<1>2. PICK B \in Octets, s \in Nat : s = d.secs /\ B = NumberBlock(8, s) /\ Len(B) <= 11
  BY <1>1, NumberBlockIs
<1>3. PICK C \in Octets, n \in Nat : n = d.nanos /\ C = NumberBlock(16, n) /\ Len(C) <= 11
  BY <1>1, NumberBlockIs
<1>4. PICK F : F = [num |-> 1, wt |-> 0, v |-> s, body |-> <<>>]
  OBVIOUS
<1>5. PICK G : G = [num |-> 2, wt |-> 0, v |-> n, body |-> <<>>]
  OBVIOUS
<1>6. Block(B, F)
  <2>1. Block(NumberBlock(8, s), [num |-> 8 \div 8, wt |-> 0, v |-> s, body |-> <<>>])
    BY <1>1, <1>2, NumberBlockIs
  <2> QED
    BY <1>1, <1>2, <1>4, <2>1
<1>7. Block(C, G)
  <2>1. Block(NumberBlock(16, n), [num |-> 16 \div 8, wt |-> 0, v |-> n, body |-> <<>>])
    BY <1>1, <1>3, NumberBlockIs
  <2> QED
    BY <1>1, <1>3, <1>5, <2>1
<1>8. F.num = 1 /\ F.wt = 0 /\ F.v = s /\ G.num = 2 /\ G.wt = 0 /\ G.v = n
  BY <1>4, <1>5
<1>9. /\ B \o C \in Octets /\ ~truncated(B \o C)
      /\ findVarint(B \o C, F.num) = F.v /\ findVarint(B \o C, G.num) = G.v
  BY <1>6, <1>7, <1>8, TwoBlocks
<1>10. Dur(d) = B \o C
  <2>1. PICK h \in Octets : h = <<8>>
    BY OneByte
  <2>2. PICK k \in Octets : k = <<16>>
    BY OneByte
  <2>3. PICK u \in Octets : u = appendUvarint[s]
    BY <1>2, UvarintReadsBack
  <2>4. PICK w \in Octets : w = appendUvarint[n]
    BY <1>3, UvarintReadsBack
  <2>5. Dur(d) = ((h \o u) \o k) \o w
    BY <1>2, <1>3, <2>1, <2>2, <2>3, <2>4 DEF Dur
  <2>6. B = h \o u /\ C = k \o w
    BY <1>2, <1>3, <2>1, <2>2, <2>3, <2>4 DEF NumberBlock
  <2>7. (B \o k) \o w = B \o (k \o w)
    BY JoinAssoc, SMTT(30)
  <2> QED
    BY <2>5, <2>6, <2>7, Zenon
<1>11. Len(B \o C) <= 22
  <2>1. Len(B \o C) = Len(B) + Len(C) /\ Len(B) \in Nat /\ Len(C) \in Nat
    BY JoinLen
  <2> QED
    BY <1>2, <1>3, <2>1
<1> QED
  BY <1>2, <1>3, <1>8, <1>9, <1>10, <1>11

\* The nanoseconds of a Duration that breaks off.
LEMMA CutNanos ==
  ASSUME DetailBounds
  PROVE  scan[<<16>> \o <<128>>] = <<unreadable>>
<1>1. PICK h \in Octets : h = <<16>> /\ Len(h) = 1
  BY OneByte
<1>2. PICK k \in Octets : k = <<128>> /\ Len(k) = 1
  BY OneByte
<1>3. PICK e \in Octets : e = <<1>> /\ Len(e) = 1
  BY OneByte
<1>4. (h \o k) \o e = h \o (k \o e)
  BY JoinAssoc
<1>5. PICK t \in Octets : t = h \o k /\ Len(t) = 2
  <2>1. h \o k \in Octets /\ Len(h \o k) = Len(h) + Len(k)
    BY JoinLen
  <2>2. Len(h \o k) = 2
    BY <1>1, <1>2, <2>1
  <2> QED
    BY <2>1, <2>2
<1>6. Widths /\ 128 < 2^LenBits /\ 16 \in {8, 16}
  BY DetailWidths
<1>7. appendUvarint[128] = k \o e
  <2>1. PICK v \in Nat : v = 128 /\ v >= 128 /\ (v % 128) + 128 = 128 /\ v \div 128 = 1
    OBVIOUS
  <2>2. appendUvarint[v] = <<(v % 128) + 128>> \o appendUvarint[v \div 128]
    BY <2>1, AppendUvarintStep DEF UvarintBytes
  <2>3. appendUvarint[1] = <<1>>
    <3>1. 1 \in 0..127
      OBVIOUS
    <3> QED
      BY <3>1, WrittenShort
  <2>4. appendUvarint[v \div 128] = e
    BY <1>3, <2>1, <2>3
  <2>5. <<(v % 128) + 128>> = k
    BY <1>2, <2>1
  <2>6. appendUvarint[v] = k \o e
    BY <2>2, <2>4, <2>5, Zenon
  <2> QED
    BY <2>1, <2>6
<1>8. PICK C \in Octets : C = NumberBlock(16, 128) /\ C = t \o e
  <2>1. NumberBlock(16, 128) = h \o (k \o e)
    BY <1>1, <1>7 DEF NumberBlock
  <2>2. t \o e \in Octets
    BY JoinLen
  <2> QED
    BY <1>4, <1>5, <2>1, <2>2, Zenon
<1>9. PICK G : Block(C, G)
  <2>1. Block(NumberBlock(16, 128), [num |-> 16 \div 8, wt |-> 0, v |-> 128, body |-> <<>>])
    BY <1>6, NumberBlockIs
  <2> QED
    BY <1>8, <2>1
<1>10. SubSeq(C, 1, 2) = t /\ Len(C) = 3
  <2>1. 2 \in 0..Len(t)
    BY <1>5
  <2>2. SubSeq(t \o e, 1, 2) = SubSeq(t, 1, 2)
    BY <2>1, PrefixOfFirst
  <2>3. SubSeq(t, 1, Len(t)) = t
    BY PrefixWhole
  <2>4. Len(t \o e) = Len(t) + Len(e)
    BY JoinLen
  <2>5. Len(t \o e) = 3
    BY <1>3, <1>5, <2>4
  <2> QED
    BY <1>5, <1>8, <2>2, <2>3, <2>5
<1>11. scan[t] = <<unreadable>>
  <2>1. 2 \in 1..(Len(C) - 1)
    BY <1>10
  <2>2. scan[SubSeq(C, 1, 2)] = <<unreadable>>
    BY <1>9, <2>1, ScanPart
  <2> QED
    BY <1>10, <2>2, Zenon
<1> QED
  BY <1>1, <1>2, <1>5, <1>11, Zenon
\* A Duration that breaks off in its nanoseconds cannot be read.
CutDur(d) == Front(Dur(d)) \o <<128>>

\* A duration cut short is found truncated.
LEMMA CutDurIs ==
  ASSUME DetailBounds, NEW d, d.secs = 0, d.nanos = 0
  PROVE  CutDur(d) \in Octets /\ Len(CutDur(d)) <= 22 /\ truncated(CutDur(d))
<1>1. /\ 0 \in Nat /\ 128 \in Nat /\ 0 < 2^LenBits /\ 0 \in 0..127 /\ 8 \in {8, 16} /\ 16 \in {8, 16}
      /\ Widths
  BY SmallTag, DetailWidths
<1>2. PICK B \in Octets : B = NumberBlock(8, 0) /\ Len(B) <= 11
  BY <1>1, NumberBlockIs
<1>3. PICK F : Block(B, F)
  BY <1>1, <1>2, NumberBlockIs
<1>4. PICK h \in Octets : h = <<16>> /\ Len(h) = 1
  BY OneByte
<1>5. PICK z \in Octets : z = <<0>> /\ Len(z) = 1
  BY OneByte
<1>6. PICK k \in Octets : k = <<128>> /\ Len(k) = 1
  BY OneByte
<1>7. PICK a \in Octets : a = B \o h /\ Len(a) = Len(B) + 1
  BY <1>4, JoinLen
<1>8. Dur(d) = a \o z
  <2>1. Dur(d) = B \o NumberBlock(16, 0)
    BY <1>1, <1>2, DurIs
  <2>2. NumberBlock(16, 0) = h \o z
    BY <1>1, <1>4, <1>5, WrittenShort DEF NumberBlock
  <2>3. (B \o h) \o z = B \o (h \o z)
    BY JoinAssoc, SMTT(30)
  <2> QED
    BY <1>7, <2>1, <2>2, <2>3, Zenon
<1>9. PICK n \in Nat : n = Len(a)
  BY JoinLen
<1>10. Front(Dur(d)) = a
  <2>1. Len(a \o z) = n + 1
    BY <1>5, <1>9, JoinLen
  <2>2. Front(a \o z) = SubSeq(a \o z, 1, (n + 1) - 1)
    BY <2>1 DEF Front
  <2>3. (n + 1) - 1 = n
    OBVIOUS
  <2>4. SubSeq(a \o z, 1, n) = SubSeq(a, 1, n)
    BY <1>9, PrefixOfFirst
  <2>5. SubSeq(a, 1, n) = a
    BY <1>9, PrefixWhole
  <2> QED
    BY <1>8, <2>2, <2>3, <2>4, <2>5, Zenon
<1>11. PICK t \in Octets : t = h \o k /\ Len(t) = 2
  <2>1. h \o k \in Octets /\ Len(h \o k) = Len(h) + Len(k)
    BY JoinLen
  <2>2. Len(h \o k) = 2
    BY <1>4, <1>6, <2>1
  <2> QED
    BY <2>1, <2>2
<1>12. CutDur(d) = B \o t
  <2>1. CutDur(d) = a \o k
    BY <1>6, <1>10, Zenon DEF CutDur
  <2>2. (B \o h) \o k = B \o (h \o k)
    BY JoinAssoc, SMTT(30)
  <2> QED
    BY <1>7, <1>11, <2>1, <2>2, Zenon
<1>13. scan[B \o t] = <<F>> \o scan[t]
  BY <1>3, ScanBlock
<1>14. scan[t] = <<unreadable>>
  BY <1>4, <1>6, <1>11, CutNanos, Zenon
<1>15. truncated(B \o t)
  <2>1. PICK fs : fs = <<F>> \o <<unreadable>> /\ Len(fs) = 2 /\ fs[2] = unreadable
    <3>1. PICK S : S = {F, unreadable}
      OBVIOUS
    <3>2. /\ <<F>> \in Seq(S) /\ Len(<<F>>) = 1
          /\ <<unreadable>> \in Seq(S) /\ Len(<<unreadable>>) = 1
          /\ <<unreadable>>[1] = unreadable
      BY <3>1
    <3>3. /\ Len(<<F>> \o <<unreadable>>) = Len(<<F>>) + Len(<<unreadable>>)
          /\ \A i \in 1..(Len(<<F>>) + Len(<<unreadable>>)) :
               (<<F>> \o <<unreadable>>)[i] =
                  IF i <= Len(<<F>>) THEN <<F>>[i] ELSE <<unreadable>>[i - Len(<<F>>)]
      BY <3>2, ConcatProperties
    <3>4. 2 \in 1..(1 + 1) /\ ~(2 <= 1) /\ 2 - 1 = 1 /\ 1 + 1 = 2
      OBVIOUS
    <3> QED
      BY <3>2, <3>3, <3>4
  <2>2. Contains(fs, unreadable)
    <3>1. 2 \in 1..Len(fs)
      BY <2>1
    <3> QED
      BY <2>1, <3>1 DEF Contains
  <2> QED
    BY <1>13, <1>14, <2>1, <2>2, Zenon DEF truncated
<1>16. B \o t \in Octets /\ Len(B \o t) <= 22
  <2>1. B \o t \in Octets /\ Len(B \o t) = Len(B) + 2 /\ Len(B) \in Nat
    BY <1>11, JoinLen
  <2> QED
    BY <1>2, <2>1
<1> QED
  BY <1>12, <1>15, <1>16

\* An Any is a type and a value.
AnyOf(url, value) == appendTaggedBytes(10, url) \o appendTaggedBytes(18, value)

\* The type and the value of a detail are read as written.
LEMMA AnyIs ==
  ASSUME DetailBounds, NEW url \in Octets, Len(url) = 1,
         NEW value \in Octets, Len(value) <= 33
  PROVE  /\ AnyOf(url, value) \in Octets /\ Len(AnyOf(url, value)) <= 56
         /\ findField(AnyOf(url, value), 1) = <<url>>
         /\ findField(AnyOf(url, value), 2) = <<value>>
<1>1. /\ 10 \in 0..127 /\ 10 % 8 = 2 /\ 10 \div 8 = 1
      /\ 18 \in 0..127 /\ 18 % 8 = 2 /\ 18 \div 8 = 2
  OBVIOUS
<1>2. Len(url) < 2^LenBits /\ Widths
  BY DetailWidths
<1>3. Len(value) < 2^LenBits
  BY DetailWidths, JoinLen
<1>4. PICK B \in Octets : B = appendTaggedBytes(10, url) /\ Len(B) <= Len(url) + 11
  BY <1>1, <1>2, TaggedSize
<1>5. PICK C \in Octets : C = appendTaggedBytes(18, value) /\ Len(C) <= Len(value) + 11
  BY <1>1, <1>2, <1>3, TaggedSize
<1>6. PICK F : F = [num |-> 1, wt |-> 2, v |-> 0, body |-> url]
  OBVIOUS
<1>7. PICK G : G = [num |-> 2, wt |-> 2, v |-> 0, body |-> value]
  OBVIOUS
<1>8. Block(B, F)
  <2>1. Block(appendTaggedBytes(10, url), [num |-> 10 \div 8, wt |-> 2, v |-> 0, body |-> url])
    BY <1>1, <1>2, BytesBlock
  <2> QED
    BY <1>1, <1>4, <1>6, <2>1
<1>9. Block(C, G)
  <2>1. Block(appendTaggedBytes(18, value), [num |-> 18 \div 8, wt |-> 2, v |-> 0, body |-> value])
    BY <1>1, <1>2, <1>3, BytesBlock
  <2> QED
    BY <1>1, <1>5, <1>7, <2>1
<1>10. F.num = 1 /\ F.wt = 2 /\ F.body = url /\ G.num = 2 /\ G.wt = 2 /\ G.body = value
  BY <1>6, <1>7
<1>11. findField(B \o C, F.num) = <<F.body>> /\ findField(B \o C, G.num) = <<G.body>>
  BY <1>8, <1>9, <1>10, TwoBlocks
<1>12. B \o C \in Octets /\ Len(B \o C) <= 56
  <2>1. B \o C \in Octets /\ Len(B \o C) = Len(B) + Len(C)
    BY JoinLen
  <2>2. Len(B) \in Nat /\ Len(C) \in Nat /\ Len(value) \in Nat
    BY JoinLen
  <2> QED
    BY <1>4, <1>5, <2>1, <2>2
<1> QED
  BY <1>4, <1>5, <1>10, <1>11, <1>12, Zenon DEF AnyOf

\* A detail of a status.
Url(d) == IF d.kind = "other" THEN <<88>> ELSE retryInfoTypeURL

Value(d) ==
    CASE d.kind = "no delay" -> <<>>
      [] d.kind = "cut"      -> appendTaggedBytes(10, CutDur(d))
      [] OTHER               -> appendTaggedBytes(10, Dur(d))

Detail(d) == AnyOf(Url(d), Value(d))

DetailField(d) == [num |-> 3, wt |-> 2, v |-> 0, body |-> Detail(d)]

\* A message in the first field of another, as the delay is in a RetryInfo.
LEMMA FirstField ==
  ASSUME DetailBounds, NEW b \in Octets, Len(b) <= 22
  PROVE  /\ appendTaggedBytes(10, b) \in Octets /\ Len(appendTaggedBytes(10, b)) <= 33
         /\ findField(appendTaggedBytes(10, b), 1) = <<b>>
<1>1. 10 \in 0..127 /\ 10 % 8 = 2 /\ 10 \div 8 = 1
  OBVIOUS
<1>2. PICK n \in Nat : n = Len(b) /\ n <= 22
  BY JoinLen
<1>3. n < 2^LenBits /\ Widths
  BY <1>2, DetailWidths
<1>4. PICK B \in Octets : B = appendTaggedBytes(10, b) /\ Len(B) <= n + 11
  BY <1>1, <1>2, <1>3, TaggedSize
<1>5. PICK F : F = [num |-> 1, wt |-> 2, v |-> 0, body |-> b]
  OBVIOUS
<1>6. Block(B, F)
  <2>1. Block(appendTaggedBytes(10, b), [num |-> 10 \div 8, wt |-> 2, v |-> 0, body |-> b])
    BY <1>1, <1>2, <1>3, BytesBlock
  <2> QED
    BY <1>1, <1>4, <1>5, <2>1
<1>7. F.num = 1 /\ F.wt = 2 /\ F.body = b
  BY <1>5
<1>8. findField(B, F.num) = <<F.body>>
  BY <1>6, <1>7, OneBlock
<1>9. Len(B) <= 33
  <2>1. Len(B) \in Nat
    BY JoinLen
  <2> QED
    BY <1>2, <1>4, <2>1
<1> QED
  BY <1>4, <1>7, <1>8, <1>9

\* No field is found in no bytes.
LEMMA FindNothing == findField(<<>>, 1) = <<>>
<1>1. PICK fs : fs = scan[<<>>] /\ fs = <<>>
  BY ScanNothing
<1>2. lastField(fs, 1, 2) = <<>>
  <2>1. {i \in 1..Len(fs) : fs[i].num = 1 /\ fs[i].wt = 2} = {}
    BY <1>1
  <2> QED
    BY <2>1 DEF lastField
<1> QED
  BY <1>1, <1>2 DEF findField

\* The values of the details, and the delay in them.
LEMMA ValueIs ==
  ASSUME DetailBounds, NEW d \in Details
  PROVE  /\ Value(d) \in Octets /\ Len(Value(d)) <= 33
         /\ d.kind = "no delay" => readable(findField(Value(d), 1)) = <<>>
         /\ d.kind = "cut" => readable(findField(Value(d), 1)) = <<>>
         /\ d.kind = "delay" => readable(findField(Value(d), 1)) = <<Dur(d)>>
<1>1. /\ d.secs \in Nat /\ d.secs < 2^LenBits /\ d.nanos \in Nat /\ d.nanos < 2^LenBits
      /\ d.kind \in {"other", "no delay", "cut", "delay"}
      /\ d.kind # "delay" => d.secs = 0 /\ d.nanos = 0
  <2>1. d.nanos = 0 \/ d.nanos = 50
    BY DetailSecs
  <2>2. d.nanos \in Nat
    BY <2>1
  <2> QED
    BY <2>2, DetailSecs
<1>2. Widths
  BY DetailWidths
<1>3. CASE d.kind = "no delay"
  <2>1. Value(d) = <<>>
    BY <1>3 DEF Value
  <2>2. <<>> \in Octets /\ Len(<<>>) <= 33
    BY DEF Octets
  <2>3. readable(findField(<<>>, 1)) = <<>>
    BY FindNothing DEF readable
  <2> QED
    BY <1>3, <2>1, <2>2, <2>3
<1>4. CASE d.kind = "cut"
  <2>1. PICK b \in Octets : b = CutDur(d) /\ Len(b) <= 22 /\ truncated(b)
    BY <1>1, <1>4, CutDurIs
  <2>2. PICK B \in Octets :
          B = appendTaggedBytes(10, b) /\ Len(B) <= 33 /\ findField(B, 1) = <<b>>
    BY <2>1, FirstField
  <2>3. Value(d) = B
    BY <1>4, <2>1, <2>2 DEF Value
  <2>4. readable(<<b>>) = <<>>
    BY <2>1 DEF readable
  <2> QED
    BY <1>4, <2>2, <2>3, <2>4
<1>5. CASE d.kind \in {"other", "delay"}
  <2>1. PICK b \in Octets : b = Dur(d) /\ Len(b) <= 22 /\ ~truncated(b)
    BY <1>1, <1>2, DurIs
  <2>2. PICK B \in Octets :
          B = appendTaggedBytes(10, b) /\ Len(B) <= 33 /\ findField(B, 1) = <<b>>
    BY <2>1, FirstField
  <2>3. Value(d) = B
    BY <1>5, <2>1, <2>2 DEF Value
  <2>4. readable(<<b>>) = <<b>>
    BY <2>1 DEF readable
  <2> QED
    BY <1>5, <2>1, <2>2, <2>3, <2>4
<1> QED
  BY <1>1, <1>3, <1>4, <1>5

\* A detail is a field, and is read as a delay exactly when it is one.
LEMMA DetailIs ==
  ASSUME DetailBounds, NEW d \in Details
  PROVE  /\ Block(DetailBytes(d), DetailField(d))
         /\ retryInfo(Detail(d)) = IF d.kind = "delay" THEN <<Dur(d)>> ELSE <<>>
<1>1. PICK value \in Octets : value = Value(d) /\ Len(value) <= 33
  BY ValueIs
<1>2. PICK url \in Octets : url = Url(d) /\ Len(url) = 1
  <2>1. 88 \in 0..255 /\ 82 \in 0..255
    OBVIOUS
  <2>2. <<88>> \in Octets /\ Len(<<88>>) = 1 /\ <<82>> \in Octets /\ Len(<<82>>) = 1
    BY <2>1, OneByte
  <2> QED
    BY <2>2 DEF Url, retryInfoTypeURL
<1>3. PICK any \in Octets :
        /\ any = AnyOf(url, value) /\ Len(any) <= 56
        /\ findField(any, 1) = <<url>> /\ findField(any, 2) = <<value>>
  BY <1>1, <1>2, AnyIs
<1>4. Detail(d) = any
  BY <1>1, <1>2, <1>3 DEF Detail
<1>5. Block(DetailBytes(d), DetailField(d))
  <2>1. 26 \in 0..127 /\ 26 % 8 = 2 /\ 26 \div 8 = 3
    OBVIOUS
  <2>2. Len(any) < 2^LenBits /\ Widths
    BY <1>3, DetailWidths, JoinLen
  <2>3. Block(appendTaggedBytes(26, any), [num |-> 26 \div 8, wt |-> 2, v |-> 0, body |-> any])
    BY <2>1, <2>2, BytesBlock
  <2>4. DetailBytes(d) = appendTaggedBytes(26, any)
    <3>1. d.kind \in {"other", "no delay", "cut", "delay"}
      BY DetailSecs
    <3>2. any = appendTaggedBytes(10, Url(d)) \o appendTaggedBytes(18, Value(d))
      BY <1>1, <1>2, <1>3 DEF AnyOf
    <3>3. CASE d.kind = "other"
      BY <3>2, <3>3 DEF DetailBytes, Url, Value, Dur
    <3>4. CASE d.kind = "no delay"
      BY <3>2, <3>4 DEF DetailBytes, Url, Value
    <3>5. CASE d.kind = "cut"
      BY <3>2, <3>5 DEF DetailBytes, Url, Value, CutDur, Dur
    <3>6. CASE d.kind = "delay"
      BY <3>2, <3>6 DEF DetailBytes, Url, Value, Dur
    <3> QED
      BY <3>1, <3>3, <3>4, <3>5, <3>6
  <2> QED
    BY <1>4, <2>1, <2>3, <2>4 DEF DetailField
<1>6. retryInfo(any) = IF url # retryInfoTypeURL THEN <<>> ELSE readable(findField(value, 1))
  <2>1. <<value>> # <<>> /\ <<value>>[1] = value
    OBVIOUS
  <2>2. <<url>> # <<retryInfoTypeURL>> <=> url # retryInfoTypeURL
    OBVIOUS
  <2> QED
    BY <1>3, <2>1, <2>2 DEF retryInfo
<1>7. url # retryInfoTypeURL <=> d.kind = "other"
  BY <1>2 DEF Url, retryInfoTypeURL
<1>8. d.kind \in {"other", "no delay", "cut", "delay"}
  BY DetailSecs
<1>9. /\ d.kind = "no delay" => readable(findField(value, 1)) = <<>>
      /\ d.kind = "cut" => readable(findField(value, 1)) = <<>>
      /\ d.kind = "delay" => readable(findField(value, 1)) = <<Dur(d)>>
  BY <1>1, ValueIs
<1>10. retryInfo(any) = IF d.kind = "delay" THEN <<Dur(d)>> ELSE <<>>
  BY <1>6, <1>7, <1>8, <1>9
<1> QED
  BY <1>4, <1>5, <1>10

\* A number below the width is unchanged by it, and below the sign bit it is
\* not negative.
LEMMA SignedIs ==
  ASSUME DetailBounds, NEW v \in Nat
  PROVE  /\ signed(v % 2^LenBits) \in Int
         /\ v < 2^(LenBits - 1) => signed(v % 2^LenBits) = v
<1>1. PICK h \in Nat : h = 2^(LenBits - 1) /\ 2^LenBits = h + h /\ h > 0
  <2>1. LenBits \in 8..70
    BY DEF DetailBounds
  <2>2. LenBits - 1 \in Nat /\ (LenBits - 1) + 1 = LenBits
    BY <2>1
  <2>3. 2^(LenBits - 1) \in Nat /\ 2^LenBits = 2^(LenBits - 1) + 2^(LenBits - 1)
    BY <2>2, PowerDoubles
  <2>4. 256 <= 2^LenBits
    BY DetailWidths
  <2> QED
    BY <2>3, <2>4
<1>2. PICK m \in Nat : m = h + h /\ m > 0
  BY <1>1
<1>3. v % m \in Int
  BY <1>2
<1>4. v < h => v % m = v
  BY <1>2
<1>5. signed(v % m) \in Int
  BY <1>1, <1>2, <1>3 DEF signed
<1>6. v < h => signed(v % m) = v
  BY <1>1, <1>4 DEF signed
<1> QED
  BY <1>1, <1>2, <1>5, <1>6

\* A set of positions that is not empty has a least one.
LEMMA LeastOf ==
  ASSUME NEW n \in Nat, NEW S \in SUBSET (1..n), S # {}
  PROVE  Min(S) \in S
<1>1. S \subseteq Nat
  OBVIOUS
<1>2. PICK m \in S : \A k \in S : m <= k
  BY <1>1, LeastNumber
<1>3. S \in SUBSET Int
  BY <1>1
<1> QED
  BY <1>2, <1>3, MinIs

\* What the details of a status are as a message.
Raw(ds)      == FlattenSeq([i \in 1..Len(ds) |-> DetailBytes(ds[i])])
WithDelay(ds) == {i \in 1..Len(ds) : ds[i].kind = "delay"}

\* The delay read is that of the first detail that has one, and never negative.
LEMMA DetailsRead ==
  ASSUME DetailBounds, NEW ds \in Seq(Details)
  PROVE  retryDelayFromStatus(Raw(ds)) =
           IF WithDelay(ds) = {} THEN 0
           ELSE Max({0, duration(Dur(ds[Min(WithDelay(ds))]))})
<1>1. PICK n \in Nat : n = Len(ds)
  BY LenProperties
<1>2. \A i \in 1..n : ds[i] \in Details
  BY <1>1, ElementOfSeq
<1>3. PICK q : q = [i \in 1..n |-> DetailBytes(ds[i])]
  OBVIOUS
<1>4. PICK F : F = [i \in 1..n |-> DetailField(ds[i])]
  OBVIOUS
<1>5. \A i \in 1..n : q[i] = DetailBytes(ds[i]) /\ F[i] = DetailField(ds[i])
  BY <1>3, <1>4
<1>6. \A i \in 1..n : Block(q[i], F[i])
  BY <1>2, <1>5, DetailIs
<1>7. \A i \in 1..n : q[i] \in Octets
  BY <1>6 DEF Block
<1>8. q \in Seq(Octets) /\ Len(q) = n
  BY <1>3, <1>7
<1>9. PICK p : p = Firsts(q)
  OBVIOUS
<1>10. /\ p[0] = <<>> /\ p[n] = Raw(ds)
       /\ \A k \in 0..(n - 1) : p[k + 1] = p[k] \o q[k + 1]
  <2>1. q \in Seq(Seq(0..255))
    BY <1>8 DEF Octets
  <2>2. p[n] = FlattenSeq(q)
    BY <1>8, <1>9, <2>1, FirstsGrow
  <2>3. Raw(ds) = FlattenSeq(q)
    BY <1>1, <1>3 DEF Raw
  <2> QED
    BY <1>8, <1>9, <2>1, <2>2, <2>3, FirstsGrow
<1>11. Builds(p, q, F, n)
  BY <1>6, <1>10 DEF Builds
<1>12. PICK fs \in Seq(Found) : fs = scan[Raw(ds)] /\ Len(fs) = n
  BY <1>10, <1>11, ScanWhole
<1>13. \A i \in 1..n : fs[i] = F[i]
  BY <1>10, <1>11, <1>12, ScanWhole
<1>14. ASSUME NEW i \in 1..n
       PROVE  /\ fs[i].num = 3 /\ fs[i].wt = 2 /\ fs[i].body = Detail(ds[i])
              /\ retryInfo(fs[i].body) = IF ds[i].kind = "delay" THEN <<Dur(ds[i])>> ELSE <<>>
  <2>1. fs[i] = DetailField(ds[i])
    BY <1>5, <1>13
  <2>2. fs[i].num = 3 /\ fs[i].wt = 2 /\ fs[i].body = Detail(ds[i])
    BY <2>1 DEF DetailField
  <2> QED
    BY <1>2, <2>2, DetailIs
<1>15. forEachLenField(fs, 3) = 1..n
  BY <1>12, <1>14 DEF forEachLenField
<1>16. PICK found : found = {i \in forEachLenField(fs, 3) : retryInfo(fs[i].body) # <<>>}
  OBVIOUS
<1>17. found = WithDelay(ds)
  <2>1. ASSUME NEW i \in 1..n PROVE retryInfo(fs[i].body) # <<>> <=> ds[i].kind = "delay"
    <3>1. PICK b : b = Dur(ds[i])
      OBVIOUS
    <3>2. retryInfo(fs[i].body) = IF ds[i].kind = "delay" THEN <<b>> ELSE <<>>
      BY <1>14, <3>1
    <3>3. <<b>> # <<>>
      OBVIOUS
    <3> QED
      BY <3>2, <3>3
  <2> QED
    BY <1>1, <1>15, <1>16, <2>1 DEF WithDelay
<1>18. retryDelayFromStatus(Raw(ds)) = firstDelay(fs, found)
  BY <1>12, <1>16 DEF retryDelayFromStatus, delays
<1>19. ASSUME found # {}
       PROVE  retryInfo(fs[Min(found)].body)[1] = Dur(ds[Min(found)])
  <2>1. found \subseteq 1..n
    BY <1>1, <1>17 DEF WithDelay
  <2>2. PICK j \in found : j = Min(found)
    BY <1>1, <1>19, <2>1, LeastOf
  <2>3. j \in 1..n /\ ds[j].kind = "delay"
    BY <1>1, <1>17, <2>1, <2>2 DEF WithDelay
  <2>4. retryInfo(fs[j].body) = <<Dur(ds[j])>>
    BY <1>14, <2>3
  <2> QED
    BY <2>2, <2>4
<1> QED
  BY <1>17, <1>18, <1>19 DEF firstDelay

\* What a status with details comes to when the server is out of resources.
LEMMA ExhaustedIs ==
  ASSUME NEW raw
  PROVE  LET late == retryDelayFromStatus(raw) > 0
         IN  grpcAttempt([lost |-> FALSE, http |-> 200, trailer |-> grpcResourceExhausted,
                          header |-> none, details |-> raw]) = Failure(late, late)
<1> DEFINE late == retryDelayFromStatus(raw) > 0
           r == [lost |-> FALSE, http |-> 200, trailer |-> grpcResourceExhausted,
                 header |-> none, details |-> raw]
<1>1. status(r) = grpcResourceExhausted
  BY DEF status, none, grpcResourceExhausted
<1>2. grpcResourceExhausted # none /\ grpcResourceExhausted # grpcOK
  BY DEF none, grpcOK, grpcResourceExhausted
<1>3. r.lost = FALSE /\ r.details = raw
  OBVIOUS
<1> HIDE DEF r
<1>4. grpcAttempt(r) = Failure(retryableGRPCStatus(status(r), retryDelayFromStatus(r.details) > 0),
                               retryDelayFromStatus(r.details) > 0)
  BY <1>1, <1>2, <1>3 DEF grpcAttempt
<1>5. retryableGRPCStatus(grpcResourceExhausted, late) = late
  BY DEF retryableGRPCStatus, grpcResourceExhausted
<1>6. grpcAttempt(r) = Failure(retryableGRPCStatus(grpcResourceExhausted, late), late)
  BY <1>1, <1>3, <1>4, Zenon
<1>7. grpcAttempt(r) = Failure(late, late)
  BY <1>5, <1>6, Zenon
<1> QED
  BY <1>7 DEF r

\* What the server says along with a gRPC status is what the exporter reads
\* (otlp/grpc_status.go percentDecode and retryDelayFromStatus): any text the
\* server escapes, any number of details in any order, every delay that
\* time.Duration holds; no delay is negative.
THEOREM GrpcMetadataReads ==
  ASSUME DetailBounds
  PROVE  Spec => []GrpcMetadataRead
<1>1. ASSUME InputInv, what = "text" PROVE percentDecode[PercentEncode(input)] = input
  <2>1. input \in Texts
    BY <1>1 DEF InputInv, Inputs
  <2>2. PICK k \in 0..3 : input \in [1..k -> {37, 52, 65, 200}]
    BY <2>1 DEF Texts, SeqsUpTo
  <2>3. k \in Nat /\ \A i \in 1..k : input[i] \in 0..255
    BY <2>2
  <2>4. input \in Seq(0..255)
    BY <2>2, <2>3
  <2> QED
    BY <2>4, TextReadsBack DEF Octets
<1>2. ASSUME InputInv, what = "details"
      PROVE  LET raw   == FlattenSeq([i \in 1..Len(input) |-> DetailBytes(input[i])])
                 delay == retryDelayFromStatus(raw)
                 first == IF Delays = {} THEN 0
                          ELSE input[Min(Delays)].secs * Second + input[Min(Delays)].nanos
             IN  /\ delay >= 0
                 /\ first < 2^(LenBits - 1) => delay = first
                 /\ grpcAttempt([lost |-> FALSE, http |-> 200, trailer |-> grpcResourceExhausted,
                                 header |-> none, details |-> raw]) = Failure(delay > 0, delay > 0)
  <2>1. PICK ds \in Seq(Details) : ds = input
    <3>1. input \in SeqsUpTo(Details, MaxFields)
      BY <1>2 DEF InputInv, Inputs
    <3>2. PICK k \in 0..MaxFields : input \in [1..k -> Details]
      BY <3>1 DEF SeqsUpTo
    <3>3. k \in Nat
      BY DEF DetailBounds
    <3> QED
      BY <3>2, <3>3, SeqDef
  <2>2. Delays = WithDelay(ds)
    BY <2>1 DEF Delays, WithDelay
  <2>3. PICK raw : raw = Raw(ds)
    OBVIOUS
  <2>4. FlattenSeq([i \in 1..Len(input) |-> DetailBytes(input[i])]) = raw
    BY <2>1, <2>3 DEF Raw
  <2>5. PICK delay : delay = retryDelayFromStatus(raw)
    OBVIOUS
  <2>6. PICK first :
          first = IF Delays = {} THEN 0
                  ELSE input[Min(Delays)].secs * Second + input[Min(Delays)].nanos
    OBVIOUS
  <2>7. delay >= 0 /\ (first < 2^(LenBits - 1) => delay = first)
    <3>1. CASE Delays = {}
      <4>1. delay = 0 /\ first = 0
        BY <2>2, <2>3, <2>5, <2>6, <3>1, DetailsRead
      <4> QED
        BY <4>1
    <3>2. CASE Delays # {}
      <4>1. PICK d \in Details : d = ds[Min(Delays)]
        <5>1. PICK n \in Nat : n = Len(ds)
          BY LenProperties
        <5>2. WithDelay(ds) \subseteq 1..n
          BY <5>1 DEF WithDelay
        <5>3. Min(Delays) \in 1..n
          BY <2>2, <3>2, <5>2, LeastOf
        <5> QED
          BY <5>1, <5>3, ElementOfSeq
      <4>2. PICK s \in Nat, m \in Nat : s = d.secs /\ m = d.nanos
        <5>1. d.nanos = 0 \/ d.nanos = 50
          BY DetailSecs
        <5>2. d.nanos \in Nat
          BY <5>1
        <5> QED
          BY <5>2, DetailSecs
      <4>3. PICK v \in Nat : v = s * 100 + m
        OBVIOUS
      <4>4. first = v
        BY <2>1, <2>6, <3>2, <4>1, <4>2, <4>3 DEF Second
      <4>5. duration(Dur(d)) = signed(v % 2^LenBits)
        <5>1. findVarint(Dur(d), 1) = s /\ findVarint(Dur(d), 2) = m
          BY <4>2, DetailSecs, DetailWidths, DurIs
        <5> QED
          BY <4>3, <5>1 DEF duration, Second
      <4>6. PICK g \in Int : g = signed(v % 2^LenBits)
        BY SignedIs
      <4>7. v < 2^(LenBits - 1) => g = v
        BY <4>6, SignedIs
      <4>8. delay = Max({0, g})
        BY <2>2, <2>3, <2>5, <3>2, <4>1, <4>5, <4>6, DetailsRead
      <4>9. delay = IF 0 <= g THEN g ELSE 0
        BY <4>8, MaxOfTwo
      <4> QED
        BY <4>4, <4>7, <4>9
    <3> QED
      BY <3>1, <3>2
  <2>8. grpcAttempt([lost |-> FALSE, http |-> 200, trailer |-> grpcResourceExhausted,
                     header |-> none, details |-> raw]) = Failure(delay > 0, delay > 0)
    BY <2>5, ExhaustedIs
  <2> QED
    BY <2>4, <2>5, <2>6, <2>7, <2>8
<1>3. InputInv => GrpcMetadataRead
  BY <1>1, <1>2 DEF GrpcMetadataRead
<1> QED
  BY <1>3, InputFixed, PTL

=============================================================================
