----------------------------- MODULE MCOtlpWire -----------------------------
(***************************************************************************)
(* The OTLP encoding and wire format on bounded inputs.  A behaviour       *)
(* builds a record or a resource; every other input is a state of its own: *)
(* a batch of record lengths, the answer of a collector with its HTTP and  *)
(* gRPC status, the details of a gRPC status, user headers, options.       *)
(***************************************************************************)
EXTENDS OtlpEncoder, OtlpEnvelope, OtlpTransport, Options

CONSTANTS
    RecordLens,   \* the record lengths tried
    MaxRecords,   \* records of a batch
    MaxCalls,     \* bound: calls on the encoder
    Counts,       \* rejected_log_records tried
    MaxFields,    \* fields of an answer, details of a status, options given
    Codes,        \* HTTP statuses tried
    Statuses,     \* gRPC statuses tried
    Secs,         \* seconds of a retry delay
    RawValues     \* raw values of an option

VARIABLES
    what,     \* the kind of input
    input     \* the input, except for what the encoder is told

vars == <<encVars, what, input>>

-----------------------------------------------------------------------------
(***************************************************************************)
(* Inputs.                                                                 *)
(***************************************************************************)
SeqsUpTo(S, n) == UNION {[1..k -> S] : k \in 0..n}

\* Keys and values: every kind of attribute, the ends of their ranges, text
\* that needs escapes or is not UTF-8, and strings that make the length of
\* some enclosing container reach 128.
str(v) == [t |-> "string", v |-> v]

MCSamples ==
    [key : {<<107>>}, bound : {2}, value :
       {[t |-> "bool", v |-> <<1>>],
        [t |-> "uint", v |-> <<2^(LenBits - 1) - 1>>], [t |-> "uint", v |-> <<2^(LenBits - 1)>>],
        [t |-> "double", v |-> <<0, 0, 0, 0, 0, 0, 240, 127>>],
        [t |-> "double", v |-> <<0, 0, 0, 0, 0, 0, 240, 255>>],
        [t |-> "double", v |-> <<1, 0, 0, 0, 0, 0, 248, 127>>],
        [t |-> "double", v |-> <<0, 0, 0, 0, 0, 0, 240, 63>>],
        [t |-> "bytes", v |-> <<255>>], [t |-> "bytes", v |-> <<1, 2, 3, 250>>],
        str(<<>>), str(<<34, 92, 10, 13, 9, 1, 31>>), str(<<195, 169, 195, 40, 237, 160, 128>>)}]
    \cup [key : {<<107>>}, bound : {3}, value : {str([i \in 1..n |-> 97]) : n \in {112, 118, 127}}]
    \cup [key : {[i \in 1..120 |-> 97]}, bound : {2}, value : {str(<<97>>)}]
    \cup [key : {<<107>>}, bound : {MaxCalls}, value : {[t |-> "int", v |-> <<-1>>]}]

MCSpans ==
    {unset,
     [valid |-> TRUE, flags |-> 0, trace |-> <<10, 255>>, span |-> <<1>>],
     [valid |-> TRUE, flags |-> 1, trace |-> <<171>>, span |-> <<2, 16>>]}

Plain ==
    [resource |-> FALSE, name |-> <<110>>, msg |-> <<109>>, time |-> 0, level |-> 9,
     levelText |-> <<105>>, meta |-> <<>>, correlate |-> FALSE,
     traceKey |-> <<116>>, spanKey |-> <<115>>, scopeName |-> <<>>, scopeVersion |-> <<>>]

MCEntries ==
    {[Plain EXCEPT !.time = 70000, !.level = 30, !.correlate = TRUE, !.scopeName = <<122>>,
                   !.meta = <<[key |-> <<110>>, value |-> str(<<108>>)],
                              [key |-> <<99>>, value |-> [t |-> "int", v |-> <<12>>]]>>],
     [Plain EXCEPT !.level = -1],
     [Plain EXCEPT !.resource = TRUE, !.scopeName = <<122>>, !.scopeVersion = <<118>>]}

\* A field of an answer: a partial success with a count and a message or
\* without, and fields of every wire type that a later protocol may add.
Fields ==
    [kind : {"partial"}, count : Counts, msg : BOOLEAN]
      \cup [kind : {"varint", "fixed64", "bytes", "fixed32"}, count : {0}, msg : {FALSE}]

\* The bytes of a field, as a collector writes them.
Bytes(f) ==
    CASE f.kind = "partial" ->
           appendTaggedBytes(10, <<8>> \o appendUvarint[f.count]
                                   \o (IF f.msg THEN appendTaggedBytes(18, <<65>>) ELSE <<>>))
      [] f.kind = "varint"  -> <<16, 150, 1>>
      [] f.kind = "fixed64" -> <<25, 0, 0, 0, 0, 0, 0, 0, 10>>
      [] f.kind = "bytes"   -> <<34, 2, 10, 8>>
      [] f.kind = "fixed32" -> <<45, 0, 0, 0, 10>>

Concat(fields) == FlattenSeq([i \in 1..Len(fields) |-> Bytes(fields[i])])

Payload(n) == [i \in 1..n |-> 0]

\* Long answers come with success only, the others with every status.
Bodies(n) == {[fields |-> fs, bytes |-> Concat(fs)] : fs \in SeqsUpTo(Fields, n)}

Answers ==
    [body : Bodies(1), code : Codes, stat : Statuses \cup {none}, inHeader : BOOLEAN]
      \cup [body : Bodies(MaxFields), code : {200}, stat : {grpcOK}, inHeader : BOOLEAN]

\* Details of a google.rpc.Status: other messages, a RetryInfo without a
\* delay, one whose delay is cut short, one with a delay.
Details ==
    [kind : {"other", "no delay", "cut"}, secs : {0}, nanos : {0}]
      \cup [kind : {"delay"}, secs : Secs, nanos : {0, 50}]

DetailBytes(d) ==
    LET dur == <<8>> \o appendUvarint[d.secs] \o <<16>> \o appendUvarint[d.nanos]
        any(url, value) == appendTaggedBytes(10, url) \o appendTaggedBytes(18, value)
    IN  appendTaggedBytes(26,
          CASE d.kind = "other"    -> any(<<88>>, appendTaggedBytes(10, dur))
            [] d.kind = "no delay" -> any(retryInfoTypeURL, <<>>)
            [] d.kind = "cut"      -> any(retryInfoTypeURL, appendTaggedBytes(10, Front(dur) \o <<128>>))
            [] d.kind = "delay"    -> any(retryInfoTypeURL, appendTaggedBytes(10, dur)))

\* grpc-message texts: an escape character, digits and a byte that is escaped.
Texts == SeqsUpTo({37, 52, 65, 200}, 3)

HeaderNames == {"content-type", "content-encoding", "grpc-encoding", "te", "authorization"}

UserHeaders == UNION {[S -> {"user", "padded"}] : S \in SUBSET HeaderNames}

Opts(fields) == SeqsUpTo([field : fields, value : {-1} \cup RawValues], MaxFields)

Endpoints == [scheme : {"", "http", "https", "other"}, host : BOOLEAN, path : {"", "/", "/x"}]

Inputs ==
    [batch    |-> SeqsUpTo(RecordLens, MaxRecords),
     answer   |-> Answers,
     details  |-> SeqsUpTo(Details, MaxFields),
     text     |-> Texts,
     headers  |-> [user : UserHeaders, jsonOn : BOOLEAN, compressed : BOOLEAN],
     config   |-> Opts(DOMAIN defaultConfig),
     options  |-> Opts(DOMAIN defaultOptions),
     endpoint |-> [grpc : BOOLEAN, e : Endpoints, insecure : BOOLEAN, tls : BOOLEAN,
                   encoding : {"protobuf", "json", "undefined"}]]

\* No record is built.
Idle ==
    /\ sample = CHOOSE s \in Samples : TRUE
    /\ ent = Plain
    /\ stage = "done" /\ calls = 0 /\ stack = <<>> /\ running = <<>>
    /\ sc = unset /\ out = <<>> /\ doc = <<>>

Init ==
    \/ what = "record" /\ input = <<>> /\ EncInit
    \/ what \in DOMAIN Inputs /\ input \in Inputs[what] /\ Idle

Next ==
    \/ what = "record" /\ EncNext /\ UNCHANGED <<what, input>>
    \/ stage = "done" /\ UNCHANGED vars

Spec == Init /\ [][Next]_vars

-----------------------------------------------------------------------------
(***************************************************************************)
(* A JSON reader.                                                          *)
(***************************************************************************)
unhexDigit(c) == IF c >= 97 THEN c - 87 ELSE c - 48

\* The text between two quotes.
Unescape[s \in Seq(0..255)] ==
    CASE s = <<>>    -> <<>>
      [] s # <<>> /\ s[1] # 92 -> <<s[1]>> \o Unescape[Tail(s)]
      [] OTHER ->
           CASE s[2] = 110 -> <<10>> \o Unescape[From(s, 2)]
             [] s[2] = 114 -> <<13>> \o Unescape[From(s, 2)]
             [] s[2] = 116 -> <<9>> \o Unescape[From(s, 2)]
             [] s[2] = 117 -> <<16 * unhexDigit(s[5]) + unhexDigit(s[6])>> \o Unescape[From(s, 6)]
             [] OTHER      -> <<s[2]>> \o Unescape[From(s, 2)]

\* Base64 digits as bytes.
Unbase64[d \in Seq(0..64)] ==
    IF d = <<>> THEN <<>>
    ELSE LET all == <<4 * d[1] + d[2] \div 16, (16 * d[2] + d[3] \div 4) % 256,
                      (64 * d[3] + d[4]) % 256>>
             n   == CASE d[3] = 64 -> 1 [] d[3] # 64 /\ d[4] = 64 -> 2 [] OTHER -> 3
         IN  SubSeq(all, 1, n) \o Unbase64[From(d, 4)]

\* A string with everything that is not UTF-8 replaced.
Clean[s \in Seq(0..255)] ==
    IF s = <<>> THEN <<>>
    ELSE (IF runeLen(s) = 1 /\ s[1] > 127 THEN replacement ELSE SubSeq(s, 1, runeLen(s)))
           \o Clean[From(s, runeLen(s))]

Float(b) ==
    IF b[7] < 240 \/ b[8] % 128 < 127 THEN val("float", b)
    ELSE tok(IF b[7] > 240 THEN "NaN" ELSE IF b[8] = 127 THEN "Infinity" ELSE "-Infinity")

\* A token of the transcoder says what a token of the reference says.
Says(o, r) ==
    CASE r.t = "string" -> o.t = "string" /\ Unescape[o.v] = Clean[r.v]
      [] r.t = "digits" -> /\ o.t = "string"
                           /\ FoldLeft(LAMBDA n, c : 10 * n + c - 48, 0, o.v) = r.v[1]
      [] r.t = "bytes"  -> o.t = "base64" /\ Unbase64[o.v] = r.v
      [] r.t = "double" -> o = Float(r.v)
      [] OTHER          -> o = r

ScopeJson ==
    IF ent.scopeName = <<>> /\ ent.scopeVersion = <<>> THEN <<>>
    ELSE <<tok("scope"), tok("{")>> \o Member(ent.scopeName # <<>>, "name", Text(ent.scopeName))
           \o Member(ent.scopeVersion # <<>>, "version", Text(ent.scopeVersion)) \o <<tok("}")>>

RequestJson ==
    <<tok("{"), tok("resourceLogs"), tok("["), tok("{"), tok("resource")>>
      \o (IF ent.resource THEN ResourceJson ELSE <<tok("{"), tok("}")>>)
      \o <<tok("scopeLogs"), tok("["), tok("{")>> \o ScopeJson
      \o (IF ent.resource THEN <<>> ELSE Values("logRecords", RecordJson))
      \o <<tok("}"), tok("]"), tok("}"), tok("]"), tok("}")>>

Request ==
    assemble(IF ent.resource THEN out ELSE <<>>, scopeBlob(ent.scopeName, ent.scopeVersion),
             IF ent.resource THEN <<>> ELSE <<out>>)

\* What reaches the collector is what the application logged: a request with
\* the record, or with the resource, is read back through its lengths and
\* tags and transcoded to JSON that holds exactly the attributes of With, the
\* entry's own and the call's, in order and in their namespaces, without a
\* trace of a marshaler that failed, under the last span context seen.
RequestReadsBack ==
    (what = "record" /\ stage = "done") =>
      LET json == appendRequestJSON(Request)
      IN  /\ Len(json) = Len(RequestJson)
          /\ \A i \in 1..Len(json) : Says(json[i], RequestJson[i])

-----------------------------------------------------------------------------
\* The request is exactly as long as sizeFor predicts from the sum of the
\* record costs: the byte-aware cut and the oversized-record guard rely on it.
SizeIsExact ==
    what = "batch" =>
      Len(assemble(Payload(ResourceLen), Payload(ScopeLen),
                   [i \in 1..Len(input) |-> Payload(input[i])])) = sizeFor(taggedLen(input))

-----------------------------------------------------------------------------
Message  == input.body.bytes
Partials == {i \in 1..Len(input.body.fields) : input.body.fields[i].kind = "partial"}
said     == input.body.fields[Max(Partials)]

\* The answer as JSON.
Document ==
    IF Partials = {} THEN [wellFormed |-> TRUE, rejected |-> "absent", n |-> 0, msg |-> FALSE]
    ELSE [wellFormed |-> TRUE, rejected |-> "numeral",
          n |-> said.count, msg |-> said.msg]

Malformed == [wellFormed |-> FALSE, rejected |-> "absent", n |-> 0, msg |-> FALSE]

Http(jsonOn, contentType, body, json) ==
    httpAttempt([lost |-> FALSE, status |-> input.code, delay |-> FALSE, jsonOn |-> jsonOn,
                 contentType |-> contentType, body |-> body, doc |-> json])

Grpc(size) ==
    grpcAttempt([lost |-> FALSE, http |-> input.code, details |-> <<>>,
                 trailer |-> IF input.inHeader THEN none ELSE input.stat,
                 header  |-> IF input.inHeader THEN input.stat ELSE none,
                 frame   |-> [size |-> size, mlen |-> Len(Message), compressed |-> FALSE,
                              encoding |-> "", msg |-> Message]])

\* The count of the last partial success is what the accounting gets, whatever
\* fields surround it, and nothing else makes an answer a rejection.  An
\* answer cut short inside a field (cut between two it is an answer of its
\* own) and a gRPC frame that is not exactly one message long are noticed and
\* count nothing, and what the server accepted stays accepted
\* (decodePartialSuccess, findField, deframeGRPCResponse).
RejectionsCounted ==
    what = "answer" =>
      /\ resolveAccept(Message) =
           IF Partials = {} THEN Accepted(0, FALSE)
           ELSE Accepted(said.count, said.count > 0 \/ said.msg)
      /\ \A n \in (0..Len(Message))
                 \ {Len(Concat(SubSeq(input.body.fields, 1, k))) : k \in 0..Len(input.body.fields)} :
           resolveAccept(SubSeq(Message, 1, n)) = Accepted(0, TRUE)
      /\ input.stat = grpcOK =>
           \A n \in (1..(Len(Message) + 7)) \ {Len(Message) + 5} : Grpc(n) = Accepted(0, TRUE)

\* The transports and encodings agree: on the accounting of the same answer,
\* whether it comes in a gRPC frame, as protobuf to a JSON request or as JSON,
\* and on which answers of a proxy are retried.  A body that is no JSON does
\* not undo the acceptance (httpTransport.resolve, httpStatusToGRPCStatus).
TransportsAgree ==
    what = "answer" =>
      /\ (input.code = 200 /\ input.stat = grpcOK) =>
           /\ Grpc(Len(Message) + 5) = Http(FALSE, "protobuf", Message, Malformed)
           /\ Http(TRUE, "protobuf", Message, Malformed) = Http(FALSE, "protobuf", Message, Malformed)
           /\ Http(TRUE, "json", <<123>>, Document) = Http(FALSE, "protobuf", Message, Malformed)
           /\ Http(TRUE, "json", <<123>>, Malformed) = Accepted(0, TRUE)
           /\ Http(FALSE, "json", <<123>>, Document) = Accepted(0, TRUE)
      /\ (input.code # 200 /\ input.stat = none) =>
           Grpc(0).retryable = Http(FALSE, "protobuf", <<>>, Malformed).retryable

-----------------------------------------------------------------------------
Upper(d) == IF d < 10 THEN 48 + d ELSE 55 + d

\* The grpc-message of a server: unprintable bytes and % are escaped.
PercentEncode(s) ==
    FlattenSeq([i \in 1..Len(s) |->
      IF s[i] \in 32..126 /\ s[i] # 37 THEN <<s[i]>>
      ELSE <<37, Upper(s[i] \div 16), Upper(s[i] % 16)>>])

Delays == {i \in 1..Len(input) : input[i].kind = "delay"}

\* What a server says along with a gRPC status is what the exporter reads: its
\* message, and the delay of the first RetryInfo that has one among other
\* details, when time.Duration can hold it; never a negative delay.  Only with
\* a delay is RESOURCE_EXHAUSTED retried.
GrpcMetadataRead ==
    /\ what = "text" => percentDecode[PercentEncode(input)] = input
    /\ what = "details" =>
         LET raw   == FlattenSeq([i \in 1..Len(input) |-> DetailBytes(input[i])])
             delay == retryDelayFromStatus(raw)
             first == IF Delays = {} THEN 0
                      ELSE input[Min(Delays)].secs * Second + input[Min(Delays)].nanos
         IN  /\ delay >= 0
             /\ first < 2^(LenBits - 1) => delay = first
             /\ grpcAttempt([lost |-> FALSE, http |-> 200, trailer |-> grpcResourceExhausted,
                             header |-> none, details |-> raw]) = Failure(delay > 0, delay > 0)

\* The headers of a request describe its body whatever WithHeaders adds: a
\* receiver never takes JSON for protobuf or a plain body for a compressed one.
\* The user's other headers are sent as they are.
HeadersDescribeBody ==
    what = "headers" =>
      LET http == httpHeaders(input.user, input.jsonOn, input.compressed)
          grpc == grpcHeaders(input.user, input.compressed)
      IN  /\ http["content-type"] = IF input.jsonOn THEN "json" ELSE "protobuf"
          /\ ("content-encoding" \in DOMAIN http) = input.compressed
          /\ input.compressed => http["content-encoding"] = "gzip"
          /\ validateGRPCHeaders(input.user) =>
               /\ grpc["content-type"] = "grpc" /\ grpc["te"] = "own"
               /\ ("grpc-encoding" \in DOMAIN grpc) = input.compressed
               /\ input.compressed => grpc["grpc-encoding"] = "gzip"
          /\ "authorization" \in DOMAIN input.user =>
               /\ http["authorization"] = input.user["authorization"]
               /\ grpc["authorization"] = input.user["authorization"]

-----------------------------------------------------------------------------
\* What the last option given says for a field, or the default.
Given(name, default) ==
    LET set == {i \in 1..Len(input) : input[i].field = name}
    IN  IF set = {} THEN default ELSE input[Max(set)].value

\* Whatever values the options carry, in whatever order, a writer can be built
\* and run with what normalizeConfig or normalize makes of them: channels,
\* tickers and the jitter of a backoff get positive arguments below the
\* ceilings; and a value that is usable is used as given.  A TLS configuration
\* is used or the endpoint is refused.
ConfigUsable ==
    /\ what = "config" =>
         LET c == config(input)
         IN  /\ \A f \in DOMAIN c : c[f] > 0
             /\ c.bufferSize <= maxBufferSize
             /\ \A n \in 1..5 : backoff(c.reconnectInterval, c.maxReconnect, n) > 0
             /\ \A f \in DOMAIN c : LET g == Given(f, defaultConfig[f])
                                    IN  g \in 1..maxBufferSize => c[f] = g
    /\ what = "options" =>
         LET o == options(input)
         IN  /\ \A f \in DOMAIN o \ {"drainTimeout"} : o[f] > 0
             /\ o.drainTimeout >= 0
             /\ o.queueSize <= maxQueueSize /\ o.maxRequestBytes <= maxRequestBytesCeil
             /\ \A n \in 1..5 : backoff(o.initial, o.maxInterval, n) \div 2 + 1 > 0
             /\ \A f \in DOMAIN o : LET g == Given(f, defaultOptions[f])
                                    IN  g \in 1..maxQueueSize => o[f] = g
    /\ what = "endpoint" =>
         LET kind == newTransport(input.grpc, input.e, input)
         IN  /\ (input.grpc /\ input.tls) => kind \in {"tls", refused}
             /\ (input.grpc /\ input.e.scheme = "https") => kind \in {"tls", refused}
             /\ (input.grpc /\ kind # refused) => input.encoding = "protobuf"

=============================================================================
