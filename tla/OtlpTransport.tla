--------------------------- MODULE OtlpTransport ---------------------------
(***************************************************************************)
(* What one attempt of the OTLP exporter makes of the answer it gets: the  *)
(* HTTP transport (src/otlp/http_transport.go), the gRPC transport         *)
(* (src/otlp/grpc_transport.go, grpc_status.go) and the classification of  *)
(* accepted requests they share (src/otlp/transport.go).                   *)
(*                                                                         *)
(* An outcome says whether the server accepted the request, how many       *)
(* records it rejected, whether the error handler is told, whether a       *)
(* failure may be retried and whether the server set the delay.            *)
(***************************************************************************)
EXTENDS OtlpProto

none == -1   \* a header or trailer that is absent

Accepted(rejected, event) ==
    [ok |-> TRUE, rejected |-> rejected, event |-> event, retryable |-> FALSE, delay |-> FALSE]

Failure(retryable, delay) ==
    [ok |-> FALSE, rejected |-> 0, event |-> TRUE, retryable |-> retryable, delay |-> delay]

\* Mutant: a body that cannot be read counts as a failure.
classifyAcceptFails(ps) ==
    CASE ps.err -> Failure(TRUE, FALSE)
      [] ~ps.err /\ ps.rejected > 0 -> Accepted(ps.rejected, TRUE)
      [] OTHER -> Accepted(0, ps.msg)

\* classifyAccept: a body that cannot be read, which does not undo the
\* acceptance; rejected records; a warning or nothing, a negative count too.
classifyAccept(ps) ==
    CASE ps.err -> Accepted(0, TRUE)
      [] ~ps.err /\ ps.rejected > 0 -> Accepted(ps.rejected, TRUE)
      [] OTHER -> Accepted(0, ps.msg)

resolveAccept(body) == classifyAccept(decodePartialSuccess(body))

\* decodePartialSuccessJSON on what encoding/json makes of a body: doc.rejected
\* is absent, null, a numeral (quoted or not) or another text.
decodePartialSuccessJSON(body, doc) ==
    CASE body = <<>> -> [err |-> FALSE, rejected |-> 0, msg |-> FALSE]
      [] body # <<>> /\ ~doc.wellFormed -> [err |-> TRUE, rejected |-> 0, msg |-> FALSE]
      [] body # <<>> /\ doc.wellFormed /\ doc.rejected \in {"absent", "null"} ->
           [err |-> FALSE, rejected |-> 0, msg |-> doc.msg]
      [] body # <<>> /\ doc.wellFormed /\ doc.rejected = "numeral" /\ doc.n >= 0 ->
           [err |-> FALSE, rejected |-> doc.n, msg |-> doc.msg]
      [] OTHER -> [err |-> TRUE, rejected |-> 0, msg |-> FALSE]

resolveAcceptJSON(body, doc) == classifyAccept(decodePartialSuccessJSON(body, doc))

-----------------------------------------------------------------------------
(***************************************************************************)
(* HTTP: an answer is lost, or has a status, a body, a content type and    *)
(* maybe Retry-After.  r.jsonOn is the encoding of the request; r.doc is   *)
(* the body as JSON.                                                       *)
(***************************************************************************)
retryableStatus(code) == code \in {429, 502, 503, 504}

\* Mutant: the answer is taken to be in the encoding of the request.
resolveByRequest(r) ==
    IF ~r.jsonOn THEN resolveAccept(r.body) ELSE resolveAcceptJSON(r.body, r.doc)

\* httpTransport.resolve
resolve(r) ==
    IF ~r.jsonOn \/ r.contentType = "protobuf" THEN resolveAccept(r.body)
                                               ELSE resolveAcceptJSON(r.body, r.doc)

httpAttempt(r) ==
    CASE r.lost                  -> Failure(FALSE, FALSE)
      [] r.status = 200          -> resolve(r)
      [] retryableStatus(r.status) -> Failure(TRUE, r.delay)
      [] OTHER                   -> Failure(FALSE, FALSE)

\* The request headers of both transports around those of WithHeaders: over
\* HTTP the transport has the last word, over gRPC the user, whose reserved
\* names validateGRPCHeaders refuses.
httpHeaders(user, jsonOn, compressed) ==
    [h \in ((DOMAIN user) \ {"content-encoding"}) \cup {"content-type"}
            \cup (IF compressed THEN {"content-encoding"} ELSE {}) |->
       CASE h = "content-type"     -> IF jsonOn THEN "json" ELSE "protobuf"
         [] h = "content-encoding" -> "gzip"
         [] OTHER                  -> user[h]]

\* Mutant: only the names with a grpc- prefix are refused.
reservedPrefixOnly(h) == h \in {"grpc-encoding", "grpc-timeout", "grpc-accept-encoding"}

reserved(h) ==
    h \in {"grpc-encoding", "grpc-timeout", "grpc-accept-encoding", "x-bin", "content-type", "te"}

\* Values are printable and have no blanks around them.
validateGRPCHeaders(user) ==
    \A h \in DOMAIN user : ~reserved(h) /\ user[h] \notin {"unprintable", "padded"}

grpcHeaders(user, compressed) ==
    [h \in (DOMAIN user) \cup {"content-type", "te", "grpc-accept-encoding", "grpc-timeout"}
            \cup (IF compressed THEN {"grpc-encoding"} ELSE {}) |->
       IF h \in DOMAIN user THEN user[h]
       ELSE CASE h = "content-type"  -> "grpc"
              [] h = "grpc-encoding" -> "gzip"
              [] OTHER               -> "own"]

-----------------------------------------------------------------------------
(***************************************************************************)
(* gRPC over HTTP/2: the status is in the trailers, or in the headers of   *)
(* an answer without a body, or absent when a proxy answered.              *)
(***************************************************************************)
grpcOK == 0
grpcUnknown == 2
grpcPermissionDenied == 7
grpcResourceExhausted == 8
grpcUnimplemented == 12
grpcInternal == 13
grpcUnavailable == 14
grpcUnauthenticated == 16

\* CANCELLED, DEADLINE_EXCEEDED, ABORTED, OUT_OF_RANGE, UNAVAILABLE and
\* DATA_LOSS; RESOURCE_EXHAUSTED only with a RetryInfo.
retryableGRPCStatus(code, hasRetryDelay) ==
    code \in {1, 4, 10, 11, 14, 15} \/ (code = grpcResourceExhausted /\ hasRetryDelay)

httpStatusToGRPCStatus(code) ==
    CASE code = 400 -> grpcInternal
      [] code = 401 -> grpcUnauthenticated
      [] code = 403 -> grpcPermissionDenied
      [] code = 404 -> grpcUnimplemented
      [] code \in {429, 502, 503, 504} -> grpcUnavailable
      [] OTHER      -> grpcUnknown

\* deframeGRPCResponse on a body of size bytes that starts with a prefix
\* announcing mlen bytes: a unary answer is nothing or exactly one frame, and
\* only gzip is known.
frameErr(f) ==
    f.size > 0 /\ (f.size < 5 \/ f.size - 5 # f.mlen \/ (f.compressed /\ f.encoding # "gzip"))

deframeGRPCResponse(f) == IF f.size = 0 THEN <<>> ELSE f.msg

\* The status, from the trailers first.
status(r) == IF r.trailer # none THEN r.trailer ELSE r.header

\* Mutant: upper-case digits are none.
unhexLower(c) ==
    CASE c \in 48..57  -> c - 48
      [] c \in 97..102 -> c - 87
      [] OTHER         -> none

unhex(c) ==
    CASE c \in 48..57  -> c - 48
      [] c \in 97..102 -> c - 87
      [] c \in 65..70  -> c - 55
      [] OTHER         -> none

\* A % and two hexadecimal digits are one byte, all else is taken as it is.
percentDecode[s \in Seq(0..255)] ==
    IF s = <<>> THEN <<>>
    ELSE IF s[1] = 37 /\ Len(s) > 2 /\ unhex(s[2]) # none /\ unhex(s[3]) # none
           THEN <<16 * unhex(s[2]) + unhex(s[3])>> \o percentDecode[From(s, 3)]
           ELSE <<s[1]>> \o percentDecode[Tail(s)]

\* time.Second: the nanoseconds of a second, fewer here than in the code.
Second == 100

\* A Duration message, in time.Duration of the same width as the numbers.
duration(dur) == signed((findVarint(dur, 1) * Second + findVarint(dur, 2)) % 2^LenBits)

retryInfoTypeURL == <<82>>

\* The retry_delay of a detail, as a sequence of at most one: it has none when
\* it is no RetryInfo or its delay cannot be read.
readable(dur) == IF dur = <<>> \/ truncated(dur[1]) THEN <<>> ELSE dur

retryInfo(detail) ==
    IF findField(detail, 1) # <<retryInfoTypeURL>> \/ findField(detail, 2) = <<>> THEN <<>>
    ELSE readable(findField(findField(detail, 2)[1], 1))

\* The delay of the first detail that has one, unless it is negative; 0 for
\* none found.
firstDelay(fs, found) ==
    IF found = {} THEN 0 ELSE Max({0, duration(retryInfo(fs[Min(found)].body)[1])})

delays(fs) == firstDelay(fs, {i \in forEachLenField(fs, 3) : retryInfo(fs[i].body) # <<>>})

retryDelayFromStatus(raw) == delays(scan[raw])

grpcAttempt(r) ==
    CASE r.lost            -> Failure(TRUE, FALSE)   \* also when reading the body fails
      [] status(r) = none  -> Failure(retryableGRPCStatus(httpStatusToGRPCStatus(r.http), FALSE),
                                      FALSE)
      [] status(r) = grpcOK ->
           IF frameErr(r.frame) THEN Accepted(0, TRUE)
                                ELSE resolveAccept(deframeGRPCResponse(r.frame))
      [] OTHER             -> LET info == retryDelayFromStatus(r.details) > 0
                              IN  Failure(retryableGRPCStatus(status(r), info), info)

=============================================================================
