------------------------------ MODULE Options ------------------------------
(***************************************************************************)
(* How raw options become a configuration: the root package                *)
(* (src/options.go) and the OTLP exporter (src/otlp/options.go), the       *)
(* endpoints of both transports, and the waits that follow from them.      *)
(*                                                                         *)
(* Sizes are numbers, durations milliseconds.  An option is a field and    *)
(* the raw value it sets; an option that ignores a nil is not called.      *)
(***************************************************************************)
EXTENDS Integers, Sequences, FiniteSetsExt

defaultConfig ==
    [writeTimeout |-> 100, reconnectInterval |-> 100, maxReconnect |-> 3000, maxRetries |-> 30,
     bufferSize |-> 4096, flushInterval |-> 200, batchSize |-> 128]

defaultOptions ==
    [queueSize |-> 2048, batchSize |-> 512, maxRequestBytes |-> 4 * 2^20, flushInterval |-> 1000,
     timeout |-> 10000, drainTimeout |-> 0, initial |-> 5000, maxInterval |-> 30000,
     maxElapsed |-> 60000]

\* The options in the order they are given: the last one on a field wins.
apply(config, opts) ==
    LET c[n \in 0..Len(opts)] ==
          IF n = 0 THEN config ELSE [c[n - 1] EXCEPT ![opts[n].field] = opts[n].value]
    IN  c[Len(opts)]

\* The ceilings of the two packages.
maxBufferSize       == 2^24
maxQueueSize        == 2^24
maxRequestBytesCeil == 256 * 2^20

\* A value that is not positive is replaced by its default, one above the
\* ceiling by the ceiling.
positive(v, default) == IF v <= 0 THEN default ELSE v
within(v, default, ceil) == Min({positive(v, default), ceil})

\* Mutant: a buffer size of zero is let through.
normalizeConfigZero(c) ==
    [f \in DOMAIN defaultConfig |->
       IF f = "bufferSize" THEN IF c[f] < 0 THEN defaultConfig[f] ELSE c[f]
                           ELSE positive(c[f], defaultConfig[f])]

normalizeConfig(c) ==
    [f \in DOMAIN defaultConfig |->
       IF f = "bufferSize" THEN within(c[f], defaultConfig[f], maxBufferSize)
                           ELSE positive(c[f], defaultConfig[f])]

\* drainTimeout: negative disables the bound, like zero.
normalize(o) ==
    [f \in DOMAIN defaultOptions |->
       CASE f = "queueSize"       -> within(o[f], defaultOptions[f], maxQueueSize)
         [] f = "maxRequestBytes" -> within(o[f], defaultOptions[f], maxRequestBytesCeil)
         [] f = "drainTimeout"    -> Max({o[f], 0})
         [] OTHER                 -> positive(o[f], defaultOptions[f])]

\* New, NewHTTPWriter and NewGRPCWriter.
config(opts)  == normalizeConfig(apply(defaultConfig, opts))
options(opts) == normalize(apply(defaultOptions, opts))

-----------------------------------------------------------------------------
(***************************************************************************)
(* Endpoints: a scheme or none, a host, a path or query.                   *)
(***************************************************************************)
refused == "refused"

\* The HTTP endpoint and whether the default path is appended.
resolveEndpoint(e) ==
    IF e.scheme \notin {"http", "https"} \/ ~e.host THEN refused
    ELSE IF e.path \in {"", "/"} THEN "default path" ELSE "as given"

\* The gRPC endpoint: refused, or the kind of connection it gets.
resolveGRPCEndpoint(e, insecure, hasTLSCfg) ==
    LET plaintext == e.scheme = "http" \/ (e.scheme = "" /\ insecure)
        pathOK    == e.path = "" \/ (e.path = "/" /\ e.scheme # "")
    IN  IF ~e.host \/ ~pathOK \/ e.scheme = "other" \/ (plaintext /\ hasTLSCfg) THEN refused
        ELSE IF plaintext THEN "plaintext" ELSE "tls"

\* newGRPCTransport and newHTTPTransport also look at the encoding.
newTransport(grpc, e, o) ==
    IF grpc THEN IF o.encoding # "protobuf" THEN refused
                 ELSE resolveGRPCEndpoint(e, o.insecure, o.tls)
            ELSE IF o.encoding = "undefined" THEN refused ELSE resolveEndpoint(e)

-----------------------------------------------------------------------------
\* The n-th wait of a burst of dials (reconnectLoop), and the n-th delay of a
\* batch (export), of which jitter takes up to a half.
backoff(first, max, n) ==
    LET wait[k \in 1..n] == IF k = 1 THEN first ELSE Min({2 * wait[k - 1], max})
    IN  wait[n]

=============================================================================
