# A TLA+ model of zapwire

zapwire ships zap log entries to a log processor: over a stream socket in the
Fluent Forward, syslog or NDJSON formats, or to an OpenTelemetry collector over
HTTP or gRPC. Logging must neither block nor fail the application, so what the
library promises is subtle: every entry is delivered whole or counted as
dropped, exactly once, whatever the peer does and however the application's
goroutines, the background goroutines, `Sync` and `Close` interleave.

This directory holds models of that code, the TLC configurations that check
them on small instances, and TLAPS proofs of what holds for every instance.
`tlc -config X.cfg M` and `tlapm M.tla`, run in this directory, check one of
them; `PROJECT.json` lists the runs, the mutants that show that each property
can fail, the theorems, the hazards the properties are aimed at, and the source
lines behind every definition. Source paths below are relative to `src/`.

## 1. Inventory

| Component | State | Operations | What is hard | What makes it correct |
|---|---|---|---|---|
| connection manager, `writer.go` | `conn` under `mu`; `writeMu`; the one-slot `reconnectCh`; `closed`, `done` | `writeFrame`, `handleWriteError`, `triggerReconnect`, `reconnectLoop`, `tryConnect`, the teardown of `Close` | writers that fail on one connection while the loop installs the next; `Close` during a dial; a trigger lost between two checks | each connection has one owner; none is leaked, closed twice or replaced alive; a lost one is dialed again; nothing is installed after `Close` |
| synchronous mode, `writer.go` | none of its own | `Write` frames and ships on the caller's goroutine | concurrent writers on one socket, partial writes | each `Write` returns; its log is delivered or counted |
| asynchronous mode, `writer.go` | `queue`, `flushLoop`'s batch, `lifecycleMu`, `flushReq`, `flushDone` | `writeAsync`, `enqueue`, `flushLoop`, `drain`, `flushAll`, `flush`, `Sync`, `Close` | a send that races the final flush; an eviction in two steps; `Sync` against `Close`; a batch kept across select cases | exactly-once accounting, FIFO, the `Sync` barrier, nothing stranded by `Close` |
| OTLP exporter, `otlp/writer.go` | `queue`, `run`'s batch and byte sum, `admit`, `ctx`, `closeOnce`, the retry and drain budgets | `Write`, `run` (`add`, `flush`, `drainQueued`), `export`, `drop`, `Sync`, `Close`, the user's error handler | retries against cancellation, lost answers, partial success, byte-aware cuts, a handler that calls back | the same ledger, size limits, budgets, no attempt on a closed transport |
| OTLP wire format, `otlp/envelope.go`, `otlp/proto.go` | none | `newEnvelope`, `sizeFor`, `assemble`, `findField`, `findVarint`, `decodePartialSuccess` | length prefixes that grow, truncated answers | predicted size = real size; what is written reads back; damage is noticed |
| OTLP transports, `otlp/transport.go`, `http_transport.go`, `grpc_transport.go`, `grpc_status.go` | none between attempts | `attempt`, `resolve`, `classifyAccept`, `deframeGRPCResponse`, status mappings, `retryDelayFromStatus`, `percentDecode`, headers | status in trailers, headers or a proxy's HTTP answer; the answer's encoding is not the request's; delays that overflow | an accepted request is never retried; both transports and both encodings agree; headers describe the body |
| OTLP record encoder, `otlp/attr.go`, `encoder.go`, `tracectx.go` | a stack of frames with lengths; `snap`, `rollback` | `Add*`, `Append*`, `OpenNamespace`, `sealTop`, `resolveTrace`, `EncodeEntry`, `With` | marshalers that fail half way, three nested length prefixes, competing span contexts | the collector reads exactly what was logged |
| OTLP JSON, `otlp/json.go` | none | transcoding of assembled requests | it reads the request by a schema of its own | the same |
| native Fluent encoder, `fluent/msgpack_encoder.go`, `msgpack_array.go` | a stack of open containers with counts | `Add*`, `Append*`, `OpenNamespace`, `sealDownTo`, `Clone`, `EncodeEntry` | marshalers that fail half way, namespaces nobody closes, the depth cap | every record is one well-formed value that says what was logged |
| buffer pools, `fluent/msgpack_encoder.go`, `otlp/attr.go`, `otlp/encoder.go` | `sync.Pool`s of byte buffers | `getBytes`, `putBytes`, `getFrameBuf`, `putFrameBuf`, `cloneStack`, `EncodeEntry` on several goroutines | an array in use by two goroutines; a `defer` that fixed its argument before a growing append | each array has one owner; records are not mixed |
| transcoding Fluent encoder, `fluent/encoder.go`, `timecodec.go`, `proto.go` | none | `Encode`, time codecs, `epochToTime`, `normalizeNumber`, `EventTime` | units of numeric timestamps, float64 rounding, 32-bit seconds | times and integers survive |
| framers, `fluent/framer.go`, `syslog/framer.go`, `ndjson/ndjson.go` | none | `Frame` | header sizes, delimiters inside payloads | the stream reads back to the records |
| syslog encoder, `syslog/encoder.go` | none | `EncodeEntry`, `sanitizeField` | blanks in header fields, severities out of range | the same |
| options, `options.go`, `otlp/options.go` | none | application in order, `normalizeConfig`, `normalize`, endpoints | zero, negative and huge values, contradictory transport security | a Writer can run with what comes out |
| core, interfaces, transports, examples, generated code | none | | pure I/O, wiring or generated | not modelled |

How they interact: zap's core calls an encoder, then `Write` of a Writer. The
root Writer frames the payload (inline, or in batches on `flushLoop`) and
writes it through the connection manager, whose `reconnectLoop` runs on a
goroutine of its own. The OTLP Writer queues encoded records; its goroutine
`run` assembles a request per batch and hands it to one of two transports.
`Close` and `Sync` talk to the background goroutines through channels; the
user's error handler is called back from several of them.

## 2. Modules

```
ConnManager ----- SyncWriter ----\
     \                            LogLedger  (what every Writer promises)
      `---------- AsyncWriter ---/    |
                                      |
OtlpProto -- OtlpEnvelope ------- OtlpWriter -- OtlpSyncWait
     |  \         \
     |   \         `-----------------------------\
     |    `- OtlpJson -- OtlpEncoder -------------- MCOtlpWire
     `------ OtlpTransport ----------------------/    |
                                          Options ---'`- MCBackoff

MsgpackEncoder, EncoderPools, StreamFormats, FluentTranscode ---- MCFormats
```

Lines to the right of a module lead to the modules that extend it; the three
writers instantiate `LogLedger` with a refinement mapping.

* **`LogLedger`** is the abstract specification: each log has a fate (new,
  pending, delivered, dropped, errored, discarded) that is decided once, and
  `droppedLogs` grows exactly when logs are given up. One action, `Settle`,
  decides the fate of all logs of a frame or request.
* **`ConnManager`** models the connection at the granularity of the mutexes and
  channel operations. Shippers are the goroutines inside `writeFrame`; an
  action per stretch of code between two points where another goroutine can
  act. A write on the socket succeeds, fails without a byte sent, or leaves a
  torn frame. `SyncWriter` (one shipper per `Write`) and `AsyncWriter` (one
  shipper, `flushLoop`) extend it and say who ships what and when `Close` goes on.
* **`OtlpWriter`** has a process per `Write` call, the goroutine `run` with
  `add`, `flush`, `drainQueued` and `export`, and the callers of `Sync` and
  `Close`, which may also be the error handler on the goroutine of a `Write` or
  on `run` itself. It extends `OtlpEnvelope`, so that batches are cut by the real
  `recordCost` and `sizeFor`. The collector may take a request and lose the
  answer, and it may reject part of it.
* **`OtlpSyncWait`** adds a clock per `Sync` call to `OtlpWriter`.
* **`OtlpProto`**, **`OtlpEnvelope`** are functions on byte sequences: varints,
  fields, the request's layout, the reader of protobuf.
* **`OtlpTransport`** says what one attempt makes of every class of answer, in
  either transport and encoding: the HTTP statuses, `grpc-status` in trailers or
  headers, the gRPC frame, partial success in protobuf or JSON, `RetryInfo`,
  `grpc-message`, and the headers of a request.
* **`OtlpEncoder`** is the target of every sequence of calls that zap and the
  application's marshalers can make, one action per kind of call. Its frames hold
  the bytes the code writes; a history variable collects what was logged as JSON.
* **`OtlpJson`** is the schema walk of the transcoder. JSON is a sequence of
  tokens, so that commas and brackets are checked without any text; escapes,
  invalid UTF-8 and base64 are worked out on the bytes of strings.
* **`Options`** has the defaults, the order of options, the normalisation of both
  packages, the endpoints and the doubling of waits.
* **`MsgpackEncoder`** models the frame stack of the native Fluent encoder in the
  same way. A buffer is a sequence of tokens; a reader of the tokens is the
  reference definition.
* **`EncoderPools`** lets goroutines run `EncodeEntry` on one shared encoder, one
  step per use of a buffer. A buffer is a backing array in a heap; the pool may
  hand out any array it holds, as often as it was put there, or a new one. An
  append of a field, of a sealed frame or to the OTLP record `rec` may move the
  contents to another array. `side` keeps, next to the array that `rec` has, the
  one that the deferred `putFrameBuf` was given before `rec` grew: that one goes
  to the pool, the grown one to nobody. `AppendRec` stands for all the appends to
  `rec`: nobody refers to the arrays that it has in between. One variable says
  which of the two encoders it is.
* **`StreamFormats`** has the framers and the syslog encoder on bytes.
* **`FluentTranscode`** has the time codecs, zap's own time encoders (external) and
  the number normalisation, with integers that stand for float64 values: a number
  of mantissa bits and of bits behind the point.
* **`MCOtlpWire`**, **`MCFormats`**, **`MCBackoff`** enumerate inputs and hold the
  readers that a receiver would use, which are the reference definitions.
  The other `MC*` modules give symmetry sets and record sizes.
* The `*Proofs` modules hold theorems about the module they are named after;
  `OtlpWireProofs` is about `MCOtlpWire` and so about everything on the wire,
  `EncodersProofs` about `EncoderPools` and `MsgpackEncoder`,
  `SyncWriterProofs` also has the theorem about `LogLedger` that the proofs of all
  three Writers use, and `SequenceFacts` has the lemmas on sequences and their order
  that several of them cite.

Choices that matter for faithfulness:

* A lock is acquired in the step that first uses what it protects and released
  in the step that last uses it; work on goroutine-local state is merged into
  the neighbouring step. `LoopSignal` is the receive and the drain of
  `reconnectCh`. The branch of `tryConnect` that closes an old connection is part
  of `LoopInstall`; `NeverReplacesLive` shows that it never runs.
* `RWMutex` readers may enter while `Close` waits for the lock: more behaviours
  than Go allows.
* Each log is written once and each caller makes one call. `MaxDials` bounds the
  connections the transport ever hands out; afterwards dials fail.
* Durations are abstracted. A deadline cuts a write short at any byte; the OTLP
  retry budget is `MaxAttempts` attempts, and a server's `Retry-After` can exceed
  it at any attempt; the drain budget runs out at any moment.
* In `OtlpWriter.Sync` the second select of the code also has `<-w.done`; `run`
  acknowledges every request it received before it exits, so that case is never
  the only one, and it is left out.
* A collector is assumed to reject a subset of what it was sent. A `grpc-status`
  that is not a number is an unknown code.
* An encoder hook of the msgpack encoder writes one value or none.
* In `EncoderPools` an array is emptied when it goes back to the pool; the code cuts
  it to length zero when it comes out. Nobody may read it in between, which is
  what `BufferOwnedOnce` says.
* In `EncoderPools` an append that fills a buffer in the step that gets it (the
  envelope, a copied frame, the key that the OTLP encoder keeps with a container)
  stays in place; `Get` may return a new array, which is where it would have moved.
  So do the key of a container (Fluent) and the error field of a failed marshaler
  (OTLP): they are one step with what precedes them, and the next append to the same
  frame may move it.
* An option whose argument is nil, which the code ignores, is not given at all.

## 3. Runs

All runs check for deadlock except `otlp_handler_closes`, where the deadlock is the
point. `Done` lets a finished system stutter; an input of `MCOtlpWire` or
`MCFormats` stutters too.

| Run | Instance | Shows |
|---|---|---|
| `sync_writer` | 2 writers, 2 closers, 3 connections, bursts of 2 | `ConnOwnedOnce`, `NeverReplacesLive`, `NoLostWakeup`, `NoConnAfterClose`, the ledger; with fairness, `WriteReturns` and `ReconnectProgress` |
| `sync_torn_frame` | 2 writers, 1 connection | *violation*, see section 6 |
| `async_writer` | 3 writers, queue of 1, batches of 2, either drop policy, 1 `Sync`, 1 `Close`, 1 connection, symmetric logs | the ledger, `FirstInFirstOut`, `SyncIsBarrier`, `DrainedAtTeardown`, `NoWriteAfterTear` |
| `async_live` | 1 writer, 1 `Sync`, 1 `Close` | `SyncReturns`, `CloseReleasesAll`, `AcceptedResolves` |
| `otlp_export` | 3 records of which two share a request and one needs its own, queue of 1, DropOldest, 2 attempts, `Sync` or `Close` | the ledger, `BatchFits`, `AnsweredOnce`, `DrainedAtExit`, `OneAttemptAfterCancel`, `FirstInFirstOut` |
| `otlp_lifecycle` | 3 records, one oversized, DropNewest, drain timeout, 2 callers and the handler of a `Write` calling `Sync` or `Close` | `SyncIsBarrier`, `DrainBudgetHolds`, `TransportOpenWhileUsed` |
| `otlp_live` | 1 record, 2 attempts, 2 callers of `Sync` or `Close` | `AcceptedResolves`, `SyncReturns`, `CloseReturns` |
| `otlp_handler_closes` | 1 record; the handler calls `Close` on `run` | *violation* |
| `otlp_sync_wait` | 1 record, 3 attempts, drain timeout, 1 `Sync` | *violation* |
| `otlp_wire` | records of up to 4 calls; batches of 2; answers of up to 2 fields, cut at every byte; statuses, details, headers, options, endpoints | `RequestReadsBack`, `SizeIsExact`, `RejectionsCounted`, `TransportsAgree`, `GrpcMetadataRead`, `HeadersDescribeBody`, `ConfigUsable` |
| `formats` | records of up to 5 calls, depth cap 3; 2 goroutines on 8 arrays; frames, syslog entries, times, numbers | `MsgpackReadsBack`, `BufferOwnedOnce`, `RecordsUnmixed`, `StreamReadsBack`, `TranscodeReadsBack` |
| `backoff` | retry options that are absent or 2 s, 4 attempts | *violation* |

The properties that end in `ReadsBack` compare what an independent reader makes of
the output with what went in: `RequestReadsBack` builds a record with any calls of
With, call site and nested marshalers, some of which fail, assembles the request,
transcodes it, and compares with the JSON of the history variable.
`RecordsUnmixed` does the same for two goroutines at once.

Why these bounds are enough for the cases of interest: a queue of one slot is
full with one log, so that every policy and eviction race needs two or three
writers; batches of two with three logs are cut by count, topped up and left
partial; two connections make the second one fresh while a writer still holds
the first, and a third allows another loss; a burst of two has a first, a last
and a waited-for attempt; two attempts include a retry. In `async_live` there is
one log and batches of two, so the ticker is the only way out for it. With a
resource of 3 bytes and no scope, a request of `n` record bytes takes `n + 9`, so
the limit of 30 bytes admits two records of 4 bytes but not one of 4 and one of 18.

In `otlp_wire` the record lengths lie on both sides of every point where the prefix
of the record, the scope logs or the resource logs grows to a second byte, and
the strings among the samples do the same for the three prefixes of `sealTop`. Four
calls hold a container in a container with a value and a failure. Large strings
are tried with fewer calls (`bound` of a sample). Integers are `LenBits` = 20 bits
wide instead of 64 and a second is 100 units instead of 10^9, so that
`secs * time.Second` wraps around twice within `Secs`; `OtlpWriter` needs 10 bits.

In `formats` three frames are the smallest depth at which the cap is met inside
a container inside a container, and five calls reach it with a namespace.
Length prefixes count in base 5 instead of 256 (`ByteBase`), so that 4, 5, 24,
25 and 620 bytes are on the two sides of every header and two payloads can be
together too long for any. Units of time are `Kilo` = 6 apart instead of 1000
and seconds have four digits of base `TimeBase` = 5 instead of 256, so that
second 624 is the last; rounding up at that second wraps around (in the year
2106), hence `Seconds` stops at 623. A float64 has `Mantissa` = 14 bits and
`FloatFrac` = 6 behind the point, an int64 `IntWidth` = 16: nanosecond times
have more bits than the mantissa and second times fewer, as in reality. Seven
arrays serve two goroutines with two adds each: one for `With` and the three that
a goroutine can hold, so both records can have left their first arrays. When all
are in use, append stays in place.

### Fairness

Weak fairness for every goroutine that can go on: the Go scheduler runs runnable
goroutines, a socket write ends by its deadline, an HTTP or gRPC attempt by its
timeout, timers and tickers fire. Strong fairness where an action is enabled
again and again but not continuously: `writeMu`, since Go's mutex hands itself to
a starving waiter, and the cases of a `select`, since Go picks uniformly among
the ready ones. Nothing forces the application to call `Write`, `Sync` or
`Close`, and nothing forces the peer to be reachable.

## 4. Proofs

The assumptions are those the modules state: positive bounds (`DialsAssumption`,
`RetriesAssumption`, `BufferAssumption`, `BatchAssumption`, `OtlpSizes`, `LenAssumption`,
`LenBitsAssumption`, `PoolBounds`), which goroutines ship (`CallersAssumption`: each
log its own in `SyncWriter`; `ShippersAssumption`: one flusher in `AsyncWriter`), what
callers and handlers may call (`OtlpCalls`), and that the names of the background
goroutines are nobody else's (`OtlpProcesses`). Where logs are counted
(`CounterExact`, `DroppedLogsExact`) the set of logs is finite. Everything else is
arbitrary: any number of writers, of callers of `Sync` and `Close`, of connections and
retries, any queue, batch, record and request size, either drop policy, with and
without a drain timeout, any calls from the error handler.

**`SequenceFacts`** holds what the other modules need about sequences. The
library's induction theorems take an operator as a parameter, which the provers
cannot instantiate; here induction is stated for sets of naturals
(`NatSetInduction`, from the least number outside the set), and a recursive function
or a fold is handled through the function of its partial results, which such an
induction shows to exist and to be unique. `FlattenSeq` is done so here,
`taggedLen` and `appendUvarint` in `OtlpEnvelopeProofs`.

**`ConnManagerProofs`.** The invariants the runs check are not inductive. That
no connection is closed twice, for instance, needs to know who may close it.
`ConnInv` adds: the attempt counter follows the loop (`AttemptInv`), `dialed` is
set exactly between dial and install (`DialedInv`), `conn` is nil throughout a
burst since only the loop installs (`BurstInv`), what a shipper holds was once
opened and is not the one just dialed (`HeldInv`), the order of `Close`
(`CloseInv`), owners are distinct and own open connections (`OwnInv`), and every
open connection has an owner (`NoLeakInv`). `StepInv` has one step per action.
From it follow `TypeCorrect`, `OwnedOnce`, `NoReplacement`, `WakeupKept` and
`TeardownFinal`. With a single shipper, `TearInv` adds that a torn connection is
about to be discarded by the shipper that tore it, and `TornIsLast` follows; with
two shippers it is false (section 6). `NewestInv` says that connections are dialed in
the order of their numbers and that nothing was ever written behind the one a
shipper is about to write; the order of delivery needs it.

**`SyncWriterProofs`, `AsyncWriterProofs`: the connection.** Every step of either
mode is a step of `ConnManager` or leaves it alone (`ImplementsConnManager`), so the
theorems carry over (`SyncConnSafe`, `AsyncConnSafe`, `AsyncTornIsLast`). `AsyncInv`
relates the gate of `writeAsync`, the final flush and `Close`: from the moment
`Close` holds the lifecycle lock no writer is inside the gate (`GateInv`), the flusher
exits with an empty queue and batch and nothing enters afterwards (`ExitInv`),
`Close` proceeds only then (`JoinInv`). `AsyncTypeCorrect` bounds queue and batch,
`DrainedWhenTornDown` says that nothing is left when the connection is taken.

**The ledger.** In `LogLedger`, `DroppedLogs` always equals the number of logs given
up (`CounterExact`). That each Writer implements it is `KeepsLedger` in
`SyncWriterProofs`, `AsyncWriterProofs` and `OtlpWriterProofs`, and `DroppedLogsExact`
carries the theorem over to each of them. The argument is the same three times.
The refinement mapping defines the fate of a log by cases on where it is. An invariant
says that a log is in one place: in its `Write` call, in the queue, in the batch, in
the frame or request, or behind all of that; in one of them at most, once
(`CarryInv`, `PlaceInv`), and what arrived is nowhere else (`WireInv`, `ReceivedInv`). The cases of
`fate` then exclude each other, so that `fate` is a table (`FateOf`). With it every step
accepts a log, settles the logs of one frame or request (some delivered, the
others dropped and counted, in the root Writers as `Passes(D, X)`), shuts the Writer, or is a stutter. So no entry
is counted twice, lost without being counted, or counted although it was delivered.

**`Sync`.** Everything accepted before a `Sync` call has left the pipe when the call is
acknowledged (`SyncFlushes`, in both `AsyncWriterProofs` and `OtlpWriterProofs`). In
`OtlpWriter` it needs the drain in detail: the drain ends with a flush that begins
with none of what the call waits for in the queue (`SyncInv`).

**`OtlpWriterProofs`.** `OtlpInv` is the conjunction of the type invariant, the order of
`Close` (`CloseInv`), no writer behind the gate once the context is cancelled
(`GateInv`), which drains have a deadline and how `run` ends (`ReasonInv`), what is in
`batch` and `adding` at each place of `run` (`RegionInv`), the retry budget
(`AttemptInv`), `tagged` is the sum of the costs of `batch` and its request fits (`SizeInv`),
and `PlaceInv`, `SyncInv` and `ReceivedInv` as above. It gives `OtlpTypeCorrect`,
`RequestsFit`, `NeverResentOnceAnswered`, `NothingLeftAtExit`, `OneLateAttempt`,
`DrainKeepsBudget`, `SyncFlushes` and `TransportOpen`: every invariant that a run
checks of the exporter, for every instance.

**`OtlpEnvelopeProofs`.** `PredictedSizeIsExact` says of any resource, scope and records,
whatever bytes they hold, that `assemble` writes exactly `sizeFor` bytes. At its core,
`uvarintLen`, which counts the bits of a number, is the length of what
`appendUvarint` writes by division (`AppendUvarintLen`). That needs the powers of two,
which the provers do not know: they come from the number of subsets of an
interval. With it, `RequestBytesFit` turns `RequestsFit` into a bound on the bytes that
are sent. Both assume that numbers are wide enough for the size (`2^LenBits` is above
it; the code has 64 bits).

**`OtlpWireProofs`.** Each input of `MCOtlpWire` is a run of its own, so the invariant
is that the input is one of those the module describes (`InputInv`), and the work is in
the functions. The theorems hold for any width of an integer from 8 to 70 bits and for the
sets of inputs with their bounds removed where that is possible:

* `SizesExact`: a request is as long as `sizeFor` predicts, for any lengths and any number
  of records (`RecordLens` is any set of naturals), from `PredictedSizeIsExact`.
* Reading what was written. `UvarintReadsBack`: the reader of varints gives back every
  number `appendUvarint` writes, and stops behind it. `Block(B, F)` says that, in front of
  any bytes, `scan` finds the field `F` in `B`, and that a proper part of `B` is
  unreadable; a varint, fixed bytes and tagged bytes are blocks (`VarintBlock`,
  `FixedBlock`, `BytesBlock`). `ReadInOrder` follows: a message built of blocks is scanned
  to their fields, in order, and a message cut anywhere but between two of them is
  truncated (`ScanCut`). The readers are recursive functions on texts of any length; that
  such a function exists, and is the only one, is `PieceByPiece`.
* `RejectionsAlwaysCounted`: the count of a partial success is that of its last
  occurrence among any number of known and unknown fields, an answer cut inside a field
  stays accepted, and so does a gRPC frame that is not one message.
  `TransportsAlwaysAgree`: gRPC, HTTP in protobuf and HTTP in JSON make the same of the
  same answer and retry the same statuses. Both assume `AnswerBounds`: 8 to 70 bits, counts
  below the sign bit (what the collector reports is an `int64` that is not negative), any
  bound on the number of fields.
* `GrpcMetadataReads`: percent-decoding gives back what was escaped (`TextReadsBack`, for
  any text), and the delay of an answer is that of its first readable `RetryInfo`, never
  negative although the seconds may overflow `time.Duration`, with RESOURCE_EXHAUSTED
  retried exactly when there is one. `DetailBounds` says that seconds fit the width; their
  values and the order and number of the details are arbitrary.
* `HeadersDescribe`: the content headers of both transports describe the body, and the
  user's other headers survive. `ConfigsUsable`: any options in any order leave positive
  values below the ceilings and keep a usable value as given last, and every wait between
  attempts is positive.

**First in, first out.** `DeliveredInOrder` and `ExportedInOrder` prove the action
property `FirstInFirstOut`. The pipeline is a row of four sequences: what has arrived,
two stations and the queue. `Keeps(P, Q)` says that no element of `P`
stands in `Q` behind one that it did not stand behind in `P`. `SequenceFacts` shows it
for the four things a step can do: append a log behind everything (`KeepsEnter`), move on
a head (`RowMove`, `RowTake`), shift a whole station (`RowShift`), or cut one out
(`RowCut`). In `OtlpWriter` what has arrived grows at its end (`FlattenGrows`). In
`AsyncWriter` it is spread over the connections, and only the last one that is not
empty may grow (`FlattenTouch`), which is what `NewestInv` provides.

**`EncodersProofs`: the pools.** `PoolInv` says how many buffers a goroutine has at each point of
`EncodeEntry` (`ShapeInv`), that they are different from each other (`LocalInv`) and
from those of all others, of `With` and of the pool (`OwnInv`), and that the frames,
read from the bottom of the stack, hold the fields of `With` and what this goroutine wrote, and
nothing else (`ContentInv`). `SideInv` says when a goroutine has an envelope or a record
and how many arrays that is: a record that has grown holds two, its own and the one of the
deferred `putFrameBuf`. The invariant holds although the pool may hand out any array it has
and fields, sealed frames and the record may move at every append, and gives
`BuffersOwnedOnce` and `RecordsStayUnmixed` for both encoders, any number of goroutines and
of fields.

**`EncodersProofs`: the native Fluent record.** `RecordReadsBack` proves
`MsgpackReadsBack` for any number of calls, any depth cap and any envelope. It has three
layers:

* The reader. `Reads(b, n, t)` says that the tokens `b`, read where at least `n` more keys
  and values are to come, are `n` of them and add the text `t`; a reader that has its last
  value goes on with the container outside (`Unwind`). Two readings one behind the other
  are one (`ReadsJoin`), and a header with as many values as it counts is one value
  (`ReadsContainer`). `ReadsOne` says that a payload that reads as one value leaves nothing
  to come and nothing unread.
* The stack. `Shows(s, w, d)` says that the frames of `s`, read from the bottom, are the text `d` of
  what was logged: the contents of each frame read as what its count says so far, less what
  is still owed, namely the value of the container that is open above it and `w` values on top
  (1 between a key and its value). Each operation on frames has a lemma: a key
  (`KeyAdded`), a value with or without a hook that writes (`ValueAdded`, `HookedIs`), a new
  frame (`PushShows`), a sealed one (`SealShows`), all frames above a depth
  (`SealDownShows`), the envelope (`EnvelopeReads`).
* The calls. `Shape(s, c, z)` relates the stack to the calls under way: each has a frame of
  its own kind at the depth it remembers, and above it exactly the namespaces opened in it; an
  array has none. That is what makes the `sealDownTo(depth + 1)` and `sealDownTo(depth)` of a
  marshaler that returns, in error or not, close its namespaces and its
  container and nothing else (`LastLevel`, `ShapeEnd`).

`RecInv` is `Shows` and `Shape` until the record is assembled, and the property from then
on; each action keeps it (`RecStep`), and `RecordReads` turns `Shows` of what is left of
the stack into the reading of the payload.

## 5. What is only model-checked

* Liveness (`WriteReturns`, `ReconnectProgress`, `SyncReturns`, `CloseReleasesAll`,
  `CloseReturns`, `AcceptedResolves`): TLAPS does not reason about fairness here.
* `RequestReadsBack`, `StreamReadsBack` and `TranscodeReadsBack`: what the OTLP encoder, the
  framers and the transcoder write is what a receiver reads. They compare the whole of two
  pipelines, an encoder on one side and a parser of bytes or of JSON on the other. What is
  proved of the OTLP one is the exact size, the reading of varints and fields, and that
  records of different goroutines are not mixed.

The strengthening invariants of section 4 are lemmas of the proofs, not promises of
the code, and no run lists them; nor does one list `TypeOK` of `OtlpWriter`.

## 6. Where the code and its documentation disagree

* **`sync_torn_frame`.** `writeFrame` releases `writeMu` (`writer.go:240`) before
  `handleWriteError` removes the failed connection. A second synchronous writer
  that had already fetched that connection writes its frame behind a torn one and
  counts it as delivered. `docs/guide.md:725` and the design document say that
  the connection is discarded on any write error. Asynchronous mode has one
  shipper and is proved free of this.
* **`otlp_handler_closes`.** `otlp/options.go:441-444` allows the error handler to
  call `Close` and `Sync`. After a failed export the handler runs on the flush
  goroutine, for which `Close` waits: it never returns. From the handler of a `Write`
  both are fine (`otlp_lifecycle`, which would deadlock otherwise).
* **`otlp_sync_wait`.** `otlp/options.go:379-382` bounds `Sync` by the drain timeout
  plus one attempt. The budget starts when `run` takes the request, so a `Sync`
  called while a batch is being retried first waits for that batch's whole retry
  budget.

* **`backoff`.** `otlp/options.go:104` calls `MaxInterval` the backoff cap. `export`
  starts with `Initial` as given (`otlp/writer.go:117`) and applies the cap only when
  it doubles, so an `Initial` above the cap is waited for in full; `reconnectLoop` has
  the same shape.

Seen while modelling, without a run of their own:

* `docs/guide.md:462` calls the OTLP exporter at-most-once, while a retryable failure
  whose answer was lost (`otlp/grpc_transport.go:242`, a proxy's 502 or 504) is sent
  again although the collector may have taken it. `AnsweredOnce` states what does
  hold.
* `docs/guide.md:727-728` bounds the wait of a synchronous caller by about one write
  timeout; writers queue on `writeMu`, so slow but successful writes before it add
  up. Time is not modelled, so no property says so.
* The comment on `AutoEpochCodec` (`fluent/timecodec.go`) says that `NewCore`
  round-trips exactly; nanoseconds go through a float64, so today's times come
  back within half a unit in the last place, some 128 ns, which is what
  `TranscodeReadsBack` states. The comment on `EpochNanosCodec` says so itself.
  The comment on `epochToTime` names only early nanosecond values as misclassified;
  early millisecond and microsecond values are as well.
* A negative `rejected_log_records` makes a protobuf answer a clean one and a JSON
  answer a malformed one.
* `batchSize` has no ceiling in either package, unlike the buffer and queue sizes.
* An application field with the name of the time key occurs twice in zap's JSON; the
  last one wins, in `Encode` as in every JSON decoder.

## 7. Not modelled

Durations and jitter, except as the doubling of waits; the text of numbers and
timestamps; gzip, base64 of binary gRPC headers, `parseRetryAfter`, the excerpt of
an error body and the construction of HTTP clients, which are library calls or
formatting; environment variables; the level check of the cores; the helpers that
make zap fields from a `context.Context`; TCP's own buffering (a frame written whole
counts as delivered, as in the code); dialing of sockets (`ConnManager` takes `Dial`
as a step that succeeds or fails); generated code, examples and tests.

## 8. Plan

Every invariant, refinement and action property of the Writers, of the pools, of the
transports and of the native Fluent encoder is proved. Of the three that are only
model-checked, `RequestReadsBack` is the one within reach: `MsgpackReadsBack` shows the
method, a relation between the contents of a frame and the text they are read as, composed
when a frame is sealed, and an invariant that relates the stack to the history. The OTLP
encoder needs it for length prefixes instead of counts, with rollback, and its JSON walk
besides. `StreamReadsBack` and `TranscodeReadsBack` are functions of one input each, over
cases and arithmetic that the bounds of `formats` cover.
