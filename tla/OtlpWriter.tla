----------------------------- MODULE OtlpWriter -----------------------------
(***************************************************************************)
(* The OTLP exporter (src/otlp/writer.go): Write enqueues one record on a  *)
(* bounded channel under the admit lock; the flush goroutine run cuts      *)
(* batches by count and by bytes and exports each with retries; Sync asks  *)
(* run for a drain and waits; Close stops intake, cancels the lifecycle    *)
(* context, waits for the final drain and closes the transport.            *)
(*                                                                         *)
(* The Write call of log l is the process l.  Sync and Close are called by *)
(* the goroutines in Callers, by the user's error handler on the goroutine *)
(* of a Write, and by that handler on the flush goroutine itself.          *)
(*                                                                         *)
(* Time is abstracted: a retry budget is MaxAttempts attempts, and the     *)
(* drain budget runs out at any moment.                                    *)
(***************************************************************************)
EXTENDS OtlpEnvelope


CONSTANTS
    Logs,               \* records passed to Write, once each
    RecordLen,          \* the encoded length of each
    Callers,            \* goroutines that call Sync or Close
    Calls,              \* what they call: a subset of {"sync", "close"}
    WriteHandlerCalls,  \* what the error handler calls from Write
    FlushHandlerCalls,  \* what the error handler calls from the flush goroutine
    QueueSize,          \* capacity of w.queue
    BatchSize,          \* w.batchSize
    MaxBytes,           \* w.maxBytes
    DropOldest,         \* w.dropPolicy = DropOldest
    HasDrainTimeout,    \* w.drainEvery > 0
    MaxAttempts         \* attempts that fit into retry.MaxElapsed

runner == "run"
nobody == "nobody"

ASSUME OtlpSizes ==
    /\ RecordLen \in [Logs -> Nat]
    /\ QueueSize \in Nat \ {0} /\ BatchSize \in Nat \ {0}
    /\ MaxBytes \in Nat \ {0} /\ MaxAttempts \in Nat \ {0}
ASSUME OtlpFlags == DropOldest \in BOOLEAN /\ HasDrainTimeout \in BOOLEAN
ASSUME OtlpCalls ==
    \A S \in {Calls, WriteHandlerCalls, FlushHandlerCalls} : S \subseteq {"sync", "close"}
ASSUME OtlpProcesses == {runner, nobody} \cap (Logs \cup Callers) = {}

\* The goroutines that may call Sync or Close; a Write calls them only from
\* the error handler.
Procs == Callers \cup {l \in Logs : WriteHandlerCalls # {}} \cup {runner}

VARIABLES
    written,    \* where the Write call of each log is, or what became of it
    queue,      \* w.queue
    dropped,    \* w.dropped
    batch,      \* run's batch
    tagged,     \* run's sum of the record costs of batch
    adding,     \* the record add holds while it flushes what was before it
    runPc,      \* where run and export are
    reason,     \* the select case run is serving
    stage,      \* which flush of add or drainQueued is under way
    attempts,   \* attempts of this export
    budget,     \* the drain deadline of this export: none, ahead or spent
    pc,         \* where each caller of Sync or Close is
    closed,     \* w.closed
    ctxDone,    \* w.ctx is cancelled
    onceBy,     \* who runs the function of closeOnce
    trOpen,     \* the transport has not been closed
    received,   \* what the collector took, in order, and what came back
    owed,       \* history: the logs whose Write had returned when Sync was called
    late,       \* history: attempts of this export begun after the cancellation
    overtime    \* history: attempts of this drain begun after its budget

writeVars  == <<written, queue, dropped>>
batchVars  == <<batch, tagged, adding>>
exportVars == <<attempts, budget, late, overtime>>
runVars    == <<runPc, reason, stage>>
closeVars  == <<closed, ctxDone, onceBy, trOpen>>
callVars   == <<pc, owed>>
vars == <<writeVars, batchVars, runVars, exportVars, callVars, closeVars, received>>

InAdmit  == {"admitted", "evict", "resend"}   \* the caller holds admit.RLock
InExport == {"export", "warn", "ready", "inflight", "backoff"}
Handling == {"handler", "warn"}               \* run is in the error handler

TypeOK ==
    /\ written \in [Logs -> {"new", "accepted", "notify", "discarded"} \cup InAdmit]
    /\ queue \in Seq(Logs) /\ Len(queue) <= QueueSize
    /\ dropped \in Nat
    /\ batch \in Seq(Logs) /\ Len(batch) <= BatchSize
    /\ tagged \in Nat
    /\ adding \in Seq(Logs) /\ Len(adding) <= 1
    /\ runPc \in {"select", "drain", "resolved", "handler", "exited"} \cup InExport
    /\ reason \in {"done", "sync", "tick", "queue"}
    /\ stage \in {"cut", "full", "last"}
    /\ attempts \in 0..MaxAttempts
    /\ budget \in {"none", "ahead", "spent"}
    /\ pc \in [Procs -> {"idle", "request", "waiting", "once", "barrier", "join",
                         "acked", "skipped", "returned"}]
    /\ closed \in BOOLEAN /\ ctxDone \in BOOLEAN /\ trOpen \in BOOLEAN
    /\ onceBy \in Procs \cup {nobody}
    /\ received \in Seq([logs : Seq(Logs), seen : BOOLEAN, rejected : SUBSET Logs])
    /\ owed \in [Procs -> SUBSET Logs]
    /\ late \in Nat /\ overtime \in Nat

Init ==
    /\ written = [l \in Logs |-> "new"]
    /\ queue = <<>> /\ dropped = 0
    /\ batch = <<>> /\ tagged = 0 /\ adding = <<>>
    /\ runPc = "select" /\ reason = "queue" /\ stage = "full"
    /\ attempts = 0 /\ budget = "none" /\ late = 0 /\ overtime = 0
    /\ pc = [p \in Procs |-> "idle"]
    /\ owed = [p \in Procs |-> {}]
    /\ closed = FALSE /\ ctxDone = FALSE /\ onceBy = nobody /\ trOpen = TRUE
    /\ received = <<>>

Cost(l) == recordCost(RecordLen[l])

-----------------------------------------------------------------------------
(***************************************************************************)
(* Write.                                                                  *)
(***************************************************************************)

\* admit.RLock and the closed check: a record after Close is not counted.
Write(l) ==
    /\ written[l] = "new"
    /\ written' = [written EXCEPT ![l] = IF closed THEN "discarded" ELSE "admitted"]
    /\ UNCHANGED <<queue, dropped, batchVars, runVars, exportVars, callVars,
                   closeVars, received>>

\* The size check: no batch could hold the record.
Oversized(l) ==
    /\ written[l] = "admitted"
    /\ sizeFor(Cost(l)) > MaxBytes
    /\ dropped' = dropped + 1
    /\ written' = [written EXCEPT ![l] = "notify"]
    /\ UNCHANGED <<queue, batchVars, runVars, exportVars, callVars, closeVars, received>>

\* The first send on the queue.
Enqueue(l) ==
    /\ written[l] = "admitted"
    /\ sizeFor(Cost(l)) <= MaxBytes
    /\ \/ /\ Len(queue) < QueueSize
          /\ queue' = Append(queue, l)
          /\ written' = [written EXCEPT ![l] = "accepted"]
          /\ UNCHANGED dropped
       \/ /\ Len(queue) = QueueSize
          /\ DropOldest
          /\ written' = [written EXCEPT ![l] = "evict"]
          /\ UNCHANGED <<queue, dropped>>
       \/ /\ Len(queue) = QueueSize
          /\ ~DropOldest
          /\ dropped' = dropped + 1
          /\ written' = [written EXCEPT ![l] = "accepted"]
          /\ UNCHANGED queue
    /\ UNCHANGED <<batchVars, runVars, exportVars, callVars, closeVars, received>>

\* Mutant: the evicted record is not counted.
EvictUncounted(l) ==
    /\ written[l] = "evict"
    /\ written' = [written EXCEPT ![l] = "resend"]
    /\ queue' = IF queue = <<>> THEN queue ELSE Tail(queue)
    /\ UNCHANGED <<dropped, batchVars, runVars, exportVars, callVars, closeVars, received>>

\* DropOldest: receive the oldest record, unless run has emptied the queue.
Evict(l) ==
    /\ written[l] = "evict"
    /\ written' = [written EXCEPT ![l] = "resend"]
    /\ \/ /\ queue # <<>>
          /\ queue' = Tail(queue)
          /\ dropped' = dropped + 1
       \/ /\ queue = <<>>
          /\ UNCHANGED <<queue, dropped>>
    /\ UNCHANGED <<batchVars, runVars, exportVars, callVars, closeVars, received>>

\* DropOldest: the second send, which another writer may have beaten.
Reenqueue(l) ==
    /\ written[l] = "resend"
    /\ written' = [written EXCEPT ![l] = "accepted"]
    /\ \/ /\ Len(queue) < QueueSize
          /\ queue' = Append(queue, l)
          /\ UNCHANGED dropped
       \/ /\ Len(queue) = QueueSize
          /\ dropped' = dropped + 1
          /\ UNCHANGED queue
    /\ UNCHANGED <<batchVars, runVars, exportVars, callVars, closeVars, received>>

\* The nested call of an error handler, if it made one, has returned.
HandlerBack(p) == p \in Procs => pc[p] \in {"idle", "acked", "skipped", "returned"}

\* The error handler returns to Write, which no longer holds admit.
Notified(l) ==
    /\ written[l] = "notify"
    /\ HandlerBack(l)
    /\ written' = [written EXCEPT ![l] = "accepted"]
    /\ UNCHANGED <<queue, dropped, batchVars, runVars, exportVars, callVars,
                   closeVars, received>>

writing(l) == Oversized(l) \/ Enqueue(l) \/ Evict(l) \/ Reenqueue(l) \/ Notified(l)

-----------------------------------------------------------------------------
(***************************************************************************)
(* run: the select loop, add and drainQueued.                              *)
(***************************************************************************)

\* drainQueued goes on with the queue, the select cases go back to select.
Loop(r) == IF r \in {"done", "sync"} THEN "drain" ELSE "select"

\* drainBudget
Serve(r) ==
    /\ reason' = r
    /\ budget' = IF r \in {"done", "sync"} /\ HasDrainTimeout THEN "ahead" ELSE "none"

\* Mutant: the record goes in front of the batch.
PutPrepends(b, t, l, next) ==
    /\ batch' = <<l>> \o b
    /\ tagged' = t + Cost(l)
    /\ \/ /\ Len(batch') >= BatchSize \/ sizeFor(tagged') >= MaxBytes
          /\ runPc' = "export" /\ stage' = "full"
       \/ /\ Len(batch') < BatchSize /\ sizeFor(tagged') < MaxBytes
          /\ runPc' = next /\ stage' = stage

\* The end of add: l joins batch b, which is flushed when it is full.
Put(b, t, l, next) ==
    /\ batch' = Append(b, l)
    /\ tagged' = t + Cost(l)
    /\ \/ /\ Len(batch') >= BatchSize \/ sizeFor(tagged') >= MaxBytes
          /\ runPc' = "export" /\ stage' = "full"
       \/ /\ Len(batch') < BatchSize /\ sizeFor(tagged') < MaxBytes
          /\ runPc' = next /\ stage' = stage

\* Mutant: add cuts by count only.
AddNoByteCut(next) ==
    /\ queue # <<>>
    /\ queue' = Tail(queue)
    /\ Put(batch, tagged, Head(queue), next)
    /\ UNCHANGED adding

\* Receive the oldest record and add it: a batch it does not fit into is
\* flushed before it.
Add(next) ==
    /\ queue # <<>>
    /\ queue' = Tail(queue)
    /\ LET l   == Head(queue)
           full == batch # <<>> /\ sizeFor(tagged + Cost(l)) > MaxBytes
       IN  \/ /\ full
              /\ adding' = <<l>>
              /\ runPc' = "export" /\ stage' = "cut"
              /\ UNCHANGED <<batch, tagged>>
           \/ /\ ~full
              /\ Put(batch, tagged, l, next)
              /\ UNCHANGED adding

SelectDone ==
    /\ runPc = "select"
    /\ ctxDone
    /\ runPc' = "drain"
    /\ Serve("done")
    /\ UNCHANGED <<writeVars, batchVars, stage, attempts, late, overtime, callVars,
                   closeVars, received>>

\* The rendezvous on flushReq with a caller of Sync.
SelectSync(p) ==
    /\ runPc = "select"
    /\ pc[p] = "request"
    /\ pc' = [pc EXCEPT ![p] = "waiting"]
    /\ runPc' = "drain"
    /\ Serve("sync")
    /\ UNCHANGED <<writeVars, batchVars, stage, attempts, late, overtime, owed,
                   closeVars, received>>

\* A tick that finds an empty batch changes nothing.
SelectTick ==
    /\ runPc = "select"
    /\ batch # <<>>
    /\ runPc' = "export" /\ stage' = "last"
    /\ Serve("tick")
    /\ UNCHANGED <<writeVars, batchVars, attempts, late, overtime, callVars,
                   closeVars, received>>

SelectQueue ==
    /\ runPc = "select"
    /\ Add("select")
    /\ Serve("queue")
    /\ UNCHANGED <<written, dropped, attempts, late, overtime, callVars, closeVars,
                   received>>

drainQueued ==
    /\ runPc = "drain"
    /\ Add("drain")
    /\ UNCHANGED <<written, dropped, reason, exportVars, callVars, closeVars, received>>

\* What run does when the case is served: it returns, or closes the ack of a
\* Sync and selects again.
Finish ==
    /\ runPc' = IF reason = "done" THEN "exited" ELSE "select"
    /\ pc' = [p \in Procs |->
                CASE p = runner -> "idle"
                  [] reason = "sync" /\ pc[p] = "waiting" -> "acked"
                  [] OTHER -> pc[p]]
    /\ budget' = "none" /\ overtime' = 0

\* Mutant: a Sync is acknowledged without a flush of what add left over.
DrainEndNoFlush ==
    /\ runPc = "drain"
    /\ queue = <<>>
    /\ Finish
    /\ UNCHANGED <<stage, writeVars, batchVars, reason, attempts, late, owed,
                   closeVars, received>>

\* drainQueued finds the queue empty and flushes the rest.
DrainEnd ==
    /\ runPc = "drain"
    /\ queue = <<>>
    /\ \/ /\ batch # <<>>
          /\ runPc' = "export" /\ stage' = "last"
          /\ UNCHANGED <<pc, budget, overtime>>
       \/ /\ batch = <<>>
          /\ Finish
          /\ UNCHANGED stage
    /\ UNCHANGED <<writeVars, batchVars, reason, attempts, late, owed, closeVars, received>>

-----------------------------------------------------------------------------
(***************************************************************************)
(* export.                                                                 *)
(***************************************************************************)

\* The outcome of the batch is known: n of its records are counted, and the
\* error handler is called or not.
Resolve(n, next) ==
    /\ dropped' = dropped + n
    /\ batch' = <<>> /\ tagged' = 0
    /\ runPc' = next

\* drop(len(records), err)
DropBatch == Resolve(Len(batch), "handler")

\* Mutant: the spent budget is not looked at.
ExportSpentIgnored ==
    /\ runPc = "export"
    /\ budget = "spent"
    /\ runPc' = "ready"
    /\ attempts' = 0 /\ late' = 0
    /\ UNCHANGED <<written, queue, dropped, batchVars, reason, stage, budget,
                   overtime, callVars, closeVars, received>>

\* The drain budget is spent: the batch is dropped without an attempt.
ExportSpent ==
    /\ runPc = "export"
    /\ budget = "spent"
    /\ DropBatch
    /\ attempts' = 0 /\ late' = 0
    /\ UNCHANGED <<written, queue, adding, reason, stage, budget, overtime,
                   callVars, closeVars, received>>

\* assemble and prepare, which can fail (no valid JSON body) or warn (gzip
\* failed) through the error handler.
ExportPrepare ==
    /\ runPc = "export"
    /\ budget # "spent"
    /\ attempts' = 0 /\ late' = 0
    /\ \/ DropBatch
       \/ /\ runPc' \in {"ready", "warn"}
          /\ UNCHANGED <<dropped, batch, tagged>>
    /\ UNCHANGED <<written, queue, adding, reason, stage, budget, overtime,
                   callVars, closeVars, received>>

WarnReturn ==
    /\ runPc = "warn"
    /\ HandlerBack(runner)
    /\ pc' = [pc EXCEPT ![runner] = "idle"]
    /\ runPc' = "ready"
    /\ UNCHANGED <<writeVars, batchVars, reason, stage, exportVars, owed, closeVars,
                   received>>

\* An attempt begins.
Send ==
    /\ runPc = "ready"
    /\ runPc' = "inflight"
    /\ attempts' = attempts + 1
    /\ late' = late + (IF ctxDone THEN 1 ELSE 0)
    /\ overtime' = overtime + (IF budget = "spent" THEN 1 ELSE 0)
    /\ UNCHANGED <<writeVars, batchVars, reason, stage, budget, callVars, closeVars,
                   received>>

\* What the collector did with the batch and whether its answer came back.
Receipt(seen, rejected) ==
    [logs |-> batch, seen |-> seen, rejected |-> rejected]

\* Mutant: rejected records are retried.
AcceptRetriesRejected(R) ==
    /\ runPc = "inflight"
    /\ received' = Append(received, Receipt(TRUE, R))
    /\ \/ /\ R = {}
          /\ Resolve(0, "resolved")
       \/ /\ R # {} /\ attempts < MaxAttempts
          /\ runPc' = "backoff"
          /\ UNCHANGED <<dropped, batch, tagged>>
    /\ UNCHANGED <<written, queue, adding, reason, stage, exportVars, callVars, closeVars>>

\* The batch is accepted but for the records in R, which are counted; the
\* handler hears of them, and of a warning or of a body that cannot be read.
Accept(R) ==
    /\ runPc = "inflight"
    /\ received' = Append(received, Receipt(TRUE, R))
    /\ \E next \in (IF R = {} THEN {"resolved", "handler"} ELSE {"handler"}) :
         Resolve(Cardinality(R), next)
    /\ UNCHANGED <<written, queue, adding, reason, stage, exportVars, callVars, closeVars>>

\* An attempt fails; the collector may have taken the batch all the same,
\* and only the answer was lost.
Failed == received' \in {received, Append(received, Receipt(FALSE, {}))}

\* The error is terminal, or there is no time left to wait for a retry (a
\* Retry-After can always ask for more than is left).
GiveUp ==
    /\ runPc = "inflight"
    /\ Failed
    /\ DropBatch
    /\ UNCHANGED <<written, queue, adding, reason, stage, exportVars, callVars, closeVars>>

\* Mutant: the cancelled context is not looked at.
RetryIgnoresCancel ==
    /\ runPc = "inflight"
    /\ Failed
    /\ reason # "done"
    /\ attempts < MaxAttempts /\ budget # "spent"
    /\ runPc' = "backoff"
    /\ UNCHANGED <<writeVars, batchVars, reason, stage, exportVars, callVars, closeVars>>

\* The error is retryable, retries are allowed and the next one is in time.
Retry ==
    /\ runPc = "inflight"
    /\ Failed
    /\ reason # "done" /\ ~ctxDone
    /\ attempts < MaxAttempts /\ budget # "spent"
    /\ runPc' = "backoff"
    /\ UNCHANGED <<writeVars, batchVars, reason, stage, exportVars, callVars, closeVars>>

\* Mutant: the backoff waits for the cancellation.
WakeNever == runPc = "backoff" /\ ctxDone /\ UNCHANGED vars

\* The backoff timer fires.
Wake ==
    /\ runPc = "backoff"
    /\ runPc' = "ready"
    /\ UNCHANGED <<writeVars, batchVars, reason, stage, exportVars, callVars,
                   closeVars, received>>

\* Close cancels the backoff.
BackoffCancelled ==
    /\ runPc = "backoff"
    /\ ctxDone
    /\ DropBatch
    /\ UNCHANGED <<written, queue, adding, reason, stage, exportVars, callVars,
                   closeVars, received>>

\* export has returned to the flush it was called from.
AfterExport ==
    /\ runPc \in {"resolved", "handler"}
    /\ HandlerBack(runner)
    /\ \/ /\ stage = "cut"
          /\ Put(batch, tagged, adding[1], Loop(reason))
          /\ adding' = <<>>
          /\ pc' = [pc EXCEPT ![runner] = "idle"]
          /\ UNCHANGED <<budget, overtime>>
       \/ /\ stage = "full"
          /\ runPc' = Loop(reason)
          /\ pc' = [pc EXCEPT ![runner] = "idle"]
          /\ UNCHANGED <<batchVars, stage, budget, overtime>>
       \/ /\ stage = "last"
          /\ Finish
          /\ UNCHANGED <<batchVars, stage>>
    /\ UNCHANGED <<writeVars, reason, attempts, late, owed, closeVars, received>>

export ==
    \/ ExportSpent \/ ExportPrepare \/ WarnReturn \/ Send
    \/ (\E R \in SUBSET Range(batch) : Accept(R))
    \/ GiveUp \/ Retry \/ Wake \/ BackoffCancelled \/ AfterExport

run ==
    \/ SelectDone \/ (\E p \in Procs : SelectSync(p)) \/ SelectTick \/ SelectQueue
    \/ drainQueued \/ DrainEnd \/ export

\* The drain deadline passes.
BudgetRunsOut ==
    /\ budget = "ahead"
    /\ budget' = "spent"
    /\ UNCHANGED <<writeVars, batchVars, runVars, attempts, late, overtime, callVars,
                   closeVars, received>>

-----------------------------------------------------------------------------
(***************************************************************************)
(* Sync and Close.                                                         *)
(***************************************************************************)

\* p is about to call c: an application goroutine of its own accord, or the
\* error handler on the goroutine it was called from.
MayCall(p, c) ==
    /\ pc[p] = "idle"
    /\ \/ p \in Callers /\ c \in Calls
       \/ p \in Logs /\ written[p] = "notify" /\ c \in WriteHandlerCalls
       \/ p = runner /\ runPc \in Handling /\ c \in FlushHandlerCalls

SyncCall(p) ==
    /\ MayCall(p, "sync")
    /\ pc' = [pc EXCEPT ![p] = IF closed THEN "skipped" ELSE "request"]
    /\ owed' = [owed EXCEPT ![p] = {l \in Logs : written[l] = "accepted"}]
    /\ UNCHANGED <<writeVars, batchVars, runVars, exportVars, closeVars, received>>

\* Mutant: Sync waits for flushReq only.
SyncSkipNever(p) == pc[p] = "request" /\ ctxDone /\ UNCHANGED vars

\* The select of Sync finds the context cancelled.
SyncSkip(p) ==
    /\ pc[p] = "request"
    /\ ctxDone
    /\ pc' = [pc EXCEPT ![p] = "skipped"]
    /\ UNCHANGED <<writeVars, batchVars, runVars, exportVars, owed, closeVars, received>>

\* closeOnce.Do: the first caller runs Close, the others wait for it.
CloseCall(p) ==
    /\ MayCall(p, "close")
    /\ \/ /\ onceBy = nobody
          /\ onceBy' = p
          /\ closed' = TRUE
          /\ pc' = [pc EXCEPT ![p] = "barrier"]
       \/ /\ onceBy # nobody
          /\ pc' = [pc EXCEPT ![p] = "once"]
          /\ UNCHANGED <<onceBy, closed>>
    /\ UNCHANGED <<writeVars, batchVars, runVars, exportVars, owed, ctxDone, trOpen, received>>

\* Mutant: Close does not wait for the writers that hold admit.
CloseNoBarrier(p) ==
    /\ pc[p] = "barrier"
    /\ ctxDone' = TRUE
    /\ pc' = [pc EXCEPT ![p] = "join"]
    /\ UNCHANGED <<writeVars, batchVars, runVars, exportVars, owed, closed, onceBy,
                   trOpen, received>>

\* Mutant: the context is not cancelled.
CloseNoCancel(p) ==
    /\ pc[p] = "barrier"
    /\ \A l \in Logs : written[l] \notin InAdmit
    /\ pc' = [pc EXCEPT ![p] = "join"]
    /\ UNCHANGED <<writeVars, batchVars, runVars, exportVars, owed, closed, ctxDone, onceBy,
                   trOpen, received>>

\* admit.Lock waits for the writers inside; then the context is cancelled.
CloseBarrier(p) ==
    /\ pc[p] = "barrier"
    /\ \A l \in Logs : written[l] \notin InAdmit
    /\ ctxDone' = TRUE
    /\ pc' = [pc EXCEPT ![p] = "join"]
    /\ UNCHANGED <<writeVars, batchVars, runVars, exportVars, owed, closed, onceBy,
                   trOpen, received>>

\* Mutant: Close does not wait for run.
CloseNoJoin(p) ==
    /\ pc[p] = "join"
    /\ trOpen' = FALSE
    /\ pc' = [pc EXCEPT ![p] = "returned"]
    /\ UNCHANGED <<writeVars, batchVars, runVars, exportVars, owed, closed, ctxDone,
                   onceBy, received>>

\* The wait on w.done, then tr.close.
CloseJoin(p) ==
    /\ pc[p] = "join"
    /\ runPc = "exited"
    /\ trOpen' = FALSE
    /\ pc' = [pc EXCEPT ![p] = "returned"]
    /\ UNCHANGED <<writeVars, batchVars, runVars, exportVars, owed, closed, ctxDone,
                   onceBy, received>>

\* The first Close is through: closeOnce lets the others go.
CloseOnce(p) ==
    /\ pc[p] = "once"
    /\ ~trOpen
    /\ pc' = [pc EXCEPT ![p] = "returned"]
    /\ UNCHANGED <<writeVars, batchVars, runVars, exportVars, owed, closeVars, received>>

closing(p) == CloseBarrier(p) \/ CloseJoin(p) \/ CloseOnce(p)

-----------------------------------------------------------------------------
\* Every goroutine is where the program may stay for ever.
Quiescent ==
    /\ \A l \in Logs : written[l] \in {"accepted", "discarded"}
    /\ \A p \in Callers : pc[p] \in {"acked", "skipped", "returned"}
    /\ runPc \in {"select", "exited"}

Done == Quiescent /\ UNCHANGED vars

Next ==
    \/ \E l \in Logs : Write(l) \/ writing(l)
    \/ run
    \/ BudgetRunsOut
    \/ \E p \in Procs : SyncCall(p) \/ SyncSkip(p) \/ CloseCall(p) \/ closing(p)
    \/ Done

Spec == Init /\ [][Next]_vars

(***************************************************************************)
(* Goroutines that can run do run, an attempt ends by its timeout, the     *)
(* backoff timer and the ticker fire, the error handler returns, and the   *)
(* select of run picks each case that stays ready sooner or later.         *)
(***************************************************************************)
Fairness ==
    /\ \A l \in Logs : WF_vars(writing(l))
    /\ WF_vars(run)
    /\ SF_vars(SelectDone) /\ SF_vars(SelectTick)
    /\ \A p \in Procs : SF_vars(SelectSync(p)) /\ WF_vars(SyncSkip(p) \/ closing(p))

FairSpec == Spec /\ Fairness

-----------------------------------------------------------------------------
(***************************************************************************)
(* The ledger the exporter keeps: delivered means confirmed by the         *)
(* collector.                                                              *)
(***************************************************************************)
Pending(l) ==
    written[l] \in InAdmit \/ Contains(queue \o batch \o adding, l)

Delivered(l) ==
    \E i \in 1..Len(received) :
      /\ received[i].seen
      /\ Contains(received[i].logs, l) /\ l \notin received[i].rejected

fate ==
    [l \in Logs |->
       CASE written[l] \in {"new", "discarded"} -> written[l]
         [] Pending(l)   -> "pending"
         [] Delivered(l) -> "delivered"
         [] OTHER        -> "dropped"]

Ledger == INSTANCE LogLedger WITH droppedLogs <- dropped, open <- ~closed

\* Every record Write accepts before Close is confirmed by the collector or
\* counted by DroppedLogs, exactly once: with evictions, oversized records,
\* failed preparations, partial successes, exhausted or cancelled retries and
\* the final drain (Write, export, drop).
ImplementsLedger == Ledger!LedgerSpec

\* What export assembles is never empty and never larger than
\* WithMaxRequestBytes, although add decides by the running sum tagged and
\* not by the records (Write's size check, add's cut, flush's reset).
BatchFits ==
    runPc \in InExport =>
      /\ batch # <<>>
      /\ sizeFor(taggedLen([i \in 1..Len(batch) |-> RecordLen[batch[i]]])) <= MaxBytes

\* A record that an answer of the collector confirmed or rejected is never
\* sent again: partial success and an unreadable body end the retries.
AnsweredOnce ==
    \A i \in 1..Len(received) : received[i].seen =>
      \A l \in Range(received[i].logs) :
        /\ ~Pending(l)
        /\ \A j \in (i + 1)..Len(received) : ~Contains(received[j].logs, l)

\* At most one attempt of a batch begins after Close has cancelled the
\* context, whatever its retries and whichever select case served it.
OneAttemptAfterCancel == late <= 1

\* Within one Sync or Close drain at most one attempt begins after its
\* budget is spent (WithDrainTimeout).
DrainBudgetHolds == overtime <= 1

\* When Sync returns because its drain was acknowledged, every record whose
\* Write had returned before Sync was called is confirmed or counted.
SyncIsBarrier ==
    \A p \in Procs : pc[p] = "acked" => \A l \in owed[p] : ~Pending(l)

\* When run exits nothing is left behind, and nothing is enqueued afterwards.
DrainedAtExit ==
    runPc = "exited" =>
      /\ queue = <<>> /\ batch = <<>> /\ adding = <<>>
      /\ \A l \in Logs : written[l] \notin InAdmit

\* The transport is open as long as run may use it, also when several
\* goroutines call Close.
TransportOpenWhileUsed == runPc # "exited" => trOpen

\* What the collector confirmed, in order, and then what is on its way.
Pipeline ==
    FlattenSeq([i \in 1..Len(received) |->
                  IF received[i].seen THEN received[i].logs ELSE <<>>])
      \o batch \o adding \o queue

\* Export is first in, first out: no step reorders two records, across cuts,
\* retries, evictions and drains.
FirstInFirstOut ==
    [][\A i, j \in 1..Len(Pipeline') :
         (i < j /\ Contains(Pipeline, Pipeline'[j])) =>
           \E a, b \in 1..Len(Pipeline) :
             a < b /\ Pipeline[a] = Pipeline'[i] /\ Pipeline[b] = Pipeline'[j]]_vars

-----------------------------------------------------------------------------
\* A record that Write took is confirmed or counted in the end.
AcceptedResolves == \A l \in Logs : (written[l] = "admitted") ~> ~Pending(l)

\* Sync returns, also when Close races it for flushReq or the error handler
\* of a Write is its caller.
SyncReturns ==
    \A p \in Procs : (pc[p] = "request") ~> (pc[p] \in {"acked", "skipped"})

\* Every call of Close returns, and then run has exited and the transport is
\* closed.
CloseReturns ==
    \A p \in Procs : (pc[p] \in {"barrier", "once"})
                       ~> (pc[p] = "returned" /\ runPc = "exited" /\ ~trOpen)

=============================================================================
