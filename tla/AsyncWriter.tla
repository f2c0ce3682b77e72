---------------------------- MODULE AsyncWriter ----------------------------
(***************************************************************************)
(* The root Writer in ModeAsync (src/writer.go): Write enqueues on a       *)
(* bounded channel under the lifecycle gate, flushLoop batches the queue   *)
(* and is the only shipper of ConnManager, Sync asks it for a flush and    *)
(* waits, Close stops it and waits for its final flush.                    *)
(*                                                                         *)
(* The Write call of log l is the process l.                               *)
(***************************************************************************)
EXTENDS ConnManager, SequencesExt

CONSTANTS
    Syncers,      \* goroutines that call Sync, once each
    BufferSize,   \* cfg.bufferSize: capacity of the queue channel
    BatchSize,    \* cfg.batchSize: logs in one frame
    Policies      \* the drop policies tried: whether cfg.dropPolicy is DropOldest

flusher == "flushLoop"

ASSUME ShippersAssumption == Shippers = {flusher}
ASSUME BufferAssumption == BufferSize \in Nat \ {0}
ASSUME BatchAssumption == BatchSize \in Nat \ {0}
ASSUME PolicyAssumption == Policies \subseteq BOOLEAN

VARIABLES
    written,   \* where the Write call of each log is, or what it returned
    queue,     \* w.queue
    batch,     \* flushLoop's accumulated batch
    flushPc,   \* where flushLoop is
    reason,    \* the select case flushLoop is serving
    syncPc,    \* where each caller of Sync is
    owed,      \* history: the logs whose Write had returned when Sync was called
    dropOldest \* cfg.dropPolicy = DropOldest, which never changes

queueVars == <<queue, batch, flushPc, reason>>
syncVars  == <<syncPc, owed, dropOldest>>
vars      == <<connVars, written, queueVars, syncVars>>

InGate  == {"send", "evict", "resend"}   \* the caller holds lifecycleMu.RLock
WritePcs == {"new", "encoded", "accepted", "errored", "discarded"} \cup InGate

TypeOK ==
    /\ ConnTypeOK
    /\ written \in [Logs -> WritePcs]
    /\ queue \in Seq(Logs)
    /\ Len(queue) <= BufferSize
    /\ batch \in Seq(Logs)
    /\ Len(batch) <= BatchSize
    /\ flushPc \in {"select", "drain", "shipping", "exited"}
    /\ reason \in {"done", "sync", "tick", "queue"}
    /\ syncPc \in [Syncers -> {"idle", "request", "waiting", "acked", "skipped"}]
    /\ owed \in [Syncers -> SUBSET Logs]
    /\ dropOldest \in Policies

Init ==
    /\ ConnInit
    /\ written = [l \in Logs |-> "new"]
    /\ queue = <<>>
    /\ batch = <<>>
    /\ flushPc = "select"
    /\ reason = "queue"
    /\ syncPc = [s \in Syncers |-> "idle"]
    /\ owed = [s \in Syncers |-> {}]
    /\ dropOldest \in Policies

-----------------------------------------------------------------------------
(***************************************************************************)
(* Write: the closed check and Encode; then, under the lifecycle gate, the *)
(* second closed check and enqueue.                                        *)
(***************************************************************************)
Write(l) ==
    /\ written[l] = "new"
    /\ \/ closed /\ written' = [written EXCEPT ![l] = "discarded"]
       \/ ~closed /\ written' = [written EXCEPT ![l] = "errored"]
       \/ ~closed /\ written' = [written EXCEPT ![l] = "encoded"]
    /\ UNCHANGED <<connVars, queueVars, syncVars>>

\* lifecycleMu.RLock and the closed check: a late log is counted as dropped.
Gate(l) ==
    /\ written[l] = "encoded"
    /\ \/ /\ closed
          /\ written' = [written EXCEPT ![l] = "accepted"]
          /\ droppedLogs' = droppedLogs + 1
       \/ /\ ~closed
          /\ written' = [written EXCEPT ![l] = "send"]
          /\ UNCHANGED droppedLogs
    /\ UNCHANGED <<allButDropped, queueVars, syncVars>>

\* enqueue's first attempt: a non-blocking send.
Enqueue(l) ==
    /\ written[l] = "send"
    /\ \/ /\ Len(queue) < BufferSize
          /\ queue' = Append(queue, l)
          /\ written' = [written EXCEPT ![l] = "accepted"]
          /\ UNCHANGED droppedLogs
       \/ /\ Len(queue) = BufferSize
          /\ dropOldest
          /\ written' = [written EXCEPT ![l] = "evict"]
          /\ UNCHANGED <<queue, droppedLogs>>
       \/ /\ Len(queue) = BufferSize
          /\ ~dropOldest
          /\ droppedLogs' = droppedLogs + 1
          /\ written' = [written EXCEPT ![l] = "accepted"]
          /\ UNCHANGED queue
    /\ UNCHANGED <<allButDropped, batch, flushPc, reason, syncVars>>

\* Mutant: the evicted log is not counted.
EvictUncounted(l) ==
    /\ written[l] = "evict"
    /\ written' = [written EXCEPT ![l] = "resend"]
    /\ queue' = IF queue = <<>> THEN queue ELSE Tail(queue)
    /\ UNCHANGED <<connVars, batch, flushPc, reason, syncVars>>

\* DropOldest: a non-blocking receive makes room, if flushLoop has not.
Evict(l) ==
    /\ written[l] = "evict"
    /\ written' = [written EXCEPT ![l] = "resend"]
    /\ \/ /\ queue # <<>>
          /\ queue' = Tail(queue)
          /\ droppedLogs' = droppedLogs + 1
       \/ /\ queue = <<>>
          /\ UNCHANGED <<queue, droppedLogs>>
    /\ UNCHANGED <<allButDropped, batch, flushPc, reason, syncVars>>

\* DropOldest: the second send; another writer may have taken the room.
Reenqueue(l) ==
    /\ written[l] = "resend"
    /\ written' = [written EXCEPT ![l] = "accepted"]
    /\ \/ /\ Len(queue) < BufferSize
          /\ queue' = Append(queue, l)
          /\ UNCHANGED droppedLogs
       \/ /\ Len(queue) = BufferSize
          /\ droppedLogs' = droppedLogs + 1
          /\ UNCHANGED queue
    /\ UNCHANGED <<allButDropped, batch, flushPc, reason, syncVars>>

writeAsync(l) == Gate(l) \/ Enqueue(l) \/ Evict(l) \/ Reenqueue(l)

-----------------------------------------------------------------------------
(***************************************************************************)
(* flushLoop.  Its four select cases go to "drain"; what follows a drain   *)
(* depends on the case.                                                    *)
(***************************************************************************)
Serve(r) == flushPc' = "drain" /\ reason' = r

SelectDone ==
    /\ flushPc = "select"
    /\ done
    /\ Serve("done")
    /\ UNCHANGED <<connVars, written, queue, batch, syncVars>>

\* Mutant: the ack is closed before the flush it acknowledges.
SelectSyncAcksFirst(s) ==
    /\ flushPc = "select"
    /\ syncPc[s] = "request"
    /\ syncPc' = [syncPc EXCEPT ![s] = "acked"]
    /\ Serve("sync")
    /\ UNCHANGED <<connVars, written, queue, batch, owed, dropOldest>>

\* The rendezvous on flushReq with a caller of Sync.
SelectSync(s) ==
    /\ flushPc = "select"
    /\ syncPc[s] = "request"
    /\ syncPc' = [syncPc EXCEPT ![s] = "waiting"]
    /\ Serve("sync")
    /\ UNCHANGED <<connVars, written, queue, batch, owed, dropOldest>>

SelectTick ==
    /\ flushPc = "select"
    /\ Serve("tick")
    /\ UNCHANGED <<connVars, written, queue, batch, syncVars>>

\* Mutant: the received log goes in front of the accumulated batch.
SelectQueuePrepends ==
    /\ flushPc = "select"
    /\ queue # <<>>
    /\ batch' = <<Head(queue)>> \o batch
    /\ queue' = Tail(queue)
    /\ Serve("queue")
    /\ UNCHANGED <<connVars, written, syncVars>>

SelectQueue ==
    /\ flushPc = "select"
    /\ queue # <<>>
    /\ batch' = Append(batch, Head(queue))
    /\ queue' = Tail(queue)
    /\ Serve("queue")
    /\ UNCHANGED <<connVars, written, syncVars>>

\* Mutant: drain receives one log too many.
DrainOffByOne ==
    /\ flushPc = "drain"
    /\ Len(batch) <= BatchSize
    /\ queue # <<>>
    /\ batch' = Append(batch, Head(queue))
    /\ queue' = Tail(queue)
    /\ UNCHANGED <<connVars, written, flushPc, reason, syncVars>>

\* One receive of drain.
Drain ==
    /\ flushPc = "drain"
    /\ Len(batch) < BatchSize
    /\ queue # <<>>
    /\ batch' = Append(batch, Head(queue))
    /\ queue' = Tail(queue)
    /\ UNCHANGED <<connVars, written, flushPc, reason, syncVars>>

Drained == flushPc = "drain" /\ (Len(batch) >= BatchSize \/ queue = <<>>)

\* Mutant: the ticker waits for a full batch too.
FlushDueOnlyFull ==
    batch # <<>> /\ (reason \in {"queue", "tick"} => Len(batch) >= BatchSize)

\* Whether the drained batch is flushed now: a queue case waits for a full one.
FlushDue == batch # <<>> /\ (reason = "queue" => Len(batch) >= BatchSize)

\* flush: the framer accepts the batch and writeFrame is called.
Flush ==
    /\ Drained
    /\ FlushDue
    /\ Ship(flusher, batch)
    /\ batch' = <<>>
    /\ flushPc' = "shipping"
    /\ UNCHANGED <<conn, reconnectCh, netVars, loopVars, writeMu, held,
                   droppedLogs, closeVars, written, queue, reason, syncVars>>

\* Where flushLoop goes after a flush: flushAll drains again.
AfterFlush == flushPc' = IF reason \in {"done", "sync"} THEN "drain" ELSE "select"

\* flush: the framer rejects the batch, which is dropped whole.
FlushFrameError ==
    /\ Drained
    /\ FlushDue
    /\ droppedLogs' = droppedLogs + Len(batch)
    /\ batch' = <<>>
    /\ AfterFlush
    /\ UNCHANGED <<allButDropped, written, queue, reason, syncVars>>

\* writeFrame has returned to flush.
FlushReturn ==
    /\ flushPc = "shipping"
    /\ shipPc[flusher] = "idle"
    /\ AfterFlush
    /\ UNCHANGED <<connVars, written, queue, batch, reason, syncVars>>

\* Nothing to flush: back to the select, with the ack of a Sync closed
\* first, or out of the loop when Close asked for it.
FlushNothing ==
    /\ Drained
    /\ ~FlushDue
    /\ flushPc' = IF reason = "done" THEN "exited" ELSE "select"
    /\ syncPc' = IF reason = "sync"
                   THEN [s \in Syncers |-> IF syncPc[s] = "waiting" THEN "acked"
                                                                    ELSE syncPc[s]]
                   ELSE syncPc
    /\ UNCHANGED <<connVars, written, queue, batch, reason, owed, dropOldest>>

flushLoop ==
    \/ SelectDone \/ (\E s \in Syncers : SelectSync(s)) \/ SelectTick
    \/ SelectQueue \/ Drain \/ Flush \/ FlushFrameError \/ FlushReturn
    \/ FlushNothing

-----------------------------------------------------------------------------
(***************************************************************************)
(* Sync and Close.                                                         *)
(***************************************************************************)

\* Sync's closed check, before it offers its ack channel on flushReq.
SyncCall(s) ==
    /\ syncPc[s] = "idle"
    /\ syncPc' = [syncPc EXCEPT ![s] = IF closed THEN "skipped" ELSE "request"]
    /\ owed' = [owed EXCEPT ![s] = {l \in Logs : written[l] = "accepted"}]
    /\ UNCHANGED <<connVars, written, queueVars, dropOldest>>

\* Mutant: Sync waits for flushReq only.
SyncSkipNever(s) == syncPc[s] = "request" /\ FALSE /\ UNCHANGED vars

\* The select of Sync finds w.done closed.
SyncSkip(s) ==
    /\ syncPc[s] = "request"
    /\ done
    /\ syncPc' = [syncPc EXCEPT ![s] = "skipped"]
    /\ UNCHANGED <<connVars, written, queueVars, owed, dropOldest>>

\* Mutant: Close does not wait for the writers inside the gate.
CloseNoBarrier(k) == CloseStop(k)

\* Close's lifecycleMu barrier waits for the callers inside the gate.
CloseBarrier(k) == CloseStop(k) /\ \A l \in Logs : written[l] \notin InGate

\* Close waits on flushDone before it takes the connection.
CloseJoin(k) == CloseTake(k) /\ flushPc = "exited"

Close(k) ==
    /\ CloseCall(k) \/ CloseBarrier(k) \/ CloseJoin(k) \/ CloseConn(k)
    /\ UNCHANGED <<written, queueVars, syncVars>>

-----------------------------------------------------------------------------
appVars == <<written, queueVars, syncVars>>

Shipping  == writeFrame(flusher) /\ UNCHANGED appVars
Reconnect == reconnectLoop /\ UNCHANGED appVars

\* Every goroutine is where the program may stay for ever.
Quiescent ==
    /\ \A l \in Logs : written[l] \in {"accepted", "errored", "discarded"}
    /\ \A s \in Syncers : syncPc[s] \in {"acked", "skipped"}
    /\ \A k \in Closers : closePc[k] = "returned"
    /\ loopPc = "exited"
    /\ flushPc = "exited"

Done == Quiescent /\ UNCHANGED vars

Next ==
    \/ \E l \in Logs : Write(l) \/ writeAsync(l)
    \/ flushLoop
    \/ Shipping
    \/ Reconnect
    \/ \E s \in Syncers : SyncCall(s) \/ SyncSkip(s)
    \/ \E k \in Closers : Close(k)
    \/ Done

Spec == Init /\ [][Next]_vars

(***************************************************************************)
(* Goroutines that can run do run.  The cases of a select that stay ready  *)
(* are picked sooner or later, since Go picks among the ready ones at      *)
(* random: hence the strong fairness of the cases of flushLoop and of      *)
(* LoopStop.  The ticker of flushLoop always fires again.  Nothing forces  *)
(* the application to call Write, Sync or Close, or the peer to be up.     *)
(***************************************************************************)
Fairness ==
    /\ \A l \in Logs : WF_vars(writeAsync(l))
    /\ WF_vars(flushLoop)
    /\ SF_vars(SelectDone) /\ SF_vars(SelectTick) /\ SF_vars(SelectQueue)
    /\ \A s \in Syncers : SF_vars(SelectSync(s)) /\ WF_vars(SyncSkip(s))
    /\ WF_vars(Shipping)
    /\ WF_vars(Reconnect)
    /\ SF_vars(LoopStop /\ UNCHANGED appVars)
    /\ \A k \in Closers :
         WF_vars((CloseBarrier(k) \/ CloseJoin(k) \/ CloseConn(k))
                   /\ UNCHANGED appVars)

FairSpec == Spec /\ Fairness

-----------------------------------------------------------------------------
(***************************************************************************)
(* The ledger this mode keeps.                                             *)
(***************************************************************************)
Delivered(l) ==
    \E c \in Conns : \E i \in 1..Len(wire[c]) :
      wire[c][i].whole /\ Contains(wire[c][i].logs, l)

\* The log is on its way: in Write, queued, in the batch or being shipped.
Pending(l) ==
    \/ written[l] \in InGate \cup {"encoded"}
    \/ Contains(queue, l) \/ Contains(batch, l) \/ Contains(frame[flusher], l)

fate ==
    [l \in Logs |->
       CASE written[l] \in {"new", "errored", "discarded"} -> written[l]
         [] Pending(l)   -> "pending"
         [] Delivered(l) -> "delivered"
         [] OTHER        -> "dropped"]

Ledger == INSTANCE LogLedger WITH open <- ~closed

\* Every log that Write accepts is delivered whole in one frame or counted as
\* dropped, once, with concurrent writers, evictions, framing and write
\* errors, reconnects and Close at any point (writeAsync, enqueue, flush,
\* writeFrame).
ImplementsLedger == Ledger!LedgerSpec

\* The logs connection c carried whole, in order.
Carried(c) ==
    FlattenSeq([i \in 1..Len(wire[c]) |->
                  IF wire[c][i].whole THEN wire[c][i].logs ELSE <<>>])

\* The pipeline, from the oldest log on the wire to the youngest in the queue
\* (connections are numbered in the order in which they were dialed).
Pipeline ==
    FlattenSeq([c \in Conns |-> Carried(c)]) \o frame[flusher] \o batch \o queue

\* Delivery is first in, first out: a step adds logs at the end of the
\* pipeline only and never reorders two logs in it, across drains, evictions,
\* failed frames and reconnects.
FirstInFirstOut ==
    [][\A i, j \in 1..Len(Pipeline') :
         (i < j /\ Contains(Pipeline, Pipeline'[j])) =>
           \E a, b \in 1..Len(Pipeline) :
             a < b /\ Pipeline[a] = Pipeline'[i] /\ Pipeline[b] = Pipeline'[j]]_vars

\* When Sync returns because its flush was acknowledged, every log whose
\* Write had returned before Sync was called is delivered or counted.
SyncIsBarrier ==
    \A s \in Syncers : syncPc[s] = "acked" => \A l \in owed[s] : ~Pending(l)

\* When Close tears the connection down, every log it had accepted has been
\* shipped or counted, and no log enters the queue afterwards (the lifecycle
\* gate of writeAsync, the final flush, the wait on flushDone).
DrainedAtTeardown ==
    (done /\ \A k \in Closers : closePc[k] # "join")
      => queue = <<>> /\ batch = <<>> /\ frame[flusher] = <<>>

-----------------------------------------------------------------------------
\* A log that Write took is delivered or counted in the end, by the ticker
\* if by nothing else.
AcceptedResolves == \A l \in Logs : (written[l] = "encoded") ~> ~Pending(l)

\* Sync returns, also when Close races it for flushReq.
SyncReturns ==
    \A s \in Syncers : (syncPc[s] = "request") ~> (syncPc[s] \in {"acked", "skipped"})

\* After Close is called it returns, both background goroutines exit, and
\* every connection ever dialed ends closed.
CloseReleasesAll ==
    closed ~> [](/\ loopPc = "exited"
                 /\ flushPc = "exited"
                 /\ \A c \in Conns : sock[c] # "open"
                 /\ \E k \in Closers : closePc[k] = "returned")

=============================================================================
