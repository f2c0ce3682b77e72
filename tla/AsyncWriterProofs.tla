------------------------- MODULE AsyncWriterProofs -------------------------
(***************************************************************************)
(* Proofs about AsyncWriter, for any set of logs, callers, bounds and      *)
(* either drop policy: its steps are steps of the connection manager, so   *)
(* everything proved of ConnManager holds of it, nothing is left to ship   *)
(* when Close tears the connection down, Sync is a barrier, the Writer     *)
(* keeps the ledger, and delivery is first in, first out.                  *)
(***************************************************************************)
EXTENDS AsyncWriter, ConnManagerProofs, SequenceFacts

LEMMA OneFlusher == flusher \in Shippers /\ OneShipper
  BY ShippersAssumption DEF OneShipper

LEMMA TailSeq ==
  ASSUME NEW S, NEW s \in Seq(S), s # <<>>
  PROVE  Head(s) \in S /\ Tail(s) \in Seq(S) /\ Len(Tail(s)) = Len(s) - 1
  OBVIOUS

LEMMA AppendLen ==
  ASSUME NEW S, NEW s \in Seq(S), NEW e \in S
  PROVE  Append(s, e) \in Seq(S) /\ Len(Append(s, e)) = Len(s) + 1
  OBVIOUS

-----------------------------------------------------------------------------
(***************************************************************************)
(* The inductive invariant.                                                *)
(***************************************************************************)

\* The batch has room for the log a select case receives.
BatchInv ==
    /\ flushPc = "select" => Len(batch) < BatchSize
    /\ flushPc \in {"shipping", "exited"} => batch = <<>>

\* Past its barrier Close has no writer inside the gate, and none can enter.
GateInv == done => \A l \in Logs : written[l] \notin InGate

\* flushLoop runs writeFrame exactly while it is shipping, and has a frame
\* until it is written or counted.
ShipInv ==
    /\ shipPc[flusher] \in {"idle", "closeFailed", "trigger"} => frame[flusher] = <<>>
    /\ flushPc # "shipping" => shipPc[flusher] = "idle"

\* flushLoop exits on w.done only, and leaves the queue empty behind it.
ExitInv ==
    /\ (flushPc \in {"drain", "shipping"} /\ reason = "done") => done
    /\ flushPc = "exited" => done /\ queue = <<>>

\* Close takes the connection only after flushLoop has exited.
JoinInv == (done /\ \A k \in Closers : closePc[k] # "join") => flushPc = "exited"

AsyncInv ==
    /\ TypeOK
    /\ BatchInv
    /\ GateInv
    /\ ShipInv
    /\ ExitInv
    /\ JoinInv

LEMMA AsyncInit == Init => AsyncInv
<1> SUFFICES ASSUME Init PROVE AsyncInv
  OBVIOUS
<1>1. TypeOK
  BY InitInv, EmptySeq, BufferAssumption, BatchAssumption
  DEF Init, TypeOK, ConnInv, WritePcs
<1>2. BatchInv /\ GateInv /\ ExitInv /\ JoinInv
  BY BatchAssumption DEF Init, ConnInit, BatchInv, GateInv, ExitInv, JoinInv
<1>3. ShipInv
  BY OneFlusher DEF Init, ConnInit, ShipInv
<1> QED
  BY <1>1, <1>2, <1>3 DEF AsyncInv

-----------------------------------------------------------------------------
(***************************************************************************)
(* Every step of AsyncWriter is a step of ConnManager.                     *)
(***************************************************************************)
LEMMA StepRefines == TypeOK /\ [Next]_vars => [ConnNext]_connVars
<1> SUFFICES ASSUME TypeOK, [Next]_vars PROVE [ConnNext]_connVars
  OBVIOUS
<1>1. ASSUME NEW l \in Logs, Write(l) \/ writeAsync(l) PROVE [ConnNext]_connVars
  <2>1. CASE Write(l)
    BY <2>1 DEF Write
  <2>2. CASE writeAsync(l)
    <3>1. /\ UNCHANGED allButDropped
          /\ droppedLogs' = droppedLogs \/ droppedLogs' = droppedLogs + 1
      BY <2>2 DEF writeAsync, Gate, Enqueue, Evict, Reenqueue
    <3>2. CASE droppedLogs' = droppedLogs
      BY <3>1, <3>2 DEF allButDropped, connVars, shipVars
    <3>3. CASE droppedLogs' = droppedLogs + 1
      BY <3>1, <3>3 DEF DropElsewhere, ConnNext, TypeOK, ConnTypeOK
    <3> QED
      BY <3>1, <3>2, <3>3
  <2> QED
    BY <1>1, <2>1, <2>2
<1>2. ASSUME flushLoop PROVE [ConnNext]_connVars
  <2>1. CASE Flush
    <3>1. frame'[flusher] = batch /\ frame'[flusher] \in Seq(Logs)
      BY <2>1, OneFlusher DEF Flush, Ship, TypeOK, ConnTypeOK
    <3>2. ShipAny(flusher)
      BY <2>1, <3>1 DEF Flush, ShipAny
    <3> QED
      BY <3>2, OneFlusher DEF ConnNext
  <2>2. CASE FlushFrameError
    BY <2>2 DEF FlushFrameError, DropElsewhere, ConnNext, TypeOK, ConnTypeOK
  <2> QED
    BY <1>2, <2>1, <2>2 DEF flushLoop, SelectDone, SelectSync, SelectTick,
       SelectQueue, Drain, FlushReturn, FlushNothing
<1>3. ASSUME Shipping \/ Reconnect PROVE [ConnNext]_connVars
  BY <1>3, OneFlusher DEF Shipping, Reconnect, ConnNext
<1>4. ASSUME NEW s \in Syncers, SyncCall(s) \/ SyncSkip(s) PROVE [ConnNext]_connVars
  BY <1>4 DEF SyncCall, SyncSkip
<1>5. ASSUME NEW k \in Closers, Close(k) PROVE [ConnNext]_connVars
  BY <1>5 DEF Close, CloseBarrier, CloseJoin, ConnNext
<1>6. CASE Done \/ UNCHANGED vars
  BY <1>6 DEF Done, vars
<1> QED
  BY <1>1, <1>2, <1>3, <1>4, <1>5, <1>6 DEF Next

-----------------------------------------------------------------------------
(***************************************************************************)
(* Every step preserves the invariant.                                     *)
(***************************************************************************)
LEMMA AsyncStep == ConnInv /\ ConnInv' /\ AsyncInv /\ [Next]_vars => AsyncInv'
<1> SUFFICES ASSUME ConnInv, ConnInv', AsyncInv, [Next]_vars PROVE AsyncInv'
  OBVIOUS
<1> USE BufferAssumption, BatchAssumption, OneFlusher DEF AsyncInv
<1>0. ConnTypeOK' /\ (done => closed)
  BY DEF ConnInv, CloseInv
<1>1. ASSUME NEW l \in Logs, Write(l) PROVE AsyncInv'
  BY <1>0, <1>1 DEF Write, TypeOK, WritePcs, InGate, BatchInv, GateInv, ShipInv,
     ExitInv, JoinInv, queueVars, syncVars, connVars, shipVars, closeVars
<1>2. ASSUME NEW l \in Logs, writeAsync(l) PROVE AsyncInv'
  <2>1. /\ UNCHANGED <<allButDropped, batch, flushPc, reason, syncVars>>
        /\ written' \in [Logs -> WritePcs]
        /\ done => written[l] = "encoded" /\ closed
    BY <1>0, <1>2 DEF writeAsync, Gate, Enqueue, Evict, Reenqueue, queueVars,
       TypeOK, WritePcs, GateInv, InGate
  <2>2. /\ queue' \in Seq(Logs) /\ Len(queue') <= BufferSize
        /\ done => queue' = queue
    <3>1. \/ queue' = queue
          \/ Len(queue) < BufferSize /\ queue' = Append(queue, l)
          \/ queue # <<>> /\ queue' = Tail(queue)
      BY <1>2 DEF writeAsync, Gate, Enqueue, Evict, Reenqueue, queueVars
    <3>2. written[l] = "encoded" => queue' = queue
      BY <1>2 DEF writeAsync, Gate, Enqueue, Evict, Reenqueue, queueVars
    <3>3. queue \in Seq(Logs) /\ Len(queue) \in Nat /\ Len(queue) <= BufferSize
      BY DEF TypeOK
    <3>4. CASE queue' = queue
      BY <3>3, <3>4
    <3>5. CASE Len(queue) < BufferSize /\ queue' = Append(queue, l)
      BY <2>1, <3>2, <3>3, <3>5, AppendLen
    <3>6. CASE queue # <<>> /\ queue' = Tail(queue)
      BY <2>1, <3>2, <3>3, <3>6, TailSeq
    <3> QED
      BY <3>1, <3>4, <3>5, <3>6
  <2>3. TypeOK'
    BY <1>0, <2>1, <2>2 DEF TypeOK, syncVars
  <2>4. GateInv'
    BY <1>2, <2>1 DEF GateInv, writeAsync, Gate, Enqueue, Evict, Reenqueue,
       InGate, allButDropped, closeVars, TypeOK
  <2>5. (BatchInv /\ ShipInv /\ ExitInv /\ JoinInv)'
    BY <2>1, <2>2 DEF BatchInv, ShipInv, ExitInv, JoinInv, allButDropped, closeVars
  <2> QED
    BY <2>3, <2>4, <2>5
<1>3. ASSUME flushLoop PROVE AsyncInv'
  <2> USE DEF connVars, shipVars, closeVars, syncVars
  <2>0. flushPc # "exited"
    BY <1>3 DEF flushLoop, SelectDone, SelectSync, SelectTick, SelectQueue, Drain,
       Drained, Flush, FlushFrameError, FlushReturn, FlushNothing
  <2>1. /\ written' = written /\ done' = done /\ closePc' = closePc
        /\ owed' = owed /\ dropOldest' = dropOldest
    BY <1>3 DEF flushLoop, SelectDone, SelectSync, SelectTick, SelectQueue, Drain,
       Flush, FlushFrameError, FlushReturn, FlushNothing, allButDropped
  <2>2. GateInv' /\ JoinInv'
    BY <2>0, <2>1 DEF GateInv, JoinInv
  <2>3. ASSUME SelectDone \/ SelectTick \/ \E s \in Syncers : SelectSync(s)
        PROVE  AsyncInv'
    BY <1>0, <2>1, <2>2, <2>3 DEF SelectDone, SelectTick, SelectSync, Serve, TypeOK,
       BatchInv, ShipInv, ExitInv
  <2>4. ASSUME SelectQueue \/ Drain PROVE AsyncInv'
    <3>1. /\ batch' \in Seq(Logs) /\ Len(batch') <= BatchSize
          /\ queue' \in Seq(Logs) /\ Len(queue') <= BufferSize
      <4>1. /\ queue # <<>> /\ queue' = Tail(queue)
            /\ batch' = Append(batch, Head(queue)) /\ Len(batch) < BatchSize
        BY <2>4 DEF SelectQueue, Drain, BatchInv
      <4>2. Len(queue) \in Nat /\ Len(batch) \in Nat
        BY DEF TypeOK
      <4> QED
        BY <4>1, <4>2, TailSeq, AppendLen DEF TypeOK
    <3> QED
      BY <1>0, <2>1, <2>2, <2>4, <3>1 DEF SelectQueue, Drain, Serve, TypeOK,
         BatchInv, ShipInv, ExitInv
  <2>5. ASSUME Flush PROVE AsyncInv'
    <3>1. /\ batch' = <<>> /\ flushPc' = "shipping" /\ shipPc'[flusher] = "getConn"
          /\ UNCHANGED <<queue, reason, syncPc>> /\ flushPc = "drain"
      BY <2>5 DEF Flush, Ship, Drained, ConnInv, ConnTypeOK
    <3> QED
      BY <1>0, <2>1, <2>2, <3>1, EmptySeq DEF TypeOK, BatchInv, ShipInv, ExitInv
  <2>6. ASSUME FlushFrameError PROVE AsyncInv'
    <3>1. /\ batch' = <<>> /\ flushPc' \in {"drain", "select"} /\ flushPc = "drain"
          /\ UNCHANGED <<queue, reason, syncPc, shipPc, frame>>
      BY <2>6 DEF FlushFrameError, AfterFlush, Drained, allButDropped
    <3> QED
      BY <1>0, <2>1, <2>2, <3>1, EmptySeq DEF TypeOK, BatchInv, ShipInv, ExitInv
  <2>7. ASSUME FlushReturn PROVE AsyncInv'
    BY <1>0, <2>1, <2>2, <2>7 DEF FlushReturn, AfterFlush, TypeOK, BatchInv,
       ShipInv, ExitInv
  <2>8. ASSUME FlushNothing PROVE AsyncInv'
    <3>1. syncPc' \in [Syncers -> {"idle", "request", "waiting", "acked", "skipped"}]
      BY <2>8 DEF FlushNothing, TypeOK
    <3>2. /\ flushPc = "drain" /\ UNCHANGED <<queue, batch, reason, shipPc, frame>>
          /\ flushPc' \in {"exited", "select"}
          /\ flushPc' = "select" => Len(batch) < BatchSize
          /\ flushPc' = "exited" => reason = "done" /\ batch = <<>> /\ queue = <<>>
      BY <2>8 DEF FlushNothing, Drained, FlushDue, TypeOK
    <3> QED
      BY <1>0, <2>1, <2>2, <3>1, <3>2 DEF TypeOK, BatchInv, ShipInv, ExitInv
  <2> QED
    BY <1>3, <2>3, <2>4, <2>5, <2>6, <2>7, <2>8 DEF flushLoop
<1>4. ASSUME Shipping PROVE AsyncInv'
  <2>1. UNCHANGED <<appVars, closed, done, closePc>>
    BY <1>4 DEF Shipping, writeFrame, GetConn, DropNoConn, LockWriteMu, WriteOk,
       WriteFail, Discard, CloseFailed, TriggerAfterError, closeVars
  <2>2. flushPc = "shipping"
    BY <1>4 DEF Shipping, writeFrame, GetConn, DropNoConn, LockWriteMu, WriteOk,
       WriteFail, Discard, CloseFailed, TriggerAfterError, ShipInv
  <2>3. shipPc'[flusher] \in {"idle", "closeFailed", "trigger"} => frame'[flusher] = <<>>
    BY <1>4 DEF Shipping, writeFrame, GetConn, DropNoConn, LockWriteMu, WriteOk,
       WriteFail, Discard, CloseFailed, TriggerAfterError, Return, ShipInv, ConnInv,
       ConnTypeOK
  <2> QED
    BY <1>0, <2>1, <2>2, <2>3 DEF appVars, queueVars, syncVars, TypeOK, BatchInv,
       GateInv, ShipInv, ExitInv, JoinInv
<1>5. ASSUME Reconnect PROVE AsyncInv'
  <2>1. UNCHANGED <<appVars, shipPc, frame, closed, done, closePc>>
    BY <1>5 DEF Reconnect, reconnectLoop, LoopSignal, LoopStop, LoopCheck,
       LoopAttempt, LoopDialFail, LoopDialOk, LoopInstall, LoopCloseNew,
       LoopBackoff, shipVars, closeVars
  <2> QED
    BY <1>0, <2>1 DEF appVars, queueVars, syncVars, TypeOK, BatchInv, GateInv,
       ShipInv, ExitInv, JoinInv
<1>6. ASSUME NEW s \in Syncers, SyncCall(s) \/ SyncSkip(s) PROVE AsyncInv'
  <2>1. UNCHANGED <<connVars, written, queueVars, dropOldest>>
    BY <1>6 DEF SyncCall, SyncSkip
  <2>2. /\ syncPc' \in [Syncers -> {"idle", "request", "waiting", "acked", "skipped"}]
        /\ owed' \in [Syncers -> SUBSET Logs]
    BY <1>6 DEF SyncCall, SyncSkip, TypeOK
  <2> QED
    BY <1>0, <2>1, <2>2 DEF connVars, shipVars, closeVars, queueVars, TypeOK,
       BatchInv, GateInv, ShipInv, ExitInv, JoinInv
<1>7. ASSUME NEW k \in Closers, Close(k) PROVE AsyncInv'
  <2>1. UNCHANGED <<appVars, shipPc, frame>>
    BY <1>7 DEF Close, CloseCall, CloseBarrier, CloseStop, CloseJoin, CloseTake,
       CloseConn, appVars, shipVars
  <2>2. (TypeOK /\ BatchInv /\ ShipInv)'
    BY <1>0, <2>1 DEF appVars, queueVars, syncVars, TypeOK, BatchInv, ShipInv
  <2>3. done' => done \/ \A l \in Logs : written[l] \notin InGate
    BY <1>7 DEF Close, CloseCall, CloseBarrier, CloseStop, CloseJoin, CloseTake,
       CloseConn
  <2>4. done => done'
    BY <1>7 DEF Close, CloseCall, CloseBarrier, CloseStop, CloseJoin, CloseTake,
       CloseConn
  <2>5. (GateInv /\ ExitInv)'
    BY <2>1, <2>3, <2>4 DEF appVars, queueVars, GateInv, ExitInv
  <2>6. JoinInv'
    BY <1>7, <2>1 DEF Close, CloseCall, CloseBarrier, CloseStop, CloseJoin,
       CloseTake, CloseConn, JoinInv, ConnInv, ConnTypeOK, ClosePcs, appVars, queueVars
  <2> QED
    BY <2>2, <2>5, <2>6
<1>8. CASE Done \/ UNCHANGED vars
  BY <1>0, <1>8 DEF Done, vars, connVars, shipVars, closeVars, queueVars, syncVars,
     TypeOK, BatchInv, GateInv, ShipInv, ExitInv, JoinInv
<1> QED
  BY <1>1, <1>2, <1>3, <1>4, <1>5, <1>6, <1>7, <1>8 DEF Next

LEMMA AsyncInvHolds == Spec => [](ConnInv /\ AsyncInv)
<1>1. Init => ConnInv /\ AsyncInv
  BY InitInv, AsyncInit DEF Init
<1>2. (ConnInv /\ AsyncInv) /\ [Next]_vars => (ConnInv /\ AsyncInv)'
  BY StepRefines, StepInv, AsyncStep DEF AsyncInv
<1> QED
  BY <1>1, <1>2, PTL DEF Spec

-----------------------------------------------------------------------------
\* The state of the asynchronous Writer is well typed; in particular neither
\* the queue nor a batch ever exceeds its configured bound.
THEOREM AsyncTypeCorrect == Spec => []TypeOK
<1>1. AsyncInv => TypeOK
  BY DEF AsyncInv
<1> QED
  BY <1>1, AsyncInvHolds, PTL

\* The asynchronous Writer uses its connection manager as ConnManager allows.
THEOREM ImplementsConnManager == Spec => ConnSpec
<1>1. Init => ConnInit
  BY DEF Init
<1>2. AsyncInv /\ [Next]_vars => [ConnNext]_connVars
  BY StepRefines DEF AsyncInv
<1> QED
  BY <1>1, <1>2, AsyncInvHolds, PTL DEF Spec, ConnSpec

\* The safety of the connection, whatever flushLoop, the writers and Close do.
THEOREM AsyncConnSafe ==
  Spec => [](ConnOwnedOnce /\ NeverReplacesLive /\ NoLostWakeup /\ NoConnAfterClose)
  BY ImplementsConnManager, OwnedOnce, NoReplacement, WakeupKept, TeardownFinal, PTL

\* The asynchronous Writer never writes behind a torn frame.
THEOREM AsyncTornIsLast == Spec => []NoWriteAfterTear
  BY ImplementsConnManager, TornIsLast, OneFlusher, PTL

\* When Close tears the connection down nothing is queued, batched or being
\* shipped, and nothing will be.
THEOREM DrainedWhenTornDown == Spec => []DrainedAtTeardown
<1>1. AsyncInv => DrainedAtTeardown
  BY DEF AsyncInv, DrainedAtTeardown, JoinInv, ExitInv, BatchInv, ShipInv
<1> QED
  BY <1>1, AsyncInvHolds, PTL


-----------------------------------------------------------------------------
(***************************************************************************)
(* The pipe: the logs between enqueue and their outcome.  The sections     *)
(* below follow a log through it, for the ledger and for Sync.             *)
(***************************************************************************)
InPipe(l) == l \in Range(queue) \cup Range(batch) \cup Range(frame[flusher])

OnItsWay(l) == written[l] \in InGate \cup {"encoded"} \/ InPipe(l)

Taken == WritePcs \ {"new", "errored", "discarded"}

\* Every log in the pipe was put there by its Write call, which has returned,
\* and is in one place only.
PlaceInv ==
    /\ \A l \in Logs : InPipe(l) => written[l] = "accepted"
    /\ IsInjective(queue) /\ IsInjective(batch) /\ IsInjective(frame[flusher])
    /\ Range(queue) \cap Range(batch) = {}
    /\ Range(queue) \cap Range(frame[flusher]) = {}
    /\ Range(batch) \cap Range(frame[flusher]) = {}

\* What reached the peer in a whole frame has left the pipe.
WireInv == \A l \in Logs : Delivered(l) => written[l] = "accepted" /\ ~InPipe(l)

\* What an acknowledged Sync waited for has left the pipe.
BarrierInv ==
    \A s \in Syncers : \A l \in owed[s] :
      written[l] = "accepted" /\ (syncPc[s] = "acked" => ~InPipe(l))

PipeInv == ConnInv /\ AsyncInv /\ PlaceInv /\ WireInv /\ BarrierInv

LEMMA PipeTypes ==
  ASSUME TypeOK
  PROVE  /\ queue \in Seq(Logs) /\ batch \in Seq(Logs) /\ frame[flusher] \in Seq(Logs)
         /\ droppedLogs \in Nat
  BY OneFlusher DEF TypeOK, ConnTypeOK

LEMMA PendingIsOnItsWay ==
  ASSUME TypeOK, NEW l \in Logs
  PROVE  Pending(l) <=> OnItsWay(l)
<1>1. /\ Contains(queue, l) <=> l \in Range(queue)
      /\ Contains(batch, l) <=> l \in Range(batch)
      /\ Contains(frame[flusher], l) <=> l \in Range(frame[flusher])
  BY PipeTypes, ContainsIsInRange
<1> QED
  BY <1>1 DEF Pending, OnItsWay, InPipe

\* A frame at the end of a wire delivers its logs, if it is whole.
LEMMA DeliveredNext ==
  ASSUME ConnTypeOK, NEW c \in Conns, NEW f \in Seq(Logs), NEW b \in BOOLEAN,
         wire' = [wire EXCEPT ![c] = Append(@, [logs |-> f, whole |-> b])],
         NEW l \in Logs
  PROVE  Delivered(l)' <=> Delivered(l) \/ (b /\ l \in Range(f))
<1> DEFINE n == Len(wire[c])
           r == [logs |-> f, whole |-> b]
           Has(g) == g.whole /\ Contains(g.logs, l)
<1>1. r \in Frame
  BY DEF Frame
<1>2. /\ n \in Nat /\ Len(wire'[c]) = n + 1 /\ wire'[c][n + 1] = r
      /\ \A i \in 1..n : wire'[c][i] = wire[c][i]
  BY <1>1 DEF ConnTypeOK
<1>3. \A d \in Conns \ {c} : wire'[d] = wire[d]
  BY DEF ConnTypeOK
<1>4. Has(r) <=> b /\ l \in Range(f)
  BY ContainsIsInRange
<1>5. Delivered(l) <=> \E d \in Conns : \E i \in 1..Len(wire[d]) : Has(wire[d][i])
  BY DEF Delivered
<1>6. Delivered(l)' <=> \E d \in Conns : \E i \in 1..Len(wire'[d]) : Has(wire'[d][i])
  BY DEF Delivered
<1> HIDE DEF r, Has
<1>7. (\E i \in 1..Len(wire'[c]) : Has(wire'[c][i]))
        <=> (\E i \in 1..n : Has(wire[c][i])) \/ Has(r)
  <2> HIDE DEF n
  <2>1. \A i \in 1..(n + 1) : i \in 1..n \/ i = n + 1
    BY <1>2
  <2>2. \A i \in 1..n : i \in 1..(n + 1)
    BY <1>2
  <2>3. n + 1 \in 1..(n + 1)
    BY <1>2
  <2> QED
    BY <1>2, <2>1, <2>2, <2>3
<1> QED
  BY <1>3, <1>4, <1>5, <1>6, <1>7 DEF n

LEMMA DeliveredKept ==
  ASSUME wire' = wire, NEW l PROVE Delivered(l)' <=> Delivered(l)
  BY DEF Delivered

-----------------------------------------------------------------------------
(***************************************************************************)
(* What a step does to the logs on their way: those in D are delivered,    *)
(* those in X dropped and counted, every other log stays what it is.       *)
(***************************************************************************)
Passes(D, X) ==
    /\ D \cap X = {}
    /\ \A l \in D \cup X : OnItsWay(l)
    /\ \A l \in Logs : OnItsWay(l)' <=> OnItsWay(l) /\ l \notin D \cup X
    /\ \A l \in Logs : Delivered(l)' <=> Delivered(l) \/ l \in D
    /\ \A l \in Logs : written'[l] = written[l]
                       \/ (written[l] \in Taken \ {"accepted"} /\ written'[l] \in Taken)
    /\ droppedLogs' = droppedLogs + Cardinality(X)

PassesSome == \E D, X \in SUBSET Logs : Passes(D, X)

LEMMA PassesNone ==
  ASSUME TypeOK, \A l \in Logs : InPipe(l)' <=> InPipe(l), UNCHANGED <<written, wire, droppedLogs>>
  PROVE  PassesSome
<1>1. Passes({}, {})
  <2>1. \A l \in Logs : Delivered(l)' <=> Delivered(l)
    BY DeliveredKept
  <2>2. droppedLogs' = droppedLogs + Cardinality({})
    BY PipeTypes, FS_EmptySet
  <2> QED
    BY <2>1, <2>2 DEF Passes, OnItsWay
<1>2. {} \in SUBSET Logs
  OBVIOUS
<1> QED
  BY <1>1, <1>2 DEF PassesSome

\* The logs of a sequence leave the pipe uncounted for by the wire.
LEMMA PassesDrop ==
  ASSUME TypeOK, NEW f \in Seq(Logs), IsInjective(f),
         \A l \in Range(f) : InPipe(l),
         \A l \in Logs : InPipe(l)' <=> InPipe(l) /\ l \notin Range(f),
         \A l \in Range(f) : written[l] = "accepted",
         UNCHANGED <<written, wire>>, droppedLogs' = droppedLogs + Len(f)
  PROVE  PassesSome
<1>1. Cardinality(Range(f)) = Len(f) /\ Range(f) \in SUBSET Logs
  BY InjectiveCount, RangeEquality
<1>2. \A l \in Logs : Delivered(l)' <=> Delivered(l)
  BY DeliveredKept
<1>3. Passes({}, Range(f))
  BY <1>1, <1>2 DEF Passes, OnItsWay, InGate
<1>4. {} \in SUBSET Logs
  OBVIOUS
<1> QED
  BY <1>1, <1>3, <1>4 DEF PassesSome

\* flushLoop moves the head of the queue to the batch.
LEMMA HeadMoves ==
  ASSUME TypeOK, PlaceInv, queue # <<>>, batch' = Append(batch, Head(queue)),
         queue' = Tail(queue), frame'[flusher] = frame[flusher], written' = written
  PROVE  PlaceInv' /\ \A l \in Logs : InPipe(l)' <=> InPipe(l)
<1>1. PICK h \in Logs : h = Head(queue)
  BY PipeTypes, HeadTailProperties
<1>2. /\ h \in Range(queue) /\ Range(queue) = Range(queue') \cup {h}
      /\ IsInjective(queue') /\ h \notin Range(queue')
  BY <1>1, PipeTypes, RangeOfTail, InjectiveTail DEF PlaceInv
<1>3. Range(batch') = Range(batch) \cup {h}
  BY <1>1, PipeTypes, RangeOfAppend
<1>4. IsInjective(batch')
  <2>1. h \notin Range(batch) /\ IsInjective(batch)
    BY <1>2 DEF PlaceInv
  <2> QED
    BY <1>1, <2>1, PipeTypes, InjectiveAppend
<1>5. \A l \in Logs : InPipe(l)' <=> InPipe(l)
  BY <1>2, <1>3 DEF InPipe
<1> QED
  BY <1>2, <1>3, <1>4, <1>5 DEF PlaceInv

\* The steps of flushLoop that move or drop logs.
LEMMA FlushEffect ==
  ASSUME ConnInv, AsyncInv, PlaceInv, SelectQueue \/ Drain \/ Flush \/ FlushFrameError
  PROVE  PlaceInv' /\ PassesSome
<1> USE DEF AsyncInv
<1>1. CASE SelectQueue \/ Drain
  <2>1. /\ queue # <<>> /\ batch' = Append(batch, Head(queue)) /\ queue' = Tail(queue)
        /\ UNCHANGED <<frame, written, wire, droppedLogs>>
    BY <1>1 DEF SelectQueue, Drain, connVars, shipVars, netVars
  <2> QED
    BY <2>1, HeadMoves, PassesNone
<1>2. CASE Flush
  <2>1. /\ frame'[flusher] = batch /\ batch' = <<>> /\ frame[flusher] = <<>>
        /\ UNCHANGED <<queue, written, wire, droppedLogs>>
    BY <1>2, OneFlusher DEF Flush, Ship, ShipInv, netVars, ConnInv, ConnTypeOK
  <2>2. \A l \in Logs : InPipe(l)' <=> InPipe(l)
    BY <2>1, RangeOfEmpty DEF InPipe
  <2>3. PlaceInv'
    BY <2>1, <2>2, RangeOfEmpty, InjectiveEmpty DEF PlaceInv
  <2> QED
    BY <2>1, <2>2, <2>3, PassesNone
<1>3. CASE FlushFrameError
  <2>1. /\ batch' = <<>> /\ droppedLogs' = droppedLogs + Len(batch)
        /\ UNCHANGED <<queue, frame, written, wire>>
    BY <1>3 DEF FlushFrameError, allButDropped, netVars
  <2>2. \A l \in Logs : InPipe(l)' <=> InPipe(l) /\ l \notin Range(batch)
    BY <2>1, RangeOfEmpty DEF InPipe, PlaceInv
  <2>3. PlaceInv'
    BY <2>1, <2>2, RangeOfEmpty, InjectiveEmpty DEF PlaceInv
  <2>4. Range(batch) \subseteq Logs
    BY PipeTypes, RangeEquality
  <2>5. \A l \in Range(batch) : InPipe(l) /\ written[l] = "accepted"
    BY <2>4 DEF InPipe, PlaceInv
  <2>6. IsInjective(batch)
    BY DEF PlaceInv
  <2> QED
    BY <2>1, <2>2, <2>3, <2>5, <2>6, PipeTypes, PassesDrop
<1> QED
  BY <1>1, <1>2, <1>3

\* The steps of writeFrame.
LEMMA ShippingEffect ==
  ASSUME ConnInv, AsyncInv, PlaceInv, Shipping
  PROVE  PlaceInv' /\ PassesSome /\ closed' = closed
<1> USE OneFlusher DEF AsyncInv
<1> DEFINE f == frame[flusher]
<1>1. UNCHANGED <<appVars, closed>>
  BY DEF Shipping, writeFrame, GetConn, DropNoConn, LockWriteMu, WriteOk, WriteFail,
     Discard, CloseFailed, TriggerAfterError, closeVars
<1>2. UNCHANGED <<written, queue, batch>>
  BY <1>1 DEF appVars, queueVars
<1>3. f \in Seq(Logs) /\ IsInjective(f) /\ Range(f) \subseteq Logs
      /\ (\A l \in Range(f) : InPipe(l) /\ written[l] = "accepted")
  BY PipeTypes, RangeEquality DEF PlaceInv, InPipe
<1>4. ASSUME frame'[flusher] = <<>>
      PROVE  PlaceInv' /\ \A l \in Logs : InPipe(l)' <=> InPipe(l) /\ l \notin Range(f)
  <2>1. \A l \in Logs : InPipe(l)' <=> InPipe(l) /\ l \notin Range(f)
    BY <1>2, <1>4, RangeOfEmpty DEF InPipe, PlaceInv
  <2> QED
    BY <1>2, <1>4, <2>1, RangeOfEmpty, InjectiveEmpty DEF PlaceInv
<1>5. ASSUME frame'[flusher] = f
      PROVE  PlaceInv' /\ \A l \in Logs : InPipe(l)' <=> InPipe(l)
  <2>1. \A l \in Logs : InPipe(l)' <=> InPipe(l)
    BY <1>2, <1>5 DEF InPipe
  <2> QED
    BY <1>2, <1>5, <2>1 DEF PlaceInv
<1>6. ConnTypeOK /\ shipPc \in [Shippers -> ShipPcs]
  BY DEF ConnInv, ConnTypeOK
<1>7. CASE GetConn(flusher) \/ LockWriteMu(flusher) \/ CloseFailed(flusher)
  <2>1. UNCHANGED <<frame, wire, droppedLogs>>
    BY <1>7 DEF GetConn, LockWriteMu, CloseFailed, netVars
  <2> QED
    BY <1>1, <1>2, <1>5, <2>1, PassesNone
<1>8. CASE TriggerAfterError(flusher)
  <2>1. frame'[flusher] = <<>> /\ f = <<>> /\ UNCHANGED <<wire, droppedLogs>>
    BY <1>6, <1>8 DEF TriggerAfterError, Return, ShipInv, netVars, ConnTypeOK
  <2> QED
    BY <1>1, <1>2, <1>5, <2>1, PassesNone
<1>9. CASE DropNoConn(flusher) \/ Discard(flusher)
  <2>1. frame'[flusher] = <<>> /\ droppedLogs' = droppedLogs + Len(f) /\ wire' = wire
    BY <1>6, <1>9 DEF DropNoConn, Discard, Return, netVars, ConnTypeOK
  <2> HIDE DEF f
  <2> QED
    BY <1>1, <1>2, <1>3, <1>4, <2>1, PassesDrop
<1>10. CASE WriteFail(flusher)
  <2>1. UNCHANGED <<frame, droppedLogs>> /\ held[flusher] \in Conns
    BY <1>6, <1>10 DEF WriteFail, ConnInv, HeldInv, ConnTypeOK
  <2>2. CASE wire' = wire
    BY <1>1, <1>2, <1>5, <2>1, <2>2, PassesNone
  <2>3. CASE wire' = [wire EXCEPT ![held[flusher]] = Append(@, [logs |-> f, whole |-> FALSE])]
    <3>1. FALSE \in BOOLEAN
      OBVIOUS
    <3>2. \A l \in Logs : Delivered(l)' <=> Delivered(l) \/ (FALSE /\ l \in Range(f))
      <4> HIDE DEF f
      <4> QED
        BY <1>3, <1>6, <2>1, <2>3, <3>1, DeliveredNext
    <3>3. droppedLogs' = droppedLogs + Cardinality({}) /\ {} \in SUBSET Logs
      BY <2>1, PipeTypes, FS_EmptySet
    <3>4. Passes({}, {})
      BY <1>2, <1>5, <2>1, <3>2, <3>3 DEF Passes, OnItsWay
    <3> QED
      BY <1>1, <1>5, <2>1, <3>3, <3>4 DEF PassesSome
  <2> QED
    BY <1>10, <2>2, <2>3 DEF WriteFail
<1>11. CASE WriteOk(flusher)
  <2>1. /\ frame'[flusher] = <<>> /\ droppedLogs' = droppedLogs /\ held[flusher] \in Conns
        /\ wire' = [wire EXCEPT ![held[flusher]] = Append(@, [logs |-> f, whole |-> TRUE])]
    BY <1>6, <1>11 DEF WriteOk, Return, ConnInv, HeldInv, ConnTypeOK
  <2>2. TRUE \in BOOLEAN
    OBVIOUS
  <2> HIDE DEF f
  <2>3. \A l \in Logs : Delivered(l)' <=> Delivered(l) \/ (TRUE /\ l \in Range(f))
    BY <1>3, <1>6, <2>1, <2>2, DeliveredNext
  <2>4. droppedLogs' = droppedLogs + Cardinality({}) /\ {} \in SUBSET Logs
    BY <2>1, PipeTypes, FS_EmptySet
  <2>5. Passes(Range(f), {})
    BY <1>2, <1>3, <1>4, <2>1, <2>3, <2>4 DEF Passes, OnItsWay, InGate
  <2> QED
    BY <1>1, <1>3, <1>4, <2>1, <2>4, <2>5 DEF PassesSome
<1> QED
  BY <1>7, <1>8, <1>9, <1>10, <1>11 DEF Shipping, writeFrame

\* The steps of writeAsync and enqueue.
LEMMA WritingEffect ==
  ASSUME AsyncInv, PlaceInv, NEW p \in Logs, writeAsync(p)
  PROVE  PlaceInv' /\ PassesSome
<1> USE DEF AsyncInv
<1>1. UNCHANGED <<wire, batch, frame>>
  BY DEF writeAsync, Gate, Enqueue, Evict, Reenqueue, queueVars, allButDropped, netVars
<1>2. /\ written \in [Logs -> WritePcs] /\ written[p] \in InGate \cup {"encoded"}
      /\ written'[p] \in InGate \cup {"accepted"}
      /\ \A l \in Logs \ {p} : written'[l] = written[l]
  BY DEF writeAsync, Gate, Enqueue, Evict, Reenqueue, TypeOK, InGate
<1>3. ~InPipe(p)
  BY <1>2 DEF PlaceInv, InGate
<1>4. \A l \in Logs : Delivered(l)' <=> Delivered(l)
  BY <1>1, DeliveredKept
<1>5. \A l \in Logs : written'[l] = written[l]
                      \/ (written[l] \in Taken \ {"accepted"} /\ written'[l] \in Taken)
  BY <1>2 DEF Taken, WritePcs, InGate
<1>6. \/ queue' = queue /\ written'[p] \in InGate /\ droppedLogs' = droppedLogs
      \/ queue' = Append(queue, p) /\ written'[p] = "accepted" /\ droppedLogs' = droppedLogs
      \/ queue' = queue /\ written'[p] = "accepted" /\ droppedLogs' = droppedLogs + 1
      \/ /\ queue # <<>> /\ queue' = Tail(queue) /\ written'[p] = "resend"
         /\ droppedLogs' = droppedLogs + 1
  BY DEF writeAsync, Gate, Enqueue, Evict, Reenqueue, queueVars, TypeOK, InGate
<1>7. ASSUME queue' = queue
      PROVE  PlaceInv' /\ \A l \in Logs : InPipe(l)' <=> InPipe(l)
  <2>1. \A l \in Logs : InPipe(l)' <=> InPipe(l)
    BY <1>1, <1>7 DEF InPipe
  <2> QED
    BY <1>1, <1>2, <1>3, <1>7, <2>1 DEF PlaceInv
<1>8. /\ Cardinality({}) = 0 /\ \A e : Cardinality({e}) = 1
      /\ {} \in SUBSET Logs /\ \A l \in Logs : {l} \in SUBSET Logs
  BY FS_EmptySet, FS_Singleton
<1>9. CASE queue' = queue /\ written'[p] \in InGate /\ droppedLogs' = droppedLogs
  <2>1. Passes({}, {})
    BY <1>2, <1>4, <1>5, <1>7, <1>8, <1>9, PipeTypes DEF Passes, OnItsWay
  <2> QED
    BY <1>7, <1>8, <1>9, <2>1 DEF PassesSome
<1>10. CASE queue' = Append(queue, p) /\ written'[p] = "accepted" /\ droppedLogs' = droppedLogs
  <2>1. Range(queue') = Range(queue) \cup {p}
    BY <1>10, PipeTypes, RangeOfAppend
  <2>2. \A l \in Logs : InPipe(l)' <=> InPipe(l) \/ l = p
    BY <1>1, <2>1 DEF InPipe
  <2>3. IsInjective(queue')
    <3>1. IsInjective(queue) /\ p \notin Range(queue)
      BY <1>3 DEF PlaceInv, InPipe
    <3> QED
      BY <1>10, <3>1, PipeTypes, InjectiveAppend
  <2>4. PlaceInv'
    BY <1>1, <1>2, <1>3, <1>10, <2>1, <2>2, <2>3 DEF PlaceInv, InPipe
  <2>5. Passes({}, {})
    BY <1>2, <1>4, <1>5, <1>8, <1>10, <2>2, PipeTypes DEF Passes, OnItsWay
  <2> QED
    BY <1>8, <2>4, <2>5 DEF PassesSome
<1>11. CASE queue' = queue /\ written'[p] = "accepted" /\ droppedLogs' = droppedLogs + 1
  <2>1. Passes({}, {p})
    BY <1>2, <1>3, <1>4, <1>5, <1>7, <1>8, <1>11 DEF Passes, OnItsWay, InGate
  <2> QED
    BY <1>7, <1>8, <1>11, <2>1 DEF PassesSome
<1>12. CASE /\ queue # <<>> /\ queue' = Tail(queue) /\ written'[p] = "resend"
            /\ droppedLogs' = droppedLogs + 1
  <2>1. PICK h \in Logs : h = Head(queue)
    BY <1>12, PipeTypes, HeadTailProperties
  <2>2. /\ h \in Range(queue) /\ Range(queue) = Range(queue') \cup {h}
        /\ IsInjective(queue') /\ h \notin Range(queue')
    BY <1>12, <2>1, PipeTypes, RangeOfTail, InjectiveTail DEF PlaceInv
  <2>3. h \notin Range(batch) \cup Range(frame[flusher]) /\ InPipe(h)
        /\ written[h] = "accepted"
    BY <2>2 DEF PlaceInv, InPipe
  <2>4. \A l \in Logs : InPipe(l)' <=> InPipe(l) /\ l # h
    BY <1>1, <2>2, <2>3 DEF InPipe
  <2>5. PlaceInv'
    BY <1>1, <1>2, <1>3, <2>2, <2>4 DEF PlaceInv
  <2>6. Passes({}, {h})
    BY <1>2, <1>3, <1>4, <1>5, <1>8, <1>12, <2>3, <2>4 DEF Passes, OnItsWay, InGate
  <2> QED
    BY <1>8, <2>5, <2>6 DEF PassesSome
<1> QED
  BY <1>6, <1>9, <1>10, <1>11, <1>12

LEMMA QuietEffect ==
  ASSUME AsyncInv, PlaceInv, UNCHANGED <<written, queue, batch, frame, wire, droppedLogs>>
  PROVE  PlaceInv' /\ PassesSome
<1>1. \A l \in Logs : InPipe(l)' <=> InPipe(l)
  BY DEF InPipe
<1>2. PlaceInv'
  BY <1>1 DEF PlaceInv
<1> QED
  BY <1>1, <1>2, PassesNone DEF AsyncInv

\* Every step but those of the Write and Close calls passes logs along.
LEMMA StepEffect ==
  ASSUME ConnInv, AsyncInv, PlaceInv,
         \/ (\E p \in Logs : writeAsync(p)) \/ flushLoop \/ Shipping \/ Reconnect
         \/ (\E s \in Syncers : SyncCall(s) \/ SyncSkip(s))
         \/ (\E k \in Closers : Close(k))
         \/ Done \/ UNCHANGED vars
  PROVE  /\ PlaceInv' /\ PassesSome
         /\ closed' = closed \/ \E k \in Closers : Close(k)
<1> USE DEF connVars, shipVars, netVars, closeVars, queueVars
<1>1. ASSUME NEW p \in Logs, writeAsync(p) PROVE PlaceInv' /\ PassesSome /\ closed' = closed
  <2>1. closed' = closed
    BY <1>1 DEF writeAsync, Gate, Enqueue, Evict, Reenqueue, allButDropped
  <2> QED
    BY <1>1, <2>1, WritingEffect
<1>2. CASE flushLoop
  <2>1. closed' = closed
    BY <1>2 DEF flushLoop, SelectDone, SelectSync, SelectTick, SelectQueue, Drain, Flush,
       FlushFrameError, FlushReturn, FlushNothing, allButDropped
  <2>2. CASE SelectQueue \/ Drain \/ Flush \/ FlushFrameError
    BY <2>1, <2>2, FlushEffect
  <2>3. CASE SelectDone \/ (\E s \in Syncers : SelectSync(s)) \/ SelectTick
             \/ FlushReturn \/ FlushNothing
    <3>1. UNCHANGED <<written, queue, batch, frame, wire, droppedLogs>>
      BY <2>3 DEF SelectDone, SelectSync, SelectTick, FlushReturn, FlushNothing
    <3> QED
      BY <2>1, <3>1, QuietEffect
  <2> QED
    BY <1>2, <2>2, <2>3 DEF flushLoop
<1>3. CASE Reconnect
  <2>1. UNCHANGED <<written, queue, batch, frame, wire, droppedLogs, closed>>
    BY <1>3 DEF Reconnect, reconnectLoop, LoopSignal, LoopStop, LoopCheck, LoopAttempt,
       LoopDialFail, LoopDialOk, LoopInstall, LoopCloseNew, LoopBackoff, appVars
  <2> QED
    BY <2>1, QuietEffect
<1>4. CASE (\E s \in Syncers : SyncCall(s) \/ SyncSkip(s)) \/ Done \/ UNCHANGED vars
  <2>1. UNCHANGED <<written, queue, batch, frame, wire, droppedLogs, closed>>
    BY <1>4 DEF SyncCall, SyncSkip, Done, vars
  <2> QED
    BY <2>1, QuietEffect
<1>5. ASSUME NEW k \in Closers, Close(k) PROVE PlaceInv' /\ PassesSome
  <2>1. UNCHANGED <<written, queue, batch, frame, wire, droppedLogs>>
    BY <1>5 DEF Close, CloseCall, CloseBarrier, CloseStop, CloseJoin, CloseTake, CloseConn
  <2> QED
    BY <2>1, QuietEffect
<1> QED
  BY <1>1, <1>2, <1>3, <1>4, <1>5, ShippingEffect

\* A log that is out of the pipe stays out, and what is delivered is.
LEMMA PassesKeeps ==
  ASSUME AsyncInv, PlaceInv, WireInv, AsyncInv', PlaceInv', PassesSome
  PROVE  /\ WireInv'
         /\ \A l \in Logs : written[l] = "accepted" =>
              written'[l] = "accepted" /\ (~InPipe(l) => ~InPipe(l)')
<1>1. PICK D \in SUBSET Logs, X \in SUBSET Logs : Passes(D, X)
  BY DEF PassesSome
<1>2. ASSUME NEW l \in Logs, written[l] = "accepted"
      PROVE  written'[l] = "accepted" /\ (~InPipe(l) => ~InPipe(l)')
  BY <1>1, <1>2 DEF Passes, OnItsWay, InGate
<1>3. ASSUME NEW l \in Logs, l \in D PROVE written'[l] = "accepted" /\ ~InPipe(l)'
  BY <1>1, <1>3 DEF Passes, OnItsWay, InGate, Taken, WritePcs, PlaceInv
<1>4. WireInv'
  BY <1>1, <1>2, <1>3 DEF WireInv, Passes
<1> QED
  BY <1>2, <1>4

LEMMA PipeStep == PipeInv /\ ConnInv' /\ AsyncInv' /\ [Next]_vars => PipeInv'
<1> SUFFICES ASSUME PipeInv, ConnInv', AsyncInv', [Next]_vars
             PROVE  PlaceInv' /\ WireInv' /\ BarrierInv'
  BY DEF PipeInv
<1> USE DEF PipeInv
<1>1. ASSUME NEW p \in Logs, Write(p) PROVE PlaceInv' /\ WireInv' /\ BarrierInv'
  <2>1. UNCHANGED <<queue, batch, frame, wire, owed, syncPc>>
    BY <1>1 DEF Write, connVars, shipVars, netVars, queueVars, syncVars
  <2>2. \A l \in Logs : (InPipe(l)' <=> InPipe(l)) /\ (Delivered(l)' <=> Delivered(l))
    BY <2>1, DeliveredKept DEF InPipe
  <2>3. \A l \in Logs : written[l] = "accepted" => written'[l] = "accepted"
    BY <1>1 DEF Write, AsyncInv, TypeOK
  <2>4. \A s \in Syncers : owed[s] \subseteq Logs
    BY DEF AsyncInv, TypeOK
  <2>5. PlaceInv'
    BY <2>1, <2>2, <2>3 DEF PlaceInv
  <2> QED
    BY <2>1, <2>2, <2>3, <2>4, <2>5 DEF WireInv, BarrierInv
<1>2. ASSUME PlaceInv', PassesSome, owed' = owed,
             \A s \in Syncers : syncPc'[s] = "acked" => syncPc[s] = "acked"
      PROVE  PlaceInv' /\ WireInv' /\ BarrierInv'
  <2>1. /\ WireInv'
        /\ \A l \in Logs : written[l] = "accepted" =>
             written'[l] = "accepted" /\ (~InPipe(l) => ~InPipe(l)')
    BY <1>2, PassesKeeps
  <2>2. \A s \in Syncers : owed[s] \subseteq Logs
    BY DEF AsyncInv, TypeOK
  <2> QED
    BY <1>2, <2>1, <2>2 DEF BarrierInv
<1>3. CASE (\E p \in Logs : writeAsync(p)) \/ Shipping \/ Reconnect
           \/ (\E s \in Syncers : SyncSkip(s)) \/ (\E k \in Closers : Close(k))
           \/ Done \/ UNCHANGED vars
  <2>1. /\ owed' = owed
        /\ \A s \in Syncers : syncPc'[s] = "acked" => syncPc[s] = "acked"
    BY <1>3 DEF writeAsync, Gate, Enqueue, Evict, Reenqueue, Shipping, Reconnect, SyncSkip,
       Close, Done, vars, appVars, syncVars, AsyncInv, TypeOK
  <2>2. PlaceInv' /\ PassesSome
    BY <1>3, StepEffect
  <2> QED
    BY <1>2, <2>1, <2>2
<1>4. CASE flushLoop /\ ~FlushNothing
  <2>1. /\ owed' = owed
        /\ \A s \in Syncers : syncPc'[s] = "acked" => syncPc[s] = "acked"
    BY <1>4 DEF flushLoop, SelectDone, SelectSync, SelectTick, SelectQueue, Drain, Flush,
       FlushFrameError, FlushReturn, syncVars, AsyncInv, TypeOK
  <2>2. PlaceInv' /\ PassesSome
    BY <1>4, StepEffect
  <2> QED
    BY <1>2, <2>1, <2>2
\* The acknowledgement: flushLoop has nothing left in its hands.
<1>5. CASE FlushNothing
  <2>1. /\ owed' = owed
        /\ UNCHANGED <<written, queue, batch, frame, wire, droppedLogs>>
        /\ \/ \A s \in Syncers : syncPc'[s] = "acked" => syncPc[s] = "acked"
           \/ reason = "sync"
    BY <1>5 DEF FlushNothing, connVars, shipVars, netVars
  <2>2. PlaceInv' /\ PassesSome
    BY <2>1, QuietEffect
  <2>3. CASE reason = "sync"
    <3>1. batch = <<>> /\ queue = <<>> /\ frame[flusher] = <<>>
      BY <1>5, <2>3, BatchAssumption DEF FlushNothing, Drained, FlushDue, AsyncInv, ShipInv,
         TypeOK
    <3>2. \A l \in Logs : ~InPipe(l)'
      BY <2>1, <3>1, RangeOfEmpty DEF InPipe
    <3>3. WireInv'
      BY <2>2, PassesKeeps
    <3>4. \A s \in Syncers : owed[s] \subseteq Logs
      BY DEF AsyncInv, TypeOK
    <3> QED
      BY <2>1, <2>2, <3>2, <3>3, <3>4 DEF BarrierInv
  <2> QED
    BY <1>2, <2>1, <2>2, <2>3
<1>6. ASSUME NEW s \in Syncers, SyncCall(s) PROVE PlaceInv' /\ WireInv' /\ BarrierInv'
  <2>1. PlaceInv' /\ PassesSome
    BY <1>6, StepEffect
  <2>2. WireInv'
    BY <2>1, PassesKeeps
  <2>3. /\ UNCHANGED <<written, queue, batch, frame>> /\ syncPc'[s] # "acked"
        /\ owed'[s] = {l \in Logs : written[l] = "accepted"}
        /\ \A t \in Syncers \ {s} : owed'[t] = owed[t] /\ syncPc'[t] = syncPc[t]
    BY <1>6 DEF SyncCall, connVars, shipVars, queueVars, AsyncInv, TypeOK
  <2>4. \A l \in Logs : InPipe(l)' <=> InPipe(l)
    BY <2>3 DEF InPipe
  <2>5. \A t \in Syncers : owed[t] \subseteq Logs
    BY DEF AsyncInv, TypeOK
  <2> QED
    BY <2>1, <2>2, <2>3, <2>4, <2>5 DEF BarrierInv
<1> QED
  BY <1>1, <1>3, <1>4, <1>5, <1>6 DEF Next

LEMMA PipeInit == Init => PipeInv
<1> SUFFICES ASSUME Init PROVE PipeInv
  OBVIOUS
<1>1. queue = <<>> /\ batch = <<>> /\ frame[flusher] = <<>>
  BY OneFlusher DEF Init, ConnInit
<1>2. PlaceInv
  BY <1>1, RangeOfEmpty, InjectiveEmpty DEF PlaceInv, InPipe
<1>3. \A l \in Logs : ~Delivered(l)
  <2>1. \A c \in Conns : wire[c] = <<>> /\ Len(wire[c]) = 0
    BY EmptySeq DEF Init, ConnInit
  <2> QED
    BY <2>1 DEF Delivered
<1>4. WireInv /\ BarrierInv
  BY <1>3 DEF WireInv, BarrierInv, Init
<1> QED
  BY <1>2, <1>4, InitInv, AsyncInit DEF PipeInv, Init

LEMMA PipeInvHolds == Spec => []PipeInv
<1>1. PipeInv /\ [Next]_vars => PipeInv'
  BY StepRefines, StepInv, AsyncStep, PipeStep DEF PipeInv, AsyncInv
<1> QED
  BY <1>1, PipeInit, PTL DEF Spec

\* When Sync returns because its flush was acknowledged, no log whose Write
\* had returned before the call is still queued, batched or being shipped.
THEOREM SyncFlushes == Spec => []SyncIsBarrier
<1>1. PipeInv => SyncIsBarrier
  <2> SUFFICES ASSUME PipeInv, NEW s \in Syncers, syncPc[s] = "acked", NEW l \in owed[s]
               PROVE  ~Pending(l)
    BY DEF SyncIsBarrier
  <2>1. l \in Logs /\ TypeOK
    BY DEF PipeInv, AsyncInv, TypeOK
  <2> QED
    BY <2>1, PendingIsOnItsWay DEF PipeInv, BarrierInv, OnItsWay, InGate
<1> QED
  BY <1>1, PipeInvHolds, PTL

-----------------------------------------------------------------------------
(***************************************************************************)
(* The refinement.  Under the invariant the cases of fate exclude each     *)
(* other, and fate is a table.                                             *)
(***************************************************************************)
Untaken == {"new", "errored", "discarded"}

FateTable ==
    /\ fate = [l \in Logs |-> IF written[l] \in Untaken THEN written[l]
                              ELSE IF OnItsWay(l) THEN "pending"
                              ELSE IF Delivered(l) THEN "delivered" ELSE "dropped"]
    /\ \A l \in Logs : Delivered(l) => ~OnItsWay(l) /\ written[l] \notin Untaken

LEMMA FateOf == PipeInv => FateTable
<1> SUFFICES ASSUME PipeInv PROVE FateTable
  OBVIOUS
<1>0. \A l \in Logs : /\ Pending(l) <=> OnItsWay(l)
                      /\ Delivered(l) => ~OnItsWay(l) /\ written[l] \notin Untaken
                      /\ OnItsWay(l) => written[l] \notin Untaken
  BY PendingIsOnItsWay DEF PipeInv, AsyncInv, WireInv, PlaceInv, OnItsWay, InGate, Untaken
<1>1. ASSUME NEW l \in Logs
      PROVE  fate[l] = IF written[l] \in Untaken THEN written[l]
                       ELSE IF OnItsWay(l) THEN "pending"
                       ELSE IF Delivered(l) THEN "delivered" ELSE "dropped"
  <2> DEFINE w == written[l] \in Untaken
             p == Pending(l)
             d == Delivered(l)
  <2>1. fate[l] = CASE w -> written[l] [] p -> "pending" [] d -> "delivered"
                    [] OTHER -> "dropped"
    BY DEF fate, Untaken
  <2>2. ~(w /\ p) /\ ~(w /\ d) /\ ~(p /\ d)
    BY <1>0
  <2> HIDE DEF w, p, d
  <2>3. fate[l] = IF w THEN written[l] ELSE IF p THEN "pending"
                  ELSE IF d THEN "delivered" ELSE "dropped"
    BY <2>1, <2>2
  <2> QED
    BY <1>0, <2>3 DEF w, p, d
<1>2. fate = [l \in Logs |-> fate[l]]
  BY DEF fate
<1> HIDE DEF fate
<1> QED
  BY <1>0, <1>1, <1>2 DEF FateTable

LEMMA FateOfNext == PipeInv' => FateTable'
  BY FateOf, PTL

\* The ledger counts with its own instance of FiniteSets.
LEMMA SameCount ==
  ASSUME NEW X
  PROVE  Ledger!Cardinality(X) = Cardinality(X)
  BY Zenon DEF Ledger!Cardinality, Cardinality

\* A step that passes logs along settles them in the ledger.
LEMMA PassesSettles ==
  ASSUME PipeInv, FateTable, FateTable', PassesSome
  PROVE  \E D, X \in SUBSET Logs : closed' = closed => Ledger!Settle(D, X)
<1>1. PICK D \in SUBSET Logs, X \in SUBSET Logs : Passes(D, X)
  BY DEF PassesSome
<1> HIDE DEF fate
<1>2. \A l \in Logs : /\ written[l] \in Untaken <=> written'[l] \in Untaken
                      /\ written[l] \in Untaken => written'[l] = written[l]
  BY <1>1 DEF Passes, Taken, Untaken
<1>3. \A l \in D \cup X : OnItsWay(l) /\ written[l] \notin Untaken /\ fate[l] = "pending"
  <2>1. \A l \in D \cup X : OnItsWay(l) /\ l \in Logs
    BY <1>1 DEF Passes
  <2>2. \A l \in D \cup X : written[l] \notin Untaken
    BY <2>1 DEF PipeInv, PlaceInv, Untaken, OnItsWay, InGate
  <2> QED
    BY <2>1, <2>2 DEF FateTable
<1>4. ASSUME NEW l \in Logs
      PROVE  fate'[l] = IF l \in D THEN "delivered" ELSE IF l \in X THEN "dropped" ELSE fate[l]
  <2>1. /\ OnItsWay(l)' <=> OnItsWay(l) /\ l \notin D \cup X
        /\ Delivered(l)' <=> Delivered(l) \/ l \in D
    BY <1>1 DEF Passes
  <2>2. fate[l] = IF written[l] \in Untaken THEN written[l]
                  ELSE IF OnItsWay(l) THEN "pending"
                  ELSE IF Delivered(l) THEN "delivered" ELSE "dropped"
    BY DEF FateTable
  <2>3. fate'[l] = IF written'[l] \in Untaken THEN written'[l]
                   ELSE IF OnItsWay(l)' THEN "pending"
                   ELSE IF Delivered(l)' THEN "delivered" ELSE "dropped"
    BY DEF FateTable
  <2>4. Delivered(l) => ~OnItsWay(l)
    BY DEF FateTable
  <2>5. CASE l \in D \cup X
    BY <1>2, <1>3, <2>1, <2>3, <2>4, <2>5
  <2>6. CASE l \notin D \cup X
    BY <1>2, <2>1, <2>2, <2>3, <2>6
  <2> QED
    BY <2>5, <2>6
<1>5. fate' = [l \in Logs |-> IF l \in D THEN "delivered"
                              ELSE IF l \in X THEN "dropped" ELSE fate[l]]
  <2>1. fate' = [l \in Logs |-> fate'[l]]
    BY DEF FateTable
  <2> QED
    BY <1>4, <2>1
<1>6. closed' = closed => Ledger!Settle(D, X)
  BY <1>1, <1>3, <1>5, SameCount DEF Ledger!Settle, Passes
<1> QED
  BY <1>6

LEMMA LedgerStep ==
  PipeInv /\ PipeInv' /\ [Next]_vars => [Ledger!LedgerNext]_Ledger!ledgerVars
<1> SUFFICES ASSUME PipeInv, PipeInv', [Next]_vars
             PROVE  [Ledger!LedgerNext]_Ledger!ledgerVars
  OBVIOUS
<1>0. FateTable /\ FateTable'
  BY FateOf, FateOfNext
<1> HIDE DEF fate
<1>1. ASSUME NEW p \in Logs, Write(p) PROVE [Ledger!LedgerNext]_Ledger!ledgerVars
  <2>1. /\ written[p] = "new" /\ UNCHANGED <<closed, droppedLogs, wire, queue, batch, frame>>
        /\ \A l \in Logs \ {p} : written'[l] = written[l]
        /\ \/ closed /\ written'[p] = "discarded"
           \/ ~closed /\ written'[p] = "errored"
           \/ ~closed /\ written'[p] = "encoded"
    BY <1>1 DEF Write, connVars, shipVars, netVars, closeVars, queueVars, PipeInv, AsyncInv,
       TypeOK
  <2>2. \A l \in Logs : (InPipe(l)' <=> InPipe(l)) /\ (Delivered(l)' <=> Delivered(l))
    BY <2>1, DeliveredKept DEF InPipe
  <2>3. fate[p] = "new" /\ fate'[p] = IF written'[p] = "encoded" THEN "pending" ELSE written'[p]
    BY <1>0, <2>1 DEF FateTable, Untaken, OnItsWay
  <2>4. \A l \in Logs \ {p} : fate'[l] = fate[l]
    BY <1>0, <2>1, <2>2 DEF FateTable, OnItsWay
  <2>5. fate' = [l \in Logs |-> IF l \in {p} THEN fate'[p] ELSE fate[l]]
    <3>1. fate' = [l \in Logs |-> fate'[l]]
      BY <1>0 DEF FateTable
    <3> QED
      BY <2>4, <3>1
  <2>6. Ledger!Accept(p) \/ Ledger!Error(p) \/ Ledger!Ignore(p)
    BY <2>1, <2>3, <2>5 DEF Ledger!Accept, Ledger!Error, Ledger!Ignore, Ledger!Become
  <2> QED
    BY <2>6 DEF Ledger!LedgerNext
<1>2. ASSUME PassesSome, closed' = closed PROVE Ledger!LedgerNext
  BY <1>0, <1>2, PassesSettles DEF Ledger!LedgerNext
<1>3. ASSUME NEW k \in Closers, Close(k) PROVE [Ledger!LedgerNext]_Ledger!ledgerVars
  <2>1. /\ UNCHANGED <<written, queue, batch, frame, wire, droppedLogs>>
        /\ closed' = closed \/ (closed = FALSE /\ closed' = TRUE)
    BY <1>3 DEF Close, CloseCall, CloseBarrier, CloseStop, CloseJoin, CloseTake, CloseConn,
       shipVars, netVars, queueVars, PipeInv, ConnInv, ConnTypeOK
  <2>2. fate' = fate
    BY <2>1 DEF fate, Pending, Delivered
  <2>3. CASE closed' = closed
    BY <2>1, <2>2, <2>3 DEF Ledger!ledgerVars
  <2>4. CASE closed = FALSE /\ closed' = TRUE
    BY <2>1, <2>2, <2>4 DEF Ledger!Shut, Ledger!LedgerNext
  <2> QED
    BY <2>1, <2>3, <2>4
<1>4. CASE \/ (\E p \in Logs : writeAsync(p)) \/ flushLoop \/ Shipping \/ Reconnect
           \/ (\E s \in Syncers : SyncCall(s) \/ SyncSkip(s))
           \/ Done \/ UNCHANGED vars
  <2>1. PassesSome /\ (closed' = closed \/ \E k \in Closers : Close(k))
    BY <1>4, StepEffect DEF PipeInv
  <2> QED
    BY <1>2, <1>3, <2>1
<1> QED
  BY <1>1, <1>3, <1>4 DEF Next

\* The asynchronous Writer keeps the ledger: a log that Write took is
\* delivered whole in one frame or counted by DroppedLogs, once and never
\* both, with either drop policy and for any sizes of queue and batch.
THEOREM KeepsLedger == Spec => ImplementsLedger
<1>1. Init => Ledger!LedgerInit
  <2> SUFFICES ASSUME Init PROVE Ledger!LedgerInit
    OBVIOUS
  <2>1. FateTable
    BY PipeInit, FateOf
  <2>2. fate = [l \in Logs |-> "new"]
    BY <2>1 DEF FateTable, Init, Untaken
  <2>3. droppedLogs = 0 /\ closed = FALSE
    BY DEF Init, ConnInit
  <2> QED
    BY <2>2, <2>3 DEF Ledger!LedgerInit
<1> QED
  BY <1>1, LedgerStep, PipeInvHolds, PTL DEF Spec, ImplementsLedger, Ledger!LedgerSpec

\* A step of the ledger keeps the counter: only a settlement changes which
\* logs are dropped.
LEMMA CountStep ==
  ASSUME IsFiniteSet(Logs), Ledger!CountIsExact, [Ledger!LedgerNext]_(Ledger!ledgerVars)
  PROVE  Ledger!CountIsExact'
<1> DEFINE Lost(f) == {l \in Logs : f[l] = "dropped"}
<1>1. \A X : Ledger!Cardinality(X) = Cardinality(X)
  BY Zenon DEF Cardinality, Ledger!Cardinality
<1>2. droppedLogs = Cardinality(Lost(fate))
  BY <1>1 DEF Ledger!CountIsExact
<1>3. SUFFICES droppedLogs' = Cardinality(Lost(fate'))
  BY <1>1 DEF Ledger!CountIsExact
<1>4. ASSUME NEW D \in SUBSET Logs, NEW X \in SUBSET Logs, Ledger!Settle(D, X)
      PROVE  droppedLogs' = Cardinality(Lost(fate'))
  <2>1. Cardinality(Lost(fate')) = Cardinality(Lost(fate)) + Cardinality(X)
    <3>1. Lost(fate') = Lost(fate) \cup X /\ Lost(fate) \cap X = {}
      BY <1>4 DEF Ledger!Settle
    <3>2. Lost(fate) \in SUBSET Logs
      OBVIOUS
    <3> HIDE DEF Lost
    <3> QED
      BY <3>1, <3>2, DisjointUnion
  <2>2. droppedLogs' = droppedLogs + Cardinality(X)
    BY <1>1, <1>4 DEF Ledger!Settle
  <2> QED
    BY <1>2, <2>1, <2>2
<1>5. ASSUME Lost(fate') = Lost(fate), droppedLogs' = droppedLogs
      PROVE  droppedLogs' = Cardinality(Lost(fate'))
  BY <1>2, <1>5
<1>6. ASSUME NEW l \in Logs, Ledger!Accept(l) \/ Ledger!Error(l) \/ Ledger!Ignore(l)
      PROVE  droppedLogs' = Cardinality(Lost(fate'))
  BY <1>5, <1>6 DEF Ledger!Accept, Ledger!Error, Ledger!Ignore, Ledger!Become
<1>7. CASE Ledger!Shut \/ UNCHANGED Ledger!ledgerVars
  BY <1>5, <1>7 DEF Ledger!Shut, Ledger!ledgerVars
<1> QED
  BY <1>4, <1>6, <1>7 DEF Ledger!LedgerNext

\* DroppedLogs is, at every moment, the number of logs that were given up.
LEMMA LedgerCounts ==
  ASSUME IsFiniteSet(Logs)
  PROVE  Ledger!LedgerSpec => []Ledger!CountIsExact
<1>1. Ledger!LedgerInit => Ledger!CountIsExact
  <2>1. \A X : Ledger!Cardinality(X) = Cardinality(X)
    BY Zenon DEF Cardinality, Ledger!Cardinality
  <2>2. Ledger!LedgerInit => {l \in Logs : fate[l] = "dropped"} = {} /\ droppedLogs = 0
    BY DEF Ledger!LedgerInit
  <2> QED
    BY <2>1, <2>2, FS_EmptySet DEF Ledger!CountIsExact
<1> QED
  BY <1>1, CountStep, PTL DEF Ledger!LedgerSpec

\* DroppedLogs is the number of logs that Write took and that were lost, to a
\* full queue, a framing or write error, a missing connection or Close.
THEOREM DroppedLogsExact ==
  ASSUME IsFiniteSet(Logs)
  PROVE  Spec => []Ledger!CountIsExact
  BY KeepsLedger, LedgerCounts, PTL DEF ImplementsLedger

-----------------------------------------------------------------------------
(***************************************************************************)
(* The order of delivery.  The pipeline is a row: what the wires carried,  *)
(* the frame being shipped, the batch and the queue.                       *)
(***************************************************************************)
Payload(e) == IF e.whole THEN e.logs ELSE <<>>

Payloads(s) == [i \in 1..Len(s) |-> IF s[i].whole THEN s[i].logs ELSE <<>>]

CarriedBy(s) == FlattenSeq(Payloads(s))

\* What the wires carried whole, in the order in which they were dialed.
Sent(w) == FlattenSeq([c \in Conns |-> CarriedBy(w[c])])

LEMMA PayloadsType ==
  ASSUME NEW s \in Seq(Frame)
  PROVE  /\ Payloads(s) \in Seq(Seq(Logs)) /\ Len(Payloads(s)) = Len(s)
         /\ \A i \in 1..Len(s) : Payloads(s)[i] = Payload(s[i])
<1>1. Len(s) \in Nat /\ \A i \in 1..Len(s) : s[i] \in Frame
  BY LenProperties
<1>2. <<>> \in Seq(Logs)
  OBVIOUS
<1>3. \A e \in Frame : Payload(e) \in Seq(Logs)
  BY <1>2 DEF Payload, Frame
<1>4. \A i \in 1..Len(s) : Payloads(s)[i] = Payload(s[i])
  BY DEF Payloads, Payload
<1>5. \A i \in 1..Len(s) : Payloads(s)[i] \in Seq(Logs)
  BY <1>1, <1>3, <1>4
<1>6. Payloads(s) = [i \in 1..Len(s) |-> Payloads(s)[i]]
  BY DEF Payloads
<1>7. Payloads(s) \in Seq(Seq(Logs)) /\ Len(Payloads(s)) = Len(s)
  BY <1>1, <1>5, <1>6, IsASeq
<1> QED
  BY <1>4, <1>7

LEMMA CarriedAppend ==
  ASSUME NEW s \in Seq(Frame), NEW e \in Frame
  PROVE  /\ CarriedBy(s) \in Seq(Logs) /\ Payload(e) \in Seq(Logs)
         /\ CarriedBy(Append(s, e)) = CarriedBy(s) \o Payload(e)
<1>1. /\ Append(s, e) \in Seq(Frame) /\ Len(Append(s, e)) = Len(s) + 1
      /\ Len(s) \in Nat
      /\ \A i \in 1..Len(s) : Append(s, e)[i] = s[i]
      /\ Append(s, e)[Len(s) + 1] = e
  BY AppendProperties, LenProperties
<1>2. PICK t \in Seq(Frame) : t = Append(s, e)
  BY <1>1
<1>3. PICK u \in Seq(Seq(Logs)) :
        u = Payloads(s) /\ Len(u) = Len(s) /\ \A i \in 1..Len(s) : u[i] = Payload(s[i])
  BY PayloadsType
<1>4. PICK v \in Seq(Seq(Logs)) :
        v = Payloads(t) /\ Len(v) = Len(t) /\ \A i \in 1..Len(t) : v[i] = Payload(t[i])
  BY PayloadsType
<1>5. PICK x \in Seq(Logs) : x = Payload(e)
  <2>1. <<>> \in Seq(Logs)
    OBVIOUS
  <2> QED
    BY <2>1 DEF Payload, Frame
<1>6. \A i \in 1..Len(s) : i \in 1..Len(t) /\ t[i] = s[i]
  BY <1>1, <1>2
<1>7. FlattenSeq(v) = FlattenSeq(u) \o x /\ FlattenSeq(u) \in Seq(Logs)
  <2>1. /\ Len(u) = Len(s) /\ Len(v) = Len(s) + 1 /\ Len(s) + 1 \in 1..Len(t)
        /\ t[Len(s) + 1] = e
    BY <1>1, <1>2, <1>3, <1>4
  <2>2. v[Len(u) + 1] = x
    BY <1>4, <1>5, <2>1
  <2>3. \A i \in 1..Len(u) : v[i] = u[i]
    BY <1>3, <1>4, <1>6, <2>1
  <2> QED
    BY <2>1, <2>2, <2>3, FlattenGrows, FlattenType
<1> QED
  BY <1>2, <1>3, <1>4, <1>5, <1>7, Zenon DEF CarriedBy

LEMMA CarriedType ==
  ASSUME NEW s \in Seq(Frame)
  PROVE  /\ CarriedBy(s) \in Seq(Logs)
         /\ \A l \in Range(CarriedBy(s)) :
              \E i \in 1..Len(s) : s[i].whole /\ l \in Range(s[i].logs)
<1>1. PICK u \in Seq(Seq(Logs)) :
        u = Payloads(s) /\ Len(u) = Len(s) /\ \A i \in 1..Len(s) : u[i] = Payload(s[i])
  BY PayloadsType
<1>2. /\ FlattenSeq(u) \in Seq(Logs)
      /\ \A l \in Range(FlattenSeq(u)) : \E i \in 1..Len(u) : l \in Range(u[i])
  BY FlattenType
<1>3. ASSUME NEW i \in 1..Len(u), NEW l \in Range(u[i])
      PROVE  i \in 1..Len(s) /\ s[i].whole /\ l \in Range(s[i].logs)
  <2>1. i \in 1..Len(s) /\ l \in Range(Payload(s[i]))
    BY <1>1, <1>3
  <2>2. s[i].whole
    BY <2>1, RangeOfEmpty DEF Payload
  <2> QED
    BY <2>1, <2>2 DEF Payload
<1> QED
  BY <1>1, <1>2, <1>3 DEF CarriedBy

\* The wires one after the other.
LEMMA SentAsSeq ==
  ASSUME NEW w \in [Conns -> Seq(Frame)]
  PROVE  \E s \in Seq(Seq(Logs)) :
           /\ Sent(w) = FlattenSeq(s) /\ Len(s) = MaxDials
           /\ \A c \in Conns : s[c] = CarriedBy(w[c])
<1> DEFINE s == [c \in Conns |-> CarriedBy(w[c])]
<1>1. \A c \in Conns : CarriedBy(w[c]) \in Seq(Logs)
  BY CarriedType
<1>2. s = [c \in 1..MaxDials |-> s[c]] /\ \A c \in 1..MaxDials : s[c] \in Seq(Logs)
  BY <1>1 DEF Conns
<1>3. Sent(w) = FlattenSeq(s) /\ \A c \in Conns : s[c] = CarriedBy(w[c])
  BY DEF Sent
<1> HIDE DEF s
<1>4. s \in Seq(Seq(Logs)) /\ Len(s) = MaxDials
  BY <1>2, DialsAssumption, IsASeq
<1> QED
  BY <1>3, <1>4

LEMMA SentLogs ==
  ASSUME PipeInv
  PROVE  /\ Sent(wire) \in Seq(Logs)
         /\ \A l \in Range(Sent(wire)) : written[l] = "accepted"
<1>1. wire \in [Conns -> Seq(Frame)]
  BY DEF PipeInv, ConnInv, ConnTypeOK
<1>2. PICK s \in Seq(Seq(Logs)) :
        /\ Sent(wire) = FlattenSeq(s) /\ Len(s) = MaxDials
        /\ \A c \in Conns : s[c] = CarriedBy(wire[c])
  BY <1>1, SentAsSeq
<1>3. /\ FlattenSeq(s) \in Seq(Logs)
      /\ \A l \in Range(FlattenSeq(s)) : \E c \in 1..Len(s) : l \in Range(s[c])
  BY FlattenType
<1>4. ASSUME NEW c \in Conns, NEW l \in Range(CarriedBy(wire[c]))
      PROVE  written[l] = "accepted"
  <2>1. PICK i \in 1..Len(wire[c]) : wire[c][i].whole /\ l \in Range(wire[c][i].logs)
    BY <1>1, CarriedType
  <2>2. wire[c][i].logs \in Seq(Logs)
    <3>1. wire[c] \in Seq(Frame)
      BY <1>1
    <3>2. wire[c][i] \in Frame
      BY <3>1, ElementOfSeq
    <3> QED
      BY <3>2 DEF Frame
  <2>3. l \in Logs /\ Contains(wire[c][i].logs, l)
    BY <2>1, <2>2, ContainsIsInRange, RangeEquality
  <2> QED
    BY <2>1, <2>3 DEF PipeInv, WireInv, Delivered
<1> QED
  BY <1>2, <1>3, <1>4 DEF Conns

\* A frame written while all wires behind are empty comes last.
LEMMA SentGrows ==
  ASSUME NEW w \in [Conns -> Seq(Frame)], NEW v \in [Conns -> Seq(Frame)],
         NEW c \in Conns, NEW e \in Frame, v[c] = Append(w[c], e),
         \A b \in Conns : b # c => v[b] = w[b],
         \A b \in Conns : b > c => w[b] = <<>>
  PROVE  Sent(v) = Sent(w) \o Payload(e)
<1>1. PICK s \in Seq(Seq(Logs)) :
        /\ Sent(w) = FlattenSeq(s) /\ Len(s) = MaxDials
        /\ \A b \in Conns : s[b] = CarriedBy(w[b])
  BY SentAsSeq
<1>2. PICK t \in Seq(Seq(Logs)) :
        /\ Sent(v) = FlattenSeq(t) /\ Len(t) = MaxDials
        /\ \A b \in Conns : t[b] = CarriedBy(v[b])
  BY SentAsSeq
<1>3. PICK x \in Seq(Logs) : x = Payload(e)
  BY EmptySeq DEF Payload, Frame
<1>4. t[c] = s[c] \o x
  BY <1>1, <1>2, <1>3, CarriedAppend
<1>5. CarriedBy(<<>>) = <<>>
  <2>1. Payloads(<<>>) = <<>>
    BY PayloadsType, EmptySeq
  <2> QED
    BY <2>1, FlattenEmpty DEF CarriedBy
<1>6. /\ MaxDials \in Nat /\ c \in 1..MaxDials
      /\ \A i \in 1..MaxDials : i # c => t[i] = s[i]
      /\ \A i \in 1..MaxDials : i > c => s[i] = <<>>
  BY <1>1, <1>2, <1>5, DialsAssumption DEF Conns
<1>7. FlattenSeq(t) = FlattenSeq(s) \o x
  <2>1. Touches(s, t, MaxDials, c, x)
    BY <1>1, <1>2, <1>4, <1>6 DEF Touches
  <2> QED
    BY <1>6, <2>1, FlattenTouch
<1> QED
  BY <1>1, <1>2, <1>3, <1>7

LEMMA PipelineIsRow ==
  /\ Pipeline = Row(Sent(wire), frame[flusher], batch, queue)
  /\ Pipeline' = Row(Sent(wire'), frame'[flusher], batch', queue')
  BY DEF Pipeline, Row, Sent, Carried, CarriedBy, Payloads

LEMMA Stations ==
  ASSUME PipeInv
  PROVE  \E h, f, b, q \in Seq(Logs) :
           /\ h = Sent(wire) /\ f = frame[flusher] /\ b = batch /\ q = queue
           /\ \A l \in Range(h) \cup Range(f) \cup Range(b) \cup Range(q) :
                l \in Logs => written[l] = "accepted"
<1>1. TypeOK
  BY DEF PipeInv, AsyncInv
<1> QED
  BY <1>1, PipeTypes, SentLogs DEF PipeInv, PlaceInv, InPipe

LEMMA OrderKept ==
  ASSUME UNCHANGED <<wire, batch, queue>>, frame'[flusher] = frame[flusher]
  PROVE  Keeps(Pipeline, Pipeline')
<1>1. Pipeline' = Pipeline
  BY PipelineIsRow
<1> QED
  BY <1>1, KeepsSame

LEMMA WriteOrder ==
  ASSUME PipeInv, NEW l \in Logs, writeAsync(l)
  PROVE  Keeps(Pipeline, Pipeline')
<1>1. /\ UNCHANGED <<wire, batch, frame>>
      /\ written[l] # "accepted"
      /\ \/ queue' = queue
         \/ queue # <<>> /\ queue' = Tail(queue)
         \/ queue' = Append(queue, l)
  BY DEF writeAsync, Gate, Enqueue, Evict, Reenqueue, queueVars, allButDropped, netVars
<1>2. PICK h \in Seq(Logs), f \in Seq(Logs), b \in Seq(Logs), q \in Seq(Logs) :
        /\ h = Sent(wire) /\ f = frame[flusher] /\ b = batch /\ q = queue
        /\ l \notin Range(h) \cup Range(f) \cup Range(b) \cup Range(q)
  BY <1>1, Stations
<1>3. Pipeline = Row(h, f, b, q) /\ Pipeline' = Row(h, f, b, queue')
  BY <1>1, <1>2, PipelineIsRow
<1>4. CASE queue' = queue
  BY <1>1, <1>4, OrderKept
<1>5. CASE queue # <<>> /\ queue' = Tail(queue)
  <2>1. Keeps(Row(h, f, b, q), Row(h, f, b, Tail(q)))
    BY <1>2, <1>5, RowCut
  <2> QED
    BY <1>2, <1>3, <1>5, <2>1
<1>6. CASE queue' = Append(queue, l)
  <2>1. PICK r : r = queue' /\ Enters(q, l, r)
    BY <1>2, <1>6 DEF Enters
  <2>2. Keeps(Row(h, f, b, q), Row(h, f, b, r))
    BY <1>2, <2>1, KeepsEnter
  <2> QED
    BY <1>3, <2>1, <2>2
<1> QED
  BY <1>1, <1>4, <1>5, <1>6

LEMMA FlushOrder ==
  ASSUME PipeInv, SelectQueue \/ Drain \/ Flush \/ FlushFrameError
  PROVE  Keeps(Pipeline, Pipeline')
<1> USE DEF PipeInv, AsyncInv
<1>1. PICK h \in Seq(Logs), f \in Seq(Logs), b \in Seq(Logs), q \in Seq(Logs) :
        h = Sent(wire) /\ f = frame[flusher] /\ b = batch /\ q = queue
  BY Stations
<1>2. CASE SelectQueue \/ Drain
  <2>1. /\ queue # <<>> /\ batch' = Append(batch, Head(queue)) /\ queue' = Tail(queue)
        /\ UNCHANGED <<frame, wire>>
    BY <1>2 DEF SelectQueue, Drain, connVars, shipVars, netVars
  <2>2. PICK x, t : x = batch' /\ t = queue' /\ Moves(b, q, x, t)
    BY <1>1, <2>1 DEF Moves
  <2>3. Row(h, f, x, t) = Row(h, f, b, q)
    BY <2>2, RowMove
  <2>4. Pipeline = Row(h, f, b, q) /\ Pipeline' = Row(h, f, x, t)
    BY <1>1, <2>1, <2>2, PipelineIsRow, Zenon
  <2> QED
    BY <2>3, <2>4, KeepsSame
<1>3. CASE Flush \/ FlushFrameError
  <2>1. /\ batch' = <<>> /\ frame[flusher] = <<>> /\ frame'[flusher] \in {b, <<>>}
        /\ UNCHANGED <<wire, queue>>
    BY <1>1, <1>3, OneFlusher DEF Flush, FlushFrameError, Drained, Ship, ShipInv, netVars,
       allButDropped, ConnInv, ConnTypeOK
  <2>2. Row(h, <<>>, b, q) = Row(h, b, <<>>, q)
    BY RowShift
  <2>3. Pipeline = Row(h, b, <<>>, q) /\ Pipeline' = Row(h, frame'[flusher], <<>>, q)
    BY <1>1, <2>1, <2>2, PipelineIsRow
  <2>4. CASE frame'[flusher] = b
    BY <2>3, <2>4, KeepsSame
  <2>5. CASE frame'[flusher] = <<>>
    <3>1. PICK n \in Seq(Logs) : n = <<>>
      BY EmptySeq
    <3>2. Keeps(Row(h, b, n, q), Row(h, <<>>, n, q))
      BY RowCut
    <3> QED
      BY <2>3, <2>5, <3>1, <3>2
  <2> QED
    BY <2>1, <2>4, <2>5
<1> QED
  BY <1>2, <1>3

LEMMA ShippingOrder ==
  ASSUME PipeInv, NewestInv, Shipping
  PROVE  Keeps(Pipeline, Pipeline')
<1> USE OneFlusher DEF PipeInv, AsyncInv
<1>1. PICK h \in Seq(Logs), f \in Seq(Logs), b \in Seq(Logs), q \in Seq(Logs) :
        h = Sent(wire) /\ f = frame[flusher] /\ b = batch /\ q = queue
  BY Stations
<1>2. UNCHANGED <<batch, queue>>
  BY DEF Shipping, appVars, queueVars
<1>3. ConnTypeOK /\ wire \in [Conns -> Seq(Frame)] /\ frame \in [Shippers -> Seq(Logs)]
      /\ shipPc \in [Shippers -> ShipPcs]
  BY DEF ConnInv, ConnTypeOK
<1>4. Pipeline = Row(h, f, b, q) /\ Pipeline' = Row(Sent(wire'), frame'[flusher], b, q)
  BY <1>1, <1>2, PipelineIsRow
<1>5. CASE \/ GetConn(flusher) \/ LockWriteMu(flusher) \/ CloseFailed(flusher)
           \/ TriggerAfterError(flusher)
  <2>1. wire' = wire /\ frame'[flusher] = frame[flusher]
    BY <1>3, <1>5 DEF GetConn, LockWriteMu, CloseFailed, TriggerAfterError, Return,
       ShipInv, netVars
  <2> QED
    BY <1>2, <2>1, OrderKept
<1>6. CASE DropNoConn(flusher) \/ Discard(flusher)
  <2>1. wire' = wire /\ frame'[flusher] = <<>>
    BY <1>3, <1>6 DEF DropNoConn, Discard, Return, netVars
  <2>2. Keeps(Row(h, f, b, q), Row(h, <<>>, b, q))
    BY RowCut
  <2> QED
    BY <1>1, <1>4, <2>1, <2>2
\* A frame, whole or torn, is written behind everything sent before.
<1>7. ASSUME NEW w \in BOOLEAN, shipPc[flusher] = "write",
             wire' = [wire EXCEPT ![held[flusher]] =
                        Append(@, [logs |-> frame[flusher], whole |-> w])]
      PROVE  Sent(wire') = h \o (IF w THEN f ELSE <<>>)
  <2> DEFINE c == held[flusher]
             e == [logs |-> f, whole |-> w]
  <2>1. c \in Conns /\ \A d \in Conns : d > c => wire[d] = <<>>
    BY <1>7 DEF ConnInv, ConnTypeOK, HeldInv, NewestInv
  <2>2. e \in Frame /\ Payload(e) = IF w THEN f ELSE <<>>
    BY DEF Frame, Payload
  <2> HIDE DEF e
  <2>3. /\ wire'[c] = Append(wire[c], e)
        /\ \A d \in Conns : d # c => wire'[d] = wire[d]
    BY <1>1, <1>3, <1>7, <2>1 DEF e
  <2>4. wire' \in [Conns -> Seq(Frame)]
    <3>1. wire' = [wire EXCEPT ![c] = Append(@, e)]
      BY <1>1, <1>7 DEF e
    <3> QED
      BY <1>3, <2>2, <3>1, WireAppend
  <2>5. PICK v \in [Conns -> Seq(Frame)] : v = wire'
    BY <2>4
  <2>6. v[c] = Append(wire[c], e) /\ \A d \in Conns : d # c => v[d] = wire[d]
    BY <2>3, <2>5
  <2> HIDE DEF c
  <2>7. Sent(v) = Sent(wire) \o Payload(e)
    BY <1>3, <2>1, <2>2, <2>6, SentGrows
  <2> QED
    BY <1>1, <2>2, <2>5, <2>7
<1>8. CASE WriteFail(flusher)
  <2>1. frame' = frame
    BY <1>8 DEF WriteFail
  <2>2. CASE wire' = wire
    BY <1>2, <2>1, <2>2, OrderKept
  <2>3. CASE wire' = [wire EXCEPT ![held[flusher]] =
                        Append(@, [logs |-> frame[flusher], whole |-> FALSE])]
    <3>1. Sent(wire') = h \o <<>>
      BY <1>7, <1>8, <2>3 DEF WriteFail
    <3>2. h \o <<>> = h
      BY ConcatEmptySeq
    <3> QED
      BY <1>1, <1>4, <2>1, <3>1, <3>2, KeepsSame
  <2> QED
    BY <1>8, <2>2, <2>3 DEF WriteFail
<1>9. CASE WriteOk(flusher)
  <2>1. frame'[flusher] = <<>>
    BY <1>3, <1>9 DEF WriteOk, Return
  <2>2. Sent(wire') = h \o f
    BY <1>7, <1>9 DEF WriteOk
  <2>3. Row(h \o f, <<>>, b, q) = Row(h, f, b, q)
    BY RowShift
  <2> QED
    BY <1>4, <2>1, <2>2, <2>3, KeepsSame
<1> QED
  BY <1>5, <1>6, <1>8, <1>9 DEF Shipping, writeFrame

LEMMA OrderStep == PipeInv /\ NewestInv /\ [Next]_vars => Keeps(Pipeline, Pipeline')
<1> SUFFICES ASSUME PipeInv, NewestInv, [Next]_vars PROVE Keeps(Pipeline, Pipeline')
  OBVIOUS
<1> USE DEF connVars, shipVars, netVars, queueVars
<1>1. ASSUME NEW l \in Logs, Write(l) PROVE Keeps(Pipeline, Pipeline')
  <2>1. UNCHANGED <<wire, batch, queue, frame>>
    BY <1>1 DEF Write
  <2> QED
    BY <2>1, OrderKept
<1>2. CASE flushLoop
  <2>1. CASE SelectDone \/ (\E s \in Syncers : SelectSync(s)) \/ SelectTick
             \/ FlushReturn \/ FlushNothing
    <3>1. UNCHANGED <<wire, batch, queue, frame>>
      BY <2>1 DEF SelectDone, SelectSync, SelectTick, FlushReturn, FlushNothing
    <3> QED
      BY <3>1, OrderKept
  <2> QED
    BY <1>2, <2>1, FlushOrder DEF flushLoop
<1>3. CASE \/ Reconnect \/ Done \/ UNCHANGED vars
           \/ (\E s \in Syncers : SyncCall(s) \/ SyncSkip(s))
           \/ (\E k \in Closers : Close(k))
  <2>1. UNCHANGED <<wire, batch, queue, frame>>
    BY <1>3 DEF Reconnect, reconnectLoop, LoopSignal, LoopStop, LoopCheck, LoopAttempt,
       LoopDialFail, LoopDialOk, LoopInstall, LoopCloseNew, LoopBackoff, appVars, Done, vars,
       SyncCall, SyncSkip, Close, CloseCall, CloseBarrier, CloseStop, CloseJoin, CloseTake,
       CloseConn
  <2> QED
    BY <2>1, OrderKept
<1> QED
  BY <1>1, <1>2, <1>3, WriteOrder, ShippingOrder DEF Next

LEMMA NewestInvHolds == Spec => []NewestInv
<1>1. Init => NewestInv
  BY NewestInit DEF Init
<1>2. PipeInv /\ NewestInv /\ [Next]_vars => NewestInv'
  BY StepRefines, NewestStep, OneFlusher DEF PipeInv, AsyncInv
<1> QED
  BY <1>1, <1>2, PipeInvHolds, PTL DEF Spec

\* Delivery is first in, first out: whatever is evicted, dropped with its
\* frame, torn or written on a new connection, no step puts a log behind one
\* that entered the queue later.
THEOREM DeliveredInOrder == Spec => FirstInFirstOut
<1>1. PipeInv /\ NewestInv /\ [Next]_vars =>
        [\A i, j \in 1..Len(Pipeline') :
           (i < j /\ Contains(Pipeline, Pipeline'[j])) =>
             \E a, b \in 1..Len(Pipeline) :
               a < b /\ Pipeline[a] = Pipeline'[i] /\ Pipeline[b] = Pipeline'[j]]_vars
  BY OrderStep DEF Keeps
<1> QED
  BY <1>1, PipeInvHolds, NewestInvHolds, PTL DEF Spec, FirstInFirstOut

=============================================================================
