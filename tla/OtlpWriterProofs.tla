-------------------------- MODULE OtlpWriterProofs --------------------------
(***************************************************************************)
(* Proofs about OtlpWriter, for any set of records of any lengths, any     *)
(* queue, batch and request sizes, either drop policy, with and without a  *)
(* drain timeout, any number of goroutines that call Sync and Close, and   *)
(* error handlers that call them too.                                      *)
(***************************************************************************)
EXTENDS OtlpWriter, OtlpEnvelopeProofs

-----------------------------------------------------------------------------
(***************************************************************************)
(* Sizes.                                                                  *)
(***************************************************************************)
LEMMA CostType == ASSUME NEW l \in Logs PROVE Cost(l) \in Nat
  BY OtlpSizes, UvarintLenType DEF Cost, recordCost

\* The lengths of the records of a batch.
Lens(b) == [i \in 1..Len(b) |-> RecordLen[b[i]]]

\* The sum grows with the batch by the cost of the record that joins it.
LEMMA TaggedLenAppend ==
  ASSUME NEW b \in Seq(Logs), NEW l \in Logs
  PROVE  taggedLen(Lens(Append(b, l))) = taggedLen(Lens(b)) + Cost(l)
<1> DEFINE n  == Len(b)
           s1 == Lens(b)
           s2 == Lens(Append(b, l))
<1>1. /\ n \in Nat /\ Len(s1) = n /\ Len(s2) = n + 1
      /\ \A i \in 1..n : s1[i] = s2[i]
      /\ s2[n + 1] = RecordLen[l]
  BY AppendProperties DEF Lens
<1>2. PICK g : Sums(g, s1, n) /\ taggedLen(s1) = g[n]
  BY <1>1, TaggedLenIsSum
<1>3. PICK h : Sums(h, s2, n + 1) /\ taggedLen(s2) = h[n + 1]
  BY <1>1, TaggedLenIsSum
<1> HIDE DEF n, s1, s2
<1>4. g[n] = h[n]
  BY <1>1, <1>2, <1>3, SumsUnique
<1>5. h[n + 1] = h[n] + recordCost(s2[n + 1])
  BY <1>1, <1>3 DEF Sums
<1> QED
  BY <1>1, <1>2, <1>3, <1>4, <1>5 DEF s1, s2, Cost

LEMMA TaggedLenEmpty == taggedLen(Lens(<<>>)) = 0
<1>1. Len(Lens(<<>>)) = 0
  BY DEF Lens
<1>2. PICK g : Sums(g, Lens(<<>>), 0) /\ taggedLen(Lens(<<>>)) = g[0]
  BY <1>1, TaggedLenIsSum
<1> QED
  BY <1>2 DEF Sums

-----------------------------------------------------------------------------
(***************************************************************************)
(* The inductive invariant.                                                *)
(***************************************************************************)

\* run has a batch to flush, or has just flushed it.
InFlush == InExport \cup {"resolved", "handler"}

\* An attempt is about to begin.
BeforeAttempt == {"warn", "ready", "backoff"}

\* Close stops intake first and cancels the context behind the barrier; the
\* transport is closed when run has exited.
CloseInv ==
    /\ closed <=> onceBy # nobody
    /\ \A p \in Procs : pc[p] = "barrier" => closed
    /\ ctxDone => closed
    /\ ~trOpen => runPc = "exited"

\* Behind the barrier no writer holds admit.
GateInv == ctxDone => \A l \in Logs : written[l] \notin InAdmit

\* run ends by the final drain, and only the drains have a deadline.
ReasonInv ==
    /\ reason = "done" => ctxDone
    /\ runPc = "exited" => reason = "done"
    /\ (runPc = "select" \/ reason \in {"tick", "queue"}) => budget = "none"

\* What is in batch and in adding, by where run is; the last flush of the
\* final drain finds the queue empty.
RegionInv ==
    /\ adding # <<>> <=> (runPc \in InFlush /\ stage = "cut")
    /\ runPc \in InExport => batch # <<>>
    /\ runPc \in {"resolved", "handler", "exited"} => batch = <<>>
    /\ runPc \in {"select", "drain"} => Len(batch) < BatchSize
    /\ (runPc \in InFlush /\ stage = "last" /\ reason = "done") => queue = <<>>
    /\ runPc = "exited" => queue = <<>>

\* Before an attempt there is one left, and none has begun too late.
AttemptInv ==
    /\ runPc \in BeforeAttempt => attempts < MaxAttempts
    /\ late <= 1 /\ (late > 0 => ctxDone /\ runPc \notin BeforeAttempt)
    /\ overtime <= 1 /\ (overtime > 0 => budget = "spent" /\ runPc \notin BeforeAttempt)

Fits(l) == sizeFor(Cost(l)) <= MaxBytes

\* The running sum is that of the batch; what has passed the size check of
\* Write fits into a request of its own.
SizeInv ==
    /\ tagged = taggedLen(Lens(batch))
    /\ batch # <<>> => sizeFor(tagged) <= MaxBytes
    /\ \A l \in Range(queue) \cup Range(adding) : Fits(l)
    /\ \A l \in Logs : written[l] \in {"evict", "resend"} => Fits(l)

InPipe(l) == l \in Range(queue) \cup Range(batch) \cup Range(adding)

\* A record is in one place at most, once, and its Write is through.
PlaceInv ==
    /\ IsInjective(queue) /\ IsInjective(batch)
    /\ Range(queue) \cap Range(batch) = {}
    /\ Range(adding) \cap (Range(queue) \cup Range(batch)) = {}
    /\ \A l \in Logs : InPipe(l) => written[l] = "accepted"

\* What a Sync waits for is in front of what is enqueued after its call: the
\* last flush of its drain has all of it.
SyncInv ==
    \A p \in Procs :
      /\ \A l \in owed[p] : written[l] = "accepted"
      /\ (runPc \in InFlush /\ stage = "last" /\ reason = "sync" /\ pc[p] = "waiting") =>
           owed[p] \cap Range(queue) = {}
      /\ pc[p] = "acked" => \A l \in owed[p] : ~InPipe(l)

\* What the collector has got came through the pipe; what it answered for
\* has left it.
ReceivedInv ==
    \A i \in 1..Len(received) :
      /\ \A l \in Range(received[i].logs) :
           /\ written[l] = "accepted"
           /\ l \notin Range(queue) \cup Range(adding)
           /\ received[i].seen => l \notin Range(batch)
      /\ received[i].seen =>
           \A j \in (i + 1)..Len(received) :
             Range(received[i].logs) \cap Range(received[j].logs) = {}

OtlpInv ==
    /\ TypeOK
    /\ CloseInv
    /\ GateInv
    /\ ReasonInv
    /\ RegionInv
    /\ AttemptInv
    /\ SizeInv
    /\ PlaceInv
    /\ SyncInv
    /\ ReceivedInv

LEMMA Processes == runner \in Procs /\ nobody \notin Procs
  BY OtlpProcesses DEF Procs, runner, nobody

\* What the collector has got are records.
LEMMA ReceiptLogs ==
  ASSUME TypeOK, NEW i \in 1..Len(received)
  PROVE  received[i].logs \in Seq(Logs) /\ Range(received[i].logs) \subseteq Logs
<1> DEFINE R == [logs : Seq(Logs), seen : BOOLEAN, rejected : SUBSET Logs]
<1>1. received \in Seq(R)
  BY DEF TypeOK
<1>2. received[i] \in R
  BY <1>1, ElementOfSeq
<1>3. received[i].logs \in Seq(Logs)
  BY <1>2
<1> QED
  BY <1>3, RangeOfSeq

LEMMA BatchFinite ==
  ASSUME TypeOK
  PROVE  IsFiniteSet(Range(batch))
<1>1. Len(batch) \in Nat /\ batch \in [1..Len(batch) -> Logs]
  BY LenProperties DEF TypeOK
<1>2. Range(batch) = {batch[i] : i \in 1..Len(batch)}
  BY RangeEquality DEF TypeOK
<1>3. batch \in Surjection(1..Len(batch), Range(batch))
  BY <1>1, <1>2 DEF Surjection
<1>4. IsFiniteSet(1..Len(batch))
  BY <1>1, FS_Interval
<1> QED
  BY <1>3, <1>4, FS_Surjection

LEMMA OtlpInit == Init => OtlpInv
<1> SUFFICES ASSUME Init PROVE OtlpInv
  OBVIOUS
<1> USE DEF Init
<1>1. TypeOK
  <2>1. /\ <<>> \in Seq(Logs) /\ Len(<<>>) = 0
        /\ <<>> \in Seq([logs : Seq(Logs), seen : BOOLEAN, rejected : SUBSET Logs])
    BY EmptySeq
  <2>2. 0 <= QueueSize /\ 0 <= BatchSize /\ 0 \in 0..MaxAttempts
    BY OtlpSizes
  <2>3. /\ written \in [Logs -> {"new", "accepted", "notify", "discarded"} \cup InAdmit]
        /\ pc \in [Procs -> {"idle", "request", "waiting", "once", "barrier", "join",
                             "acked", "skipped", "returned"}]
        /\ owed \in [Procs -> SUBSET Logs]
    OBVIOUS
  <2>4. /\ queue = <<>> /\ batch = <<>> /\ adding = <<>> /\ received = <<>>
        /\ dropped = 0 /\ tagged = 0 /\ attempts = 0 /\ late = 0 /\ overtime = 0
        /\ runPc = "select" /\ reason = "queue" /\ stage = "full" /\ budget = "none"
        /\ onceBy = nobody
    OBVIOUS
  <2>5. closed \in BOOLEAN /\ ctxDone \in BOOLEAN /\ trOpen \in BOOLEAN
    OBVIOUS
  <2> HIDE DEF Init
  <2> QED
    BY <2>1, <2>2, <2>3, <2>4, <2>5 DEF TypeOK
<1>2. CloseInv /\ GateInv /\ ReasonInv /\ AttemptInv
  BY DEF CloseInv, GateInv, ReasonInv, AttemptInv, InAdmit, BeforeAttempt
<1>3. RegionInv
  BY OtlpSizes, EmptySeq DEF RegionInv, InFlush, InExport
<1>4. SizeInv
  BY TaggedLenEmpty, RangeOfEmpty DEF SizeInv
<1>5. PlaceInv
  BY RangeOfEmpty, InjectiveEmpty DEF PlaceInv, InPipe
<1>6. SyncInv
  BY DEF SyncInv
<1>7. ReceivedInv
  BY EmptySeq DEF ReceivedInv
<1> QED
  BY <1>1, <1>2, <1>3, <1>4, <1>5, <1>6, <1>7 DEF OtlpInv

-----------------------------------------------------------------------------
(***************************************************************************)
(* The steps of Write.                                                     *)
(***************************************************************************)

\* What a step of the Write of l may do: nothing to the pipe, append l, which
\* is then accepted, or evict the head.
LEMMA WriteEffect ==
  ASSUME NEW l \in Logs, TypeOK, GateInv, CloseInv, SizeInv, Write(l) \/ writing(l)
  PROVE  /\ UNCHANGED <<batchVars, runVars, exportVars, callVars, closeVars, received>>
         /\ written[l] \notin {"accepted", "discarded"}
         /\ \E x \in {"accepted", "notify", "discarded"} \cup InAdmit :
              /\ written' = [written EXCEPT ![l] = x]
              /\ ctxDone => x \notin InAdmit
              /\ x \in {"evict", "resend"} => Fits(l)
              /\ \/ queue' = queue
                 \/ ~ctxDone /\ queue # <<>> /\ queue' = Tail(queue)
                 \/ /\ ~ctxDone /\ Len(queue) < QueueSize /\ x = "accepted" /\ Fits(l)
                    /\ queue' = Append(queue, l)
         /\ dropped' \in Nat
<1>1. CASE Write(l)
  BY <1>1 DEF Write, CloseInv, InAdmit, TypeOK
<1>2. CASE Oversized(l)
  BY <1>2 DEF Oversized, InAdmit, TypeOK
<1>3. CASE Enqueue(l)
  BY <1>3 DEF Enqueue, InAdmit, TypeOK, GateInv, Fits
<1>4. CASE Evict(l)
  BY <1>4 DEF Evict, InAdmit, TypeOK, GateInv, SizeInv
<1>5. CASE Reenqueue(l)
  BY <1>5 DEF Reenqueue, InAdmit, TypeOK, GateInv, SizeInv
<1>6. CASE Notified(l)
  BY <1>6 DEF Notified, InAdmit, TypeOK
<1> QED
  BY <1>1, <1>2, <1>3, <1>4, <1>5, <1>6 DEF writing

LEMMA WriteStep ==
  ASSUME NEW l \in Logs, OtlpInv, Write(l) \/ writing(l)
  PROVE  OtlpInv'
<1> USE DEF OtlpInv
<1>1. /\ UNCHANGED <<batchVars, runVars, exportVars, callVars, closeVars, received>>
      /\ written[l] \notin {"accepted", "discarded"} /\ dropped' \in Nat
  BY WriteEffect
<1>2. PICK x \in {"accepted", "notify", "discarded"} \cup InAdmit :
        /\ written' = [written EXCEPT ![l] = x]
        /\ ctxDone => x \notin InAdmit
        /\ x \in {"evict", "resend"} => Fits(l)
        /\ \/ queue' = queue
           \/ ~ctxDone /\ queue # <<>> /\ queue' = Tail(queue)
           \/ /\ ~ctxDone /\ Len(queue) < QueueSize /\ x = "accepted" /\ Fits(l)
              /\ queue' = Append(queue, l)
  BY WriteEffect
<1> USE <1>1 DEF batchVars, runVars, exportVars, callVars, closeVars
<1>3. queue \in Seq(Logs) /\ Len(queue) \in Nat /\ batch \in Seq(Logs) /\ adding \in Seq(Logs)
  BY DEF TypeOK
<1>4. /\ \A k \in Logs : k # l => written'[k] = written[k]
      /\ written'[l] = x
      /\ \A k \in Logs : written[k] = "accepted" => written'[k] = "accepted" /\ k # l
  BY <1>2 DEF TypeOK
\* The queue loses elements or gets l.
<1>5. /\ queue' \in Seq(Logs) /\ Len(queue') <= QueueSize
      /\ Range(queue') \subseteq Range(queue) \cup {l}
      /\ l \in Range(queue') => l \in Range(queue) \/ (Fits(l) /\ x = "accepted")
      /\ IsInjective(queue')
      /\ queue = <<>> /\ ctxDone => queue' = <<>>
  <2>1. l \notin Range(queue)
    BY DEF PlaceInv, InPipe
  <2>2. IsInjective(queue)
    BY DEF PlaceInv
  <2>3. CASE queue' = queue
    BY <1>3, <2>2, <2>3 DEF TypeOK
  <2>4. CASE queue # <<>> /\ queue' = Tail(queue) /\ ~ctxDone
    <3>1. /\ Tail(queue) \in Seq(Logs) /\ Len(Tail(queue)) = Len(queue) - 1
          /\ IsInjective(Tail(queue)) /\ Range(Tail(queue)) \subseteq Range(queue)
      BY <1>3, <2>2, <2>4, HeadTailProperties, RangeOfTail, InjectiveTail
    <3> QED
      BY <1>3, <2>1, <2>4, <3>1, OtlpSizes DEF TypeOK
  <2>5. CASE Len(queue) < QueueSize /\ x = "accepted" /\ queue' = Append(queue, l) /\ ~ctxDone /\ Fits(l)
    BY <1>3, <2>1, <2>2, <2>5, AppendProperties, RangeOfAppend, InjectiveAppend, OtlpSizes DEF TypeOK
  <2> QED
    BY <1>2, <2>3, <2>4, <2>5
<1>6. TypeOK'
  BY <1>2, <1>5 DEF TypeOK
<1>7. CloseInv' /\ ReasonInv' /\ AttemptInv'
  BY DEF CloseInv, ReasonInv, AttemptInv
<1>8. GateInv'
  BY <1>2, <1>4 DEF GateInv
<1>9. RegionInv'
  BY <1>5 DEF RegionInv, ReasonInv
<1>10. SizeInv'
  BY <1>2, <1>4, <1>5 DEF SizeInv
<1>11. PlaceInv'
  <2>1. \A k \in Logs : InPipe(k)' => InPipe(k) \/ (k = l /\ x = "accepted")
    BY <1>5 DEF InPipe
  <2>2. ~InPipe(l)
    BY DEF PlaceInv
  <2> QED
    BY <1>4, <1>5, <2>1, <2>2 DEF PlaceInv, InPipe
<1>12. SyncInv'
  <2>1. \A p \in Procs : \A k \in owed[p] : k \in Logs /\ k # l /\ (InPipe(k)' => InPipe(k))
    BY <1>4, <1>5 DEF SyncInv, InPipe, TypeOK
  <2> QED
    BY <1>4, <1>5, <2>1 DEF SyncInv
<1>13. ReceivedInv'
  <2>1. \A i \in 1..Len(received) : \A k \in Range(received[i].logs) : k \in Logs /\ k # l
    <3>1. \A i \in 1..Len(received) : Range(received[i].logs) \subseteq Logs
      BY ReceiptLogs
    <3> QED
      BY <1>4, <3>1 DEF ReceivedInv
  <2> QED
    BY <1>4, <1>5, <2>1 DEF ReceivedInv
<1> QED
  BY <1>6, <1>7, <1>8, <1>9, <1>10, <1>11, <1>12, <1>13

-----------------------------------------------------------------------------
(***************************************************************************)
(* The steps of Sync and Close, and the drain deadline.                    *)
(***************************************************************************)

\* The parts of the invariant about the pipe read nothing that these change.
LEMMA PipeKept ==
  ASSUME OtlpInv, UNCHANGED <<writeVars, batchVars, runVars, received>>
  PROVE  RegionInv' /\ SizeInv' /\ PlaceInv' /\ ReceivedInv'
  BY DEF OtlpInv, writeVars, batchVars, runVars, RegionInv, SizeInv, PlaceInv,
     InPipe, ReceivedInv

LEMMA CallStep ==
  ASSUME NEW p \in Procs, OtlpInv,
         SyncCall(p) \/ SyncSkip(p) \/ CloseCall(p) \/ closing(p)
  PROVE  OtlpInv'
<1> USE DEF OtlpInv
<1>1. UNCHANGED <<writeVars, batchVars, runVars, exportVars, received>>
  BY DEF SyncCall, SyncSkip, CloseCall, closing, CloseBarrier, CloseJoin, CloseOnce,
     closeVars
<1>2. RegionInv' /\ SizeInv' /\ PlaceInv' /\ ReceivedInv'
  BY <1>1, PipeKept
<1> USE <1>1 DEF writeVars, batchVars, runVars, exportVars
<1>3. /\ \A q \in Procs \ {p} : pc'[q] = pc[q] /\ owed'[q] = owed[q]
      /\ pc' \in [Procs -> {"idle", "request", "waiting", "once", "barrier", "join",
                            "acked", "skipped", "returned"}]
      /\ pc'[p] \notin {"waiting", "acked"}
      /\ owed' \in [Procs -> SUBSET Logs]
      /\ \A k \in owed'[p] : written[k] = "accepted"
  <2>1. CASE SyncCall(p)
    BY <2>1 DEF SyncCall, TypeOK
  <2>2. CASE SyncSkip(p) \/ CloseCall(p) \/ closing(p)
    BY <2>2 DEF SyncSkip, CloseCall, closing, CloseBarrier, CloseJoin, CloseOnce,
       TypeOK, SyncInv
  <2> QED
    BY <2>1, <2>2
<1>4. TypeOK'
  <2>1. /\ closed' \in BOOLEAN /\ ctxDone' \in BOOLEAN /\ trOpen' \in BOOLEAN
        /\ onceBy' \in Procs \cup {nobody}
    BY DEF SyncCall, SyncSkip, CloseCall, closing, CloseBarrier, CloseJoin, CloseOnce,
       closeVars, TypeOK
  <2> QED
    BY <1>3, <2>1 DEF TypeOK
<1>5. CloseInv' /\ GateInv' /\ (ctxDone => ctxDone')
  <2>1. CASE SyncCall(p) \/ SyncSkip(p)
    BY <2>1 DEF SyncCall, SyncSkip, closeVars, CloseInv, GateInv, TypeOK
  <2>2. CASE CloseCall(p)
    BY <2>2, Processes DEF CloseCall, CloseInv, GateInv, TypeOK
  <2>3. CASE closing(p)
    BY <2>3 DEF closing, CloseBarrier, CloseJoin, CloseOnce, closeVars, CloseInv,
       GateInv, TypeOK
  <2> QED
    BY <2>1, <2>2, <2>3
<1>6. ReasonInv' /\ AttemptInv'
  BY <1>5 DEF ReasonInv, AttemptInv
<1>7. SyncInv'
  BY <1>3 DEF SyncInv, InPipe
<1> QED
  BY <1>2, <1>4, <1>5, <1>6, <1>7

LEMMA BudgetStep ==
  ASSUME OtlpInv, BudgetRunsOut
  PROVE  OtlpInv'
<1> USE DEF OtlpInv
<1>1. /\ UNCHANGED <<writeVars, batchVars, runVars, attempts, late, overtime, callVars,
                     closeVars, received>>
      /\ budget = "ahead" /\ budget' = "spent"
  BY DEF BudgetRunsOut
<1>2. RegionInv' /\ SizeInv' /\ PlaceInv' /\ ReceivedInv'
  BY <1>1, PipeKept
<1> USE <1>1 DEF writeVars, batchVars, runVars, callVars, closeVars
<1>3. TypeOK' /\ CloseInv' /\ GateInv' /\ SyncInv'
  BY DEF TypeOK, CloseInv, GateInv, SyncInv, InPipe
<1>4. ReasonInv' /\ AttemptInv'
  BY DEF ReasonInv, AttemptInv, TypeOK
<1> QED
  BY <1>2, <1>3, <1>4

-----------------------------------------------------------------------------
(***************************************************************************)
(* A receipt for the batch.                                                *)
(***************************************************************************)
Receipts == [logs : Seq(Logs), seen : BOOLEAN, rejected : SUBSET Logs]

\* The collector gets the batch again, or for the first time: an answer that
\* comes back takes the batch out of the pipe in the same step.
LEMMA ReceiptAdded ==
  ASSUME OtlpInv, NEW seen \in BOOLEAN, NEW R \in SUBSET Logs,
         received' = Append(received, Receipt(seen, R)),
         UNCHANGED <<written, queue, adding>>,
         batch' = <<>> \/ (batch' = batch /\ ~seen)
  PROVE  ReceivedInv' /\ received' \in Seq(Receipts)
<1> USE DEF OtlpInv
<1> DEFINE n == Len(received)
<1>1. /\ received \in Seq(Receipts) /\ Receipt(seen, R) \in Receipts /\ n \in Nat
  BY DEF TypeOK, Receipts, Receipt
<1>2. /\ received' \in Seq(Receipts) /\ Len(received') = n + 1
      /\ \A i \in 1..n : received'[i] = received[i]
      /\ received'[n + 1].logs = batch /\ received'[n + 1].seen = seen
  BY <1>1, AppendProperties DEF Receipt
<1>3. \A l \in Range(batch) :
        written[l] = "accepted" /\ l \notin Range(queue) \cup Range(adding)
  BY RangeOfSeq DEF PlaceInv, InPipe, TypeOK
<1>4. \A l : l \in Range(batch') => l \in Range(batch) /\ ~seen
  BY RangeOfEmpty
<1> HIDE DEF n
<1>5. \A i \in 1..Len(received') : i \in 1..n \/ i = n + 1
  BY <1>1, <1>2
<1>6. ASSUME NEW i \in 1..Len(received'), NEW l \in Range(received'[i].logs)
      PROVE  /\ written'[l] = "accepted"
             /\ l \notin Range(queue') \cup Range(adding')
             /\ received'[i].seen => l \notin Range(batch')
  BY <1>2, <1>3, <1>4, <1>5, <1>6 DEF ReceivedInv, n
<1>7. ASSUME NEW i \in 1..Len(received'), received'[i].seen,
             NEW j \in (i + 1)..Len(received')
      PROVE  Range(received'[i].logs) \cap Range(received'[j].logs) = {}
  <2>1. i \in 1..n /\ received'[i] = received[i] /\ (j \in (i + 1)..n \/ j = n + 1)
    BY <1>1, <1>2, <1>5, <1>7
  <2>2. CASE j \in (i + 1)..n
    <3>1. j \in 1..n /\ received'[j] = received[j]
      BY <1>1, <1>2, <2>1, <2>2
    <3> QED
      BY <1>7, <2>1, <2>2, <3>1 DEF ReceivedInv, n
  <2>3. CASE j = n + 1
    BY <1>2, <1>7, <2>1, <2>3 DEF ReceivedInv, n
  <2> QED
    BY <2>1, <2>2, <2>3
<1> QED
  BY <1>2, <1>6, <1>7 DEF ReceivedInv

-----------------------------------------------------------------------------
(***************************************************************************)
(* The steps of run that leave the pipe alone: the select cases but the    *)
(* queue, the steps of export that do not end it, and the return of the    *)
(* last flush.                                                             *)
(***************************************************************************)
LEMMA SelectStep ==
  ASSUME OtlpInv, SelectDone \/ SelectTick \/ \E p \in Procs : SelectSync(p)
  PROVE  OtlpInv'
<1> USE DEF OtlpInv
<1> DEFINE Pcs == [Procs -> {"idle", "request", "waiting", "once", "barrier", "join",
                             "acked", "skipped", "returned"}]
           Effect ==
             /\ UNCHANGED <<writeVars, batchVars, attempts, late, overtime, owed,
                            closeVars, received>>
             /\ runPc = "select"
             /\ \/ runPc' = "drain" /\ UNCHANGED stage
                \/ runPc' = "export" /\ stage' = "last" /\ batch # <<>> /\ reason' = "tick"
             /\ reason' \in {"done", "sync", "tick"}
             /\ reason' = "done" => ctxDone
             /\ budget' \in {"none", "ahead"} /\ (reason' = "tick" => budget' = "none")
             /\ pc' \in Pcs
             /\ \A q \in Procs : pc'[q] = pc[q] \/ pc'[q] = "waiting"
<1>1. Effect
  <2>1. CASE SelectDone
    BY <2>1 DEF SelectDone, Serve, callVars, TypeOK
  <2>2. CASE SelectTick
    BY <2>2 DEF SelectTick, Serve, callVars, TypeOK
  <2>3. ASSUME NEW p \in Procs, SelectSync(p) PROVE Effect
    BY <2>3 DEF SelectSync, Serve, TypeOK
  <2> QED
    BY <2>1, <2>2, <2>3
<1> USE <1>1 DEF writeVars, batchVars, closeVars
<1>2. TypeOK'
  BY DEF TypeOK, InExport
<1>3. CloseInv' /\ GateInv' /\ ReasonInv' /\ AttemptInv'
  BY DEF CloseInv, GateInv, ReasonInv, AttemptInv, BeforeAttempt, TypeOK
<1>4. RegionInv'
  BY DEF RegionInv, InFlush, InExport
<1>5. SizeInv' /\ PlaceInv' /\ ReceivedInv'
  BY DEF SizeInv, PlaceInv, InPipe, ReceivedInv
<1>6. SyncInv'
  BY DEF SyncInv, InPipe, InFlush, InExport
<1> QED
  BY <1>2, <1>3, <1>4, <1>5, <1>6

\* The outcome of the batch is not known yet.
LEMMA AttemptStep ==
  ASSUME OtlpInv,
         (ExportPrepare /\ ~DropBatch) \/ WarnReturn \/ Send \/ Retry \/ Wake
  PROVE  OtlpInv'
<1> USE DEF OtlpInv
<1>1. /\ UNCHANGED <<writeVars, batchVars, reason, stage, budget, owed, closeVars>>
      /\ runPc \in InExport /\ runPc' \in InExport \ {"export"}
      /\ received' \in {received, Append(received, Receipt(FALSE, {}))}
      /\ \A q \in Procs : pc'[q] = pc[q] \/ (pc'[q] = "idle" /\ q = runner)
      /\ pc' \in [Procs -> {"idle", "request", "waiting", "once", "barrier", "join",
                             "acked", "skipped", "returned"}]
      /\ attempts' \in 0..MaxAttempts /\ late' \in Nat /\ overtime' \in Nat
  <2>1. CASE ExportPrepare /\ ~DropBatch
    BY <2>1, OtlpSizes DEF ExportPrepare, InExport, writeVars, batchVars, callVars, TypeOK
  <2>2. CASE WarnReturn
    BY <2>2 DEF WarnReturn, InExport, exportVars, TypeOK
  <2>3. CASE Send
    BY <2>3, OtlpSizes DEF Send, InExport, callVars, AttemptInv, BeforeAttempt, TypeOK
  <2>4. CASE Retry
    BY <2>4 DEF Retry, Failed, InExport, callVars, exportVars, TypeOK
  <2>5. CASE Wake
    BY <2>5 DEF Wake, InExport, callVars, exportVars, TypeOK
  <2> QED
    BY <2>1, <2>2, <2>3, <2>4, <2>5
<1> USE DEF writeVars, batchVars, closeVars
<1>2. AttemptInv'
  <2>1. CASE ExportPrepare /\ ~DropBatch
    BY <2>1, OtlpSizes DEF ExportPrepare, AttemptInv, BeforeAttempt, TypeOK
  <2>2. CASE WarnReturn
    BY <2>2 DEF WarnReturn, AttemptInv, BeforeAttempt, exportVars, closeVars
  <2>3. CASE Send
    BY <2>3 DEF Send, AttemptInv, BeforeAttempt, TypeOK
  <2>4. CASE Retry
    BY <2>4 DEF Retry, AttemptInv, BeforeAttempt, exportVars, TypeOK
  <2>5. CASE Wake
    BY <2>5 DEF Wake, AttemptInv, BeforeAttempt, exportVars
  <2> QED
    BY <2>1, <2>2, <2>3, <2>4, <2>5
<1> USE <1>1
<1>8. ReceivedInv' /\ received' \in Seq(Receipts)
  <2>1. CASE received' = received
    BY <2>1 DEF ReceivedInv, TypeOK, Receipts
  <2>2. CASE received' = Append(received, Receipt(FALSE, {}))
    <3>1. {} \in SUBSET Logs /\ batch' = batch /\ UNCHANGED <<written, queue, adding>>
      OBVIOUS
    <3> QED
      BY <2>2, <3>1, ReceiptAdded, Zenon
  <2> QED
    BY <2>1, <2>2
<1>3. TypeOK'
  BY <1>8 DEF TypeOK, Receipts
<1>4. CloseInv' /\ GateInv' /\ ReasonInv'
  BY DEF CloseInv, GateInv, ReasonInv, InExport
<1>5. RegionInv'
  BY DEF RegionInv, InFlush, InExport
<1>6. SizeInv' /\ PlaceInv'
  BY DEF SizeInv, PlaceInv, InPipe
<1>7. SyncInv'
  BY DEF SyncInv, InPipe, InFlush
<1> QED
  BY <1>2, <1>3, <1>4, <1>5, <1>6, <1>7, <1>8

-----------------------------------------------------------------------------
(***************************************************************************)
(* The end of an export.                                                   *)
(***************************************************************************)

\* What the steps that settle the batch have in common.
LEMMA ResolveEffect ==
  ASSUME TypeOK,
         \/ ExportSpent \/ (ExportPrepare /\ DropBatch) \/ GiveUp \/ BackoffCancelled
         \/ \E R \in SUBSET Range(batch) : Accept(R)
  PROVE  /\ UNCHANGED <<written, queue, adding, reason, stage, budget, overtime,
                        callVars, closeVars>>
         /\ batch' = <<>> /\ tagged' = 0 /\ dropped' \in Nat
         /\ runPc \in InExport /\ runPc' \in {"resolved", "handler"}
         /\ attempts' \in 0..MaxAttempts /\ late' \in {late, 0}
         /\ \/ received' = received
            \/ received' = Append(received, Receipt(FALSE, {}))
            \/ \E R \in SUBSET Logs : received' = Append(received, Receipt(TRUE, R))
<1>1. Len(batch) \in Nat /\ 0 \in 0..MaxAttempts
  BY OtlpSizes DEF TypeOK
<1>2. CASE ExportSpent
  BY <1>1, <1>2 DEF ExportSpent, DropBatch, Resolve, InExport, TypeOK
<1>3. CASE ExportPrepare /\ DropBatch
  BY <1>1, <1>3 DEF ExportPrepare, DropBatch, Resolve, InExport, TypeOK
<1>4. CASE GiveUp
  <2>1. received' = received \/ received' = Append(received, Receipt(FALSE, {}))
    BY <1>4 DEF GiveUp, Failed
  <2>2. /\ UNCHANGED <<written, queue, adding, reason, stage, exportVars, callVars, closeVars>>
        /\ batch' = <<>> /\ tagged' = 0 /\ dropped' \in Nat
        /\ runPc \in InExport /\ runPc' = "handler"
    BY <1>1, <1>4 DEF GiveUp, DropBatch, Resolve, InExport, TypeOK
  <2> QED
    BY <2>1, <2>2 DEF exportVars, TypeOK
<1>5. CASE BackoffCancelled
  BY <1>1, <1>5 DEF BackoffCancelled, DropBatch, Resolve, InExport, exportVars, TypeOK
<1>6. ASSUME NEW R \in SUBSET Range(batch), Accept(R)
      PROVE  /\ UNCHANGED <<written, queue, adding, reason, stage, budget, overtime,
                            callVars, closeVars, attempts, late>>
             /\ batch' = <<>> /\ tagged' = 0 /\ dropped' \in Nat
             /\ runPc \in InExport /\ runPc' \in {"resolved", "handler"}
             /\ R \in SUBSET Logs /\ received' = Append(received, Receipt(TRUE, R))
  <2>1. R \in SUBSET Logs
    BY RangeOfSeq DEF TypeOK
  <2>2. Cardinality(R) \in Nat
    BY BatchFinite, FS_Subset, FS_CardinalityType
  <2> QED
    BY <1>6, <2>1, <2>2 DEF Accept, Resolve, InExport, exportVars, TypeOK
<1> QED
  BY <1>2, <1>3, <1>4, <1>5, <1>6 DEF TypeOK

LEMMA ResolveStep ==
  ASSUME OtlpInv,
         \/ ExportSpent \/ (ExportPrepare /\ DropBatch) \/ GiveUp \/ BackoffCancelled
         \/ \E R \in SUBSET Range(batch) : Accept(R)
  PROVE  OtlpInv'
<1> USE DEF OtlpInv
<1>1. /\ UNCHANGED <<written, queue, adding, reason, stage, budget, overtime,
                     callVars, closeVars>>
      /\ batch' = <<>> /\ tagged' = 0 /\ dropped' \in Nat
      /\ runPc \in InExport /\ runPc' \in {"resolved", "handler"}
      /\ attempts' \in 0..MaxAttempts /\ late' \in {late, 0}
      /\ \/ received' = received
         \/ received' = Append(received, Receipt(FALSE, {}))
         \/ \E R \in SUBSET Logs : received' = Append(received, Receipt(TRUE, R))
  BY ResolveEffect
<1> USE DEF callVars, closeVars
<1>2. Range(batch') = {} /\ batch' \in Seq(Logs) /\ Len(batch') = 0 /\ IsInjective(batch')
  BY <1>1, RangeOfEmpty, EmptySeq, InjectiveEmpty
<1>3. ReceivedInv' /\ received' \in Seq(Receipts)
  <2>1. CASE received' = received
    BY <1>1, <1>2, <2>1 DEF ReceivedInv, TypeOK, Receipts
  <2>2. CASE received' = Append(received, Receipt(FALSE, {}))
    <3>1. {} \in SUBSET Logs /\ batch' = <<>> /\ UNCHANGED <<written, queue, adding>>
      BY <1>1
    <3> QED
      BY <2>2, <3>1, ReceiptAdded, Zenon
  <2>3. ASSUME NEW R \in SUBSET Logs, received' = Append(received, Receipt(TRUE, R))
        PROVE  ReceivedInv' /\ received' \in Seq(Receipts)
    <3>1. batch' = <<>> /\ UNCHANGED <<written, queue, adding>>
      BY <1>1
    <3> QED
      BY <2>3, <3>1, ReceiptAdded, Zenon
  <2> QED
    BY <1>1, <2>1, <2>2, <2>3
<1>4. TypeOK'
  BY <1>1, <1>2, <1>3, OtlpSizes DEF TypeOK, Receipts
<1>5. CloseInv' /\ GateInv' /\ ReasonInv' /\ AttemptInv'
  BY <1>1 DEF CloseInv, GateInv, ReasonInv, AttemptInv, BeforeAttempt, InExport, TypeOK
<1>6. RegionInv'
  BY <1>1 DEF RegionInv, InFlush, InExport
<1>7. SizeInv'
  BY <1>1, TaggedLenEmpty DEF SizeInv
<1>8. PlaceInv' /\ SyncInv'
  BY <1>1, <1>2 DEF PlaceInv, SyncInv, InPipe, InFlush
<1> QED
  BY <1>3, <1>4, <1>5, <1>6, <1>7, <1>8

-----------------------------------------------------------------------------
(***************************************************************************)
(* add: a record moves from the queue to the batch, or waits in adding     *)
(* while what is before it is flushed.                                     *)
(***************************************************************************)

\* The batch that l joins.
LEMMA Joined ==
  ASSUME OtlpInv, NEW l \in Logs, l \notin Range(batch), Len(batch) < BatchSize,
         (batch = <<>> /\ Fits(l)) \/ sizeFor(tagged + Cost(l)) <= MaxBytes
  PROVE  LET b == Append(batch, l)
             t == tagged + Cost(l)
         IN  /\ b \in Seq(Logs) /\ b # <<>> /\ Len(b) <= BatchSize /\ IsInjective(b)
             /\ Range(b) = Range(batch) \cup {l}
             /\ t \in Nat /\ t = taggedLen(Lens(b)) /\ sizeFor(t) <= MaxBytes
<1> DEFINE b == Append(batch, l)
           t == tagged + Cost(l)
<1>1. batch \in Seq(Logs) /\ Len(batch) \in Nat /\ tagged \in Nat /\ Cost(l) \in Nat
  BY CostType DEF OtlpInv, TypeOK
<1>2. b \in Seq(Logs) /\ b # <<>> /\ Len(b) <= BatchSize /\ Range(b) = Range(batch) \cup {l}
  BY <1>1, AppendProperties, RangeOfAppend, OtlpSizes
<1>3. IsInjective(b)
  BY <1>1, InjectiveAppend DEF OtlpInv, PlaceInv
<1>4. t \in Nat /\ t = taggedLen(Lens(b))
  BY <1>1, TaggedLenAppend DEF OtlpInv, SizeInv
<1>5. sizeFor(t) <= MaxBytes
  <2>1. CASE batch = <<>> /\ Fits(l)
    <3>1. tagged = 0
      BY <2>1, TaggedLenEmpty DEF OtlpInv, SizeInv
    <3>2. t = Cost(l)
      BY <1>1, <3>1
    <3> HIDE DEF t
    <3> QED
      BY <2>1, <3>2 DEF Fits
  <2> QED
    BY <2>1
<1> QED
  BY <1>2, <1>3, <1>4, <1>5

\* A record that moves on in the pipe was not received before.
LEMMA MovedKept ==
  ASSUME OtlpInv, UNCHANGED <<written, received>>,
         NEW l \in Range(queue) \cup Range(adding),
         Range(queue') \subseteq Range(queue),
         Range(adding') \subseteq Range(adding) \cup {l},
         Range(batch') \subseteq Range(batch) \cup {l}
  PROVE  /\ ReceivedInv'
         /\ \A k \in Logs : InPipe(k)' => InPipe(k)
<1>1. \A i \in 1..Len(received) : \A k \in Range(received[i].logs) :
        /\ written[k] = "accepted"
        /\ k # l /\ k \notin Range(queue) \cup Range(adding)
        /\ received[i].seen => k \notin Range(batch)
  BY DEF OtlpInv, ReceivedInv
<1>2. \A i \in 1..Len(received) : received[i].seen =>
        \A j \in (i + 1)..Len(received) :
          Range(received[i].logs) \cap Range(received[j].logs) = {}
  BY DEF OtlpInv, ReceivedInv
<1>3. ReceivedInv'
  BY <1>1, <1>2 DEF ReceivedInv
<1> QED
  BY <1>3 DEF InPipe

LEMMA AddStep ==
  ASSUME OtlpInv, SelectQueue \/ drainQueued
  PROVE  OtlpInv'
<1> USE DEF OtlpInv
<1> DEFINE l == Head(queue)
           next == runPc
           full == batch # <<>> /\ sizeFor(tagged + Cost(l)) > MaxBytes
<1>1. /\ runPc \in {"select", "drain"} /\ Add(next)
      /\ UNCHANGED <<written, dropped, attempts, late, overtime, callVars, closeVars, received>>
      /\ \/ reason' = "queue" /\ budget' = "none" /\ next = "select"
         \/ UNCHANGED <<reason, budget>> /\ next = "drain"
  BY DEF SelectQueue, drainQueued, Serve, exportVars
<1> USE DEF callVars, closeVars
<1>2. /\ queue # <<>> /\ queue' = Tail(queue) /\ batch \in Seq(Logs) /\ adding = <<>>
      /\ Len(batch) \in Nat /\ Len(batch) < BatchSize /\ Range(adding) = {}
  BY <1>1, RangeOfEmpty DEF Add, TypeOK, RegionInv, InFlush, InExport
<1>3. /\ l \in Logs /\ l \in Range(queue) /\ l \notin Range(queue') /\ l \notin Range(batch)
      /\ queue' \in Seq(Logs) /\ Len(queue') <= QueueSize /\ IsInjective(queue')
      /\ Range(queue') \subseteq Range(queue)
  <2>1. /\ l \in Logs /\ Tail(queue) \in Seq(Logs) /\ Len(Tail(queue)) = Len(queue) - 1
        /\ l \in Range(queue) /\ Range(Tail(queue)) \subseteq Range(queue)
        /\ IsInjective(Tail(queue)) /\ l \notin Range(Tail(queue))
        /\ Len(queue) \in Nat /\ Len(queue) <= QueueSize
    BY <1>2, HeadTailProperties, RangeOfTail, InjectiveTail DEF TypeOK, PlaceInv
  <2> QED
    BY <1>2, <2>1, OtlpSizes DEF PlaceInv
<1>4. Fits(l) /\ sizeFor(tagged + Cost(l)) \in Nat /\ written[l] = "accepted"
  <2>1. Fits(l) /\ written[l] = "accepted"
    BY <1>3 DEF SizeInv, PlaceInv, InPipe
  <2>2. tagged + Cost(l) \in Nat
    BY <1>3, CostType DEF TypeOK
  <2> QED
    BY <2>1, <2>2, SizeForType
<1>5. /\ TypeOK' /\ RegionInv' /\ SizeInv' /\ PlaceInv'
      /\ runPc' \in {runPc, "export"} /\ (runPc' = "export" => stage' # "last")
      /\ Range(adding') \subseteq {l} /\ Range(batch') \subseteq Range(batch) \cup {l}
  <2>1. CASE full
    <3>1. /\ adding' = <<l>> /\ runPc' = "export" /\ stage' = "cut"
          /\ UNCHANGED <<batch, tagged>> /\ batch # <<>>
      BY <1>1, <2>1 DEF Add
    <3> HIDE DEF l, full, next
    <3>2. adding' \in Seq(Logs) /\ Len(adding') = 1 /\ Range(adding') = {l}
      BY <1>3, <3>1, RangeOfSingle
    <3>3. TypeOK'
      BY <1>1, <1>3, <3>1, <3>2 DEF TypeOK, InExport
    <3>4. RegionInv'
      BY <1>1, <3>1, <3>2 DEF RegionInv, InFlush, InExport
    <3>5. SizeInv' /\ PlaceInv'
      BY <1>1, <1>2, <1>3, <1>4, <3>1, <3>2 DEF SizeInv, PlaceInv, InPipe
    <3> QED
      BY <3>1, <3>2, <3>3, <3>4, <3>5
  <2>2. CASE ~full
    <3>1. Put(batch, tagged, l, next) /\ UNCHANGED adding
      BY <1>1, <2>2 DEF Add
    <3>2. (batch = <<>> /\ Fits(l)) \/ sizeFor(tagged + Cost(l)) <= MaxBytes
      BY <1>4, <2>2, OtlpSizes
    <3> HIDE DEF l, full
    <3>3. /\ batch' \in Seq(Logs) /\ batch' # <<>> /\ Len(batch') <= BatchSize
          /\ IsInjective(batch') /\ Range(batch') = Range(batch) \cup {l}
          /\ tagged' \in Nat /\ tagged' = taggedLen(Lens(batch')) /\ sizeFor(tagged') <= MaxBytes
      BY <1>2, <1>3, <3>1, <3>2, Joined DEF Put
    <3>4. \/ runPc' = "export" /\ stage' = "full"
          \/ Len(batch') < BatchSize /\ runPc' = next /\ stage' = stage
      BY <3>1 DEF Put
    <3>5. TypeOK'
      BY <1>1, <1>3, <3>1, <3>3, <3>4 DEF TypeOK, InExport
    <3>6. RegionInv'
      BY <1>1, <1>2, <3>1, <3>3, <3>4 DEF RegionInv, InFlush, InExport
    <3>7. SizeInv'
      BY <1>1, <1>3, <3>1, <3>3 DEF SizeInv
    <3>8. PlaceInv'
      BY <1>1, <1>2, <1>3, <1>4, <3>1, <3>3 DEF PlaceInv, InPipe
    <3> QED
      BY <1>1, <1>2, <3>1, <3>3, <3>4, <3>5, <3>6, <3>7, <3>8
  <2> QED
    BY <2>1, <2>2
<1> HIDE DEF l, full
<1>6. ReceivedInv' /\ \A k \in Logs : InPipe(k)' => InPipe(k)
  BY <1>1, <1>3, <1>5, MovedKept
<1>7. CloseInv' /\ GateInv' /\ ReasonInv' /\ AttemptInv'
  BY <1>1, <1>5 DEF CloseInv, GateInv, ReasonInv, AttemptInv, BeforeAttempt, TypeOK
<1>8. SyncInv'
  BY <1>1, <1>5, <1>6 DEF SyncInv, InFlush, InExport, TypeOK
<1> QED
  BY <1>5, <1>6, <1>7, <1>8

-----------------------------------------------------------------------------
(***************************************************************************)
(* The end of a drain and the return of a flush.                           *)
(***************************************************************************)

\* The case is served: run exits with nothing left, a Sync is acknowledged
\* with nothing left that was in the pipe when it was called.
LEMMA FinishStep ==
  ASSUME OtlpInv, Finish, runPc # "exited", batch = <<>>, adding = <<>>,
         UNCHANGED <<writeVars, batchVars, reason, stage, attempts, late, owed,
                     closeVars, received>>,
         reason = "done" => queue = <<>>,
         \A p \in Procs : (reason = "sync" /\ pc[p] = "waiting") =>
           owed[p] \cap Range(queue) = {}
  PROVE  OtlpInv'
<1> USE DEF OtlpInv
<1>1. /\ runPc' = IF reason = "done" THEN "exited" ELSE "select"
      /\ budget' = "none" /\ overtime' = 0
      /\ pc' \in [Procs -> {"idle", "request", "waiting", "once", "barrier", "join",
                            "acked", "skipped", "returned"}]
      /\ \A p \in Procs : \/ pc'[p] = pc[p]
                          \/ pc'[p] = "idle"
                          \/ pc'[p] = "acked" /\ reason = "sync" /\ pc[p] = "waiting"
  <2>1. pc' = [p \in Procs |->
                 CASE p = runner -> "idle"
                   [] reason = "sync" /\ pc[p] = "waiting" -> "acked"
                   [] OTHER -> pc[p]]
    BY DEF Finish
  <2>2. \A p \in Procs : pc'[p] = CASE p = runner -> "idle"
                                    [] reason = "sync" /\ pc[p] = "waiting" -> "acked"
                                    [] OTHER -> pc[p]
    BY <2>1
  <2>3. \A p \in Procs : \/ pc'[p] = pc[p]
                         \/ pc'[p] = "idle"
                         \/ pc'[p] = "acked" /\ reason = "sync" /\ pc[p] = "waiting"
    BY <2>2
  <2>4. pc' \in [Procs -> {"idle", "request", "waiting", "once", "barrier", "join",
                           "acked", "skipped", "returned"}]
    BY <2>1, <2>3 DEF TypeOK
  <2> QED
    BY <2>3, <2>4 DEF Finish
<1> USE <1>1 DEF writeVars, batchVars, closeVars
<1>2. TypeOK'
  BY DEF TypeOK
<1>3. CloseInv' /\ GateInv' /\ ReasonInv' /\ AttemptInv'
  BY DEF CloseInv, GateInv, ReasonInv, AttemptInv, BeforeAttempt, TypeOK
<1>4. RegionInv'
  BY EmptySeq, OtlpSizes DEF RegionInv, InFlush, InExport
<1>5. SizeInv' /\ PlaceInv' /\ ReceivedInv'
  BY DEF SizeInv, PlaceInv, InPipe, ReceivedInv
<1>6. SyncInv'
  <2>1. \A k : InPipe(k)' <=> k \in Range(queue)
    BY RangeOfEmpty DEF InPipe
  <2>2. \A k : InPipe(k)' => InPipe(k)
    BY DEF InPipe
  <2> QED
    BY <2>1, <2>2 DEF SyncInv, InFlush, InExport
<1> QED
  BY <1>2, <1>3, <1>4, <1>5, <1>6

LEMMA DrainEndStep ==
  ASSUME OtlpInv, DrainEnd
  PROVE  OtlpInv'
<1> USE DEF OtlpInv
<1>1. /\ runPc = "drain" /\ queue = <<>>
      /\ UNCHANGED <<writeVars, batchVars, reason, attempts, late, owed, closeVars, received>>
  BY DEF DrainEnd
<1>2. CASE batch = <<>>
  <2>1. Finish /\ UNCHANGED stage
    BY <1>2 DEF DrainEnd
  <2>2. adding = <<>> /\ Range(queue) = {}
    BY <1>1, RangeOfEmpty DEF RegionInv, InFlush, InExport
  <2> QED
    BY <1>1, <1>2, <2>1, <2>2, FinishStep
<1>3. CASE batch # <<>>
  <2>1. runPc' = "export" /\ stage' = "last" /\ UNCHANGED <<pc, budget, overtime>>
    BY <1>3 DEF DrainEnd
  <2> USE <1>1, <2>1 DEF writeVars, batchVars, closeVars
  <2>2. TypeOK'
    BY DEF TypeOK, InExport
  <2>3. CloseInv' /\ GateInv' /\ ReasonInv' /\ AttemptInv'
    BY DEF CloseInv, GateInv, ReasonInv, AttemptInv, BeforeAttempt
  <2>4. RegionInv'
    BY <1>3 DEF RegionInv, InFlush, InExport
  <2>5. SizeInv' /\ PlaceInv' /\ ReceivedInv'
    BY DEF SizeInv, PlaceInv, InPipe, ReceivedInv
  <2>6. SyncInv'
    BY RangeOfEmpty DEF SyncInv, InPipe
  <2> QED
    BY <2>2, <2>3, <2>4, <2>5, <2>6
<1> QED
  BY <1>2, <1>3

LEMMA AfterExportStep ==
  ASSUME OtlpInv, AfterExport
  PROVE  OtlpInv'
<1> USE DEF OtlpInv
<1>1. /\ runPc \in {"resolved", "handler"} /\ batch = <<>> /\ stage \in {"cut", "full", "last"}
      /\ UNCHANGED <<writeVars, reason, attempts, late, owed, closeVars, received>>
      /\ Loop(reason) \in {"drain", "select"}
      /\ Loop(reason) = "select" => budget = "none"
  BY DEF AfterExport, RegionInv, Loop, ReasonInv, TypeOK
<1>2. CASE stage = "last"
  <2>1. Finish /\ UNCHANGED <<batchVars, stage>>
    BY <1>2 DEF AfterExport
  <2>2. adding = <<>> /\ (reason = "done" => queue = <<>>)
    BY <1>1, <1>2 DEF RegionInv, InFlush
  <2>3. \A p \in Procs : (reason = "sync" /\ pc[p] = "waiting") =>
          owed[p] \cap Range(queue) = {}
    BY <1>1, <1>2 DEF SyncInv, InFlush
  <2> QED
    BY <1>1, <2>1, <2>2, <2>3, FinishStep
\* The flush was not the last one: run goes on.
<1>3. ASSUME stage # "last",
             TypeOK', RegionInv', SizeInv', PlaceInv', ReceivedInv',
             runPc' \in {Loop(reason), "export"}, runPc' = "export" => stage' = "full",
             \A k \in Logs : InPipe(k)' => InPipe(k),
             UNCHANGED <<budget, overtime>>, pc' = [pc EXCEPT ![runner] = "idle"]
      PROVE  OtlpInv'
  <2> USE <1>1, <1>3, Processes DEF writeVars, closeVars
  <2>1. \A p \in Procs : pc'[p] = pc[p] \/ pc'[p] = "idle"
    BY DEF TypeOK
  <2>2. CloseInv' /\ GateInv'
    BY <2>1 DEF CloseInv, GateInv
  <2>3. ReasonInv' /\ AttemptInv'
    BY DEF ReasonInv, AttemptInv, BeforeAttempt
  <2>4. SyncInv'
    BY <2>1 DEF SyncInv, InFlush, InExport, TypeOK
  <2> QED
    BY <2>2, <2>3, <2>4
<1>4. pc' = [pc EXCEPT ![runner] = "idle"] =>
        pc' \in [Procs -> {"idle", "request", "waiting", "once", "barrier", "join",
                           "acked", "skipped", "returned"}]
  BY Processes DEF TypeOK
<1>5. CASE stage = "full"
  <2>1. /\ runPc' = Loop(reason) /\ pc' = [pc EXCEPT ![runner] = "idle"]
        /\ UNCHANGED <<batchVars, stage, budget, overtime>>
    BY <1>5 DEF AfterExport
  <2>2. TypeOK'
    BY <1>1, <1>4, <2>1 DEF TypeOK, writeVars, batchVars, closeVars
  <2>3. RegionInv'
    BY <1>1, <1>5, <2>1, EmptySeq, OtlpSizes
    DEF RegionInv, InFlush, InExport, writeVars, batchVars
  <2>4. SizeInv' /\ PlaceInv' /\ ReceivedInv' /\ \A k \in Logs : InPipe(k)' => InPipe(k)
    BY <1>1, <2>1 DEF SizeInv, PlaceInv, ReceivedInv, InPipe, writeVars, batchVars
  <2> QED
    BY <1>1, <1>3, <1>5, <2>1, <2>2, <2>3, <2>4
<1>6. CASE stage = "cut"
  <2> DEFINE l == adding[1]
  <2>1. /\ Put(batch, tagged, l, Loop(reason)) /\ adding' = <<>>
        /\ pc' = [pc EXCEPT ![runner] = "idle"] /\ UNCHANGED <<budget, overtime>>
    BY <1>6 DEF AfterExport
  <2>2. /\ l \in Logs /\ l \in Range(adding) /\ Fits(l) /\ written[l] = "accepted"
        /\ l \notin Range(queue) /\ Range(batch) = {} /\ Range(adding') = {}
    <3>1. adding # <<>> /\ adding \in Seq(Logs) /\ Len(adding) \in Nat \ {0}
      BY <1>1, <1>6, EmptySeq DEF RegionInv, InFlush, TypeOK
    <3>2. l \in Logs /\ l \in Range(adding)
      BY <3>1, RangeEquality
    <3> QED
      BY <1>1, <2>1, <3>2, RangeOfEmpty DEF SizeInv, PlaceInv, InPipe
  <2> HIDE DEF l
  <2>3. Len(batch) < BatchSize
    BY <1>1, EmptySeq, OtlpSizes
  <2>4. /\ batch' \in Seq(Logs) /\ batch' # <<>> /\ Len(batch') <= BatchSize
        /\ IsInjective(batch') /\ Range(batch') = Range(batch) \cup {l}
        /\ tagged' \in Nat /\ tagged' = taggedLen(Lens(batch')) /\ sizeFor(tagged') <= MaxBytes
    BY <1>1, <2>1, <2>2, <2>3, Joined DEF Put
  <2>5. \/ runPc' = "export" /\ stage' = "full"
        \/ Len(batch') < BatchSize /\ runPc' = Loop(reason) /\ stage' = stage
    BY <2>1 DEF Put
  <2> USE <1>1, <2>1, <2>2, <2>4, <2>5 DEF writeVars, closeVars
  <2>6. TypeOK'
    BY <1>4, EmptySeq DEF TypeOK, InExport
  <2>7. RegionInv'
    BY DEF RegionInv, InFlush, InExport
  <2>8. SizeInv'
    BY DEF SizeInv
  <2>9. PlaceInv'
    BY DEF PlaceInv, InPipe
  <2>10. ReceivedInv' /\ \A k \in Logs : InPipe(k)' => InPipe(k)
    BY MovedKept
  <2> QED
    BY <1>3, <1>6, <2>6, <2>7, <2>8, <2>9, <2>10
<1> QED
  BY <1>1, <1>2, <1>5, <1>6

-----------------------------------------------------------------------------
LEMMA OtlpStep == OtlpInv /\ [Next]_vars => OtlpInv'
<1> SUFFICES ASSUME OtlpInv, [Next]_vars PROVE OtlpInv'
  OBVIOUS
<1>1. ASSUME NEW l \in Logs, Write(l) \/ writing(l) PROVE OtlpInv'
  BY <1>1, WriteStep
<1>2. ASSUME export PROVE OtlpInv'
  <2>1. CASE \/ ExportSpent \/ (ExportPrepare /\ DropBatch) \/ GiveUp \/ BackoffCancelled
             \/ \E R \in SUBSET Range(batch) : Accept(R)
    BY <2>1, ResolveStep
  <2>2. CASE (ExportPrepare /\ ~DropBatch) \/ WarnReturn \/ Send \/ Retry \/ Wake
    BY <2>2, AttemptStep
  <2> QED
    BY <1>2, <2>1, <2>2, AfterExportStep DEF export
<1>3. ASSUME run PROVE OtlpInv'
  BY <1>2, <1>3, SelectStep, AddStep, DrainEndStep DEF run
<1>4. ASSUME NEW p \in Procs, SyncCall(p) \/ SyncSkip(p) \/ CloseCall(p) \/ closing(p)
      PROVE  OtlpInv'
  BY <1>4, CallStep
<1>5. CASE Done \/ UNCHANGED vars
  <2>1. UNCHANGED vars
    BY <1>5 DEF Done
  <2> USE <2>1 DEF vars, writeVars, batchVars, runVars, exportVars, callVars, closeVars,
        OtlpInv
  <2>2. TypeOK' /\ CloseInv' /\ GateInv' /\ ReasonInv' /\ AttemptInv'
    BY DEF TypeOK, CloseInv, GateInv, ReasonInv, AttemptInv
  <2>3. RegionInv' /\ SizeInv' /\ PlaceInv' /\ ReceivedInv'
    BY PipeKept
  <2>4. SyncInv'
    BY DEF SyncInv, InPipe
  <2> QED
    BY <2>2, <2>3, <2>4
<1> QED
  BY <1>1, <1>3, <1>4, <1>5, BudgetStep DEF Next

LEMMA OtlpInvHolds == Spec => []OtlpInv
  BY OtlpInit, OtlpStep, PTL DEF Spec

-----------------------------------------------------------------------------
(***************************************************************************)
(* The theorems.                                                           *)
(***************************************************************************)
LEMMA PendingIsInPipe ==
  ASSUME TypeOK, NEW l
  PROVE  Pending(l) <=> written[l] \in InAdmit \/ InPipe(l)
  BY ContainsConcat DEF TypeOK, Pending, InPipe

\* The state of the exporter is well typed; in particular the queue and the
\* batch keep to their bounds and no export makes more attempts than its
\* retry budget allows.
THEOREM OtlpTypeCorrect == Spec => []TypeOK
<1>1. OtlpInv => TypeOK
  BY DEF OtlpInv
<1> QED
  BY <1>1, OtlpInvHolds, PTL

\* No request that export assembles is empty or exceeds WithMaxRequestBytes:
\* the running sum of add is the sum over the batch, whatever the cuts, and
\* every record in the queue fits into a request of its own.
THEOREM RequestsFit == Spec => []BatchFits
<1>1. OtlpInv => BatchFits
  BY DEF OtlpInv, BatchFits, RegionInv, SizeInv, Lens
<1> QED
  BY <1>1, OtlpInvHolds, PTL

\* The same of the bytes that export hands to the transport, whatever the
\* resource, the scope and the records contain.
BytesFit ==
    runPc \in InExport =>
      \A resource, scope \in Octets, content \in [Logs -> Octets] :
        (/\ Len(resource) = ResourceLen /\ Len(scope) = ScopeLen
         /\ \A l \in Logs : Len(content[l]) = RecordLen[l]) =>
          Len(assemble(resource, scope, [i \in 1..Len(batch) |-> content[batch[i]]])) <= MaxBytes

\* No request is larger than WithMaxRequestBytes, in bytes as they are sent,
\* when numbers are wide enough to hold that limit.
THEOREM RequestBytesFit ==
  ASSUME MaxBytes < 2^LenBits
  PROVE  Spec => []BytesFit
<1>1. OtlpInv => BytesFit
  <2> SUFFICES ASSUME OtlpInv, runPc \in InExport,
                      NEW resource \in Octets, NEW scope \in Octets,
                      NEW content \in [Logs -> Octets],
                      Len(resource) = ResourceLen, Len(scope) = ScopeLen,
                      \A l \in Logs : Len(content[l]) = RecordLen[l]
               PROVE  Len(assemble(resource, scope,
                                   [i \in 1..Len(batch) |-> content[batch[i]]])) <= MaxBytes
    BY DEF BytesFit
  <2> DEFINE n == Len(batch)
             records == [i \in 1..n |-> content[batch[i]]]
  <2>1. n \in Nat /\ \A i \in 1..n : batch[i] \in Logs
    BY DEF OtlpInv, TypeOK
  <2>2. records \in Seq(Octets) /\ Len(records) = n
    <3>1. \A i \in 1..n : records[i] \in Octets
      BY <2>1
    <3>2. records = [i \in 1..n |-> records[i]]
      OBVIOUS
    <3> HIDE DEF records, n
    <3> QED
      BY <2>1, <3>1, <3>2, IsASeq
  <2>3. LensOf(records) = Lens(batch)
    <3>1. \A i \in 1..n : Len(records[i]) = RecordLen[batch[i]]
      BY <2>1
    <3> HIDE DEF records
    <3> QED
      BY <2>2, <3>1 DEF LensOf, Lens
  <2>4. sizeFor(taggedLen(Lens(batch))) <= MaxBytes
    BY DEF OtlpInv, SizeInv, RegionInv
  <2>5. sizeFor(taggedLen(Lens(batch))) \in Nat
    <3>1. Len(Lens(batch)) = n /\ \A i \in 1..n : Lens(batch)[i] \in Nat
      BY <2>1, OtlpSizes DEF Lens
    <3>2. taggedLen(Lens(batch)) \in Nat
      BY <2>1, <3>1, TaggedLenBounds
    <3> QED
      BY <3>2, SizeForType
  <2>6. sizeFor(taggedLen(Lens(batch))) < 2^LenBits
    <3>1. MaxBytes \in Nat /\ 2^LenBits \in Nat
      BY OtlpSizes, LenBitsAssumption, PowerDoubles
    <3> QED
      BY <2>4, <2>5, <3>1
  <2> HIDE DEF records
  <2>7. Len(assemble(resource, scope, records)) = sizeFor(taggedLen(Lens(batch)))
    BY <2>2, <2>3, <2>6, PredictedSizeIsExact
  <2> QED
    BY <2>4, <2>7 DEF records
<1> QED
  BY <1>1, OtlpInvHolds, PTL

\* Records the collector confirmed or rejected are never sent again.
THEOREM NeverResentOnceAnswered == Spec => []AnsweredOnce
<1>1. ASSUME OtlpInv PROVE AnsweredOnce
  <2> USE <1>1 DEF OtlpInv
  <2>1. ASSUME NEW i \in 1..Len(received), received[i].seen,
               NEW l \in Range(received[i].logs)
        PROVE  ~Pending(l)
    <3>1. written[l] = "accepted" /\ ~InPipe(l)
      BY <2>1 DEF ReceivedInv, InPipe
    <3> QED
      BY <3>1, PendingIsInPipe DEF InAdmit
  <2>2. ASSUME NEW i \in 1..Len(received), received[i].seen,
               NEW l \in Range(received[i].logs), NEW j \in (i + 1)..Len(received)
        PROVE  ~Contains(received[j].logs, l)
    <3>1. l \notin Range(received[j].logs)
      BY <2>2 DEF ReceivedInv
    <3>2. received[j].logs \in Seq(Logs)
      <4>1. j \in 1..Len(received)
        BY <2>2 DEF TypeOK
      <4> QED
        BY <4>1, ReceiptLogs
    <3> QED
      BY <3>1, <3>2, ContainsIsInRange
  <2> QED
    BY <2>1, <2>2 DEF AnsweredOnce
<1> QED
  BY <1>1, OtlpInvHolds, PTL

\* run leaves nothing behind: queue, batch and the record add holds are
\* empty when it exits, and no Write is on its way into the queue.
THEOREM NothingLeftAtExit == Spec => []DrainedAtExit
<1>1. OtlpInv => DrainedAtExit
  BY DEF OtlpInv, DrainedAtExit, RegionInv, ReasonInv, GateInv, InFlush, InExport
<1> QED
  BY <1>1, OtlpInvHolds, PTL

\* After the cancellation by Close a batch gets one more attempt at most.
THEOREM OneLateAttempt == Spec => []OneAttemptAfterCancel
<1>1. OtlpInv => OneAttemptAfterCancel
  BY DEF OtlpInv, OneAttemptAfterCancel, AttemptInv
<1> QED
  BY <1>1, OtlpInvHolds, PTL

\* A drain begins at most one attempt after its budget is spent.
THEOREM DrainKeepsBudget == Spec => []DrainBudgetHolds
<1>1. OtlpInv => DrainBudgetHolds
  BY DEF OtlpInv, DrainBudgetHolds, AttemptInv
<1> QED
  BY <1>1, OtlpInvHolds, PTL

\* An acknowledged Sync has flushed all that was written before it.
THEOREM SyncFlushes == Spec => []SyncIsBarrier
<1>1. ASSUME OtlpInv PROVE SyncIsBarrier
  <2> USE <1>1 DEF OtlpInv
  <2> SUFFICES ASSUME NEW p \in Procs, pc[p] = "acked", NEW l \in owed[p] PROVE ~Pending(l)
    BY DEF SyncIsBarrier
  <2>1. written[l] = "accepted" /\ ~InPipe(l)
    BY DEF SyncInv
  <2> QED
    BY <2>1, PendingIsInPipe DEF InAdmit
<1> QED
  BY <1>1, OtlpInvHolds, PTL

\* The transport is closed only when run has exited.
THEOREM TransportOpen == Spec => []TransportOpenWhileUsed
<1>1. OtlpInv => TransportOpenWhileUsed
  BY DEF OtlpInv, TransportOpenWhileUsed, CloseInv
<1> QED
  BY <1>1, OtlpInvHolds, PTL

-----------------------------------------------------------------------------
(***************************************************************************)
(* The order of the records.                                               *)
(***************************************************************************)
Reply(e) == IF e.seen THEN e.logs ELSE <<>>

Replies(r) == [i \in 1..Len(r) |-> IF r[i].seen THEN r[i].logs ELSE <<>>]

\* What the collector answered for, in order.
Confirmed(r) == FlattenSeq(Replies(r))

LEMMA RepliesType ==
  ASSUME NEW r \in Seq(Receipts)
  PROVE  /\ Replies(r) \in Seq(Seq(Logs)) /\ Len(Replies(r)) = Len(r)
         /\ \A i \in 1..Len(r) : Replies(r)[i] = Reply(r[i])
<1>1. Len(r) \in Nat /\ \A i \in 1..Len(r) : r[i] \in Receipts
  BY LenProperties
<1>2. <<>> \in Seq(Logs)
  OBVIOUS
<1>3. \A e \in Receipts : Reply(e) \in Seq(Logs)
  BY <1>2 DEF Reply, Receipts
<1>4. \A i \in 1..Len(r) : Replies(r)[i] = Reply(r[i])
  BY DEF Replies, Reply
<1>5. \A i \in 1..Len(r) : Replies(r)[i] \in Seq(Logs)
  BY <1>1, <1>3, <1>4
<1>6. Replies(r) = [i \in 1..Len(r) |-> Replies(r)[i]]
  BY DEF Replies
<1>7. Replies(r) \in Seq(Seq(Logs)) /\ Len(Replies(r)) = Len(r)
  BY <1>1, <1>5, <1>6, IsASeq
<1> QED
  BY <1>4, <1>7

LEMMA ConfirmedAppend ==
  ASSUME NEW r \in Seq(Receipts), NEW e \in Receipts
  PROVE  /\ Confirmed(r) \in Seq(Logs) /\ Reply(e) \in Seq(Logs)
         /\ Confirmed(Append(r, e)) = Confirmed(r) \o Reply(e)
<1>1. /\ Append(r, e) \in Seq(Receipts) /\ Len(Append(r, e)) = Len(r) + 1
      /\ Len(r) \in Nat
      /\ \A i \in 1..Len(r) : Append(r, e)[i] = r[i]
      /\ Append(r, e)[Len(r) + 1] = e
  BY AppendProperties, LenProperties
<1>2. PICK t \in Seq(Receipts) : t = Append(r, e)
  BY <1>1
<1>3. PICK s \in Seq(Seq(Logs)) :
        s = Replies(r) /\ Len(s) = Len(r) /\ \A i \in 1..Len(r) : s[i] = Reply(r[i])
  BY RepliesType
<1>4. PICK u \in Seq(Seq(Logs)) :
        u = Replies(t) /\ Len(u) = Len(t) /\ \A i \in 1..Len(t) : u[i] = Reply(t[i])
  BY RepliesType
<1>5. PICK x \in Seq(Logs) : x = Reply(e)
  <2>1. <<>> \in Seq(Logs)
    OBVIOUS
  <2> QED
    BY <2>1 DEF Reply, Receipts
<1>6. \A i \in 1..Len(r) : i \in 1..Len(t) /\ t[i] = r[i]
  BY <1>1, <1>2
<1>7. FlattenSeq(u) = FlattenSeq(s) \o x /\ FlattenSeq(s) \in Seq(Logs)
  <2>1. Len(t) = Len(r) + 1 /\ t[Len(r) + 1] = e
    BY <1>1, <1>2
  <2>2. Len(u) = Len(s) + 1
    BY <1>3, <1>4, <2>1
  <2>3. u[Len(s) + 1] = x
    <3>1. Len(s) + 1 \in 1..Len(t) /\ t[Len(s) + 1] = e
      BY <1>1, <1>3, <2>1
    <3> QED
      BY <1>4, <1>5, <3>1, Zenon
  <2>4. ASSUME NEW i \in 1..Len(s) PROVE u[i] = s[i]
    <3>1. i \in 1..Len(r)
      BY <1>3
    <3>2. i \in 1..Len(t) /\ t[i] = r[i]
      BY <1>6, <3>1
    <3> QED
      BY <1>3, <1>4, <3>1, <3>2, Zenon
  <2> QED
    BY <2>2, <2>3, <2>4, FlattenGrows, FlattenType
<1> QED
  BY <1>2, <1>3, <1>4, <1>5, <1>7, Zenon DEF Confirmed

LEMMA ConfirmedLogs ==
  ASSUME OtlpInv
  PROVE  /\ Confirmed(received) \in Seq(Logs)
         /\ \A l \in Range(Confirmed(received)) : written[l] = "accepted"
<1>1. received \in Seq(Receipts)
  BY DEF OtlpInv, TypeOK, Receipts
<1>2. PICK s \in Seq(Seq(Logs)) :
        /\ s = Replies(received) /\ Len(s) = Len(received)
        /\ \A i \in 1..Len(received) : s[i] = Reply(received[i])
  BY <1>1, RepliesType
<1>3. /\ FlattenSeq(s) \in Seq(Logs)
      /\ \A e \in Range(FlattenSeq(s)) : \E j \in 1..Len(s) : e \in Range(s[j])
  BY FlattenType
<1>4. ASSUME NEW j \in 1..Len(s), NEW e \in Range(s[j]) PROVE written[e] = "accepted"
  <2>1. j \in 1..Len(received) /\ s[j] = Reply(received[j])
    BY <1>2
  <2>2. received[j].seen
    BY <1>4, <2>1, RangeOfEmpty DEF Reply
  <2> QED
    BY <1>4, <2>1, <2>2 DEF Reply, OtlpInv, ReceivedInv
<1> QED
  BY <1>2, <1>3, <1>4 DEF Confirmed

LEMMA PipelineIsRow ==
  /\ Pipeline = Row(Confirmed(received), batch, adding, queue)
  /\ Pipeline' = Row(Confirmed(received'), batch', adding', queue')
  BY DEF Pipeline, Row, Confirmed, Replies

LEMMA OrderKept ==
  ASSUME UNCHANGED <<received, batch, adding, queue>>
  PROVE  Keeps(Pipeline, Pipeline')
<1>1. Pipeline' = Pipeline
  BY PipelineIsRow
<1> QED
  BY <1>1, KeepsSame

LEMMA WriteOrder ==
  ASSUME OtlpInv, NEW l \in Logs, Write(l) \/ writing(l)
  PROVE  Keeps(Pipeline, Pipeline')
<1> USE DEF OtlpInv
<1>1. /\ UNCHANGED <<batch, adding, received>>
      /\ written[l] # "accepted"
      /\ \/ queue' = queue
         \/ queue # <<>> /\ queue' = Tail(queue)
         \/ queue' = Append(queue, l)
  BY WriteEffect DEF batchVars
<1>2. PICK h \in Seq(Logs), b \in Seq(Logs), a \in Seq(Logs), q \in Seq(Logs) :
        h = Confirmed(received) /\ b = batch /\ a = adding /\ q = queue
  BY ConfirmedLogs DEF TypeOK
<1>3. Pipeline = Row(h, b, a, q) /\ Pipeline' = Row(h, b, a, queue')
  BY <1>1, <1>2, PipelineIsRow
<1>4. CASE queue' = queue
  BY <1>1, <1>4, OrderKept
<1>5. CASE queue # <<>> /\ queue' = Tail(queue)
  <2>1. Keeps(Row(h, b, a, q), Row(h, b, a, Tail(q)))
    BY <1>2, <1>5, RowCut
  <2> QED
    BY <1>2, <1>3, <1>5, <2>1
<1>6. CASE queue' = Append(queue, l)
  <2>1. l \notin Range(h) \cup Range(b) \cup Range(a) \cup Range(q)
    BY <1>1, <1>2, ConfirmedLogs DEF PlaceInv, InPipe
  <2>2. PICK r : r = queue' /\ Enters(q, l, r)
    BY <1>2, <1>6 DEF Enters
  <2>3. Keeps(Row(h, b, a, q), Row(h, b, a, r))
    BY <2>1, <2>2, KeepsEnter
  <2> QED
    BY <1>2, <1>3, <1>6, <2>2, <2>3
<1> QED
  BY <1>1, <1>4, <1>5, <1>6

LEMMA ResolveOrder ==
  ASSUME OtlpInv,
         \/ ExportSpent \/ (ExportPrepare /\ DropBatch) \/ GiveUp \/ BackoffCancelled
         \/ \E R \in SUBSET Range(batch) : Accept(R)
  PROVE  Keeps(Pipeline, Pipeline')
<1> USE DEF OtlpInv
<1>1. /\ UNCHANGED <<queue, adding>> /\ batch' = <<>>
      /\ \/ received' = received
         \/ received' = Append(received, Receipt(FALSE, {}))
         \/ \E R \in SUBSET Logs : received' = Append(received, Receipt(TRUE, R))
  BY ResolveEffect
<1>2. PICK h \in Seq(Logs), b \in Seq(Logs), a \in Seq(Logs), q \in Seq(Logs) :
        h = Confirmed(received) /\ b = batch /\ a = adding /\ q = queue
  BY ConfirmedLogs DEF TypeOK
<1>3. Pipeline = Row(h, b, a, q) /\ Pipeline' = Row(Confirmed(received'), <<>>, a, q)
  BY <1>1, <1>2, PipelineIsRow
<1>4. received \in Seq(Receipts)
  BY DEF TypeOK, Receipts
<1>5. CASE Confirmed(received') = h
  <2>1. Keeps(Row(h, b, a, q), Row(h, <<>>, a, q))
    BY RowCut
  <2> QED
    BY <1>3, <1>5, <2>1
<1>6. CASE received' = Append(received, Receipt(FALSE, {}))
  <2>1. Receipt(FALSE, {}) \in Receipts /\ Reply(Receipt(FALSE, {})) = <<>>
    BY DEF Receipt, Receipts, Reply, TypeOK
  <2>2. Confirmed(received') = h \o <<>>
    BY <1>2, <1>4, <1>6, <2>1, ConfirmedAppend
  <2>3. h \o <<>> = h
    BY ConcatEmptySeq
  <2> QED
    BY <1>5, <2>2, <2>3
<1>7. ASSUME NEW R \in SUBSET Logs, received' = Append(received, Receipt(TRUE, R))
      PROVE  Keeps(Pipeline, Pipeline')
  <2>1. Receipt(TRUE, R) \in Receipts /\ Reply(Receipt(TRUE, R)) = b
    BY <1>2 DEF Receipt, Receipts, Reply, TypeOK
  <2>2. Confirmed(received') = h \o b
    BY <1>2, <1>4, <1>7, <2>1, ConfirmedAppend
  <2>3. Row(h \o b, <<>>, a, q) = Row(h, b, a, q)
    BY RowShift
  <2>4. Pipeline' = Pipeline
    BY <1>3, <2>2, <2>3
  <2> QED
    BY <2>4, KeepsSame
<1> QED
  BY <1>1, <1>2, <1>5, <1>6, <1>7

LEMMA AttemptOrder ==
  ASSUME OtlpInv, Retry
  PROVE  Keeps(Pipeline, Pipeline')
<1> USE DEF OtlpInv
<1>1. UNCHANGED <<batch, queue, adding>> /\ received' \in {received, Append(received, Receipt(FALSE, {}))}
  BY DEF Retry, Failed, writeVars, batchVars
<1>2. CASE received' = received
  BY <1>1, <1>2, OrderKept
<1>3. CASE received' = Append(received, Receipt(FALSE, {}))
  <2>1. Receipt(FALSE, {}) \in Receipts /\ Reply(Receipt(FALSE, {})) = <<>>
        /\ received \in Seq(Receipts)
    BY DEF Receipt, Receipts, Reply, TypeOK
  <2>2. PICK h \in Seq(Logs) : h = Confirmed(received)
    BY ConfirmedLogs
  <2>3. Confirmed(received') = h \o <<>>
    BY <1>3, <2>1, <2>2, ConfirmedAppend
  <2>4. h \o <<>> = h
    BY ConcatEmptySeq
  <2>5. Pipeline' = Pipeline
    BY <1>1, <2>2, <2>3, <2>4, PipelineIsRow
  <2> QED
    BY <2>5, KeepsSame
<1> QED
  BY <1>1, <1>2, <1>3

LEMMA AddOrder ==
  ASSUME OtlpInv, SelectQueue \/ drainQueued
  PROVE  Keeps(Pipeline, Pipeline')
<1> USE DEF OtlpInv
<1>1. /\ queue # <<>> /\ queue' = Tail(queue) /\ received' = received /\ adding = <<>>
      /\ \/ adding' = <<Head(queue)>> /\ batch' = batch
         \/ adding' = <<>> /\ batch' = Append(batch, Head(queue))
  BY DEF SelectQueue, drainQueued, Add, Put, RegionInv, InFlush, InExport
<1>2. PICK h \in Seq(Logs), b \in Seq(Logs), q \in Seq(Logs) :
        h = Confirmed(received) /\ b = batch /\ q = queue
  BY ConfirmedLogs DEF TypeOK
<1>3. CASE adding' = <<Head(queue)>> /\ batch' = batch
  <2>1. PICK x, t : x = adding' /\ t = queue' /\ Moves(<<>>, q, x, t)
    BY <1>1, <1>2, <1>3 DEF Moves
  <2>2. Pipeline = Row(h, b, <<>>, q) /\ Pipeline' = Row(h, b, x, t)
    BY <1>1, <1>2, <1>3, <2>1, PipelineIsRow, Zenon
  <2> QED
    BY <2>1, <2>2, RowTake, KeepsSame
<1>4. CASE adding' = <<>> /\ batch' = Append(batch, Head(queue))
  <2>1. PICK x, t : x = batch' /\ t = queue' /\ Moves(b, q, x, t)
    BY <1>1, <1>2, <1>4 DEF Moves
  <2>2. Pipeline = Row(h, b, <<>>, q) /\ Pipeline' = Row(h, x, <<>>, t)
    BY <1>1, <1>2, <1>4, <2>1, PipelineIsRow, Zenon
  <2> QED
    BY <2>1, <2>2, RowTake, KeepsSame
<1> QED
  BY <1>1, <1>3, <1>4

LEMMA AfterExportOrder ==
  ASSUME OtlpInv, AfterExport
  PROVE  Keeps(Pipeline, Pipeline')
<1> USE DEF OtlpInv
<1>1. batch = <<>> /\ UNCHANGED <<queue, received>>
  BY DEF AfterExport, RegionInv, writeVars
<1>2. CASE stage # "cut"
  <2>1. UNCHANGED <<batch, adding>>
    BY <1>2 DEF AfterExport, batchVars
  <2> QED
    BY <1>1, <2>1, OrderKept
<1>3. CASE stage = "cut"
  <2>1. /\ batch' = Append(batch, adding[1]) /\ adding' = <<>>
        /\ adding # <<>> /\ adding \in Seq(Logs) /\ Len(adding) <= 1
    BY <1>3 DEF AfterExport, Put, RegionInv, InFlush, TypeOK
  <2>2. PICK h \in Seq(Logs), a \in Seq(Logs), q \in Seq(Logs) :
          h = Confirmed(received) /\ a = adding /\ q = queue
    BY ConfirmedLogs DEF TypeOK
  <2>3. Len(a) \in Nat \ {0} /\ Len(a) <= 1
    BY <2>1, <2>2, EmptySeq
  <2>4. Append(<<>>, a[1]) = a
    BY <2>3, SingleSeq
  <2>5. batch' = a
    BY <1>1, <2>1, <2>2, <2>4
  <2>6. Pipeline = Row(h, <<>>, a, q) /\ Pipeline' = Row(h, a, <<>>, q)
    BY <1>1, <2>1, <2>2, <2>5, PipelineIsRow
  <2>7. Row(h, <<>>, a, q) = Row(h, a, <<>>, q)
    BY RowShift
  <2> QED
    BY <2>6, <2>7, KeepsSame
<1> QED
  BY <1>2, <1>3

LEMMA OrderStep == OtlpInv /\ [Next]_vars => Keeps(Pipeline, Pipeline')
<1> SUFFICES ASSUME OtlpInv, [Next]_vars PROVE Keeps(Pipeline, Pipeline')
  OBVIOUS
<1>1. ASSUME NEW l \in Logs, Write(l) \/ writing(l) PROVE Keeps(Pipeline, Pipeline')
  BY <1>1, WriteOrder
<1>2. ASSUME export PROVE Keeps(Pipeline, Pipeline')
  <2>1. CASE \/ ExportSpent \/ (ExportPrepare /\ DropBatch) \/ GiveUp \/ BackoffCancelled
             \/ \E R \in SUBSET Range(batch) : Accept(R)
    BY <2>1, ResolveOrder
  <2>2. CASE (ExportPrepare /\ ~DropBatch) \/ WarnReturn \/ Send \/ Wake
    <3>1. UNCHANGED <<received, batch, adding, queue>>
      BY <2>2 DEF ExportPrepare, WarnReturn, Send, Wake, writeVars, batchVars
    <3> QED
      BY <3>1, OrderKept
  <2> QED
    BY <1>2, <2>1, <2>2, AttemptOrder, AfterExportOrder DEF export
<1>3. CASE \/ SelectDone \/ (\E p \in Procs : SelectSync(p)) \/ SelectTick \/ DrainEnd
           \/ BudgetRunsOut \/ Done \/ UNCHANGED vars
           \/ \E p \in Procs : SyncCall(p) \/ SyncSkip(p) \/ CloseCall(p) \/ closing(p)
  <2>1. UNCHANGED <<received, batch, adding, queue>>
    BY <1>3 DEF SelectDone, SelectSync, SelectTick, DrainEnd, BudgetRunsOut, Done, vars,
       SyncCall, SyncSkip, CloseCall, closing, CloseBarrier, CloseJoin, CloseOnce,
       writeVars, batchVars
  <2> QED
    BY <2>1, OrderKept
<1> QED
  BY <1>1, <1>2, <1>3, AddOrder DEF Next, run

\* Export is first in, first out: whatever is cut, retried, evicted, rejected
\* or drained, no step puts a record behind one that was written later.
THEOREM ExportedInOrder == Spec => FirstInFirstOut
<1>1. OtlpInv /\ [Next]_vars =>
        [\A i, j \in 1..Len(Pipeline') :
           (i < j /\ Contains(Pipeline, Pipeline'[j])) =>
             \E a, b \in 1..Len(Pipeline) :
               a < b /\ Pipeline[a] = Pipeline'[i] /\ Pipeline[b] = Pipeline'[j]]_vars
  BY OrderStep DEF Keeps
<1> QED
  BY <1>1, OtlpInvHolds, PTL DEF Spec, FirstInFirstOut

-----------------------------------------------------------------------------
(***************************************************************************)
(* The ledger.  The exporter implements LogLedger: each of its steps       *)
(* leaves the fate of every record and the counter alone, or is one step   *)
(* of the ledger.                                                          *)
(***************************************************************************)
Answered(r, l) == r.seen /\ Contains(r.logs, l) /\ l \notin r.rejected

LEMMA DeliveredNext ==
  ASSUME TypeOK, NEW r, received' = Append(received, r), NEW l
  PROVE  Delivered(l)' <=> Delivered(l) \/ Answered(r, l)
<1> DEFINE n == Len(received)
<1>1. n \in Nat /\ Len(received') = n + 1 /\ received'[n + 1] = r
      /\ \A i \in 1..n : received'[i] = received[i]
  BY DEF TypeOK
<1>2. /\ Delivered(l)  <=> \E i \in 1..n : Answered(received[i], l)
      /\ Delivered(l)' <=> \E i \in 1..(n + 1) : Answered(received'[i], l)
  BY <1>1 DEF Delivered, Answered
<1> HIDE DEF n
<1>3. \A i \in 1..(n + 1) : i \in 1..n \/ i = n + 1
  BY <1>1
<1>4. \A i \in 1..n : i \in 1..(n + 1)
  BY <1>1
<1> QED
  BY <1>1, <1>2, <1>3, <1>4

\* The cases of fate exclude each other.
LEMMA FatesExclusive ==
  ASSUME OtlpInv, NEW l \in Logs
  PROVE  /\ Delivered(l) => ~Pending(l) /\ written[l] = "accepted"
         /\ Pending(l) => written[l] \notin {"new", "discarded"}
<1> USE DEF OtlpInv
<1>1. Pending(l) <=> written[l] \in InAdmit \/ InPipe(l)
  BY PendingIsInPipe
<1>2. ASSUME Delivered(l) PROVE written[l] = "accepted" /\ ~InPipe(l)
  <2>1. PICK i \in 1..Len(received) : received[i].seen /\ Contains(received[i].logs, l)
    BY <1>2 DEF Delivered
  <2>2. l \in Range(received[i].logs)
    BY <2>1, ReceiptLogs, ContainsIsInRange
  <2> QED
    BY <2>1, <2>2 DEF ReceivedInv, InPipe
<1> QED
  BY <1>1, <1>2 DEF PlaceInv, InAdmit

\* A record is inside Write or in the pipe.
OnItsWay(l) == written[l] \in InAdmit \/ InPipe(l)

FateTable ==
    /\ fate = [l \in Logs |-> IF written[l] \in {"new", "discarded"} THEN written[l]
                              ELSE IF OnItsWay(l) THEN "pending"
                              ELSE IF Delivered(l) THEN "delivered" ELSE "dropped"]
    /\ \A l \in Logs : Delivered(l) => ~OnItsWay(l) /\ written[l] = "accepted"

LEMMA FateOf == OtlpInv => FateTable
<1> SUFFICES ASSUME OtlpInv PROVE FateTable
  OBVIOUS
<1>1. ASSUME NEW l \in Logs
      PROVE  fate[l] = IF written[l] \in {"new", "discarded"} THEN written[l]
                       ELSE IF OnItsWay(l) THEN "pending"
                       ELSE IF Delivered(l) THEN "delivered" ELSE "dropped"
  <2> DEFINE w == written[l] \in {"new", "discarded"}
             p == Pending(l)
             d == Delivered(l)
  <2>1. fate[l] = CASE w -> written[l] [] p -> "pending" [] d -> "delivered"
                    [] OTHER -> "dropped"
    BY DEF fate
  <2>2. ~(w /\ p) /\ ~(w /\ d) /\ ~(p /\ d)
    BY FatesExclusive
  <2>3. p <=> OnItsWay(l)
    BY PendingIsInPipe DEF OtlpInv, OnItsWay
  <2> HIDE DEF w, p, d
  <2>4. fate[l] = IF w THEN written[l] ELSE IF p THEN "pending"
                  ELSE IF d THEN "delivered" ELSE "dropped"
    BY <2>1, <2>2
  <2> QED
    BY <2>3, <2>4 DEF w, d
<1>2. fate = [l \in Logs |-> fate[l]]
  BY DEF fate
<1>3. \A l \in Logs : Delivered(l) => ~OnItsWay(l) /\ written[l] = "accepted"
  BY FatesExclusive, PendingIsInPipe DEF OtlpInv, OnItsWay
<1> HIDE DEF fate
<1> QED
  BY <1>1, <1>2, <1>3 DEF FateTable

LEMMA FateOfNext == OtlpInv' => FateTable'
  BY FateOf, PTL

\* l is where it was, as far as the ledger can tell.
Same(l) ==
    /\ written'[l] = written[l] \/ {written'[l], written[l]} \cap {"new", "discarded"} = {}
    /\ OnItsWay(l)' <=> OnItsWay(l)
    /\ Delivered(l)' <=> Delivered(l)

\* The ledger counts with its own instance of FiniteSets.
LEMMA SameCount ==
  ASSUME NEW X
  PROVE  Ledger!Cardinality(X) = Cardinality(X)
  BY Zenon DEF Ledger!Cardinality, Cardinality

LEMMA StepStutters ==
  ASSUME FateTable, FateTable', \A l \in Logs : Same(l), UNCHANGED <<dropped, closed>>
  PROVE  UNCHANGED Ledger!ledgerVars
<1>1. fate' = fate
  BY DEF FateTable, Same
<1> QED
  BY <1>1 DEF Ledger!ledgerVars

LEMMA StepSettles ==
  ASSUME FateTable, FateTable', NEW D \in SUBSET Logs, NEW X \in SUBSET Logs, D \cap X = {},
         \A l \in Logs \ (D \cup X) : Same(l),
         \A l \in D \cup X : /\ OnItsWay(l) /\ ~OnItsWay(l)'
                             /\ written[l] \notin {"new", "discarded"}
                             /\ written'[l] \notin {"new", "discarded"}
                             /\ Delivered(l)' <=> l \in D,
         dropped' = dropped + Cardinality(X), UNCHANGED closed
  PROVE  Ledger!LedgerNext
<1>1. \A l \in D \cup X : fate[l] = "pending"
  BY DEF FateTable
<1>2. \A l \in Logs : fate'[l] = IF l \in D THEN "delivered"
                                 ELSE IF l \in X THEN "dropped" ELSE fate[l]
  BY DEF FateTable, Same
<1>3. fate' = [l \in Logs |-> IF l \in D THEN "delivered"
                               ELSE IF l \in X THEN "dropped" ELSE fate[l]]
  <2>1. fate' = [l \in Logs |-> fate'[l]]
    BY DEF FateTable
  <2> QED
    BY <1>2, <2>1
<1> HIDE DEF fate
<1>4. Ledger!Settle(D, X)
  BY <1>1, <1>3, SameCount DEF Ledger!Settle
<1> QED
  BY <1>4 DEF Ledger!LedgerNext

-----------------------------------------------------------------------------
(***************************************************************************)
(* The steps of Write.                                                     *)
(***************************************************************************)
LEMMA LedgerWrite ==
  ASSUME OtlpInv, OtlpInv', NEW l \in Logs, Write(l) \/ writing(l)
  PROVE  [Ledger!LedgerNext]_Ledger!ledgerVars
<1> USE DEF OtlpInv
<1>1. FateTable /\ FateTable'
  BY FateOf, FateOfNext
<1>2. /\ UNCHANGED <<batchVars, closeVars, received>> /\ written[l] \notin {"accepted", "discarded"}
      /\ \E x : written' = [written EXCEPT ![l] = x]
  BY WriteEffect
<1> USE DEF batchVars, closeVars
<1>3. /\ \A k \in Logs : k # l => written'[k] = written[k]
      /\ \A k \in Logs : Delivered(k)' <=> Delivered(k)
      /\ ~InPipe(l) /\ ~Delivered(l)
  BY <1>1, <1>2 DEF TypeOK, Delivered, PlaceInv, FateTable
<1>4. \A k \in Logs : k # l /\ queue' = queue => Same(k)
  BY <1>2, <1>3 DEF Same, OnItsWay, InPipe
<1>5. queue' = queue => ~InPipe(l)'
  BY <1>2, <1>3 DEF InPipe
<1>6. IsFiniteSet({}) /\ Cardinality({}) = 0 /\ \A x : Cardinality({x}) = 1
  BY FS_EmptySet, FS_Singleton
\* The record that is counted leaves without having been delivered.
<1>7. ASSUME NEW x \in Logs, dropped' = dropped + 1, OnItsWay(x), ~OnItsWay(x)',
             written[x] \notin {"new", "discarded"}, written'[x] \notin {"new", "discarded"},
             \A k \in Logs \ {x} : Same(k), ~Delivered(x)
      PROVE  Ledger!LedgerNext
  <2> DEFINE D == {}
             X == {x}
  <2>1. D \in SUBSET Logs /\ X \in SUBSET Logs /\ D \cap X = {} /\ Cardinality(X) = 1
    BY <1>6
  <2>2. \A k \in Logs \ (D \cup X) : Same(k)
    BY <1>7
  <2>3. \A k \in D \cup X : /\ OnItsWay(k) /\ ~OnItsWay(k)'
                            /\ written[k] \notin {"new", "discarded"}
                            /\ written'[k] \notin {"new", "discarded"}
                            /\ Delivered(k)' <=> k \in D
    BY <1>3, <1>7
  <2>4. UNCHANGED closed
    BY <1>2
  <2> HIDE DEF D, X
  <2> QED
    BY <1>1, <1>7, <2>1, <2>2, <2>3, <2>4, StepSettles
<1>8. CASE Write(l)
  <2>1. /\ written[l] = "new" /\ written'[l] = IF closed THEN "discarded" ELSE "admitted"
        /\ UNCHANGED <<queue, dropped, closed>>
    BY <1>8 DEF Write, TypeOK
  <2>2. fate[l] = "new" /\ fate'[l] = IF closed THEN "discarded" ELSE "pending"
    BY <1>1, <2>1 DEF FateTable, OnItsWay, InAdmit
  <2>3. \A k \in Logs : k # l => fate'[k] = fate[k]
    BY <1>1, <1>4, <2>1 DEF FateTable, Same
  <2>4. fate' = [k \in Logs |-> fate'[k]]
    BY <1>1 DEF FateTable
  <2> HIDE DEF fate
  <2>5. CASE closed
    <3>1. fate' = [k \in Logs |-> IF k \in {l} THEN "discarded" ELSE fate[k]]
      BY <2>2, <2>3, <2>4, <2>5
    <3>2. Ledger!Ignore(l)
      BY <2>1, <2>2, <2>5, <3>1 DEF Ledger!Ignore, Ledger!Become
    <3> QED
      BY <3>2 DEF Ledger!LedgerNext
  <2>6. CASE ~closed
    <3>1. fate' = [k \in Logs |-> IF k \in {l} THEN "pending" ELSE fate[k]]
      BY <2>2, <2>3, <2>4, <2>6
    <3>2. Ledger!Accept(l)
      BY <2>1, <2>2, <2>6, <3>1 DEF Ledger!Accept, Ledger!Become
    <3> QED
      BY <3>2 DEF Ledger!LedgerNext
  <2> QED
    BY <2>5, <2>6
\* Nothing is counted: the record has gone on.
<1>9. ASSUME UNCHANGED <<dropped>>, Same(l), \A k \in Logs : k # l => Same(k)
      PROVE  [Ledger!LedgerNext]_Ledger!ledgerVars
  BY <1>1, <1>2, <1>9, StepStutters
<1>10. CASE Oversized(l)
  <2>1. /\ written[l] = "admitted" /\ written'[l] = "notify"
        /\ dropped' = dropped + 1 /\ UNCHANGED queue
    BY <1>10 DEF Oversized, TypeOK
  <2>2. OnItsWay(l) /\ ~OnItsWay(l)'
    BY <1>5, <2>1 DEF OnItsWay, InAdmit
  <2> QED
    BY <1>3, <1>4, <1>7, <2>1, <2>2
<1>11. ASSUME written[l] \in InAdmit, written'[l] = "accepted",
              queue' = Append(queue, l), UNCHANGED dropped
       PROVE  [Ledger!LedgerNext]_Ledger!ledgerVars
  <2>1. Range(queue') = Range(queue) \cup {l}
    BY <1>11, RangeOfAppend DEF TypeOK
  <2>2. Same(l) /\ \A k \in Logs : k # l => Same(k)
    BY <1>2, <1>3, <1>11, <2>1 DEF Same, OnItsWay, InPipe, InAdmit
  <2> QED
    BY <1>9, <1>11, <2>2
<1>12. ASSUME written[l] \in InAdmit, written'[l] = "accepted",
              UNCHANGED queue, dropped' = dropped + 1
       PROVE  [Ledger!LedgerNext]_Ledger!ledgerVars
  <2>1. OnItsWay(l) /\ ~OnItsWay(l)' /\ written[l] \notin {"new", "discarded"}
    BY <1>5, <1>12 DEF OnItsWay, InAdmit
  <2> QED
    BY <1>3, <1>4, <1>7, <1>12, <2>1
<1>13. CASE Enqueue(l)
  <2>1. CASE written'[l] = "evict" /\ UNCHANGED <<queue, dropped>>
    BY <1>3, <1>4, <1>9, <1>13, <2>1 DEF Enqueue, Same, OnItsWay, InAdmit
  <2> QED
    BY <1>11, <1>12, <1>13, <2>1 DEF Enqueue, InAdmit, TypeOK
<1>14. CASE Reenqueue(l)
  BY <1>11, <1>12, <1>14 DEF Reenqueue, InAdmit, TypeOK
<1>15. CASE Evict(l)
  <2>1. written[l] = "evict" /\ written'[l] = "resend"
    BY <1>15 DEF Evict, TypeOK
  <2>2. CASE UNCHANGED <<queue, dropped>>
    BY <1>3, <1>4, <1>9, <2>1, <2>2 DEF Same, OnItsWay, InAdmit
  <2>3. CASE queue # <<>> /\ queue' = Tail(queue) /\ dropped' = dropped + 1
    <3>0. PICK h \in Logs : h = Head(queue)
      BY <2>3, HeadTailProperties DEF TypeOK
    <3>1. /\ h \in Logs /\ h \notin Range(queue') /\ Range(queue) = Range(queue') \cup {h}
      <4>1. queue \in Seq(Logs) /\ IsInjective(queue)
        BY DEF TypeOK, PlaceInv
      <4> QED
        BY <2>3, <3>0, <4>1, HeadTailProperties, RangeOfTail, InjectiveTail
    <3>2. InPipe(h) /\ ~InPipe(h)' /\ h # l
      BY <1>2, <1>3, <3>1 DEF InPipe, PlaceInv
    <3>3. written[h] = "accepted" /\ written'[h] = "accepted" /\ ~Delivered(h)
      BY <1>1, <1>3, <3>1, <3>2 DEF PlaceInv, FateTable, OnItsWay
    <3>4. \A k \in Logs \ {h} : Same(k)
      <4>1. \A k \in Logs \ {h} : InPipe(k)' <=> InPipe(k)
        BY <1>2, <3>1 DEF InPipe
      <4>2. Same(l)
        BY <1>3, <2>1, <3>2, <3>1, <4>1 DEF Same, OnItsWay, InAdmit
      <4> QED
        BY <1>3, <4>1, <4>2 DEF Same, OnItsWay
    <3>5. OnItsWay(h) /\ ~OnItsWay(h)'
      BY <3>2, <3>3 DEF OnItsWay, InAdmit
    <3> QED
      BY <1>7, <2>3, <3>1, <3>3, <3>4, <3>5
  <2> QED
    BY <1>15, <2>2, <2>3 DEF Evict
<1>16. CASE Notified(l)
  <2>1. written[l] = "notify" /\ written'[l] = "accepted" /\ UNCHANGED <<queue, dropped>>
    BY <1>16 DEF Notified, TypeOK
  <2> QED
    BY <1>3, <1>4, <1>5, <1>9, <2>1 DEF Same, OnItsWay, InAdmit
<1> QED
  BY <1>8, <1>10, <1>13, <1>14, <1>15, <1>16 DEF writing

-----------------------------------------------------------------------------
(***************************************************************************)
(* The steps of run.                                                       *)
(***************************************************************************)

\* A step that only moves records along the pipe.
LEMMA LedgerMoves ==
  ASSUME OtlpInv, OtlpInv', UNCHANGED <<written, dropped, closed>>,
         \A k \in Logs : InPipe(k)' <=> InPipe(k),
         received' = received \/ received' = Append(received, Receipt(FALSE, {}))
  PROVE  UNCHANGED Ledger!ledgerVars
<1>1. \A k \in Logs : Delivered(k)' <=> Delivered(k)
  <2>1. CASE received' = received
    BY <2>1 DEF Delivered
  <2>2. CASE received' = Append(received, Receipt(FALSE, {}))
    <3>1. \A k : ~Answered(Receipt(FALSE, {}), k)
      BY DEF Answered, Receipt
    <3> QED
      BY <2>2, <3>1, DeliveredNext DEF OtlpInv
  <2> QED
    BY <2>1, <2>2
<1>2. \A k \in Logs : Same(k)
  BY <1>1 DEF Same, OnItsWay
<1> QED
  BY <1>2, FateOf, FateOfNext, StepStutters

LEMMA LedgerAdd ==
  ASSUME OtlpInv, OtlpInv', SelectQueue \/ drainQueued
  PROVE  UNCHANGED Ledger!ledgerVars
<1>1. PICK next : Add(next)
  BY DEF SelectQueue, drainQueued
<1>2. UNCHANGED <<written, dropped, closed, received>>
  BY DEF SelectQueue, drainQueued, closeVars
<1>3. /\ queue \in Seq(Logs) /\ batch \in Seq(Logs) /\ queue # <<>> /\ adding = <<>>
      /\ queue' = Tail(queue)
  BY <1>1 DEF Add, SelectQueue, drainQueued, OtlpInv, TypeOK, RegionInv, InFlush, InExport
<1>4. PICK l \in Logs : l = Head(queue)
  BY <1>3, HeadTailProperties
<1>5. Range(queue) = Range(queue') \cup {l} /\ Range(adding) = {}
  BY <1>3, <1>4, RangeOfTail, RangeOfEmpty
<1>6. CASE adding' = <<l>> /\ UNCHANGED batch
  <2>1. Range(adding') = {l}
    BY <1>6, RangeOfSingle
  <2>2. \A k \in Logs : InPipe(k)' <=> InPipe(k)
    BY <1>5, <1>6, <2>1 DEF InPipe
  <2> QED
    BY <1>2, <2>2, LedgerMoves
<1>7. CASE batch' = Append(batch, l) /\ UNCHANGED adding
  <2>1. Range(batch') = Range(batch) \cup {l}
    BY <1>3, <1>7, RangeOfAppend
  <2>2. \A k \in Logs : InPipe(k)' <=> InPipe(k)
    BY <1>5, <1>7, <2>1 DEF InPipe
  <2> QED
    BY <1>2, <2>2, LedgerMoves
<1> QED
  BY <1>1, <1>4, <1>6, <1>7 DEF Add, Put

LEMMA LedgerAfterExport ==
  ASSUME OtlpInv, OtlpInv', AfterExport
  PROVE  UNCHANGED Ledger!ledgerVars
<1>1. UNCHANGED <<written, queue, dropped, closed, received>>
  BY DEF AfterExport, writeVars, closeVars
<1>2. CASE UNCHANGED batchVars
  <2>1. \A k \in Logs : InPipe(k)' <=> InPipe(k)
    BY <1>1, <1>2 DEF InPipe, batchVars
  <2> QED
    BY <1>1, <2>1, LedgerMoves
<1>3. CASE stage = "cut"
  <2>1. /\ batch = <<>> /\ adding # <<>> /\ adding \in Seq(Logs) /\ Len(adding) \in Nat
        /\ Len(adding) <= 1
    BY <1>3 DEF AfterExport, OtlpInv, TypeOK, RegionInv, InFlush
  <2>2. Len(adding) = 1
    BY <2>1, EmptySeq
  <2>3. PICK l \in Logs : l = adding[1]
    BY <2>1, <2>2
  <2>4. adding' = <<>> /\ batch' = Append(batch, l)
    BY <1>3, <2>3 DEF AfterExport, Put
  <2>5. Range(adding) = {l} /\ Range(batch) = {} /\ Range(adding') = {}
    <3>1. Range(adding) = {adding[i] : i \in 1..1}
      BY <2>1, <2>2, RangeEquality
    <3> QED
      BY <2>1, <2>3, <2>4, <3>1, RangeOfEmpty
  <2>6. Range(batch') = {l}
    <3>1. batch \in Seq(Logs)
      BY DEF OtlpInv, TypeOK
    <3> QED
      BY <2>4, <2>5, <3>1, RangeOfAppend
  <2>7. \A k \in Logs : InPipe(k)' <=> InPipe(k)
    BY <1>1, <2>5, <2>6 DEF InPipe
  <2> QED
    BY <1>1, <2>7, LedgerMoves
<1> QED
  BY <1>2, <1>3 DEF AfterExport

\* The end of an export settles the batch: what the collector confirmed is
\* delivered, the rest is counted.
LEMMA LedgerResolve ==
  ASSUME OtlpInv, OtlpInv',
         \/ ExportSpent \/ (ExportPrepare /\ DropBatch) \/ GiveUp \/ BackoffCancelled
         \/ \E R \in SUBSET Range(batch) : Accept(R)
  PROVE  Ledger!LedgerNext
<1> USE DEF OtlpInv
<1>1. /\ UNCHANGED <<written, queue, adding, closed>> /\ batch' = <<>>
      /\ Range(batch') = {} /\ batch \in Seq(Logs) /\ Range(batch) \subseteq Logs
  BY ResolveEffect, RangeOfEmpty, RangeOfSeq DEF closeVars, TypeOK
<1>2. \A k \in Range(batch) : /\ InPipe(k) /\ ~InPipe(k)' /\ written[k] = "accepted"
                              /\ ~Delivered(k)
  BY <1>1, FatesExclusive, PendingIsInPipe DEF InPipe, PlaceInv
<1>3. \A k \in Logs \ Range(batch) : InPipe(k)' <=> InPipe(k)
  BY <1>1 DEF InPipe
\* The records in X are counted and the others are confirmed.
<1>4. ASSUME NEW X \in SUBSET Range(batch), dropped' = dropped + Cardinality(X),
             \A k \in Logs : Delivered(k)' <=> Delivered(k) \/ k \in Range(batch) \ X
      PROVE  Ledger!LedgerNext
  <2>0. PICK B \in SUBSET Logs : B = Range(batch)
    BY <1>1
  <2> DEFINE D == B \ X
  <2>1. D \in SUBSET Logs /\ X \in SUBSET Logs /\ D \cap X = {} /\ D \cup X = Range(batch)
    BY <2>0
  <2>2. \A k \in Logs \ (D \cup X) : Same(k)
    BY <1>1, <1>3, <1>4, <2>1 DEF Same, OnItsWay
  <2>3. \A k \in D \cup X : /\ OnItsWay(k) /\ ~OnItsWay(k)'
                            /\ written[k] \notin {"new", "discarded"}
                            /\ written'[k] \notin {"new", "discarded"}
                            /\ Delivered(k)' <=> k \in D
    BY <1>1, <1>2, <1>4, <2>0, <2>1 DEF OnItsWay, InAdmit
  <2>4. FateTable /\ FateTable' /\ UNCHANGED closed
    BY <1>1, FateOf, FateOfNext
  <2> HIDE DEF D
  <2> QED
    BY <1>4, <2>1, <2>2, <2>3, <2>4, StepSettles
<1>5. CASE ExportSpent \/ (ExportPrepare /\ DropBatch) \/ GiveUp \/ BackoffCancelled
  <2>1. dropped' = dropped + Len(batch)
    BY <1>5 DEF ExportSpent, GiveUp, BackoffCancelled, DropBatch, Resolve
  <2>2. Cardinality(Range(batch)) = Len(batch)
    BY <1>1, InjectiveCount DEF PlaceInv
  <2>3. received' = received \/ received' = Append(received, Receipt(FALSE, {}))
    BY <1>5 DEF ExportSpent, ExportPrepare, GiveUp, Failed, BackoffCancelled
  <2>4. \A k \in Logs : Delivered(k)' <=> Delivered(k)
    <3>1. CASE received' = received
      BY <3>1 DEF Delivered
    <3>2. CASE received' = Append(received, Receipt(FALSE, {}))
      <4>1. \A k : ~Answered(Receipt(FALSE, {}), k)
        BY DEF Answered, Receipt
      <4> QED
        BY <3>2, <4>1, DeliveredNext
    <3> QED
      BY <2>3, <3>1, <3>2
  <2>5. PICK X \in SUBSET Range(batch) : X = Range(batch)
    OBVIOUS
  <2> QED
    BY <1>4, <2>1, <2>2, <2>4, <2>5
<1>6. ASSUME NEW R \in SUBSET Range(batch), Accept(R) PROVE Ledger!LedgerNext
  <2>1. dropped' = dropped + Cardinality(R) /\ received' = Append(received, Receipt(TRUE, R))
    BY <1>6 DEF Accept, Resolve
  <2>2. \A k : Answered(Receipt(TRUE, R), k) <=> Contains(batch, k) /\ k \notin R
    BY DEF Answered, Receipt
  <2>3. \A k : Contains(batch, k) <=> k \in Range(batch)
    BY <1>1, ContainsIsInRange
  <2>4. \A k \in Logs : Delivered(k)' <=> Delivered(k) \/ k \in Range(batch) \ R
    BY <2>1, <2>2, <2>3, DeliveredNext
  <2> QED
    BY <1>4, <2>1, <2>4
<1> QED
  BY <1>5, <1>6

-----------------------------------------------------------------------------
LEMMA LedgerStep ==
  OtlpInv /\ OtlpInv' /\ [Next]_vars => [Ledger!LedgerNext]_Ledger!ledgerVars
<1> SUFFICES ASSUME OtlpInv, OtlpInv', [Next]_vars
             PROVE  [Ledger!LedgerNext]_Ledger!ledgerVars
  OBVIOUS
<1>1. ASSUME NEW l \in Logs, Write(l) \/ writing(l)
      PROVE  [Ledger!LedgerNext]_Ledger!ledgerVars
  BY <1>1, LedgerWrite
\* Steps that leave the pipe and the counter alone.
<1>2. ASSUME UNCHANGED <<writeVars, batchVars, closed>>,
             received' = received \/ received' = Append(received, Receipt(FALSE, {}))
      PROVE  UNCHANGED Ledger!ledgerVars
  <2>1. UNCHANGED <<written, queue, dropped, batch, adding, closed>>
    BY <1>2 DEF writeVars, batchVars
  <2>2. \A k \in Logs : InPipe(k)' <=> InPipe(k)
    BY <2>1 DEF InPipe
  <2> QED
    BY <1>2, <2>1, <2>2, LedgerMoves
<1>3. ASSUME export PROVE [Ledger!LedgerNext]_Ledger!ledgerVars
  <2>1. CASE \/ ExportSpent \/ (ExportPrepare /\ DropBatch) \/ GiveUp \/ BackoffCancelled
             \/ \E R \in SUBSET Range(batch) : Accept(R)
    BY <2>1, LedgerResolve
  <2>2. CASE (ExportPrepare /\ ~DropBatch) \/ WarnReturn \/ Send \/ Retry \/ Wake
    <3>1. received' = received \/ received' = Append(received, Receipt(FALSE, {}))
      BY <2>2 DEF ExportPrepare, WarnReturn, Send, Retry, Failed, Wake
    <3>2. UNCHANGED <<writeVars, batchVars, closed>>
      BY <2>2 DEF ExportPrepare, WarnReturn, Send, Retry, Wake, closeVars, writeVars, batchVars
    <3> QED
      BY <1>2, <3>1, <3>2
  <2> QED
    BY <1>3, <2>1, <2>2, LedgerAfterExport DEF export
<1>4. ASSUME run PROVE [Ledger!LedgerNext]_Ledger!ledgerVars
  <2>1. CASE SelectDone \/ SelectTick \/ DrainEnd \/ \E p \in Procs : SelectSync(p)
    BY <1>2, <2>1 DEF SelectDone, SelectTick, SelectSync, DrainEnd, closeVars
  <2> QED
    BY <1>3, <1>4, <2>1, LedgerAdd DEF run
<1>5. ASSUME NEW p \in Procs, SyncCall(p) \/ SyncSkip(p) \/ CloseCall(p) \/ closing(p)
      PROVE  [Ledger!LedgerNext]_Ledger!ledgerVars
  <2>1. CASE CloseCall(p) /\ onceBy = nobody
    <3>1. UNCHANGED <<writeVars, batchVars, received>> /\ closed = FALSE /\ closed' = TRUE
      BY <2>1 DEF CloseCall, OtlpInv, CloseInv, TypeOK
    <3>2. fate' = fate
      BY <3>1 DEF fate, Pending, Delivered, writeVars, batchVars
    <3>3. Ledger!Shut
      BY <3>1, <3>2 DEF Ledger!Shut, writeVars
    <3> QED
      BY <3>3 DEF Ledger!LedgerNext
  <2>2. CASE CloseCall(p) /\ onceBy # nobody
    BY <1>2, <2>2 DEF CloseCall
  <2>3. CASE SyncCall(p) \/ SyncSkip(p) \/ closing(p)
    BY <1>2, <2>3 DEF SyncCall, SyncSkip, closing, CloseBarrier, CloseJoin, CloseOnce, closeVars
  <2> QED
    BY <1>5, <2>1, <2>2, <2>3
<1>6. CASE BudgetRunsOut \/ Done \/ UNCHANGED vars
  BY <1>2, <1>6 DEF BudgetRunsOut, Done, vars, closeVars
<1> QED
  BY <1>1, <1>4, <1>5, <1>6 DEF Next

\* The exporter keeps the ledger: a record that Write took before Close is
\* confirmed by the collector or counted by DroppedLogs, once and never both.
THEOREM KeepsLedger == Spec => ImplementsLedger
<1>1. Init => Ledger!LedgerInit
  <2> SUFFICES ASSUME Init PROVE Ledger!LedgerInit
    OBVIOUS
  <2>1. FateTable
    BY OtlpInit, FateOf
  <2>2. fate = [l \in Logs |-> "new"]
    BY <2>1 DEF FateTable, Init
  <2>3. dropped = 0 /\ closed = FALSE
    BY DEF Init
  <2> QED
    BY <2>2, <2>3 DEF Ledger!LedgerInit
<1> QED
  BY <1>1, LedgerStep, OtlpInvHolds, PTL DEF Spec, ImplementsLedger, Ledger!LedgerSpec

\* A step of the ledger keeps the counter: only a settlement changes which
\* logs are dropped.
LEMMA CountStep ==
  ASSUME IsFiniteSet(Logs), Ledger!CountIsExact, [Ledger!LedgerNext]_(Ledger!ledgerVars)
  PROVE  Ledger!CountIsExact'
<1> DEFINE Lost(f) == {l \in Logs : f[l] = "dropped"}
<1>1. \A X : Ledger!Cardinality(X) = Cardinality(X)
  BY Zenon DEF Cardinality, Ledger!Cardinality
<1>2. dropped = Cardinality(Lost(fate))
  BY <1>1 DEF Ledger!CountIsExact
<1>3. SUFFICES dropped' = Cardinality(Lost(fate'))
  BY <1>1 DEF Ledger!CountIsExact
<1>4. ASSUME NEW D \in SUBSET Logs, NEW X \in SUBSET Logs, Ledger!Settle(D, X)
      PROVE  dropped' = Cardinality(Lost(fate'))
  <2>1. Cardinality(Lost(fate')) = Cardinality(Lost(fate)) + Cardinality(X)
    <3>1. Lost(fate') = Lost(fate) \cup X /\ Lost(fate) \cap X = {}
      BY <1>4 DEF Ledger!Settle
    <3>2. Lost(fate) \in SUBSET Logs
      OBVIOUS
    <3> HIDE DEF Lost
    <3> QED
      BY <3>1, <3>2, DisjointUnion
  <2>2. dropped' = dropped + Cardinality(X)
    BY <1>1, <1>4 DEF Ledger!Settle
  <2> QED
    BY <1>2, <2>1, <2>2
<1>5. ASSUME Lost(fate') = Lost(fate), dropped' = dropped
      PROVE  dropped' = Cardinality(Lost(fate'))
  BY <1>2, <1>5
<1>6. ASSUME NEW l \in Logs, Ledger!Accept(l) \/ Ledger!Error(l) \/ Ledger!Ignore(l)
      PROVE  dropped' = Cardinality(Lost(fate'))
  BY <1>5, <1>6 DEF Ledger!Accept, Ledger!Error, Ledger!Ignore, Ledger!Become
<1>7. CASE Ledger!Shut \/ UNCHANGED Ledger!ledgerVars
  BY <1>5, <1>7 DEF Ledger!Shut, Ledger!ledgerVars
<1> QED
  BY <1>4, <1>6, <1>7 DEF Ledger!LedgerNext

\* DroppedLogs is, at every moment, the number of logs that were given up.
LEMMA LedgerCounts ==
  ASSUME IsFiniteSet(Logs)
  PROVE  Ledger!LedgerSpec => []Ledger!CountIsExact
<1>1. Ledger!LedgerInit => Ledger!CountIsExact
  <2>1. \A X : Ledger!Cardinality(X) = Cardinality(X)
    BY Zenon DEF Cardinality, Ledger!Cardinality
  <2>2. Ledger!LedgerInit => {l \in Logs : fate[l] = "dropped"} = {} /\ dropped = 0
    BY DEF Ledger!LedgerInit
  <2> QED
    BY <2>1, <2>2, FS_EmptySet DEF Ledger!CountIsExact
<1> QED
  BY <1>1, CountStep, PTL DEF Ledger!LedgerSpec

\* DroppedLogs is the number of records the exporter took and lost: none is
\* missing from the counter, none is counted twice.
THEOREM DroppedLogsExact ==
  ASSUME IsFiniteSet(Logs)
  PROVE  Spec => []Ledger!CountIsExact
  BY KeepsLedger, LedgerCounts, PTL DEF ImplementsLedger

=============================================================================
