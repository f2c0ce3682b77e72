-------------------------- MODULE SyncWriterProofs -------------------------
(***************************************************************************)
(* Proofs about SyncWriter, for any number of concurrent writers: it uses  *)
(* its connection as ConnManager allows, so the safety of the connection   *)
(* proved there is its own, and it keeps the ledger.                       *)
(***************************************************************************)
EXTENDS SyncWriter, ConnManagerProofs, SequenceFacts

\* The only step that is not literally the manager's is the Write call.
LEMMA StepRefines == ConnTypeOK /\ [Next]_vars => [ConnNext]_connVars
<1> SUFFICES ASSUME ConnTypeOK, [Next]_vars PROVE [ConnNext]_connVars
  OBVIOUS
<1>1. ASSUME NEW l \in Logs, Write(l) PROVE [ConnNext]_connVars
  <2>1. l \in Shippers /\ <<l>> \in Seq(Logs)
    BY CallersAssumption
  <2>2. CASE Ship(l, <<l>>)
    <3>1. frame'[l] = <<l>>
      BY <2>1, <2>2 DEF Ship, ConnTypeOK
    <3>2. ShipAny(l)
      BY <1>1, <2>1, <2>2, <3>1 DEF Write, ShipAny
    <3> QED
      BY <2>1, <3>2 DEF ConnNext
  <2>3. CASE UNCHANGED <<shipPc, frame>>
    BY <1>1, <2>3 DEF Write, connVars, shipVars
  <2> QED
    BY <1>1, <2>2, <2>3 DEF Write
<1>2. ASSUME NEW l \in Logs, writeFrame(l) PROVE ConnNext
  BY <1>2, CallersAssumption DEF ConnNext
<1>3. ASSUME NEW k \in Closers, Close(k) PROVE ConnNext
  BY <1>3 DEF Close, ConnNext
<1>4. CASE Reconnect
  BY <1>4 DEF Reconnect, ConnNext
<1>5. CASE Done \/ UNCHANGED vars
  BY <1>5 DEF Done, vars
<1> QED
  BY <1>1, <1>2, <1>3, <1>4, <1>5 DEF Next, writeSync

LEMMA ConnInvHolds == Spec => []ConnInv
<1>1. Init => ConnInv
  BY InitInv DEF Init
<1>2. ConnInv /\ [Next]_vars => ConnInv'
  BY StepRefines, StepInv DEF ConnInv
<1> QED
  BY <1>1, <1>2, PTL DEF Spec

\* The synchronous Writer uses its connection manager as ConnManager allows.
THEOREM ImplementsConnManager == Spec => ConnSpec
<1>1. Init => ConnInit
  BY DEF Init
<1>2. ConnInv /\ [Next]_vars => [ConnNext]_connVars
  BY StepRefines DEF ConnInv
<1> QED
  BY <1>1, <1>2, ConnInvHolds, PTL DEF Spec, ConnSpec

\* With any number of concurrent writers, no connection is leaked or closed
\* twice, none is replaced while alive, no reconnect is forgotten, and none is
\* installed after Close.
THEOREM SyncConnSafe ==
  Spec => [](ConnOwnedOnce /\ NeverReplacesLive /\ NoLostWakeup /\ NoConnAfterClose)
  BY ImplementsConnManager, OwnedOnce, NoReplacement, WakeupKept, TeardownFinal, PTL

-----------------------------------------------------------------------------
(***************************************************************************)
(* The ledger.  A Write call carries its own log until it is on the wire   *)
(* or counted, and what is on a wire was put there by the call that wrote  *)
(* it: no call can deliver a log and still have it to drop.                *)
(***************************************************************************)
Carrying == {"getConn", "noConn", "lock", "write", "failed"}

CarryInv ==
    /\ written \in [Logs -> {"new", "discarded", "errored", "accepted"}]
    /\ \A l \in Logs : shipPc[l] \in Carrying => frame[l] = <<l>> /\ written[l] = "accepted"
    /\ \A l \in Logs : shipPc[l] \notin Carrying => frame[l] = <<>>

WireInv == \A l \in Logs : Delivered(l) => written[l] = "accepted" /\ frame[l] = <<>>

SyncInv == ConnInv /\ CarryInv /\ WireInv

\* A frame of p's at the end of a wire delivers p's log, if it is whole.
LEMMA DeliveredNext ==
  ASSUME ConnTypeOK, NEW c \in Conns, NEW p \in Logs, NEW b \in BOOLEAN,
         wire' = [wire EXCEPT ![c] = Append(@, [logs |-> <<p>>, whole |-> b])],
         NEW l \in Logs
  PROVE  Delivered(l)' <=> Delivered(l) \/ (b /\ l = p)
<1> DEFINE n == Len(wire[c])
           r == [logs |-> <<p>>, whole |-> b]
           g == [logs |-> <<l>>, whole |-> TRUE]
<1>1. r \in Frame
  BY DEF Frame
<1>2. /\ n \in Nat /\ Len(wire'[c]) = n + 1 /\ wire'[c][n + 1] = r
      /\ \A i \in 1..n : wire'[c][i] = wire[c][i]
  BY <1>1 DEF ConnTypeOK
<1>3. \A d \in Conns \ {c} : wire'[d] = wire[d]
  BY DEF ConnTypeOK
<1>4. r = g <=> b /\ l = p
  <2>1. r = g => r.whole = g.whole /\ r.logs[1] = g.logs[1]
    OBVIOUS
  <2>2. r.whole = b /\ g.whole = TRUE /\ r.logs[1] = p /\ g.logs[1] = l
    OBVIOUS
  <2>3. b /\ l = p => r = g
    OBVIOUS
  <2> QED
    BY <2>1, <2>2, <2>3
<1>5. (\E i \in 1..Len(wire'[c]) : wire'[c][i] = g)
        <=> (\E i \in 1..n : wire[c][i] = g) \/ r = g
  <2> HIDE DEF n, r, g
  <2>1. \A i \in 1..(n + 1) : i \in 1..n \/ i = n + 1
    BY <1>2
  <2>2. \A i \in 1..n : i \in 1..(n + 1)
    BY <1>2
  <2>3. n + 1 \in 1..(n + 1)
    BY <1>2
  <2> QED
    BY <1>2, <2>1, <2>2, <2>3
<1>6. Delivered(l) <=> \E d \in Conns : \E i \in 1..Len(wire[d]) : wire[d][i] = g
  BY DEF Delivered
<1>7. Delivered(l)' <=> \E d \in Conns : \E i \in 1..Len(wire'[d]) : wire'[d][i] = g
  BY DEF Delivered
<1> HIDE DEF r, g
<1> QED
  BY <1>3, <1>4, <1>5, <1>6, <1>7 DEF n

LEMMA DeliveredKept ==
  ASSUME wire' = wire, NEW l PROVE Delivered(l)' <=> Delivered(l)
  BY DEF Delivered

-----------------------------------------------------------------------------
(***************************************************************************)
(* What a step of writeFrame means for its log.                            *)
(***************************************************************************)
DeliveredSame == \A l \in Logs : Delivered(l)' <=> Delivered(l)

\* p still has its log, or has long parted with it.
KeepsLog(p) ==
    /\ frame'[p] = frame[p]
    /\ shipPc'[p] \in Carrying <=> shipPc[p] \in Carrying
    /\ DeliveredSame
    /\ droppedLogs' = droppedLogs

\* p parts with its log: it is on the wire, or counted.
PartsWithLog(p) ==
    /\ shipPc[p] \in Carrying /\ shipPc'[p] \notin Carrying
    /\ frame[p] = <<p>> /\ frame'[p] = <<>>
    /\ \/ /\ \A l \in Logs : Delivered(l)' <=> Delivered(l) \/ l = p
          /\ droppedLogs' = droppedLogs
       \/ /\ DeliveredSame
          /\ droppedLogs' = droppedLogs + 1

LEMMA ShipEffect ==
  ASSUME ConnInv, CarryInv, NEW p \in Logs, writeFrame(p)
  PROVE  /\ closed' = closed
         /\ \A l \in Logs \ {p} : shipPc'[l] = shipPc[l] /\ frame'[l] = frame[l]
         /\ KeepsLog(p) \/ PartsWithLog(p)
<1> USE CallersAssumption DEF Carrying
<1>1. closed' = closed
  BY DEF writeFrame, GetConn, DropNoConn, LockWriteMu, WriteOk, WriteFail, Discard,
     CloseFailed, TriggerAfterError, closeVars
<1>2. \A l \in Logs \ {p} : shipPc'[l] = shipPc[l] /\ frame'[l] = frame[l]
  BY DEF writeFrame, GetConn, DropNoConn, LockWriteMu, WriteOk, WriteFail, Discard,
     CloseFailed, TriggerAfterError, Return, ConnInv, ConnTypeOK
<1>3. p \in Shippers /\ shipPc \in [Shippers -> ShipPcs] /\ frame \in [Shippers -> Seq(Logs)]
      /\ ConnTypeOK
  BY DEF ConnInv, ConnTypeOK
<1>4. shipPc[p] \in Carrying => frame[p] = <<p>> /\ Len(frame[p]) = 1
  <2>1. Len(<<p>>) = 1
    OBVIOUS
  <2> QED
    BY <2>1 DEF CarryInv
<1>5. CASE GetConn(p) \/ LockWriteMu(p) \/ CloseFailed(p)
  <2>1. frame' = frame /\ wire' = wire /\ droppedLogs' = droppedLogs
    BY <1>5 DEF GetConn, LockWriteMu, CloseFailed, netVars
  <2>2. shipPc'[p] \in Carrying <=> shipPc[p] \in Carrying
    BY <1>3, <1>5 DEF GetConn, LockWriteMu, CloseFailed
  <2> QED
    BY <1>1, <1>2, <2>1, <2>2, DeliveredKept DEF KeepsLog, DeliveredSame
<1>6. CASE TriggerAfterError(p)
  <2>1. /\ frame'[p] = <<>> /\ frame[p] = <<>> /\ wire' = wire /\ droppedLogs' = droppedLogs
        /\ shipPc'[p] = "idle" /\ shipPc[p] = "trigger"
    BY <1>3, <1>6 DEF TriggerAfterError, Return, CarryInv, netVars
  <2> QED
    BY <1>1, <1>2, <2>1, DeliveredKept DEF KeepsLog, DeliveredSame
<1>7. CASE DropNoConn(p) \/ Discard(p)
  <2>1. /\ shipPc[p] \in Carrying /\ shipPc'[p] \in {"idle", "closeFailed"}
        /\ frame'[p] = <<>> /\ wire' = wire
        /\ droppedLogs' = droppedLogs + Len(frame[p])
    BY <1>3, <1>7 DEF DropNoConn, Discard, Return, netVars
  <2> QED
    BY <1>1, <1>2, <1>4, <2>1, DeliveredKept DEF PartsWithLog, DeliveredSame
<1>8. CASE WriteFail(p)
  <2>1. /\ shipPc[p] = "write" /\ shipPc'[p] = "failed" /\ frame' = frame
        /\ droppedLogs' = droppedLogs
    BY <1>3, <1>8 DEF WriteFail
  <2>2. DeliveredSame
    <3>1. CASE wire' = wire
      BY <3>1, DeliveredKept DEF DeliveredSame
    <3>2. CASE wire' = [wire EXCEPT ![held[p]] =
                          Append(@, [logs |-> frame[p], whole |-> FALSE])]
      <4>1. held[p] \in Conns
        BY <1>3, <2>1 DEF ConnInv, HeldInv, ConnTypeOK
      <4>2. FALSE \in BOOLEAN /\ frame[p] = <<p>>
        BY <1>4, <2>1
      <4>3. \A l \in Logs : Delivered(l)' <=> Delivered(l) \/ (FALSE /\ l = p)
        BY <1>3, <3>2, <4>1, <4>2, DeliveredNext
      <4> QED
        BY <4>3 DEF DeliveredSame
    <3> QED
      BY <1>8, <3>1, <3>2 DEF WriteFail
  <2> QED
    BY <1>1, <1>2, <2>1, <2>2 DEF KeepsLog
<1>9. CASE WriteOk(p)
  <2>1. /\ shipPc[p] = "write" /\ shipPc'[p] = "idle" /\ frame'[p] = <<>>
        /\ droppedLogs' = droppedLogs
        /\ wire' = [wire EXCEPT ![held[p]] = Append(@, [logs |-> frame[p], whole |-> TRUE])]
    BY <1>3, <1>9 DEF WriteOk, Return
  <2>2. held[p] \in Conns
    BY <1>3, <2>1 DEF ConnInv, HeldInv, ConnTypeOK
  <2>3. TRUE \in BOOLEAN /\ frame[p] = <<p>>
    BY <1>4, <2>1
  <2>4. \A l \in Logs : Delivered(l)' <=> Delivered(l) \/ (TRUE /\ l = p)
    BY <1>3, <2>1, <2>2, <2>3, DeliveredNext
  <2> QED
    BY <1>1, <1>2, <2>1, <2>3, <2>4 DEF PartsWithLog
<1> QED
  BY <1>5, <1>6, <1>7, <1>8, <1>9 DEF writeFrame

\* The steps of reconnectLoop and of Close touch neither logs nor wires.
LEMMA OtherEffect ==
  ASSUME Reconnect \/ \E k \in Closers : Close(k)
  PROVE  UNCHANGED <<written, shipPc, frame, wire, droppedLogs>>
<1>1. CASE Reconnect
  BY <1>1 DEF Reconnect, reconnectLoop, LoopSignal, LoopStop, LoopCheck, LoopAttempt,
     LoopDialFail, LoopDialOk, LoopInstall, LoopCloseNew, LoopBackoff, shipVars, netVars
<1>2. ASSUME NEW k \in Closers, Close(k)
      PROVE  UNCHANGED <<written, shipPc, frame, wire, droppedLogs>>
  BY <1>2 DEF Close, CloseCall, CloseStop, CloseTake, CloseConn, shipVars, netVars
<1> QED
  BY <1>1, <1>2

LEMMA SyncStep == SyncInv /\ ConnInv' /\ [Next]_vars => SyncInv'
<1> SUFFICES ASSUME SyncInv, ConnInv', [Next]_vars PROVE CarryInv' /\ WireInv'
  BY DEF SyncInv
<1> USE CallersAssumption DEF SyncInv
<1>1. ASSUME NEW p \in Logs, Write(p) PROVE CarryInv' /\ WireInv'
  <2>1. wire' = wire
    BY <1>1 DEF Write, netVars
  <2>2. \A l \in Logs : Delivered(l)' <=> Delivered(l)
    BY <2>1, DeliveredKept
  <2>3. CarryInv'
    <3>1. /\ written' \in [Logs -> {"new", "discarded", "errored", "accepted"}]
          /\ \A l \in Logs \ {p} : written'[l] = written[l]
      BY <1>1 DEF Write, CarryInv
    <3>2. CASE UNCHANGED <<shipPc, frame>>
      BY <1>1, <3>1, <3>2 DEF Write, CarryInv
    <3>3. CASE Ship(p, <<p>>) /\ written' = [written EXCEPT ![p] = "accepted"]
      <4>1. /\ shipPc'[p] = "getConn" /\ frame'[p] = <<p>> /\ written'[p] = "accepted"
            /\ \A l \in Logs \ {p} : shipPc'[l] = shipPc[l] /\ frame'[l] = frame[l]
        BY <3>3 DEF Ship, CarryInv, ConnInv, ConnTypeOK
      <4> QED
        BY <3>1, <4>1 DEF CarryInv, Carrying
    <3> QED
      BY <1>1, <3>2, <3>3 DEF Write
  <2>4. /\ written[p] = "new"
        /\ \A l \in Logs \ {p} : written'[l] = written[l] /\ frame'[l] = frame[l]
    BY <1>1 DEF Write, Ship, CarryInv, ConnInv, ConnTypeOK
  <2> QED
    BY <2>2, <2>3, <2>4 DEF WireInv
<1>2. ASSUME NEW p \in Logs, writeFrame(p), UNCHANGED written PROVE CarryInv' /\ WireInv'
  <2>1. /\ \A l \in Logs \ {p} : shipPc'[l] = shipPc[l] /\ frame'[l] = frame[l]
        /\ KeepsLog(p) \/ PartsWithLog(p)
    BY <1>2, ShipEffect
  <2> QED
    BY <1>2, <2>1 DEF KeepsLog, PartsWithLog, DeliveredSame, CarryInv, WireInv
<1>3. ASSUME UNCHANGED <<written, shipPc, frame, wire>> PROVE CarryInv' /\ WireInv'
  BY <1>3, DeliveredKept DEF CarryInv, WireInv
<1>4. CASE Reconnect \/ \E k \in Closers : Close(k)
  BY <1>3, <1>4, OtherEffect
<1>5. CASE Done \/ UNCHANGED vars
  BY <1>3, <1>5 DEF Done, vars, connVars, shipVars, netVars
<1> QED
  BY <1>1, <1>2, <1>4, <1>5 DEF Next, writeSync

LEMMA SyncInit == Init => SyncInv
<1> SUFFICES ASSUME Init PROVE SyncInv
  OBVIOUS
<1>1. ConnInv
  BY InitInv DEF Init
<1>2. CarryInv
  BY CallersAssumption DEF Init, ConnInit, CarryInv, Carrying
<1>3. WireInv
  BY DEF Init, ConnInit, WireInv, Delivered
<1> QED
  BY <1>1, <1>2, <1>3 DEF SyncInv

LEMMA SyncInvHolds == Spec => []SyncInv
<1>1. SyncInv /\ [Next]_vars => SyncInv'
  BY StepRefines, StepInv, SyncStep DEF SyncInv, ConnInv
<1> QED
  BY <1>1, SyncInit, PTL DEF Spec

-----------------------------------------------------------------------------
(***************************************************************************)
(* The refinement.  Under the invariant the cases of fate exclude each     *)
(* other, and fate is a table.                                             *)
(***************************************************************************)
FateTable ==
    /\ fate = [l \in Logs |-> IF written[l] # "accepted" THEN written[l]
                              ELSE IF frame[l] # <<>> THEN "pending"
                              ELSE IF Delivered(l) THEN "delivered" ELSE "dropped"]
    /\ WireInv

LEMMA FateOf == SyncInv => FateTable
<1> SUFFICES ASSUME SyncInv PROVE FateTable
  OBVIOUS
<1>1. ASSUME NEW l \in Logs
      PROVE  fate[l] = IF written[l] # "accepted" THEN written[l]
                       ELSE IF frame[l] # <<>> THEN "pending"
                       ELSE IF Delivered(l) THEN "delivered" ELSE "dropped"
  <2> DEFINE w == written[l] # "accepted"
             p == frame[l] # <<>>
             d == Delivered(l)
  <2>1. fate[l] = CASE w -> written[l] [] d -> "delivered" [] p -> "pending"
                    [] OTHER -> "dropped"
    BY DEF fate
  <2>2. ~(w /\ p) /\ ~(w /\ d) /\ ~(p /\ d)
    BY DEF SyncInv, WireInv, CarryInv
  <2> HIDE DEF w, p, d
  <2>3. fate[l] = IF w THEN written[l] ELSE IF p THEN "pending"
                  ELSE IF d THEN "delivered" ELSE "dropped"
    BY <2>1, <2>2
  <2> QED
    BY <2>3 DEF w, p, d
<1>2. fate = [l \in Logs |-> fate[l]]
  BY DEF fate
<1> HIDE DEF fate
<1> QED
  BY <1>1, <1>2 DEF FateTable, SyncInv

LEMMA FateOfNext == SyncInv' => FateTable'
  BY FateOf, PTL

\* The ledger counts with its own instance of FiniteSets.
LEMMA SameCount ==
  ASSUME NEW X
  PROVE  Ledger!Cardinality(X) = Cardinality(X)
  BY Zenon DEF Ledger!Cardinality, Cardinality

LEMMA LedgerStep ==
  SyncInv /\ SyncInv' /\ [Next]_vars => [Ledger!LedgerNext]_Ledger!ledgerVars
<1> SUFFICES ASSUME SyncInv, SyncInv', [Next]_vars
             PROVE  [Ledger!LedgerNext]_Ledger!ledgerVars
  OBVIOUS
<1> USE CallersAssumption
<1>0. FateTable /\ FateTable'
  BY FateOf, FateOfNext
<1> HIDE DEF fate
<1>1. ASSUME NEW p \in Logs, Write(p) PROVE [Ledger!LedgerNext]_Ledger!ledgerVars
  <2>1. /\ written[p] = "new" /\ UNCHANGED <<closed, droppedLogs, wire>>
        /\ written' = [written EXCEPT ![p] = written'[p]]
        /\ \A l \in Logs \ {p} : frame'[l] = frame[l]
        /\ \/ closed /\ written'[p] = "discarded"
           \/ ~closed /\ written'[p] = "errored"
           \/ ~closed /\ written'[p] = "accepted" /\ frame'[p] = <<p>>
    BY <1>1 DEF Write, Ship, netVars, closeVars, SyncInv, CarryInv, ConnInv, ConnTypeOK
  <2>2. \A l \in Logs : Delivered(l)' <=> Delivered(l)
    BY <2>1, DeliveredKept
  <2>3. fate[p] = "new" /\ fate'[p] = IF written'[p] = "accepted" THEN "pending" ELSE written'[p]
    BY <1>0, <2>1 DEF FateTable
  <2>4. \A l \in Logs \ {p} : fate'[l] = fate[l]
    BY <1>0, <2>1, <2>2 DEF FateTable, SyncInv, CarryInv
  <2>5. fate' = [l \in Logs |-> IF l \in {p} THEN fate'[p] ELSE fate[l]]
    <3>1. fate' = [l \in Logs |-> fate'[l]]
      BY <1>0 DEF FateTable
    <3> QED
      BY <2>4, <3>1
  <2>6. Ledger!Accept(p) \/ Ledger!Error(p) \/ Ledger!Ignore(p)
    BY <2>1, <2>3, <2>5 DEF Ledger!Accept, Ledger!Error, Ledger!Ignore, Ledger!Become
  <2> QED
    BY <2>6 DEF Ledger!LedgerNext
<1>2. ASSUME NEW p \in Logs, writeFrame(p), UNCHANGED written
      PROVE  [Ledger!LedgerNext]_Ledger!ledgerVars
  <2>1. /\ closed' = closed
        /\ \A l \in Logs \ {p} : frame'[l] = frame[l]
        /\ KeepsLog(p) \/ PartsWithLog(p)
    BY <1>2, ShipEffect DEF SyncInv
  <2>2. CASE KeepsLog(p)
    <3>1. fate' = fate
      BY <1>0, <1>2, <2>1, <2>2 DEF FateTable, KeepsLog, DeliveredSame
    <3> QED
      BY <2>1, <2>2, <3>1 DEF Ledger!ledgerVars, KeepsLog
  <2>3. CASE PartsWithLog(p)
    <3>1. PICK D \in SUBSET Logs, X \in SUBSET Logs :
            /\ D \cup X = {p} /\ D \cap X = {}
            /\ \A l \in Logs : Delivered(l)' <=> Delivered(l) \/ l \in D
            /\ droppedLogs' = droppedLogs + Cardinality(X)
      <4>1. Cardinality({}) = 0 /\ Cardinality({p}) = 1
        BY FS_EmptySet, FS_Singleton
      <4>2. droppedLogs \in Nat
        BY DEF SyncInv, ConnInv, ConnTypeOK
      <4>3. CASE (\A l \in Logs : Delivered(l)' <=> Delivered(l) \/ l = p)
                 /\ droppedLogs' = droppedLogs
        <5>1. /\ {p} \in SUBSET Logs /\ {} \in SUBSET Logs
              /\ {p} \cup {} = {p} /\ {p} \cap {} = {}
              /\ droppedLogs' = droppedLogs + Cardinality({})
          BY <4>1, <4>2, <4>3
        <5> QED
          BY <4>3, <5>1
      <4>4. CASE DeliveredSame /\ droppedLogs' = droppedLogs + 1
        <5>1. /\ {p} \in SUBSET Logs /\ {} \in SUBSET Logs
              /\ {} \cup {p} = {p} /\ {} \cap {p} = {}
              /\ droppedLogs' = droppedLogs + Cardinality({p})
          BY <4>1, <4>4
        <5> QED
          BY <4>4, <5>1 DEF DeliveredSame
      <4> QED
        BY <2>3, <4>3, <4>4 DEF PartsWithLog
    <3>2. written[p] = "accepted" /\ frame[p] # <<>> /\ frame'[p] = <<>>
      BY <2>3 DEF PartsWithLog, SyncInv, CarryInv
    <3>3. \A l \in D \cup X : fate[l] = "pending"
      BY <1>0, <3>1, <3>2 DEF FateTable
    <3>4. \A l \in Logs : fate'[l] = IF l \in D THEN "delivered"
                                     ELSE IF l \in X THEN "dropped" ELSE fate[l]
      BY <1>0, <1>2, <2>1, <3>1, <3>2 DEF FateTable, WireInv
    <3>5. fate' = [l \in Logs |-> IF l \in D THEN "delivered"
                                  ELSE IF l \in X THEN "dropped" ELSE fate[l]]
      <4>1. fate' = [l \in Logs |-> fate'[l]]
        BY <1>0 DEF FateTable
      <4> QED
        BY <3>4, <4>1
    <3>6. Ledger!Settle(D, X)
      BY <2>1, <3>1, <3>3, <3>5, SameCount DEF Ledger!Settle
    <3> QED
      BY <3>6 DEF Ledger!LedgerNext
  <2> QED
    BY <2>1, <2>2, <2>3
<1>3. ASSUME UNCHANGED <<written, frame, wire>> PROVE fate' = fate
  BY <1>3 DEF fate, Delivered
<1>4. ASSUME NEW k \in Closers, Close(k) PROVE [Ledger!LedgerNext]_Ledger!ledgerVars
  <2>1. UNCHANGED <<fate, droppedLogs>>
    BY <1>3, <1>4, OtherEffect
  <2>2. closed' = closed \/ (closed = FALSE /\ closed' = TRUE)
    BY <1>4 DEF Close, CloseCall, CloseStop, CloseTake, CloseConn, closeVars, SyncInv,
       ConnInv, ConnTypeOK
  <2>3. CASE closed' = closed
    BY <2>1, <2>3 DEF Ledger!ledgerVars
  <2>4. CASE closed = FALSE /\ closed' = TRUE
    BY <2>1, <2>4 DEF Ledger!Shut, Ledger!LedgerNext
  <2> QED
    BY <2>2, <2>3, <2>4
<1>5. CASE Reconnect
  <2>1. closed' = closed
    BY <1>5 DEF Reconnect, reconnectLoop, LoopSignal, LoopStop, LoopCheck, LoopAttempt,
       LoopDialFail, LoopDialOk, LoopInstall, LoopCloseNew, LoopBackoff, closeVars
  <2> QED
    BY <1>3, <1>5, <2>1, OtherEffect DEF Ledger!ledgerVars
<1>6. CASE Done \/ UNCHANGED vars
  BY <1>3, <1>6 DEF Done, vars, connVars, shipVars, netVars, closeVars, Ledger!ledgerVars
<1> QED
  BY <1>1, <1>2, <1>4, <1>5, <1>6 DEF Next, writeSync

\* The synchronous Writer keeps the ledger: a log that Write accepts is
\* delivered whole or counted by DroppedLogs, once and never both, with any
\* number of concurrent callers.
THEOREM KeepsLedger == Spec => ImplementsLedger
<1>1. Init => Ledger!LedgerInit
  <2> SUFFICES ASSUME Init PROVE Ledger!LedgerInit
    OBVIOUS
  <2>1. FateTable
    BY SyncInit, FateOf
  <2>2. fate = [l \in Logs |-> "new"]
    BY <2>1 DEF FateTable, Init
  <2>3. droppedLogs = 0 /\ closed = FALSE
    BY DEF Init, ConnInit
  <2> QED
    BY <2>2, <2>3 DEF Ledger!LedgerInit
<1> QED
  BY <1>1, LedgerStep, SyncInvHolds, PTL DEF Spec, ImplementsLedger, Ledger!LedgerSpec

\* A step of the ledger keeps the counter: only a settlement changes which
\* logs are dropped.
LEMMA CountStep ==
  ASSUME IsFiniteSet(Logs), Ledger!CountIsExact, [Ledger!LedgerNext]_(Ledger!ledgerVars)
  PROVE  Ledger!CountIsExact'
<1> DEFINE Lost(f) == {l \in Logs : f[l] = "dropped"}
<1>1. \A X : Ledger!Cardinality(X) = Cardinality(X)
  BY Zenon DEF Cardinality, Ledger!Cardinality
<1>2. droppedLogs = Cardinality(Lost(fate))
  BY <1>1 DEF Ledger!CountIsExact
<1>3. SUFFICES droppedLogs' = Cardinality(Lost(fate'))
  BY <1>1 DEF Ledger!CountIsExact
<1>4. ASSUME NEW D \in SUBSET Logs, NEW X \in SUBSET Logs, Ledger!Settle(D, X)
      PROVE  droppedLogs' = Cardinality(Lost(fate'))
  <2>1. Cardinality(Lost(fate')) = Cardinality(Lost(fate)) + Cardinality(X)
    <3>1. Lost(fate') = Lost(fate) \cup X /\ Lost(fate) \cap X = {}
      BY <1>4 DEF Ledger!Settle
    <3>2. Lost(fate) \in SUBSET Logs
      OBVIOUS
    <3> HIDE DEF Lost
    <3> QED
      BY <3>1, <3>2, DisjointUnion
  <2>2. droppedLogs' = droppedLogs + Cardinality(X)
    BY <1>1, <1>4 DEF Ledger!Settle
  <2> QED
    BY <1>2, <2>1, <2>2
<1>5. ASSUME Lost(fate') = Lost(fate), droppedLogs' = droppedLogs
      PROVE  droppedLogs' = Cardinality(Lost(fate'))
  BY <1>2, <1>5
<1>6. ASSUME NEW l \in Logs, Ledger!Accept(l) \/ Ledger!Error(l) \/ Ledger!Ignore(l)
      PROVE  droppedLogs' = Cardinality(Lost(fate'))
  BY <1>5, <1>6 DEF Ledger!Accept, Ledger!Error, Ledger!Ignore, Ledger!Become
<1>7. CASE Ledger!Shut \/ UNCHANGED Ledger!ledgerVars
  BY <1>5, <1>7 DEF Ledger!Shut, Ledger!ledgerVars
<1> QED
  BY <1>4, <1>6, <1>7 DEF Ledger!LedgerNext

\* DroppedLogs is, at every moment, the number of logs that were given up.
THEOREM CounterExact ==
  ASSUME IsFiniteSet(Logs)
  PROVE  Ledger!LedgerSpec => []Ledger!CountIsExact
<1>1. Ledger!LedgerInit => Ledger!CountIsExact
  <2>1. \A X : Ledger!Cardinality(X) = Cardinality(X)
    BY Zenon DEF Cardinality, Ledger!Cardinality
  <2>2. Ledger!LedgerInit => {l \in Logs : fate[l] = "dropped"} = {} /\ droppedLogs = 0
    BY DEF Ledger!LedgerInit
  <2> QED
    BY <2>1, <2>2, FS_EmptySet DEF Ledger!CountIsExact
<1> QED
  BY <1>1, CountStep, PTL DEF Ledger!LedgerSpec

\* DroppedLogs is the number of logs that Write accepted and lost.
THEOREM DroppedLogsExact ==
  ASSUME IsFiniteSet(Logs)
  PROVE  Spec => []Ledger!CountIsExact
  BY KeepsLedger, CounterExact, PTL DEF ImplementsLedger

=============================================================================
