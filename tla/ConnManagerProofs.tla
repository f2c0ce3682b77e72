------------------------- MODULE ConnManagerProofs -------------------------
(***************************************************************************)
(* Proofs about ConnManager, for any number of shippers, callers of Close, *)
(* connections and retries: type correctness, and the inductive invariant  *)
(* from which the ownership of connections, the safety of the reconnect    *)
(* loop and the teardown follow.                                           *)
(***************************************************************************)
EXTENDS ConnManager, SequenceTheorems, TLAPS

-----------------------------------------------------------------------------
(***************************************************************************)
(* The inductive invariant.                                                *)
(***************************************************************************)

\* reconnectLoop counts its attempts within the burst.
AttemptInv ==
    /\ loopPc = "backoff" => attempt < MaxRetries
    /\ loopPc \in {"attempt", "dial", "install", "closeNew"} => attempt <= MaxRetries

\* The loop has a dialed connection exactly between the dial and the install.
DialedInv == dialed # Nil <=> loopPc \in {"install", "closeNew"}

\* Only the loop installs a connection, so w.conn stays nil during a burst.
BurstInv ==
    loopPc \in {"attempt", "dial", "install", "closeNew", "backoff"} => conn = Nil

\* What a shipper holds while it is using it.
HeldInv ==
    \A p \in Shippers :
      shipPc[p] \in {"lock", "write", "failed", "closeFailed"} =>
        /\ held[p] # Nil
        /\ held[p] # dialed
        /\ sock[held[p]] # "unused"

\* The order of the steps of Close.
CloseInv ==
    /\ done => closed
    /\ \A k \in Closers : closePc[k] \in {"barrier", "join"} => closed
    /\ \A k \in Closers : taken[k] # Nil => closePc[k] = "teardown"

\* Every owner owns an open connection, and no two own the same one.
OwnInv ==
    /\ conn # Nil => sock[conn] = "open" /\ conn # dialed
    /\ dialed # Nil => sock[dialed] = "open"
    /\ \A p \in Shippers : shipPc[p] = "closeFailed" =>
         /\ sock[held[p]] = "open"
         /\ held[p] # conn
         /\ held[p] # dialed
         /\ \A q \in Shippers : shipPc[q] = "closeFailed" /\ held[q] = held[p] => p = q
    /\ \A k \in Closers : taken[k] # Nil =>
         /\ sock[taken[k]] = "open"
         /\ taken[k] # conn
         /\ taken[k] # dialed
         /\ \A p \in Shippers : shipPc[p] = "closeFailed" => held[p] # taken[k]
         /\ \A j \in Closers : taken[j] = taken[k] => j = k

\* Every open connection has an owner.
NoLeakInv ==
    \A c \in Conns : sock[c] = "open" =>
      \/ conn = c
      \/ dialed = c
      \/ \E p \in Shippers : shipPc[p] = "closeFailed" /\ held[p] = c
      \/ \E k \in Closers : taken[k] = c

ConnInv ==
    /\ ConnTypeOK
    /\ AttemptInv
    /\ DialedInv
    /\ BurstInv
    /\ HeldInv
    /\ CloseInv
    /\ OwnInv
    /\ NoLeakInv
    /\ NoLostWakeup
    /\ NoConnAfterClose

-----------------------------------------------------------------------------
LEMMA WireAppend ==
  ASSUME ConnTypeOK, NEW c, NEW r \in Frame
  PROVE  [wire EXCEPT ![c] = Append(@, r)] \in [Conns -> Seq(Frame)]
<1>1. \A d \in Conns : Append(wire[d], r) \in Seq(Frame)
  BY AppendProperties DEF ConnTypeOK
<1> QED
  BY <1>1 DEF ConnTypeOK

LEMMA InitInv == ConnInit => ConnInv
<1> SUFFICES ASSUME ConnInit PROVE ConnInv
  OBVIOUS
<1> USE DialsAssumption, RetriesAssumption DEF ConnInit, Nil, Conns
<1>1. ConnTypeOK
  <2>1. wire \in [Conns -> Seq(Frame)] /\ frame \in [Shippers -> Seq(Logs)]
    BY EmptySeq
  <2>2. /\ conn \in Conns \cup {Nil}
        /\ sock \in [Conns -> {"unused", "open", "closed"}]
        /\ attempt \in 1..(MaxRetries + 1)
    OBVIOUS
  <2>3. /\ shipPc \in [Shippers -> ShipPcs]
        /\ held \in [Shippers -> Conns \cup {Nil}]
        /\ closePc \in [Closers -> ClosePcs]
        /\ taken \in [Closers -> Conns \cup {Nil}]
    BY DEF ShipPcs, ClosePcs
  <2>4. QED
    BY <2>1, <2>2, <2>3 DEF ConnTypeOK, LoopPcs
<1>2. AttemptInv /\ DialedInv /\ BurstInv /\ HeldInv /\ CloseInv
  BY DEF AttemptInv, DialedInv, BurstInv, HeldInv, CloseInv
<1>3. OwnInv /\ NoLeakInv
  BY DEF OwnInv, NoLeakInv
<1>4. NoLostWakeup /\ NoConnAfterClose
  BY DEF NoLostWakeup, NoConnAfterClose
<1> QED
  BY <1>1, <1>2, <1>3, <1>4 DEF ConnInv

(***************************************************************************)
(* Every step preserves the invariant: one step per action.                *)
(***************************************************************************)
LEMMA StepInv == ConnInv /\ [ConnNext]_connVars => ConnInv'
<1> SUFFICES ASSUME ConnInv, [ConnNext]_connVars PROVE ConnInv'
  OBVIOUS
<1> USE DialsAssumption, RetriesAssumption
    DEF Nil, Conns, netVars, loopVars, shipVars, closeVars
<1> USE DEF ConnInv
<1>1. ASSUME NEW p \in Shippers, ShipAny(p) PROVE ConnInv'
  <2> USE <1>1 DEF ShipAny, Ship
  <2>1. ConnTypeOK'
    BY DEF ConnTypeOK, LoopPcs, ShipPcs, ClosePcs, AttemptInv, Frame
  <2>2. (AttemptInv /\ DialedInv /\ BurstInv)'
    BY DEF ConnTypeOK, AttemptInv, DialedInv, BurstInv, OwnInv
  <2>3. (HeldInv /\ CloseInv)'
    BY DEF ConnTypeOK, HeldInv, CloseInv, OwnInv, DialedInv
  <2>4. OwnInv'
    BY DEF ConnTypeOK, OwnInv, HeldInv, DialedInv, BurstInv, CloseInv
  <2>5. NoLeakInv'
    BY DEF ConnTypeOK, NoLeakInv, OwnInv, DialedInv, BurstInv, CloseInv
  <2>6. (NoLostWakeup /\ NoConnAfterClose)'
    BY DEF ConnTypeOK, NoLostWakeup, NoConnAfterClose, DialedInv, CloseInv
  <2> QED
    BY <2>1, <2>2, <2>3, <2>4, <2>5, <2>6
<1>2. ASSUME NEW p \in Shippers, GetConn(p) PROVE ConnInv'
  <2> USE <1>2 DEF GetConn
  <2>1. ConnTypeOK'
    BY DEF ConnTypeOK, LoopPcs, ShipPcs, ClosePcs, AttemptInv, Frame
  <2>2. (AttemptInv /\ DialedInv /\ BurstInv)'
    BY DEF ConnTypeOK, AttemptInv, DialedInv, BurstInv, OwnInv
  <2>3. (HeldInv /\ CloseInv)'
    BY DEF ConnTypeOK, HeldInv, CloseInv, OwnInv, DialedInv
  <2>4. OwnInv'
    BY DEF ConnTypeOK, OwnInv, HeldInv, DialedInv, BurstInv, CloseInv
  <2>5. NoLeakInv'
    BY DEF ConnTypeOK, NoLeakInv, OwnInv, DialedInv, BurstInv, CloseInv
  <2>6. (NoLostWakeup /\ NoConnAfterClose)'
    BY DEF ConnTypeOK, NoLostWakeup, NoConnAfterClose, DialedInv, CloseInv
  <2> QED
    BY <2>1, <2>2, <2>3, <2>4, <2>5, <2>6
<1>3. ASSUME NEW p \in Shippers, DropNoConn(p) PROVE ConnInv'
  <2> USE <1>3 DEF DropNoConn, Return, triggerReconnect
  <2>1. ConnTypeOK'
    <3>1. frame' \in [Shippers -> Seq(Logs)] /\ droppedLogs' \in Nat
      BY EmptySeq DEF ConnTypeOK
    <3>2. shipPc' \in [Shippers -> ShipPcs] /\ held' \in [Shippers -> Conns \cup {Nil}]
      BY DEF ConnTypeOK, ShipPcs
    <3> QED
      BY <3>1, <3>2 DEF ConnTypeOK
  <2>2. (AttemptInv /\ DialedInv /\ BurstInv)'
    BY DEF ConnTypeOK, AttemptInv, DialedInv, BurstInv, OwnInv
  <2>3. (HeldInv /\ CloseInv)'
    BY DEF ConnTypeOK, HeldInv, CloseInv, OwnInv, DialedInv
  <2>4. OwnInv'
    BY DEF ConnTypeOK, OwnInv, HeldInv, DialedInv, BurstInv, CloseInv
  <2>5. NoLeakInv'
    BY DEF ConnTypeOK, NoLeakInv, OwnInv, DialedInv, BurstInv, CloseInv
  <2>6. (NoLostWakeup /\ NoConnAfterClose)'
    BY DEF ConnTypeOK, NoLostWakeup, NoConnAfterClose, DialedInv, CloseInv
  <2> QED
    BY <2>1, <2>2, <2>3, <2>4, <2>5, <2>6
<1>4. ASSUME NEW p \in Shippers, LockWriteMu(p) PROVE ConnInv'
  <2> USE <1>4 DEF LockWriteMu
  <2>1. ConnTypeOK'
    BY DEF ConnTypeOK, LoopPcs, ShipPcs, ClosePcs, AttemptInv, Frame
  <2>2. (AttemptInv /\ DialedInv /\ BurstInv)'
    BY DEF ConnTypeOK, AttemptInv, DialedInv, BurstInv, OwnInv
  <2>3. (HeldInv /\ CloseInv)'
    BY DEF ConnTypeOK, HeldInv, CloseInv, OwnInv, DialedInv
  <2>4. OwnInv'
    BY DEF ConnTypeOK, OwnInv, HeldInv, DialedInv, BurstInv, CloseInv
  <2>5. NoLeakInv'
    BY DEF ConnTypeOK, NoLeakInv, OwnInv, DialedInv, BurstInv, CloseInv
  <2>6. (NoLostWakeup /\ NoConnAfterClose)'
    BY DEF ConnTypeOK, NoLostWakeup, NoConnAfterClose, DialedInv, CloseInv
  <2> QED
    BY <2>1, <2>2, <2>3, <2>4, <2>5, <2>6
<1>5. ASSUME NEW p \in Shippers, WriteOk(p) PROVE ConnInv'
  <2> USE <1>5 DEF WriteOk, Return
  <2>1. ConnTypeOK'
    <3>1. frame' \in [Shippers -> Seq(Logs)]
      BY EmptySeq DEF ConnTypeOK
    <3>2. shipPc' \in [Shippers -> ShipPcs] /\ held' \in [Shippers -> Conns \cup {Nil}]
      BY DEF ConnTypeOK, ShipPcs
    <3>3. [logs |-> frame[p], whole |-> TRUE] \in Frame
      BY DEF ConnTypeOK, Frame
    <3>4. wire' \in [Conns -> Seq(Frame)]
      BY <3>3, WireAppend
    <3> QED
      BY <3>1, <3>2, <3>4 DEF ConnTypeOK
  <2>2. (AttemptInv /\ DialedInv /\ BurstInv)'
    BY DEF ConnTypeOK, AttemptInv, DialedInv, BurstInv, OwnInv
  <2>3. (HeldInv /\ CloseInv)'
    BY DEF ConnTypeOK, HeldInv, CloseInv, OwnInv, DialedInv
  <2>4. OwnInv'
    BY DEF ConnTypeOK, OwnInv, HeldInv, DialedInv, BurstInv, CloseInv
  <2>5. NoLeakInv'
    BY DEF ConnTypeOK, NoLeakInv, OwnInv, DialedInv, BurstInv, CloseInv
  <2>6. (NoLostWakeup /\ NoConnAfterClose)'
    BY DEF ConnTypeOK, NoLostWakeup, NoConnAfterClose, DialedInv, CloseInv
  <2> QED
    BY <2>1, <2>2, <2>3, <2>4, <2>5, <2>6
<1>6. ASSUME NEW p \in Shippers, WriteFail(p) PROVE ConnInv'
  <2> USE <1>6 DEF WriteFail
  <2>1. ConnTypeOK'
    <3>1. shipPc' \in [Shippers -> ShipPcs]
      BY DEF ConnTypeOK, ShipPcs
    <3>2. [logs |-> frame[p], whole |-> FALSE] \in Frame
      BY DEF ConnTypeOK, Frame
    <3>3. wire' \in [Conns -> Seq(Frame)]
      <4>1. CASE wire' = wire
        BY <4>1 DEF ConnTypeOK
      <4>2. CASE wire' = [wire EXCEPT ![held[p]] =
                            Append(@, [logs |-> frame[p], whole |-> FALSE])]
        BY <3>2, <4>2, WireAppend
      <4> QED
        BY <4>1, <4>2
    <3> QED
      BY <3>1, <3>3 DEF ConnTypeOK
  <2>2. (AttemptInv /\ DialedInv /\ BurstInv)'
    BY DEF ConnTypeOK, AttemptInv, DialedInv, BurstInv, OwnInv
  <2>3. (HeldInv /\ CloseInv)'
    BY DEF ConnTypeOK, HeldInv, CloseInv, OwnInv, DialedInv
  <2>4. OwnInv'
    BY DEF ConnTypeOK, OwnInv, HeldInv, DialedInv, BurstInv, CloseInv
  <2>5. NoLeakInv'
    BY DEF ConnTypeOK, NoLeakInv, OwnInv, DialedInv, BurstInv, CloseInv
  <2>6. (NoLostWakeup /\ NoConnAfterClose)'
    BY DEF ConnTypeOK, NoLostWakeup, NoConnAfterClose, DialedInv, CloseInv
  <2> QED
    BY <2>1, <2>2, <2>3, <2>4, <2>5, <2>6
<1>7. ASSUME NEW p \in Shippers, Discard(p) PROVE ConnInv'
  <2> USE <1>7 DEF Discard
  <2>1. ConnTypeOK'
    <3>1. frame' \in [Shippers -> Seq(Logs)] /\ droppedLogs' \in Nat
      BY EmptySeq DEF ConnTypeOK
    <3>2. /\ shipPc' \in [Shippers -> ShipPcs]
          /\ held' \in [Shippers -> Conns \cup {Nil}]
          /\ conn' \in Conns \cup {Nil}
      BY DEF ConnTypeOK, ShipPcs
    <3> QED
      BY <3>1, <3>2 DEF ConnTypeOK
  <2>2. (AttemptInv /\ DialedInv /\ BurstInv)'
    BY DEF ConnTypeOK, AttemptInv, DialedInv, BurstInv, OwnInv
  <2>3. (HeldInv /\ CloseInv)'
    BY DEF ConnTypeOK, HeldInv, CloseInv, OwnInv, DialedInv
  <2>4. OwnInv'
    <3>1. CASE conn = held[p]
      <4>1. /\ held' = held /\ conn' = Nil /\ sock' = sock /\ dialed' = dialed
            /\ taken' = taken /\ held[p] # Nil
            /\ shipPc' = [shipPc EXCEPT ![p] = "closeFailed"]
        BY <3>1 DEF HeldInv
      <4>2. /\ sock[held[p]] = "open" /\ held[p] # dialed
            /\ \A q \in Shippers : shipPc[q] = "closeFailed" => held[q] # held[p]
            /\ \A k \in Closers : taken[k] # held[p]
        BY <3>1, <4>1 DEF OwnInv
      <4>3. \A q \in Shippers : shipPc'[q] = "closeFailed" =>
                                q = p \/ shipPc[q] = "closeFailed"
        BY <4>1 DEF ConnTypeOK
      <4>4. \A q \in Shippers : shipPc'[q] = "closeFailed" =>
              /\ sock'[held'[q]] = "open" /\ held'[q] # conn' /\ held'[q] # dialed'
        BY <4>1, <4>2, <4>3 DEF ConnTypeOK, OwnInv, HeldInv
      <4>5. \A q, r \in Shippers :
              shipPc'[q] = "closeFailed" /\ shipPc'[r] = "closeFailed"
                /\ held'[r] = held'[q] => q = r
        BY <4>1, <4>2, <4>3 DEF OwnInv
      <4>6. \A k \in Closers : taken'[k] # Nil =>
              /\ sock'[taken'[k]] = "open" /\ taken'[k] # conn' /\ taken'[k] # dialed'
              /\ \A q \in Shippers : shipPc'[q] = "closeFailed" => held'[q] # taken'[k]
              /\ \A j \in Closers : taken'[j] = taken'[k] => j = k
        BY <4>1, <4>2, <4>3 DEF OwnInv
      <4> QED
        BY <4>1, <4>4, <4>5, <4>6 DEF OwnInv
    <3>2. CASE conn # held[p]
      <4>1. \A q \in Shippers : shipPc'[q] = "closeFailed" =>
                                shipPc[q] = "closeFailed" /\ held'[q] = held[q]
        BY <3>2 DEF ConnTypeOK
      <4> QED
        BY <3>2, <4>1 DEF OwnInv
    <3> QED
      BY <3>1, <3>2
  <2>5. NoLeakInv'
    <3>1. CASE conn = held[p]
      <4>1. shipPc'[p] = "closeFailed" /\ held'[p] = conn
        BY <3>1 DEF ConnTypeOK
      <4> QED
        BY <3>1, <4>1 DEF ConnTypeOK, NoLeakInv
    <3>2. CASE conn # held[p]
      <4>1. /\ conn' = conn /\ dialed' = dialed /\ sock' = sock /\ taken' = taken
            /\ \A q \in Shippers : shipPc[q] = "closeFailed" =>
                                 shipPc'[q] = "closeFailed" /\ held'[q] = held[q]
        BY <3>2 DEF ConnTypeOK
      <4> QED
        BY <4>1 DEF NoLeakInv
    <3> QED
      BY <3>1, <3>2
  <2>6. (NoLostWakeup /\ NoConnAfterClose)'
    BY DEF ConnTypeOK, NoLostWakeup, NoConnAfterClose, DialedInv, CloseInv
  <2> QED
    BY <2>1, <2>2, <2>3, <2>4, <2>5, <2>6
<1>8. ASSUME NEW p \in Shippers, CloseFailed(p) PROVE ConnInv'
  <2> USE <1>8 DEF CloseFailed
  <2>1. ConnTypeOK'
    BY DEF ConnTypeOK, LoopPcs, ShipPcs, ClosePcs, AttemptInv, Frame
  <2>2. (AttemptInv /\ DialedInv /\ BurstInv)'
    BY DEF ConnTypeOK, AttemptInv, DialedInv, BurstInv, OwnInv
  <2>3. (HeldInv /\ CloseInv)'
    BY DEF ConnTypeOK, HeldInv, CloseInv, OwnInv, DialedInv
  <2>4. OwnInv'
    <3>1. /\ conn' = conn /\ dialed' = dialed /\ taken' = taken /\ held' = held
          /\ held[p] # Nil /\ held[p] # conn /\ held[p] # dialed
          /\ \A k \in Closers : taken[k] # held[p]
      BY DEF OwnInv, HeldInv
    <3>2. \A c \in Conns : c # held[p] => sock'[c] = sock[c]
      BY DEF ConnTypeOK
    <3>3. \A q \in Shippers : shipPc'[q] = "closeFailed" =>
                              shipPc[q] = "closeFailed" /\ held[q] # held[p]
      BY DEF ConnTypeOK, OwnInv
    <3>4. \A q \in Shippers : shipPc'[q] = "closeFailed" => held[q] \in Conns
      BY <3>3 DEF ConnTypeOK, HeldInv
    <3>5. conn \in Conns \cup {Nil} /\ dialed \in Conns \cup {Nil}
          /\ \A k \in Closers : taken[k] \in Conns \cup {Nil}
      BY DEF ConnTypeOK
    <3> QED
      BY <3>1, <3>2, <3>3, <3>4, <3>5 DEF OwnInv
  <2>5. NoLeakInv'
    <3>1. /\ conn' = conn /\ dialed' = dialed /\ taken' = taken /\ held' = held
          /\ held[p] \in Conns
      BY DEF ConnTypeOK, HeldInv
    <3>2. sock'[held[p]] = "closed" /\ \A c \in Conns : c # held[p] => sock'[c] = sock[c]
      BY <3>1 DEF ConnTypeOK
    <3>3. \A q \in Shippers : q # p => shipPc'[q] = shipPc[q]
      BY DEF ConnTypeOK
    <3> QED
      BY <3>1, <3>2, <3>3 DEF NoLeakInv
  <2>6. (NoLostWakeup /\ NoConnAfterClose)'
    BY DEF ConnTypeOK, NoLostWakeup, NoConnAfterClose, DialedInv, CloseInv
  <2> QED
    BY <2>1, <2>2, <2>3, <2>4, <2>5, <2>6
<1>9. ASSUME NEW p \in Shippers, TriggerAfterError(p) PROVE ConnInv'
  <2> USE <1>9 DEF TriggerAfterError, Return, triggerReconnect
  <2>1. ConnTypeOK'
    <3>1. frame' \in [Shippers -> Seq(Logs)] /\ droppedLogs' \in Nat
      BY EmptySeq DEF ConnTypeOK
    <3>2. shipPc' \in [Shippers -> ShipPcs] /\ held' \in [Shippers -> Conns \cup {Nil}]
      BY DEF ConnTypeOK, ShipPcs
    <3> QED
      BY <3>1, <3>2 DEF ConnTypeOK
  <2>2. (AttemptInv /\ DialedInv /\ BurstInv)'
    BY DEF ConnTypeOK, AttemptInv, DialedInv, BurstInv, OwnInv
  <2>3. (HeldInv /\ CloseInv)'
    BY DEF ConnTypeOK, HeldInv, CloseInv, OwnInv, DialedInv
  <2>4. OwnInv'
    BY DEF ConnTypeOK, OwnInv, HeldInv, DialedInv, BurstInv, CloseInv
  <2>5. NoLeakInv'
    BY DEF ConnTypeOK, NoLeakInv, OwnInv, DialedInv, BurstInv, CloseInv
  <2>6. (NoLostWakeup /\ NoConnAfterClose)'
    BY DEF ConnTypeOK, NoLostWakeup, NoConnAfterClose, DialedInv, CloseInv
  <2> QED
    BY <2>1, <2>2, <2>3, <2>4, <2>5, <2>6
<1>10. ASSUME LoopSignal PROVE ConnInv'
  <2> USE <1>10 DEF LoopSignal
  <2>1. ConnTypeOK'
    BY DEF ConnTypeOK, LoopPcs, ShipPcs, ClosePcs, AttemptInv, Frame
  <2>2. (AttemptInv /\ DialedInv /\ BurstInv)'
    BY DEF ConnTypeOK, AttemptInv, DialedInv, BurstInv, OwnInv
  <2>3. (HeldInv /\ CloseInv)'
    BY DEF ConnTypeOK, HeldInv, CloseInv, OwnInv, DialedInv
  <2>4. OwnInv'
    BY DEF ConnTypeOK, OwnInv, HeldInv, DialedInv, BurstInv, CloseInv
  <2>5. NoLeakInv'
    BY DEF ConnTypeOK, NoLeakInv, OwnInv, DialedInv, BurstInv, CloseInv
  <2>6. (NoLostWakeup /\ NoConnAfterClose)'
    BY DEF ConnTypeOK, NoLostWakeup, NoConnAfterClose, DialedInv, CloseInv
  <2> QED
    BY <2>1, <2>2, <2>3, <2>4, <2>5, <2>6
<1>11. ASSUME LoopStop PROVE ConnInv'
  <2> USE <1>11 DEF LoopStop
  <2>1. ConnTypeOK'
    BY DEF ConnTypeOK, LoopPcs, ShipPcs, ClosePcs, AttemptInv, Frame
  <2>2. (AttemptInv /\ DialedInv /\ BurstInv)'
    BY DEF ConnTypeOK, AttemptInv, DialedInv, BurstInv, OwnInv
  <2>3. (HeldInv /\ CloseInv)'
    BY DEF ConnTypeOK, HeldInv, CloseInv, OwnInv, DialedInv
  <2>4. OwnInv'
    BY DEF ConnTypeOK, OwnInv, HeldInv, DialedInv, BurstInv, CloseInv
  <2>5. NoLeakInv'
    BY DEF ConnTypeOK, NoLeakInv, OwnInv, DialedInv, BurstInv, CloseInv
  <2>6. (NoLostWakeup /\ NoConnAfterClose)'
    BY DEF ConnTypeOK, NoLostWakeup, NoConnAfterClose, DialedInv, CloseInv
  <2> QED
    BY <2>1, <2>2, <2>3, <2>4, <2>5, <2>6
<1>12. ASSUME LoopCheck PROVE ConnInv'
  <2> USE <1>12 DEF LoopCheck
  <2>1. ConnTypeOK'
    <3>1. attempt' \in 1..(MaxRetries + 1) /\ loopPc' \in LoopPcs
      BY DEF ConnTypeOK, LoopPcs, AttemptInv
    <3> QED
      BY <3>1 DEF ConnTypeOK
  <2>2. (AttemptInv /\ DialedInv /\ BurstInv)'
    BY DEF ConnTypeOK, AttemptInv, DialedInv, BurstInv, OwnInv
  <2>3. (HeldInv /\ CloseInv)'
    BY DEF ConnTypeOK, HeldInv, CloseInv, OwnInv, DialedInv
  <2>4. OwnInv'
    BY DEF ConnTypeOK, OwnInv, HeldInv, DialedInv, BurstInv, CloseInv
  <2>5. NoLeakInv'
    BY DEF ConnTypeOK, NoLeakInv, OwnInv, DialedInv, BurstInv, CloseInv
  <2>6. (NoLostWakeup /\ NoConnAfterClose)'
    BY DEF ConnTypeOK, NoLostWakeup, NoConnAfterClose, DialedInv, CloseInv
  <2> QED
    BY <2>1, <2>2, <2>3, <2>4, <2>5, <2>6
<1>13. ASSUME LoopAttempt PROVE ConnInv'
  <2> USE <1>13 DEF LoopAttempt
  <2>1. ConnTypeOK'
    BY DEF ConnTypeOK, LoopPcs, ShipPcs, ClosePcs, AttemptInv, Frame
  <2>2. (AttemptInv /\ DialedInv /\ BurstInv)'
    BY DEF ConnTypeOK, AttemptInv, DialedInv, BurstInv, OwnInv
  <2>3. (HeldInv /\ CloseInv)'
    BY DEF ConnTypeOK, HeldInv, CloseInv, OwnInv, DialedInv
  <2>4. OwnInv'
    BY DEF ConnTypeOK, OwnInv, HeldInv, DialedInv, BurstInv, CloseInv
  <2>5. NoLeakInv'
    BY DEF ConnTypeOK, NoLeakInv, OwnInv, DialedInv, BurstInv, CloseInv
  <2>6. (NoLostWakeup /\ NoConnAfterClose)'
    BY DEF ConnTypeOK, NoLostWakeup, NoConnAfterClose, DialedInv, CloseInv
  <2> QED
    BY <2>1, <2>2, <2>3, <2>4, <2>5, <2>6
<1>14. ASSUME LoopDialFail PROVE ConnInv'
  <2> USE <1>14 DEF LoopDialFail, AttemptFailed
  <2>1. ConnTypeOK'
    <3>1. attempt' \in 1..(MaxRetries + 1) /\ loopPc' \in LoopPcs
      BY DEF ConnTypeOK, LoopPcs, AttemptInv
    <3> QED
      BY <3>1 DEF ConnTypeOK
  <2>2. (AttemptInv /\ DialedInv /\ BurstInv)'
    BY DEF ConnTypeOK, AttemptInv, DialedInv, BurstInv, OwnInv
  <2>3. (HeldInv /\ CloseInv)'
    BY DEF ConnTypeOK, HeldInv, CloseInv, OwnInv, DialedInv
  <2>4. OwnInv'
    BY DEF ConnTypeOK, OwnInv, HeldInv, DialedInv, BurstInv, CloseInv
  <2>5. NoLeakInv'
    BY DEF ConnTypeOK, NoLeakInv, OwnInv, DialedInv, BurstInv, CloseInv
  <2>6. (NoLostWakeup /\ NoConnAfterClose)'
    BY DEF ConnTypeOK, NoLostWakeup, NoConnAfterClose, DialedInv, CloseInv
  <2> QED
    BY <2>1, <2>2, <2>3, <2>4, <2>5, <2>6
<1>15. ASSUME LoopDialOk PROVE ConnInv'
  <2> USE <1>15 DEF LoopDialOk
  <2>1. ConnTypeOK'
    BY DEF ConnTypeOK, LoopPcs, ShipPcs, ClosePcs, AttemptInv, Frame
  <2>2. (AttemptInv /\ DialedInv /\ BurstInv)'
    BY DEF ConnTypeOK, AttemptInv, DialedInv, BurstInv, OwnInv
  <2>3. (HeldInv /\ CloseInv)'
    BY DEF ConnTypeOK, HeldInv, CloseInv, OwnInv, DialedInv
  <2>4. OwnInv'
    BY DEF ConnTypeOK, OwnInv, HeldInv, DialedInv, BurstInv, CloseInv
  <2>5. NoLeakInv'
    <3>1. PICK c \in Conns : sock' = [sock EXCEPT ![c] = "open"] /\ dialed' = c
      BY <1>15
    <3>2. dialed = Nil
      BY DEF DialedInv
    <3>3. \A b \in Conns : b # c => sock'[b] = sock[b]
      BY <3>1 DEF ConnTypeOK
    <3> QED
      BY <3>1, <3>2, <3>3 DEF NoLeakInv
  <2>6. (NoLostWakeup /\ NoConnAfterClose)'
    BY DEF ConnTypeOK, NoLostWakeup, NoConnAfterClose, DialedInv, CloseInv
  <2> QED
    BY <2>1, <2>2, <2>3, <2>4, <2>5, <2>6
<1>16. ASSUME LoopInstall PROVE ConnInv'
  <2> USE <1>16 DEF LoopInstall
  <2>1. ConnTypeOK'
    <3>1. /\ conn' \in Conns \cup {Nil}
          /\ dialed' \in Conns \cup {Nil}
          /\ loopPc' \in LoopPcs
          /\ reconnectCount' \in Nat
      BY DEF ConnTypeOK, LoopPcs
    <3>2. sock' \in [Conns -> {"unused", "open", "closed"}]
      BY DEF ConnTypeOK
    <3> QED
      BY <3>1, <3>2 DEF ConnTypeOK
  <2>2. (AttemptInv /\ DialedInv /\ BurstInv)'
    BY DEF ConnTypeOK, AttemptInv, DialedInv, BurstInv, OwnInv
  <2>3. (HeldInv /\ CloseInv)'
    BY DEF ConnTypeOK, HeldInv, CloseInv, OwnInv, DialedInv
  <2>4. OwnInv'
    BY DEF ConnTypeOK, OwnInv, HeldInv, DialedInv, BurstInv, CloseInv
  <2>5. NoLeakInv'
    <3>1. conn = Nil
      BY DEF BurstInv
    <3>2. \A c \in Conns : sock'[c] = sock[c]
      BY <3>1 DEF ConnTypeOK
    <3> QED
      BY <3>1, <3>2 DEF ConnTypeOK, NoLeakInv
  <2>6. (NoLostWakeup /\ NoConnAfterClose)'
    BY DEF ConnTypeOK, NoLostWakeup, NoConnAfterClose, DialedInv, CloseInv
  <2> QED
    BY <2>1, <2>2, <2>3, <2>4, <2>5, <2>6
<1>17. ASSUME LoopCloseNew PROVE ConnInv'
  <2> USE <1>17 DEF LoopCloseNew, AttemptFailed
  <2>1. ConnTypeOK'
    <3>1. attempt' \in 1..(MaxRetries + 1) /\ loopPc' \in LoopPcs
      BY DEF ConnTypeOK, LoopPcs, AttemptInv
    <3>2. sock' \in [Conns -> {"unused", "open", "closed"}]
      BY DEF ConnTypeOK
    <3> QED
      BY <3>1, <3>2 DEF ConnTypeOK
  <2>2. (AttemptInv /\ DialedInv /\ BurstInv)'
    BY DEF ConnTypeOK, AttemptInv, DialedInv, BurstInv, OwnInv
  <2>3. (HeldInv /\ CloseInv)'
    BY DEF ConnTypeOK, HeldInv, CloseInv, OwnInv, DialedInv
  <2>4. OwnInv'
    BY DEF ConnTypeOK, OwnInv, HeldInv, DialedInv, BurstInv, CloseInv
  <2>5. NoLeakInv'
    BY DEF ConnTypeOK, NoLeakInv, OwnInv, DialedInv, BurstInv, CloseInv
  <2>6. (NoLostWakeup /\ NoConnAfterClose)'
    BY DEF ConnTypeOK, NoLostWakeup, NoConnAfterClose, DialedInv, CloseInv
  <2> QED
    BY <2>1, <2>2, <2>3, <2>4, <2>5, <2>6
<1>18. ASSUME LoopBackoff PROVE ConnInv'
  <2> USE <1>18 DEF LoopBackoff
  <2>1. ConnTypeOK'
    <3>1. attempt' \in 1..(MaxRetries + 1) /\ loopPc' \in LoopPcs
      BY DEF ConnTypeOK, LoopPcs, AttemptInv
    <3> QED
      BY <3>1 DEF ConnTypeOK
  <2>2. (AttemptInv /\ DialedInv /\ BurstInv)'
    BY DEF ConnTypeOK, AttemptInv, DialedInv, BurstInv, OwnInv
  <2>3. (HeldInv /\ CloseInv)'
    BY DEF ConnTypeOK, HeldInv, CloseInv, OwnInv, DialedInv
  <2>4. OwnInv'
    BY DEF ConnTypeOK, OwnInv, HeldInv, DialedInv, BurstInv, CloseInv
  <2>5. NoLeakInv'
    BY DEF ConnTypeOK, NoLeakInv, OwnInv, DialedInv, BurstInv, CloseInv
  <2>6. (NoLostWakeup /\ NoConnAfterClose)'
    BY DEF ConnTypeOK, NoLostWakeup, NoConnAfterClose, DialedInv, CloseInv
  <2> QED
    BY <2>1, <2>2, <2>3, <2>4, <2>5, <2>6
<1>19. ASSUME NEW k \in Closers, CloseCall(k) PROVE ConnInv'
  <2> USE <1>19 DEF CloseCall
  <2>1. ConnTypeOK'
    BY DEF ConnTypeOK, LoopPcs, ShipPcs, ClosePcs, AttemptInv, Frame
  <2>2. (AttemptInv /\ DialedInv /\ BurstInv)'
    BY DEF ConnTypeOK, AttemptInv, DialedInv, BurstInv, OwnInv
  <2>3. (HeldInv /\ CloseInv)'
    BY DEF ConnTypeOK, HeldInv, CloseInv, OwnInv, DialedInv
  <2>4. OwnInv'
    BY DEF ConnTypeOK, OwnInv, HeldInv, DialedInv, BurstInv, CloseInv
  <2>5. NoLeakInv'
    BY DEF ConnTypeOK, NoLeakInv, OwnInv, DialedInv, BurstInv, CloseInv
  <2>6. (NoLostWakeup /\ NoConnAfterClose)'
    BY DEF ConnTypeOK, NoLostWakeup, NoConnAfterClose, DialedInv, CloseInv
  <2> QED
    BY <2>1, <2>2, <2>3, <2>4, <2>5, <2>6
<1>20. ASSUME NEW k \in Closers, CloseStop(k) PROVE ConnInv'
  <2> USE <1>20 DEF CloseStop
  <2>1. ConnTypeOK'
    BY DEF ConnTypeOK, LoopPcs, ShipPcs, ClosePcs, AttemptInv, Frame
  <2>2. (AttemptInv /\ DialedInv /\ BurstInv)'
    BY DEF ConnTypeOK, AttemptInv, DialedInv, BurstInv, OwnInv
  <2>3. (HeldInv /\ CloseInv)'
    BY DEF ConnTypeOK, HeldInv, CloseInv, OwnInv, DialedInv
  <2>4. OwnInv'
    BY DEF ConnTypeOK, OwnInv, HeldInv, DialedInv, BurstInv, CloseInv
  <2>5. NoLeakInv'
    BY DEF ConnTypeOK, NoLeakInv, OwnInv, DialedInv, BurstInv, CloseInv
  <2>6. (NoLostWakeup /\ NoConnAfterClose)'
    BY DEF ConnTypeOK, NoLostWakeup, NoConnAfterClose, DialedInv, CloseInv
  <2> QED
    BY <2>1, <2>2, <2>3, <2>4, <2>5, <2>6
<1>21. ASSUME NEW k \in Closers, CloseTake(k) PROVE ConnInv'
  <2> USE <1>21 DEF CloseTake
  <2>1. ConnTypeOK'
    BY DEF ConnTypeOK, LoopPcs, ShipPcs, ClosePcs, AttemptInv, Frame
  <2>2. (AttemptInv /\ DialedInv /\ BurstInv)'
    BY DEF ConnTypeOK, AttemptInv, DialedInv, BurstInv, OwnInv
  <2>3. (HeldInv /\ CloseInv)'
    BY DEF ConnTypeOK, HeldInv, CloseInv, OwnInv, DialedInv
  <2>4. OwnInv'
    BY DEF ConnTypeOK, OwnInv, HeldInv, DialedInv, BurstInv, CloseInv
  <2>5. NoLeakInv'
    BY DEF ConnTypeOK, NoLeakInv, OwnInv, DialedInv, BurstInv, CloseInv
  <2>6. (NoLostWakeup /\ NoConnAfterClose)'
    BY DEF ConnTypeOK, NoLostWakeup, NoConnAfterClose, DialedInv, CloseInv
  <2> QED
    BY <2>1, <2>2, <2>3, <2>4, <2>5, <2>6
<1>22. ASSUME NEW k \in Closers, CloseConn(k) PROVE ConnInv'
  <2> USE <1>22 DEF CloseConn
  <2>1. ConnTypeOK'
    BY DEF ConnTypeOK, LoopPcs, ShipPcs, ClosePcs, AttemptInv, Frame
  <2>2. (AttemptInv /\ DialedInv /\ BurstInv)'
    BY DEF ConnTypeOK, AttemptInv, DialedInv, BurstInv, OwnInv
  <2>3. (HeldInv /\ CloseInv)'
    BY DEF ConnTypeOK, HeldInv, CloseInv, OwnInv, DialedInv
  <2>4. OwnInv'
    BY DEF ConnTypeOK, OwnInv, HeldInv, DialedInv, BurstInv, CloseInv
  <2>5. NoLeakInv'
    BY DEF ConnTypeOK, NoLeakInv, OwnInv, DialedInv, BurstInv, CloseInv
  <2>6. (NoLostWakeup /\ NoConnAfterClose)'
    BY DEF ConnTypeOK, NoLostWakeup, NoConnAfterClose, DialedInv, CloseInv
  <2> QED
    BY <2>1, <2>2, <2>3, <2>4, <2>5, <2>6
<1>23. ASSUME DropElsewhere PROVE ConnInv'
  BY <1>23 DEF DropElsewhere, allButDropped, ConnTypeOK, AttemptInv, DialedInv,
     BurstInv, HeldInv, CloseInv, OwnInv, NoLeakInv, NoLostWakeup, NoConnAfterClose
<1>24. CASE UNCHANGED connVars
  BY <1>24 DEF connVars, ConnTypeOK, AttemptInv, DialedInv, BurstInv, HeldInv,
     CloseInv, OwnInv, NoLeakInv, NoLostWakeup, NoConnAfterClose
<1> QED
  BY <1>1, <1>2, <1>3, <1>4, <1>5, <1>6, <1>7, <1>8, <1>9, <1>10, <1>11, <1>12,
     <1>13, <1>14, <1>15, <1>16, <1>17, <1>18, <1>19, <1>20, <1>21, <1>22, <1>23,
     <1>24
  DEF ConnNext, writeFrame, reconnectLoop

LEMMA InvHolds == ConnSpec => []ConnInv
  BY InitInv, StepInv, PTL DEF ConnSpec

-----------------------------------------------------------------------------
\* The state of the connection manager is well typed in every behaviour.
THEOREM TypeCorrect == ConnSpec => []ConnTypeOK
<1>1. ConnInv => ConnTypeOK
  BY DEF ConnInv
<1> QED
  BY <1>1, InvHolds, PTL

\* No connection is leaked and none is closed twice, whatever the
\* interleaving of writers, the reconnect loop and Close.
THEOREM OwnedOnce == ConnSpec => []ConnOwnedOnce
<1>1. ConnInv => ConnOwnedOnce
  <2> SUFFICES ASSUME ConnInv, NEW c \in Conns
               PROVE  /\ sock[c] = "open" <=> Owners(c) # {}
                      /\ \A a, b \in Owners(c) : a = b
    BY DEF ConnOwnedOnce
  <2> USE DEF ConnInv, Owners, Conns, Nil
  <2>1. ASSUME sock[c] = "open" PROVE Owners(c) # {}
    BY <2>1 DEF NoLeakInv
  <2>2. ASSUME NEW a \in Owners(c) PROVE sock[c] = "open"
    BY <2>2 DEF OwnInv
  <2>3. ASSUME NEW a \in Owners(c), NEW b \in Owners(c) PROVE a = b
    BY <2>3 DEF OwnInv
  <2> QED
    BY <2>1, <2>2, <2>3
<1> QED
  BY <1>1, InvHolds, PTL

\* The reconnect loop never replaces a live connection.
THEOREM NoReplacement == ConnSpec => []NeverReplacesLive
<1>1. ConnInv => NeverReplacesLive
  BY DEF ConnInv, BurstInv, NeverReplacesLive
<1> QED
  BY <1>1, InvHolds, PTL

\* A Writer that is open and has lost its connection is never left without a
\* pending reconnect, unless a whole burst of attempts has failed.
THEOREM WakeupKept == ConnSpec => []NoLostWakeup
<1>1. ConnInv => NoLostWakeup
  BY DEF ConnInv
<1> QED
  BY <1>1, InvHolds, PTL

\* No connection is installed once Close has begun its teardown.
THEOREM TeardownFinal == ConnSpec => []NoConnAfterClose
<1>1. ConnInv => NoConnAfterClose
  BY DEF ConnInv
<1> QED
  BY <1>1, InvHolds, PTL

-----------------------------------------------------------------------------
(***************************************************************************)
(* With one shipper, as in asynchronous mode, a torn frame is the last of  *)
(* its connection.                                                         *)
(***************************************************************************)
OneShipper == \A p, q \in Shippers : p = q

Torn(c) == \E i \in 1..Len(wire[c]) : ~wire[c][i].whole

\* A torn connection was dialed before, is not about to be installed or
\* written, and is still installed only until its shipper has handled the error.
TearInv ==
    /\ NoWriteAfterTear
    /\ \A c \in Conns : Torn(c) =>
         /\ sock[c] # "unused"
         /\ dialed # c
         /\ conn = c => \E p \in Shippers : shipPc[p] = "failed" /\ held[p] = c
         /\ \A p \in Shippers : shipPc[p] \in {"lock", "write"} => held[p] # c

LEMMA TornAppend ==
  ASSUME NEW s \in Seq(Frame), NEW f \in Frame,
         \A i \in 1..Len(s) : s[i].whole
  PROVE  \A i \in 1..(Len(Append(s, f)) - 1) : Append(s, f)[i].whole
  OBVIOUS

LEMMA TearInit == ConnInit => TearInv
  BY EmptySeq DEF ConnInit, TearInv, NoWriteAfterTear, Torn

LEMMA TearStep ==
  OneShipper /\ ConnInv /\ TearInv /\ [ConnNext]_connVars => TearInv'
<1> SUFFICES ASSUME OneShipper, ConnInv, TearInv, [ConnNext]_connVars
             PROVE  TearInv'
  OBVIOUS
<1> USE DEF Nil, Conns, netVars, loopVars, shipVars, closeVars
<1>1. ASSUME NEW p \in Shippers, WriteOk(p) PROVE TearInv'
  <2>0. shipPc[p] = "write" /\ held[p] \in Conns
    BY <1>1 DEF WriteOk, ConnInv, ConnTypeOK, HeldInv
  <2>1. /\ held[p] \in Conns /\ wire[held[p]] \in Seq(Frame)
        /\ [logs |-> frame[p], whole |-> TRUE] \in Frame
        /\ ~Torn(held[p])
    <3>1. wire[held[p]] \in Seq(Frame)
      BY <2>0 DEF ConnInv, ConnTypeOK
    <3>2. [logs |-> frame[p], whole |-> TRUE] \in Frame
      BY DEF ConnInv, ConnTypeOK, Frame
    <3>3. ~Torn(held[p])
      BY <2>0 DEF TearInv
    <3> QED
      BY <2>0, <3>1, <3>2, <3>3
  <2>2. \A c \in Conns : c # held[p] => wire'[c] = wire[c]
    BY <1>1, <2>1 DEF WriteOk, ConnInv, ConnTypeOK
  <2>3. wire'[held[p]] = Append(wire[held[p]], [logs |-> frame[p], whole |-> TRUE])
    BY <1>1, <2>1 DEF WriteOk, ConnInv, ConnTypeOK
  <2>4. \A i \in 1..Len(wire'[held[p]]) : wire'[held[p]][i].whole
    BY <2>1, <2>3 DEF Torn
  <2>5. NoWriteAfterTear'
    BY <2>1, <2>2, <2>4 DEF NoWriteAfterTear, TearInv
  <2>6. \A c \in Conns : Torn(c)' => Torn(c) /\ c # held[p]
    BY <2>2, <2>4 DEF Torn
  <2> QED
    BY <1>1, <2>5, <2>6 DEF WriteOk, Return, TearInv, ConnInv, ConnTypeOK
<1>2. ASSUME NEW p \in Shippers, WriteFail(p) PROVE TearInv'
  <2>1. /\ held[p] \in Conns /\ wire[held[p]] \in Seq(Frame)
        /\ sock[held[p]] # "unused" /\ dialed # held[p]
    BY <1>2 DEF WriteFail, ConnInv, ConnTypeOK, HeldInv
  <2>0. [logs |-> frame[p], whole |-> FALSE] \in Frame /\ ~Torn(held[p])
    <3>1. [logs |-> frame[p], whole |-> FALSE] \in Frame
      BY DEF ConnInv, ConnTypeOK, Frame
    <3>2. ~Torn(held[p])
      BY <1>2, <2>1 DEF WriteFail, TearInv
    <3> QED
      BY <3>1, <3>2
  <2>2. \A c \in Conns : c # held[p] => wire'[c] = wire[c]
    BY <1>2, <2>1 DEF WriteFail, ConnInv, ConnTypeOK
  <2>3. \/ wire'[held[p]] = wire[held[p]]
        \/ wire'[held[p]] =
             Append(wire[held[p]], [logs |-> frame[p], whole |-> FALSE])
    BY <1>2, <2>1 DEF WriteFail, ConnInv, ConnTypeOK
  <2>4. \A i \in 1..(Len(wire'[held[p]]) - 1) : wire'[held[p]][i].whole
    <3>1. CASE wire'[held[p]] = wire[held[p]]
      BY <2>1, <2>0, <3>1 DEF Torn
    <3>2. CASE wire'[held[p]] =
                 Append(wire[held[p]], [logs |-> frame[p], whole |-> FALSE])
      BY <2>1, <2>0, <3>2, TornAppend DEF Torn
    <3> QED
      BY <2>3, <3>1, <3>2
  <2>5. NoWriteAfterTear'
    BY <2>1, <2>2, <2>4 DEF NoWriteAfterTear, TearInv
  <2>6. \A c \in Conns : Torn(c)' => Torn(c) \/ c = held[p]
    BY <2>2 DEF Torn
  <2>7. shipPc'[p] = "failed" /\ held' = held /\ conn' = conn /\ dialed' = dialed
        /\ sock' = sock /\ \A q \in Shippers : q = p
    BY <1>2 DEF WriteFail, ConnInv, ConnTypeOK, OneShipper
  <2> QED
    BY <2>1, <2>5, <2>6, <2>7 DEF TearInv
<1>3. ASSUME wire' = wire,
             \A c \in Conns : Torn(c) =>
               /\ sock'[c] # "unused"
               /\ dialed' # c
               /\ conn' = c => \E p \in Shippers : shipPc'[p] = "failed" /\ held'[p] = c
               /\ \A p \in Shippers : shipPc'[p] \in {"lock", "write"} => held'[p] # c
      PROVE  TearInv'
  BY <1>3 DEF TearInv, NoWriteAfterTear, Torn
<1>4. ASSUME NEW p \in Shippers, ShipAny(p) \/ GetConn(p) \/ DropNoConn(p)
               \/ LockWriteMu(p) \/ CloseFailed(p) \/ TriggerAfterError(p)
      PROVE  TearInv'
  <2> USE DEF ShipAny, Ship, GetConn, DropNoConn, LockWriteMu, CloseFailed,
              TriggerAfterError, Return
  <2>1. \A q \in Shippers : q = p
    BY DEF OneShipper
  <2>2. shipPc[p] # "failed"
    BY <1>4
  <2>3. \A c \in Conns : Torn(c) => conn # c
    BY <2>1, <2>2 DEF TearInv
  <2>4. wire' = wire /\ conn' = conn /\ dialed' = dialed
    BY <1>4
  <2>5. \A c \in Conns : sock[c] # "unused" => sock'[c] # "unused"
    BY <1>4 DEF ConnInv, ConnTypeOK
  <2>6. shipPc'[p] \in {"lock", "write"} =>
          \/ held'[p] = conn
          \/ held'[p] = held[p] /\ shipPc[p] = "lock"
    BY <1>4 DEF ConnInv, ConnTypeOK
  <2> QED
    BY <1>3, <2>1, <2>3, <2>4, <2>5, <2>6 DEF TearInv
<1>5. ASSUME NEW p \in Shippers, Discard(p) PROVE TearInv'
  <2>1. \A q \in Shippers : q = p
    BY DEF OneShipper
  <2> QED
    BY <1>3, <1>5, <2>1 DEF TearInv, ConnInv, ConnTypeOK, Discard, HeldInv
<1>6. ASSUME reconnectLoop PROVE TearInv'
  <2>1. /\ wire' = wire /\ shipPc' = shipPc /\ held' = held
        /\ \A c \in Conns : sock[c] # "unused" => sock'[c] # "unused"
        /\ dialed' \in {dialed, Nil} \cup {b \in Conns : sock[b] = "unused"}
    BY <1>6 DEF reconnectLoop, LoopSignal, LoopStop, LoopCheck, LoopAttempt,
       LoopDialFail, LoopDialOk, LoopInstall, LoopCloseNew, LoopBackoff,
       ConnInv, ConnTypeOK
  <2>2. conn' \in {conn, dialed}
    BY <1>6 DEF reconnectLoop, LoopSignal, LoopStop, LoopCheck, LoopAttempt,
       LoopDialFail, LoopDialOk, LoopInstall, LoopCloseNew, LoopBackoff
  <2> QED
    BY <1>3, <2>1, <2>2 DEF TearInv
<1>7. ASSUME NEW k \in Closers,
             CloseCall(k) \/ CloseStop(k) \/ CloseTake(k) \/ CloseConn(k)
      PROVE  TearInv'
  <2>1. /\ wire' = wire /\ dialed' = dialed /\ shipPc' = shipPc /\ held' = held
        /\ conn' \in {conn, Nil}
    BY <1>7 DEF CloseCall, CloseStop, CloseTake, CloseConn
  <2>2. \A c \in Conns : sock[c] # "unused" => sock'[c] # "unused"
    BY <1>7 DEF CloseCall, CloseStop, CloseTake, CloseConn
  <2> QED
    BY <1>3, <2>1, <2>2 DEF TearInv
<1>8. CASE DropElsewhere
  BY <1>3, <1>8 DEF DropElsewhere, allButDropped, TearInv
<1>9. CASE UNCHANGED connVars
  BY <1>3, <1>9 DEF connVars, TearInv
<1> QED
  BY <1>1, <1>2, <1>4, <1>5, <1>6, <1>7, <1>8, <1>9 DEF ConnNext, writeFrame

\* A Writer with a single shipper never writes behind a torn frame.
THEOREM TornIsLast ==
  ASSUME OneShipper
  PROVE  ConnSpec => []NoWriteAfterTear
<1>1. TearInv => NoWriteAfterTear
  BY DEF TearInv
<1> QED
  BY <1>1, InvHolds, TearInit, TearStep, PTL DEF ConnSpec

-----------------------------------------------------------------------------
(***************************************************************************)
(* With one shipper only the newest connection is written: the numbers of  *)
(* the connections are the order in which the wire was used.               *)
(***************************************************************************)
Dialed(c) == sock[c] # "unused"

\* Connections are dialed in order, the installed one and the one to be
\* installed are the last of them, and behind the one a shipper is about to
\* write every wire is empty.
NewestInv ==
    /\ \A c \in Conns : ~Dialed(c) => wire[c] = <<>> /\ \A b \in Conns : b > c => ~Dialed(b)
    /\ conn # Nil => \A c \in Conns : c > conn => ~Dialed(c)
    /\ dialed # Nil => \A c \in Conns : c > dialed => ~Dialed(c)
    /\ \A p \in Shippers : shipPc[p] \in {"lock", "write"} =>
         \A c \in Conns : c > held[p] => wire[c] = <<>>

LEMMA NewestInit == ConnInit => NewestInv
<1> SUFFICES ASSUME ConnInit PROVE NewestInv
  OBVIOUS
<1>1. /\ \A c \in Conns : wire[c] = <<>> /\ sock[c] = IF c = conn THEN "open" ELSE "unused"
      /\ conn \in {1, Nil} /\ dialed = Nil
  <2>1. conn = 1 \/ conn = Nil
    BY DEF ConnInit
  <2>2. CASE conn = 1
    BY <2>2 DEF ConnInit, Nil
  <2>3. CASE conn = Nil
    BY <2>3 DEF ConnInit, Nil, Conns
  <2> QED
    BY <2>1, <2>2, <2>3
<1>2. \A p \in Shippers : shipPc[p] = "idle"
  BY DEF ConnInit
<1> QED
  BY <1>1, <1>2 DEF NewestInv, Dialed, Nil, Conns

\* What a step must not do: dial, or write.
LEMMA NewestKept ==
  ASSUME ConnInv, NewestInv, wire' = wire,
         \A c \in Conns : Dialed(c)' <=> Dialed(c),
         conn' \in {conn, dialed, Nil}, dialed' \in {dialed, Nil},
         \A p \in Shippers : shipPc'[p] \in {"lock", "write"} =>
           \/ held'[p] = held[p] /\ shipPc[p] \in {"lock", "write"}
           \/ held'[p] = conn /\ conn # Nil
  PROVE  NewestInv'
  BY DEF NewestInv

LEMMA NewestStep ==
  OneShipper /\ ConnInv /\ NewestInv /\ [ConnNext]_connVars => NewestInv'
<1> SUFFICES ASSUME OneShipper, ConnInv, NewestInv, [ConnNext]_connVars
             PROVE  NewestInv'
  OBVIOUS
<1> USE DEF Nil, netVars, loopVars, shipVars, closeVars
<1>1. ASSUME NEW p \in Shippers, WriteOk(p) \/ WriteFail(p) PROVE NewestInv'
  <2>1. /\ shipPc[p] = "write" /\ held[p] \in Conns /\ Dialed(held[p])
        /\ UNCHANGED <<sock, conn, dialed>> /\ \A q \in Shippers : q = p
        /\ shipPc'[p] \in {"idle", "failed"}
    BY <1>1 DEF WriteOk, WriteFail, Return, ConnInv, ConnTypeOK, HeldInv, Dialed, OneShipper
  <2>2. \A c \in Conns : c # held[p] => wire'[c] = wire[c]
    BY <1>1, <2>1 DEF WriteOk, WriteFail, ConnInv, ConnTypeOK
  <2> QED
    BY <2>1, <2>2 DEF NewestInv, Dialed
<1>2. ASSUME NEW p \in Shippers, ShipAny(p) \/ GetConn(p) \/ DropNoConn(p)
               \/ LockWriteMu(p) \/ Discard(p) \/ CloseFailed(p) \/ TriggerAfterError(p)
      PROVE  NewestInv'
  <2> USE DEF ShipAny, Ship, GetConn, DropNoConn, LockWriteMu, Discard, CloseFailed,
              TriggerAfterError, Return
  <2>1. wire' = wire /\ dialed' = dialed /\ conn' \in {conn, Nil}
    BY <1>2
  <2>2. \A c \in Conns : Dialed(c)' <=> Dialed(c)
    BY <1>2 DEF ConnInv, ConnTypeOK, HeldInv, Dialed
  <2>3. \A q \in Shippers : q = p
    BY DEF OneShipper
  <2>4. shipPc'[p] \in {"lock", "write"} =>
          \/ held'[p] = held[p] /\ shipPc[p] \in {"lock", "write"}
          \/ held'[p] = conn /\ conn # Nil
    BY <1>2 DEF ConnInv, ConnTypeOK
  <2> QED
    BY <2>1, <2>2, <2>3, <2>4, NewestKept
<1>3. CASE LoopDialOk
  <2>1. PICK c \in Conns : /\ ~Dialed(c) /\ \A b \in Conns : b < c => Dialed(b)
                           /\ sock' = [sock EXCEPT ![c] = "open"] /\ dialed' = c
    BY <1>3 DEF LoopDialOk, Dialed
  <2>2. UNCHANGED <<wire, conn, shipPc, held>> /\ conn = Nil
    BY <1>3 DEF LoopDialOk, ConnInv, BurstInv
  <2>3. \A b \in Conns : Dialed(b)' <=> Dialed(b) \/ b = c
    BY <2>1 DEF ConnInv, ConnTypeOK, Dialed
  <2>4. \A b \in Conns : b > c => ~Dialed(b)
    BY <2>1 DEF NewestInv
  <2>5. \A a, b \in Conns : (~Dialed(a)' /\ b > a) => ~Dialed(b)'
    BY <2>1, <2>3, <2>4 DEF NewestInv, Conns
  <2> QED
    BY <2>1, <2>2, <2>3, <2>4, <2>5 DEF NewestInv
<1>4. CASE reconnectLoop /\ ~LoopDialOk
  <2>1. /\ UNCHANGED <<wire, shipPc, held>> /\ conn' \in {conn, dialed}
        /\ dialed' \in {dialed, Nil}
    BY <1>4 DEF reconnectLoop, LoopSignal, LoopStop, LoopCheck, LoopAttempt,
       LoopDialFail, LoopInstall, LoopCloseNew, LoopBackoff
  <2>2. \A c \in Conns : Dialed(c)' <=> Dialed(c)
    <3>1. \/ sock' = sock
          \/ sock' = [c \in Conns |-> IF c = conn THEN "closed" ELSE sock[c]]
          \/ dialed # Nil /\ sock' = [sock EXCEPT ![dialed] = "closed"]
      BY <1>4 DEF reconnectLoop, LoopSignal, LoopStop, LoopCheck, LoopAttempt,
         LoopDialFail, LoopInstall, LoopCloseNew, LoopBackoff, ConnInv, DialedInv
    <3>2. /\ conn \in Conns => sock[conn] = "open"
          /\ dialed # Nil => dialed \in Conns /\ sock[dialed] = "open"
      BY DEF ConnInv, ConnTypeOK, OwnInv, Conns
    <3> QED
      BY <3>1, <3>2 DEF Dialed, ConnInv, ConnTypeOK
  <2> QED
    BY <2>1, <2>2, NewestKept
<1>5. ASSUME NEW k \in Closers,
             CloseCall(k) \/ CloseStop(k) \/ CloseTake(k) \/ CloseConn(k)
      PROVE  NewestInv'
  <2>1. UNCHANGED <<wire, dialed, shipPc, held>> /\ conn' \in {conn, Nil}
    BY <1>5 DEF CloseCall, CloseStop, CloseTake, CloseConn
  <2>2. \A c \in Conns : Dialed(c)' <=> Dialed(c)
    <3>1. sock' = sock \/ sock' = [c \in Conns |-> IF c = taken[k] THEN "closed" ELSE sock[c]]
      BY <1>5 DEF CloseCall, CloseStop, CloseTake, CloseConn
    <3>2. taken[k] \in Conns => sock[taken[k]] = "open"
      BY DEF ConnInv, OwnInv, Conns
    <3> QED
      BY <3>1, <3>2 DEF Dialed
  <2> QED
    BY <2>1, <2>2, NewestKept
<1>6. CASE DropElsewhere \/ UNCHANGED connVars
  <2>1. UNCHANGED <<wire, sock, conn, dialed, shipPc, held>>
    BY <1>6 DEF DropElsewhere, allButDropped, connVars
  <2> QED
    BY <2>1 DEF NewestInv, Dialed
<1> QED
  BY <1>1, <1>2, <1>3, <1>4, <1>5, <1>6 DEF ConnNext, writeFrame

=============================================================================
