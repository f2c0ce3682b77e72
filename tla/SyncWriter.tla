----------------------------- MODULE SyncWriter ----------------------------
(***************************************************************************)
(* The root Writer in ModeSync (src/writer.go): each Write call encodes,   *)
(* frames and ships its own log before it returns, so every caller of      *)
(* Write is a shipper of ConnManager.  The call for log l is the process l.*)
(***************************************************************************)
EXTENDS ConnManager, FiniteSets

ASSUME CallersAssumption == Shippers = Logs

VARIABLE
    written  \* what the Write call of each log did with it

vars == <<connVars, written>>

Init ==
    /\ ConnInit
    /\ written = [l \in Logs |-> "new"]

\* Write and writeSync up to the call of writeFrame: a closed Writer ignores
\* the log, an encode or framing error is returned to the caller.
Write(l) ==
    /\ written[l] = "new"
    /\ \/ /\ closed
          /\ written' = [written EXCEPT ![l] = "discarded"]
          /\ UNCHANGED <<shipPc, frame>>
       \/ /\ ~closed
          /\ written' = [written EXCEPT ![l] = "errored"]
          /\ UNCHANGED <<shipPc, frame>>
       \/ /\ ~closed
          /\ written' = [written EXCEPT ![l] = "accepted"]
          /\ Ship(l, <<l>>)
    /\ UNCHANGED <<conn, reconnectCh, netVars, loopVars, writeMu, held,
                   droppedLogs, closeVars>>

writeSync(l) == Write(l) \/ (writeFrame(l) /\ UNCHANGED written)

\* Close: lifecycleMu has no readers in this mode, so nothing is waited for.
Close(k) ==
    /\ CloseCall(k) \/ CloseStop(k) \/ CloseTake(k) \/ CloseConn(k)
    /\ UNCHANGED written

Reconnect == reconnectLoop /\ UNCHANGED written

\* Every goroutine is where the program may stay for ever.
Quiescent ==
    /\ \A l \in Logs : written[l] # "new" /\ shipPc[l] = "idle"
    /\ \A k \in Closers : closePc[k] = "returned"
    /\ loopPc = "exited"

Done == Quiescent /\ UNCHANGED vars

Next ==
    \/ \E l \in Logs : writeSync(l)
    \/ Reconnect
    \/ \E k \in Closers : Close(k)
    \/ Done

(***************************************************************************)
(* Goroutines that can run do run.  A Go mutex hands itself to a waiter    *)
(* that starves, hence the strong fairness of LockWriteMu, and select      *)
(* picks among ready cases at random, hence that of LoopStop.  Nothing     *)
(* forces the application to call Write or Close, or the peer to be up.    *)
(***************************************************************************)
Fairness ==
    /\ \A l \in Logs : WF_vars(writeFrame(l) /\ UNCHANGED written)
                       /\ SF_vars(LockWriteMu(l) /\ UNCHANGED written)
    /\ WF_vars(Reconnect)
    /\ SF_vars(LoopStop /\ UNCHANGED written)
    /\ \A k \in Closers :
         WF_vars((CloseStop(k) \/ CloseTake(k) \/ CloseConn(k)) /\ UNCHANGED written)

Spec == Init /\ [][Next]_vars
FairSpec == Spec /\ Fairness

-----------------------------------------------------------------------------
(***************************************************************************)
(* The ledger this mode keeps.                                             *)
(***************************************************************************)
Delivered(l) ==
    \E c \in Conns : \E i \in 1..Len(wire[c]) :
      wire[c][i] = [logs |-> <<l>>, whole |-> TRUE]

fate ==
    [l \in Logs |->
       CASE written[l] # "accepted" -> written[l]
         [] Delivered(l)            -> "delivered"
         [] frame[l] # <<>>         -> "pending"
         [] OTHER                   -> "dropped"]

Ledger == INSTANCE LogLedger WITH open <- ~closed

\* Every Write call that was accepted ends with its log delivered whole or
\* counted as dropped, once, with concurrent writers, write errors,
\* reconnects and Close at any point (writeSync, writeFrame).
ImplementsLedger == Ledger!LedgerSpec

\* A Write call never hangs: neither a stalled peer nor a reconnect in
\* progress nor other writers keep it from returning.
WriteReturns == \A l \in Logs : (written[l] = "accepted") ~> (shipPc[l] = "idle")

\* A lost connection is dialed again without help from the application,
\* until one is installed, a whole burst has failed, or the Writer is closed.
ReconnectProgress ==
    (conn = Nil) ~> (conn # Nil \/ closed \/ attempt > MaxRetries)

=============================================================================
