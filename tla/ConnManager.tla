---------------------------- MODULE ConnManager ----------------------------
(***************************************************************************)
(* The connection manager of the root Writer (src/writer.go): the live     *)
(* connection, the goroutines that run writeFrame on it, the reconnect     *)
(* loop that replaces it, and the steps of Close that tear it down.        *)
(*                                                                         *)
(* Every action is one stretch of code between two points at which another *)
(* goroutine can interfere: a critical section of mu, the acquisition of   *)
(* writeMu, a channel operation, a call of the transport.  A lock is taken *)
(* in the step that first uses what it protects and released in the step   *)
(* that last uses it.                                                      *)
(*                                                                         *)
(* SyncWriter and AsyncWriter extend this module: they say which goroutine *)
(* calls writeFrame (Ship) with what, and when Close may go on.            *)
(***************************************************************************)
EXTENDS Integers, Sequences

CONSTANTS
    Logs,        \* log entries, each passed to Write once
    Shippers,    \* goroutines that call writeFrame
    Closers,     \* goroutines that call Close
    MaxDials,    \* bound: connections the transport ever hands out
    MaxRetries   \* cfg.maxRetries: dial attempts in one reconnect burst

ASSUME DialsAssumption == MaxDials \in Nat \ {0}
ASSUME RetriesAssumption == MaxRetries \in Nat \ {0}

VARIABLES
    conn,           \* w.conn, guarded by w.mu; 0 is nil
    sock,           \* the state of each connection the transport may return
    wire,           \* what each connection has carried
    reconnectCh,    \* the one-slot channel: TRUE when a trigger is queued
    loopPc,         \* where reconnectLoop is
    attempt,        \* attempt in the current burst
    dialed,         \* the connection tryConnect has just dialed
    reconnectCount,
    writeMu,        \* the shippers that hold writeMu: none or one
    shipPc,         \* where each shipper is in writeFrame
    held,           \* the connection each shipper took with getConn
    frame,          \* the logs of the frame each shipper carries
    droppedLogs,
    closed,         \* w.closed
    done,           \* w.done is closed and w.ctx is cancelled
    closePc,        \* where each caller of Close is
    taken           \* the connection a caller of Close has taken out of w.conn

loopVars  == <<loopPc, attempt, dialed, reconnectCount>>
shipVars  == <<writeMu, shipPc, held, frame, droppedLogs>>
closeVars == <<closed, done, closePc, taken>>
netVars   == <<sock, wire>>
connVars  == <<conn, reconnectCh, netVars, loopVars, shipVars, closeVars>>

Nil   == 0
Conns == 1..MaxDials

LoopPcs  == {"select", "check", "attempt", "dial", "install", "closeNew",
             "backoff", "exited"}
ShipPcs  == {"idle", "getConn", "noConn", "lock", "write", "failed",
             "closeFailed", "trigger"}
ClosePcs == {"idle", "barrier", "join", "teardown", "returned"}

(***************************************************************************)
(* A frame on the wire.  A write that fails can leave a prefix of the      *)
(* frame behind: whole is FALSE for it.                                    *)
(***************************************************************************)
Frame == [logs : Seq(Logs), whole : BOOLEAN]

ConnTypeOK ==
    /\ conn \in Conns \cup {Nil}
    /\ sock \in [Conns -> {"unused", "open", "closed"}]
    /\ wire \in [Conns -> Seq(Frame)]
    /\ reconnectCh \in BOOLEAN
    /\ loopPc \in LoopPcs
    /\ attempt \in 1..(MaxRetries + 1)
    /\ dialed \in Conns \cup {Nil}
    /\ reconnectCount \in Nat
    /\ writeMu \in SUBSET Shippers
    /\ shipPc \in [Shippers -> ShipPcs]
    /\ held \in [Shippers -> Conns \cup {Nil}]
    /\ frame \in [Shippers -> Seq(Logs)]
    /\ droppedLogs \in Nat
    /\ closed \in BOOLEAN
    /\ done \in BOOLEAN
    /\ closePc \in [Closers -> ClosePcs]
    /\ taken \in [Closers -> Conns \cup {Nil}]

-----------------------------------------------------------------------------
(***************************************************************************)
(* New dials once.  It installs the connection, or reports the failure and *)
(* triggers the reconnect loop it has just started.                        *)
(***************************************************************************)
ConnInit ==
    /\ \/ /\ conn = 1
          /\ sock = [c \in Conns |-> IF c = 1 THEN "open" ELSE "unused"]
          /\ reconnectCh = FALSE
       \/ /\ conn = Nil
          /\ sock = [c \in Conns |-> "unused"]
          /\ reconnectCh = TRUE
    /\ wire = [c \in Conns |-> <<>>]
    /\ loopPc = "select"
    /\ attempt = 1
    /\ dialed = Nil
    /\ reconnectCount = 0
    /\ writeMu = {}
    /\ shipPc = [p \in Shippers |-> "idle"]
    /\ held = [p \in Shippers |-> Nil]
    /\ frame = [p \in Shippers |-> <<>>]
    /\ droppedLogs = 0
    /\ closed = FALSE
    /\ done = FALSE
    /\ closePc = [k \in Closers |-> "idle"]
    /\ taken = [k \in Closers |-> Nil]

-----------------------------------------------------------------------------
(***************************************************************************)
(* writeFrame(frame, n), run by shipper p.                                 *)
(***************************************************************************)

\* The call: p enters writeFrame with a frame of the logs ls.
Ship(p, ls) ==
    /\ shipPc[p] = "idle"
    /\ shipPc' = [shipPc EXCEPT ![p] = "getConn"]
    /\ frame' = [frame EXCEPT ![p] = ls]

GetConn(p) ==
    /\ shipPc[p] = "getConn"
    /\ held' = [held EXCEPT ![p] = conn]
    /\ shipPc' = [shipPc EXCEPT ![p] = IF conn = Nil THEN "noConn" ELSE "lock"]
    /\ UNCHANGED <<conn, reconnectCh, netVars, loopVars, writeMu, frame,
                   droppedLogs, closeVars>>

\* p returns from writeFrame.
Return(p) ==
    /\ shipPc' = [shipPc EXCEPT ![p] = "idle"]
    /\ held' = [held EXCEPT ![p] = Nil]
    /\ frame' = [frame EXCEPT ![p] = <<>>]

\* triggerReconnect: a non-blocking send to a channel of one slot.
triggerReconnect == reconnectCh' = TRUE

\* No live connection: count the logs, ask for a reconnect, return.
DropNoConn(p) ==
    /\ shipPc[p] = "noConn"
    /\ droppedLogs' = droppedLogs + Len(frame[p])
    /\ triggerReconnect
    /\ Return(p)
    /\ UNCHANGED <<conn, netVars, loopVars, writeMu, closeVars>>

LockWriteMu(p) ==
    /\ shipPc[p] = "lock"
    /\ writeMu = {}
    /\ writeMu' = {p}
    /\ shipPc' = [shipPc EXCEPT ![p] = "write"]
    /\ UNCHANGED <<conn, reconnectCh, netVars, loopVars, held, frame,
                   droppedLogs, closeVars>>

\* SetWriteDeadline and Write succeed: the frame is on the wire, writeMu is
\* released and writeFrame returns.
WriteOk(p) ==
    /\ shipPc[p] = "write"
    /\ sock[held[p]] = "open"
    /\ wire' = [wire EXCEPT ![held[p]] =
                  Append(@, [logs |-> frame[p], whole |-> TRUE])]
    /\ writeMu' = {}
    /\ Return(p)
    /\ UNCHANGED <<conn, reconnectCh, sock, loopVars, droppedLogs, closeVars>>

\* Mutant: the error path of SetWriteDeadline returns with writeMu held.
WriteFailKeepsLock(p) ==
    /\ shipPc[p] = "write"
    /\ shipPc' = [shipPc EXCEPT ![p] = "failed"]
    /\ UNCHANGED <<conn, reconnectCh, netVars, loopVars, writeMu, held, frame,
                   droppedLogs, closeVars>>

\* SetWriteDeadline or Write fails before a byte is sent (always so on a
\* connection this side has closed), or the deadline or the peer cuts the
\* frame short; writeMu is released before the error is handled.
WriteFail(p) ==
    /\ shipPc[p] = "write"
    /\ \/ UNCHANGED wire
       \/ /\ sock[held[p]] = "open"
          /\ wire' = [wire EXCEPT ![held[p]] =
                        Append(@, [logs |-> frame[p], whole |-> FALSE])]
    /\ writeMu' = {}
    /\ shipPc' = [shipPc EXCEPT ![p] = "failed"]
    /\ UNCHANGED <<conn, reconnectCh, sock, loopVars, held, frame,
                   droppedLogs, closeVars>>

\* Mutant: handleWriteError without its stale-connection guard.
DiscardUnguarded(p) ==
    /\ shipPc[p] = "failed"
    /\ droppedLogs' = droppedLogs + Len(frame[p])
    /\ frame' = [frame EXCEPT ![p] = <<>>]
    /\ conn' = Nil
    /\ shipPc' = [shipPc EXCEPT ![p] = "closeFailed"]
    /\ UNCHANGED <<reconnectCh, netVars, loopVars, writeMu, held, closeVars>>

\* Mutant: a failed write counts its logs but keeps the connection.
DiscardKeepsConn(p) ==
    /\ shipPc[p] = "failed"
    /\ droppedLogs' = droppedLogs + Len(frame[p])
    /\ Return(p)
    /\ UNCHANGED <<conn, reconnectCh, netVars, loopVars, writeMu, closeVars>>

\* Mutant: a writer that finds its connection already replaced does not
\* count its log.
DiscardCountsOwn(p) ==
    /\ shipPc[p] = "failed"
    /\ frame' = [frame EXCEPT ![p] = <<>>]
    /\ \/ /\ conn = held[p]
          /\ conn' = Nil
          /\ droppedLogs' = droppedLogs + Len(frame[p])
          /\ shipPc' = [shipPc EXCEPT ![p] = "closeFailed"]
          /\ UNCHANGED held
       \/ /\ conn # held[p]
          /\ shipPc' = [shipPc EXCEPT ![p] = "idle"]
          /\ held' = [held EXCEPT ![p] = Nil]
          /\ UNCHANGED <<conn, droppedLogs>>
    /\ UNCHANGED <<reconnectCh, netVars, loopVars, writeMu, closeVars>>

\* Count the logs, then the critical section of handleWriteError: p removes
\* the connection unless another goroutine has already done so.
Discard(p) ==
    /\ shipPc[p] = "failed"
    /\ droppedLogs' = droppedLogs + Len(frame[p])
    /\ frame' = [frame EXCEPT ![p] = <<>>]
    /\ \/ /\ conn = held[p]
          /\ conn' = Nil
          /\ shipPc' = [shipPc EXCEPT ![p] = "closeFailed"]
          /\ UNCHANGED held
       \/ /\ conn # held[p]
          /\ shipPc' = [shipPc EXCEPT ![p] = "idle"]
          /\ held' = [held EXCEPT ![p] = Nil]
          /\ UNCHANGED conn
    /\ UNCHANGED <<reconnectCh, netVars, loopVars, writeMu, closeVars>>

CloseFailed(p) ==
    /\ shipPc[p] = "closeFailed"
    /\ sock' = [sock EXCEPT ![held[p]] = "closed"]
    /\ shipPc' = [shipPc EXCEPT ![p] = "trigger"]
    /\ UNCHANGED <<conn, reconnectCh, wire, loopVars, writeMu, held, frame,
                   droppedLogs, closeVars>>

\* Mutant: handleWriteError does not trigger a reconnect.
NoTriggerAfterError(p) ==
    /\ shipPc[p] = "trigger"
    /\ Return(p)
    /\ UNCHANGED <<conn, reconnectCh, netVars, loopVars, writeMu, droppedLogs,
                   closeVars>>

TriggerAfterError(p) ==
    /\ shipPc[p] = "trigger"
    /\ triggerReconnect
    /\ Return(p)
    /\ UNCHANGED <<conn, netVars, loopVars, writeMu, droppedLogs, closeVars>>

writeFrame(p) ==
    \/ GetConn(p) \/ DropNoConn(p) \/ LockWriteMu(p) \/ WriteOk(p)
    \/ WriteFail(p) \/ Discard(p) \/ CloseFailed(p) \/ TriggerAfterError(p)

-----------------------------------------------------------------------------
(***************************************************************************)
(* reconnectLoop.                                                          *)
(***************************************************************************)

\* The loop's receive of a trigger, with drainReconnectCh after it.
LoopSignal ==
    /\ loopPc = "select"
    /\ reconnectCh
    /\ reconnectCh' = FALSE
    /\ loopPc' = "check"
    /\ UNCHANGED <<conn, netVars, attempt, dialed, reconnectCount,
                   shipVars, closeVars>>

\* The loop is at one of its three selects and w.done is closed.
LoopStop ==
    /\ loopPc \in {"select", "attempt", "backoff"}
    /\ done
    /\ loopPc' = "exited"
    /\ UNCHANGED <<conn, reconnectCh, netVars, attempt, dialed,
                   reconnectCount, shipVars, closeVars>>

\* Mutant: the loop dials on every trigger, without the hasConn check.
LoopCheckAlwaysDials ==
    /\ loopPc = "check"
    /\ loopPc' = "attempt"
    /\ attempt' = 1
    /\ UNCHANGED <<conn, reconnectCh, netVars, dialed, reconnectCount,
                   shipVars, closeVars>>

LoopCheck ==
    /\ loopPc = "check"
    /\ loopPc' = IF conn # Nil THEN "select" ELSE "attempt"
    /\ attempt' = 1
    /\ UNCHANGED <<conn, reconnectCh, netVars, dialed, reconnectCount,
                   shipVars, closeVars>>

LoopAttempt ==
    /\ loopPc = "attempt"
    /\ ~done
    /\ loopPc' = "dial"
    /\ UNCHANGED <<conn, reconnectCh, netVars, attempt, dialed,
                   reconnectCount, shipVars, closeVars>>

\* tryConnect returned false: wait, or leave the burst after the last attempt
\* (attempt is then MaxRetries + 1, as when the for statement ends).
AttemptFailed ==
    \/ /\ attempt < MaxRetries
       /\ loopPc' = "backoff"
       /\ UNCHANGED attempt
    \/ /\ attempt >= MaxRetries
       /\ loopPc' = "select"
       /\ attempt' = attempt + 1

LoopDialFail ==
    /\ loopPc = "dial"
    /\ AttemptFailed
    /\ UNCHANGED <<conn, reconnectCh, netVars, dialed, reconnectCount,
                   shipVars, closeVars>>

\* The transport returns a connection nobody has seen before.
LoopDialOk ==
    /\ loopPc = "dial"
    /\ \E c \in Conns :
         /\ sock[c] = "unused"
         /\ \A b \in Conns : b < c => sock[b] # "unused"
         /\ sock' = [sock EXCEPT ![c] = "open"]
         /\ dialed' = c
    /\ loopPc' = "install"
    /\ UNCHANGED <<conn, reconnectCh, wire, attempt, reconnectCount,
                   shipVars, closeVars>>

\* Mutant: tryConnect installs without looking at closed.
LoopInstallIgnoresClosed ==
    /\ loopPc = "install"
    /\ conn' = dialed
    /\ dialed' = Nil
    /\ sock' = [c \in Conns |-> IF c = conn THEN "closed" ELSE sock[c]]
    /\ reconnectCount' = reconnectCount + 1
    /\ loopPc' = "select"
    /\ UNCHANGED <<reconnectCh, wire, attempt, shipVars, closeVars>>

\* The critical section of tryConnect, with the close of the connection it
\* replaced, if any.
LoopInstall ==
    /\ loopPc = "install"
    /\ \/ /\ closed
          /\ loopPc' = "closeNew"
          /\ UNCHANGED <<conn, dialed, sock, reconnectCount>>
       \/ /\ ~closed
          /\ conn' = dialed
          /\ dialed' = Nil
          /\ sock' = [c \in Conns |-> IF c = conn THEN "closed" ELSE sock[c]]
          /\ reconnectCount' = reconnectCount + 1
          /\ loopPc' = "select"
    /\ UNCHANGED <<reconnectCh, wire, attempt, shipVars, closeVars>>

\* Mutant: the connection dialed too late is forgotten, not closed.
LoopCloseNewLeaks ==
    /\ loopPc = "closeNew"
    /\ dialed' = Nil
    /\ AttemptFailed
    /\ UNCHANGED <<conn, reconnectCh, netVars, reconnectCount, shipVars,
                   closeVars>>

\* The Writer was closed while the loop dialed: the new connection is closed.
LoopCloseNew ==
    /\ loopPc = "closeNew"
    /\ sock' = [sock EXCEPT ![dialed] = "closed"]
    /\ dialed' = Nil
    /\ AttemptFailed
    /\ UNCHANGED <<conn, reconnectCh, wire, reconnectCount, shipVars,
                   closeVars>>

LoopBackoff ==
    /\ loopPc = "backoff"
    /\ attempt' = attempt + 1
    /\ loopPc' = "attempt"
    /\ UNCHANGED <<conn, reconnectCh, netVars, dialed, reconnectCount,
                   shipVars, closeVars>>

reconnectLoop ==
    \/ LoopSignal \/ LoopStop \/ LoopCheck \/ LoopAttempt \/ LoopDialFail
    \/ LoopDialOk \/ LoopInstall \/ LoopCloseNew \/ LoopBackoff

-----------------------------------------------------------------------------
(***************************************************************************)
(* Close, called by k.                                                     *)
(***************************************************************************)

\* The compare-and-swap of closed: all but the first caller return at once.
CloseCall(k) ==
    /\ closePc[k] = "idle"
    /\ closePc' = [closePc EXCEPT ![k] = IF closed THEN "returned" ELSE "barrier"]
    /\ closed' = TRUE
    /\ UNCHANGED <<conn, reconnectCh, netVars, loopVars, shipVars, done, taken>>

\* Past the lifecycleMu barrier: cancel the context and close w.done.
CloseStop(k) ==
    /\ closePc[k] = "barrier"
    /\ done' = TRUE
    /\ closePc' = [closePc EXCEPT ![k] = "join"]
    /\ UNCHANGED <<conn, reconnectCh, netVars, loopVars, shipVars, closed, taken>>

\* The critical section of Close.
CloseTake(k) ==
    /\ closePc[k] = "join"
    /\ taken' = [taken EXCEPT ![k] = conn]
    /\ conn' = Nil
    /\ closePc' = [closePc EXCEPT ![k] = "teardown"]
    /\ UNCHANGED <<reconnectCh, netVars, loopVars, shipVars, closed, done>>

CloseConn(k) ==
    /\ closePc[k] = "teardown"
    /\ sock' = [c \in Conns |-> IF c = taken[k] THEN "closed" ELSE sock[c]]
    /\ taken' = [taken EXCEPT ![k] = Nil]
    /\ closePc' = [closePc EXCEPT ![k] = "returned"]
    /\ UNCHANGED <<conn, reconnectCh, wire, loopVars, shipVars, closed, done>>

-----------------------------------------------------------------------------
(***************************************************************************)
(* The manager on its own: any shipper may be asked to ship any frame, and *)
(* Close may go on at any time.                                            *)
(***************************************************************************)
ShipAny(p) ==
    /\ frame'[p] \in Seq(Logs)
    /\ Ship(p, frame'[p])
    /\ UNCHANGED <<conn, reconnectCh, netVars, loopVars, writeMu, held,
                   droppedLogs, closeVars>>

\* All of connVars but droppedLogs.
allButDropped ==
    <<conn, reconnectCh, netVars, loopVars, writeMu, shipPc, held, frame, closeVars>>

\* The layer above counts logs it drops itself.
DropElsewhere ==
    /\ droppedLogs' \in Nat
    /\ droppedLogs' >= droppedLogs
    /\ UNCHANGED allButDropped

ConnNext ==
    \/ \E p \in Shippers : ShipAny(p) \/ writeFrame(p)
    \/ DropElsewhere
    \/ reconnectLoop
    \/ \E k \in Closers :
         CloseCall(k) \/ CloseStop(k) \/ CloseTake(k) \/ CloseConn(k)

ConnSpec == ConnInit /\ [][ConnNext]_connVars

-----------------------------------------------------------------------------
(***************************************************************************)
(* Safety of the connection's lifecycle.                                   *)
(***************************************************************************)

\* Who has connection c in its hands: w.conn, tryConnect, the shipper that
\* removed it in handleWriteError, the Close call that took it.
Owners(c) ==
    {o \in {"conn", "dialed"} :
        \/ o = "conn" /\ conn = c
        \/ o = "dialed" /\ dialed = c}
      \cup {p \in Shippers : shipPc[p] = "closeFailed" /\ held[p] = c}
      \cup {k \in Closers : taken[k] = c}

\* Every connection that is open is in exactly one pair of hands, those of
\* w.conn or of the goroutine that is about to install or close it, and one
\* that is closed is in none: no connection is leaked, none is closed twice
\* (tryConnect, handleWriteError, Close).
ConnOwnedOnce ==
    \A c \in Conns :
      /\ sock[c] = "open" <=> Owners(c) # {}
      /\ \A a, b \in Owners(c) : a = b

\* tryConnect never finds a live connection to replace: only the loop
\* installs one, and it dials only after it saw w.conn nil, so a reconnect
\* never closes a connection under a shipper, and tryConnect's branch for
\* old # nil never runs.
NeverReplacesLive == loopPc = "install" => conn = Nil

\* A reconnect is never forgotten: while the Writer is open and without a
\* connection, a trigger is queued, or a shipper is about to queue one, or
\* the loop is awake, or its last burst was used up (and the next log will
\* start another): triggerReconnect, drainReconnectCh, reconnectLoop.
NoLostWakeup ==
    (conn = Nil /\ ~closed) =>
      \/ reconnectCh
      \/ loopPc # "select"
      \/ \E p \in Shippers : shipPc[p] \in {"noConn", "closeFailed", "trigger"}
      \/ attempt > MaxRetries

\* After a torn frame nothing more is written to that connection, where the
\* peer would take it for the rest of the torn frame (writeFrame,
\* handleWriteError).
NoWriteAfterTear ==
    \A c \in Conns : \A i \in 1..(Len(wire[c]) - 1) : wire[c][i].whole

\* From the teardown of Close on there is no connection, whatever the
\* reconnect loop was doing (the closed check of tryConnect under mu).
NoConnAfterClose ==
    (done /\ \A k \in Closers : closePc[k] # "join") => conn = Nil

=============================================================================
