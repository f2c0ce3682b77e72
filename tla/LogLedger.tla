----------------------------- MODULE LogLedger -----------------------------
(***************************************************************************)
(* What a Writer promises for the logs passed to Write, whatever its mode: *)
(* a log it accepts is delivered whole in one frame or counted in          *)
(* DroppedLogs, exactly once and never both; only a log that Write refused *)
(* with an error, or that came after Close, leaves no trace.               *)
(***************************************************************************)
EXTENDS Integers, FiniteSets

CONSTANT Logs

VARIABLES
    fate,         \* what has become of each log
    droppedLogs,  \* the counter DroppedLogs returns
    open          \* Close has not been called

ledgerVars == <<fate, droppedLogs, open>>

Fates == {"new", "pending", "delivered", "dropped", "errored", "discarded"}

LedgerTypeOK ==
    /\ fate \in [Logs -> Fates]
    /\ droppedLogs \in Nat
    /\ open \in BOOLEAN

LedgerInit ==
    /\ fate = [l \in Logs |-> "new"]
    /\ droppedLogs = 0
    /\ open = TRUE

Become(S, f) == fate' = [l \in Logs |-> IF l \in S THEN f ELSE fate[l]]

\* Write accepts a log while the Writer is open.
Accept(l) ==
    /\ open
    /\ fate[l] = "new"
    /\ Become({l}, "pending")
    /\ UNCHANGED <<droppedLogs, open>>

\* Write returns an encode (or, in sync mode, framing) error.
Error(l) ==
    /\ open
    /\ fate[l] = "new"
    /\ Become({l}, "errored")
    /\ UNCHANGED <<droppedLogs, open>>

\* Write ignores a log that comes after Close.
Ignore(l) ==
    /\ ~open
    /\ fate[l] = "new"
    /\ Become({l}, "discarded")
    /\ UNCHANGED <<droppedLogs, open>>

\* The outcome of logs on their way is known: those in D were delivered in one
\* frame or request, those in X are given up and counted, in the same step.
Settle(D, X) ==
    /\ D \cap X = {}
    /\ \A l \in D \cup X : fate[l] = "pending"
    /\ fate' = [l \in Logs |-> IF l \in D THEN "delivered"
                             ELSE IF l \in X THEN "dropped" ELSE fate[l]]
    /\ droppedLogs' = droppedLogs + Cardinality(X)
    /\ UNCHANGED open

Shut ==
    /\ open
    /\ open' = FALSE
    /\ UNCHANGED <<fate, droppedLogs>>

LedgerNext ==
    \/ \E l \in Logs : Accept(l) \/ Error(l) \/ Ignore(l)
    \/ \E D, X \in SUBSET Logs : Settle(D, X)
    \/ Shut

LedgerSpec == LedgerInit /\ [][LedgerNext]_ledgerVars

-----------------------------------------------------------------------------
\* DroppedLogs counts each dropped log once: neither a log lost without being
\* counted, nor one counted twice or delivered as well.
CountIsExact == droppedLogs = Cardinality({l \in Logs : fate[l] = "dropped"})

=============================================================================
