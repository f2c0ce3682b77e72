---------------------------- MODULE OtlpSyncWait ----------------------------
(***************************************************************************)
(* How long a Sync of the OTLP exporter may last under WithDrainTimeout:   *)
(* OtlpWriter with a clock that each call of Sync starts.  The budget of   *)
(* drainBudget (src/otlp/writer.go) starts later, when run has taken the   *)
(* request.                                                                *)
(***************************************************************************)
EXTENDS OtlpWriter

VARIABLES
    overdue,   \* the Sync calls that have lasted longer than the drain timeout
    overrun    \* attempts begun since then

waitVars == <<overdue, overrun>>

InSync(p) == pc[p] \in {"request", "waiting"}

WaitInit == Init /\ overdue = {} /\ overrun = 0

\* The drain timeout has passed since p called Sync.
TimeoutPasses(p) ==
    /\ HasDrainTimeout
    /\ InSync(p)
    /\ p \notin overdue
    /\ overdue' = overdue \cup {p}
    /\ UNCHANGED <<vars, overrun>>

\* A step of the exporter, with the attempts counted that begin too late.
Count ==
    /\ Next
    /\ overrun' = overrun + (IF Send /\ \E p \in overdue : InSync(p) THEN 1 ELSE 0)
    /\ UNCHANGED overdue

WaitSpec == WaitInit /\ [][Count \/ \E p \in Procs : TimeoutPasses(p)]_<<vars, waitVars>>

\* A call of Sync lasts no longer than the drain timeout and at most one
\* attempt beyond it.
SyncWaitBounded == overrun <= 1

=============================================================================
