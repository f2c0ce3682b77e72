------------------------------ MODULE MCBackoff ------------------------------
(***************************************************************************)
(* The waits between the attempts of an export that keeps failing, for     *)
(* retry options as a user may give them.                                  *)
(***************************************************************************)
EXTENDS Options

CONSTANTS
    RawValues,     \* raw values of WithRetry
    MaxAttempts    \* bound: attempts of a batch

VARIABLES retry, attempts, delay

vars == <<retry, attempts, delay>>

\* WithRetry sets all its fields at once; zero fields keep their defaults.
Init ==
    /\ \E initial, maxInterval \in RawValues :
         retry = options(<<[field |-> "initial", value |-> initial],
                           [field |-> "maxInterval", value |-> maxInterval]>>)
    /\ attempts = 0
    /\ delay = 0

\* An attempt fails and the exporter waits; jitter is between a half and one.
Wait ==
    /\ attempts < MaxAttempts
    /\ attempts' = attempts + 1
    /\ LET d == backoff(retry.initial, retry.maxInterval, attempts')
       IN  delay' \in {d \div 2, d}
    /\ UNCHANGED retry

Next == Wait \/ (attempts = MaxAttempts /\ UNCHANGED vars)
Spec == Init /\ [][Next]_vars

\* RetryConfig documents MaxInterval as the backoff cap (options.go): no delay
\* exceeds it.
BackoffCapped == delay <= retry.maxInterval

=============================================================================
