-------------------------- MODULE MCOtlpSyncWait ---------------------------
(* Model checking of OtlpSyncWait: small records, three to a request.      *)
EXTENDS OtlpSyncWait

Sizes == [l \in Logs |-> 4]
=============================================================================
