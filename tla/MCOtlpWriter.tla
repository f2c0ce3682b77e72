--------------------------- MODULE MCOtlpWriter ----------------------------
(***************************************************************************)
(* Model checking of OtlpWriter: with a resource of 3 bytes and no scope a *)
(* request of n record bytes, tags included, takes n + 9 bytes.            *)
(***************************************************************************)
EXTENDS OtlpWriter

CONSTANTS l1, l2, l3

\* Two records that share a request of 30 bytes and one that needs its own.
Sizes == [l \in Logs |-> IF l = l3 THEN 18 ELSE 4]

\* Two records that do not share a request and one that fits into none.
SizesBig == [l \in Logs |-> CASE l = l1 -> 4 [] l = l2 -> 18 [] l = l3 -> 40]
=============================================================================
