--------------------------- MODULE MCAsyncWriter ---------------------------
(* Model checking of AsyncWriter: interchangeable logs.                    *)
EXTENDS AsyncWriter, TLC

Symmetry == Permutations(Logs)
=============================================================================
