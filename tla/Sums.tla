-------------------------------- MODULE Sums --------------------------------
(* SUM(...) of the ledgers' SQL statements. *)
EXTENDS Integers, FiniteSets, FiniteSetsExt

\* The sum of f[x] over the elements x of S.
Total(f, S) == MapThenSumSet(LAMBDA x : f[x], S)
=============================================================================
