--------------------------- MODULE MCHostedStore ---------------------------
(***************************************************************************)
(* Instances of HostedStore for model checking: two runs of two users, of  *)
(* one document, or of two documents in one queue.                         *)
(***************************************************************************)
EXTENDS HostedStore, TLC

CONSTANTS r1, r2, d1, d2, u1, u2

Shared == [r \in {r1, r2} |-> d1]
Apart == (r1 :> d1 @@ r2 :> d2)
Users == (r1 :> u1 @@ r2 :> u2)

\* The runs of Shared differ only in their users, and those only in being two.
Symmetry == Permutations({r1, r2})
=============================================================================
