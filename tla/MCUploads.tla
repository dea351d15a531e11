----------------------------- MODULE MCUploads -----------------------------
(* Instances of Uploads for model checking. *)
EXTENDS Uploads, TLC

Symmetry == Permutations(Runners) \union Permutations(Keys)
=============================================================================
