----------------------------- MODULE MCExports -----------------------------
(* An instance of Exports for TLC. *)
EXTENDS Exports, TLC

MCOrigin == "t1" :> "pipeline" @@ "t2" :> "recovery" @@ "t3" :> "reprocess"

\* A claim a tag job decided.
MCPublications == {[confirmed |-> TRUE, decision |-> "decided"]}

MCResolutions == {[origin |-> "human", attest |-> FALSE, decided |-> FALSE]}

Symmetry == Permutations(Claims) \union Permutations(Builders)
=============================================================================
