----------------------------- MODULE MCReviews -----------------------------
(* An instance of Reviews for TLC. *)
EXTENDS Reviews, TLC

MCOrigin == "t1" :> "pipeline" @@ "t2" :> "recovery" @@ "t3" :> "reprocess"

\* A claim a tag job decided.
MCPublications == {[confirmed |-> TRUE, decision |-> "decided"]}

\* A human who attests, and a delegated model that does not and holds the claim.
MCResolutions == {[origin |-> "human", attest |-> TRUE, decided |-> TRUE],
                  [origin |-> "ai_delegated", attest |-> FALSE, decided |-> FALSE]}

Symmetry == Permutations(Claims) \union Permutations(Reviewers)
            \union Permutations(Flights) \union Permutations(RescoreKeys)
            \union Permutations(Packs \ {Frozen})
=============================================================================
