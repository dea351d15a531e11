---------------------------- MODULE MCPaidCalls ----------------------------
(* Instances of PaidCalls for model checking: three requests of one event. *)
(* The first two belong to one run, the last two have the same cache key.  *)
EXTENDS PaidCalls, TLC

CONSTANTS q1, q2, q3, k1, k2, t1, t2

CacheKey == (q1 :> k1 @@ q2 :> k2 @@ q3 :> k2)
ScopeMembers == [event |-> {q1, q2, q3}, run |-> {q1, q2}]
ScopeLimits == [event |-> 5, run |-> 3]

Symmetry == Permutations(Threads)
=============================================================================
