------------------------ MODULE MCProviderScheduler ------------------------
(* Three threads, two roles and two slots. *)
EXTENDS ProviderScheduler, TLC

CONSTANTS t1, t2, t3
=============================================================================
