------------------------------- MODULE Ledger -------------------------------
(***************************************************************************)
(* What every money ledger of the system promises, whatever it is kept for *)
(* (provider calls, guarded calls, runs): an entry is counted in full      *)
(* before the provider can charge for it, it is lowered only to an amount  *)
(* that covers what was really charged, and then nothing is charged for it *)
(* any more.  The ledgers of PaidCalls and HostedStore implement it.       *)
(***************************************************************************)
EXTENDS Sums

CONSTANTS
    Entries,    \* what money is held for
    Cap         \* limit on the total

VARIABLES
    held,       \* held[x]: what the ledger counts for x
    real,       \* real[x]: what the provider has charged for x
    open,       \* entries that may still be charged
    total       \* what is counted for all entries and for what came before them

lvars == <<held, real, open, total>>

Init ==
    /\ held = [x \in Entries |-> 0]
    /\ real = [x \in Entries |-> 0]
    /\ open = {}
    /\ total \in 0 .. Cap

\* Admission of a new entry.
Hold(x, bound) ==
    /\ x \notin open
    /\ held[x] = 0 /\ real[x] = 0
    /\ total + bound <= Cap
    /\ held' = [held EXCEPT ![x] = bound]
    /\ open' = open \cup {x}
    /\ total' = total + bound
    /\ UNCHANGED real

\* The provider charges for an entry that is open.
Charge(x, amount) ==
    /\ x \in open
    /\ real[x] + amount <= held[x]
    /\ real' = [real EXCEPT ![x] = @ + amount]
    /\ UNCHANGED <<held, open, total>>

\* Settlement of the entries of S in one transaction: never below what was charged.
Settle(S) ==
    /\ S \subseteq open
    /\ held' \in [Entries -> Nat]
    /\ \A x \in S : real[x] <= held'[x] /\ held'[x] <= held[x]
    /\ \A x \in Entries \ S : held'[x] = held[x]
    /\ open' = open \ S
    /\ total' = total - Total(held, S) + Total(held', S)
    /\ UNCHANGED real

Next ==
    \/ \E x \in Entries :
          \/ \E bound \in 0 .. Cap : Hold(x, bound)
          \/ \E amount \in 0 .. held[x] : Charge(x, amount)
    \/ \E S \in SUBSET open : Settle(S)

Spec == Init /\ [][Next]_lvars

-----------------------------------------------------------------------------
LedgerTypeOK ==
    /\ held \in [Entries -> Nat]
    /\ real \in [Entries -> Nat]
    /\ open \subseteq Entries
    /\ total \in Int

\* No charge escapes the ledger and the cap is never exceeded.
Covered ==
    /\ \A x \in Entries : real[x] <= held[x]
    /\ total <= Cap
=============================================================================
