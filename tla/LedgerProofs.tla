---------------------------- MODULE LedgerProofs ----------------------------
(***************************************************************************)
(* What follows from the abstract ledger alone, whichever ledger of the    *)
(* system implements it.                                                   *)
(***************************************************************************)
EXTENDS Ledger, SumsProofs

LedgerInv == LedgerTypeOK /\ Covered

\* A ledger that takes only these steps counts every charge of the provider and never
\* exceeds its cap: admission, charging and settlement cannot be combined to lose money.
THEOREM LedgerSafe ==
    ASSUME Cap \in Nat, IsFiniteSet(Entries)
    PROVE  Spec => []LedgerInv
  <1>1. Init => LedgerInv
    BY DEF Init, LedgerInv, LedgerTypeOK, Covered
  <1>2. ASSUME LedgerInv, [Next]_lvars PROVE LedgerInv'
    <2> USE <1>2 DEF LedgerInv, LedgerTypeOK, Covered
    <2>1. ASSUME NEW x \in Entries, NEW bound \in 0 .. Cap, Hold(x, bound)
          PROVE  LedgerInv'
      BY <2>1 DEF Hold
    <2>2. ASSUME NEW x \in Entries, NEW amount \in 0 .. held[x], Charge(x, amount)
          PROVE  LedgerInv'
      BY <2>2 DEF Charge
    <2>3. ASSUME NEW S \in SUBSET open, Settle(S) PROVE LedgerInv'
      <3>1. /\ held' \in [Entries -> Nat] /\ real' = real /\ open' = open \ S
            /\ \A x \in S : real[x] <= held'[x] /\ held'[x] <= held[x]
            /\ \A x \in Entries \ S : held'[x] = held[x]
            /\ total' = total - Total(held, S) + Total(held', S)
        BY <2>3 DEF Settle
      <3>2. IsFiniteSet(S) /\ \A x \in S : held[x] \in Int /\ held'[x] \in Int
        <4>1. S \subseteq Entries
          OBVIOUS
        <4> QED
          BY <3>1, <4>1, FS_Subset
      <3>3. Total(held', S) <= Total(held, S)
        BY <3>1, <3>2, TotalMonotone
      <3>4. Total(held, S) \in Int /\ Total(held', S) \in Int
        BY <3>2, TotalElement
      <3>5. total' \in Int /\ total' <= Cap
        BY <3>1, <3>3, <3>4
      <3>6. \A x \in Entries : real[x] <= held'[x]
        BY <3>1
      <3> QED
        BY <3>1, <3>5, <3>6
    <2>4. CASE UNCHANGED lvars
      BY <2>4 DEF lvars
    <2> QED
      BY <2>1, <2>2, <2>3, <2>4 DEF Next
  <1> QED
    BY <1>1, <1>2, PTL DEF Spec
=============================================================================
