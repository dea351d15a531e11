------------------------- MODULE HostedStoreProofs -------------------------
(***************************************************************************)
(* Proofs about HostedStore, for any number of runs, documents, calls and  *)
(* amounts.                                                                *)
(*                                                                         *)
(* The properties are not inductive.  Control(r) adds how the tables of a  *)
(* run, its worker and its document depend on each other: which runs still *)
(* have an open envelope, that a call is only under way in the hands of a  *)
(* live child, and that a run that may still start has its bytes.  Money(r)*)
(* adds what every cost row says of the provider's charge and that the     *)
(* rows of an open envelope fit into it.                                   *)
(***************************************************************************)
EXTENDS HostedStore, SumsProofs

Open == {"reserved", "accounting_pending"}

\* How the rows of a run, its worker and its document depend on each other.
Control(r) ==
    /\ run[r].status = "absent" <=> spend[r].status = "none"
    /\ run[r].status \in Active \cup Uncertain => spend[r].status \in Open
    /\ run[r].status = "gone" => spend[r].status # "reserved"
    /\ run[r].status \in {"absent", "queued"} => worker[r].phase = "none"
    /\ worker[r].phase = "none" => \A c \in Calls : cost[r][c].status = "none"
    /\ \A c \in Calls : flight[r][c] # "none" =>
          cost[r][c].status = "reserved" /\ worker[r].phase \in {"analysing", "orphaned"}
    /\ spend[r].status = "reserved" => run[r].status \in Active \/ doc[DocOf[r]] = "tombstoned"
    /\ worker[r].phase \in {"preparing", "analysing", "returned", "orphaned"}
          => DocOf[r] \in files
    /\ run[r].status \in Active /\ doc[DocOf[r]] \in Uploaded => DocOf[r] \in files
    /\ r \in results => run[r].status \in Terminal
    /\ doc[DocOf[r]] = "purged" => run[r].status \in {"absent", "gone"} /\ DocOf[r] \notin files

\* What a cost row says of the charge for its call.
CallOK(k, ch, f) ==
    /\ k.status = "none" => k = NoCost
    /\ k.status = "settled" => k.actual = ch /\ ch <= k.bound
    /\ k.status \in Open => ch <= k.bound
    /\ f = "reserved" => ch = 0

HeldSum(k) == Total([c \in Calls |-> Held(k[c])], Calls)
Charges(r) == Total(charged[r], Calls)

\* What a run's envelope says of its calls.
SpendOK(sp, k, ch) ==
    /\ sp.status # "archived" => \A c \in Calls : k[c].status = "none" => ch[c] = 0
    /\ sp.status \in {"none", "archived"} =>
          sp.amount = 0 /\ \A c \in Calls : k[c].status = "none"
    /\ sp.status \in Open => sp.amount = Envelope /\ HeldSum(k) <= Envelope
    /\ sp.status = "settled" =>
          /\ \A c \in Calls : k[c].status \notin Open
          /\ sp.amount = Total(ch, Calls) /\ sp.amount <= Envelope

Money(r) ==
    /\ \A c \in Calls : CallOK(cost[r][c], charged[r][c], flight[r][c])
    /\ SpendOK(spend[r], cost[r], charged[r])

HostedInv ==
    /\ HostedTypeOK
    /\ \A r \in Runs : Control(r)
    /\ \A r \in Runs : Money(r)

-----------------------------------------------------------------------------
(* Types *)

\* What HostedAssumption says of the constants, one fact at a time.
LEMMA Constants ==
    /\ IsFiniteSet(Runs) /\ IsFiniteSet(Calls)
    /\ DocOf \in [Runs -> Documents]
    /\ Bounds \subseteq Nat
    /\ Envelope \in Nat /\ EventCap \in Nat /\ DayCap \in Nat
    /\ MaxActive \in Nat \ {0} /\ UserActive \in Nat \ {0} /\ MaxDay \in Nat \ {0}
    /\ MaxFence \in Nat
    /\ Earlier \subseteq 0 .. EventCap
  BY HostedAssumption

Statuses == Row \cup {"absent", "gone"}

\* What Fence does to a row.
LEMMA FenceRow ==
    ASSUME HostedTypeOK, NEW r \in Runs, NEW status \in Statuses
    PROVE  /\ Fence(r, status) \in RunRecord
           /\ Fence(r, status).status = status /\ ~Fence(r, status).lease
           /\ Fence(r, status).created = run[r].created
  <1>1. run[r] \in RunRecord
    BY DEF HostedTypeOK
  <1>2. Next1(run[r].fence) \in Nat
    BY <1>1, Constants DEF RunRecord, Next1
  <1> QED
    BY <1>1, <1>2 DEF RunRecord, Fence, Statuses

\* Ending a run changes its status and keeps the day it was created.
LEMMA EndedRow ==
    ASSUME NEW row \in RunRecord, NEW status \in Statuses
    PROVE  /\ Ended(row, status) \in RunRecord
           /\ Ended(row, status).status = status /\ Ended(row, status).created = row.created
  BY DEF RunRecord, Ended, Statuses

\* The settled amounts of a run's calls add up to an amount.
LEMMA ActualSum ==
    ASSUME NEW k \in [Calls -> CostRecord]
    PROVE  Total([c \in Calls |-> k[c].actual], Calls) \in Nat
  <1> DEFINE f == [c \in Calls |-> k[c].actual]
  <1>1. \A c \in Calls : f[c] \in Nat
    BY DEF CostRecord
  <1> HIDE DEF f
  <1>2. Total(f, Calls) \in Nat
    BY <1>1, Constants, TotalNat
  <1> QED
    BY <1>2 DEF f

\* What settling and suspending do to a spend row.
LEMMA SettledRow ==
    ASSUME NEW sp \in SpendRecord, NEW k \in [Calls -> CostRecord]
    PROVE  /\ SettledSpend(sp, k) \in SpendRecord
           /\ SettledSpend(sp, k).day = sp.day
           /\ sp.status \in {"none", "archived"} => SettledSpend(sp, k) = sp
           /\ sp.status \notin {"none", "archived"} =>
                 \/ /\ \E c \in Calls : k[c].status \in Open
                    /\ SettledSpend(sp, k).status = "accounting_pending"
                    /\ SettledSpend(sp, k).amount = sp.amount
                 \/ /\ \A c \in Calls : k[c].status \notin Open
                    /\ SettledSpend(sp, k).status = "settled"
                    /\ SettledSpend(sp, k).amount = Total([c \in Calls |-> k[c].actual], Calls)
  <1>1. Total([c \in Calls |-> k[c].actual], Calls) \in Nat
    BY ActualSum
  <1> QED
    BY <1>1 DEF SettledSpend, SettleEnvelope, SpendRecord, Open

\* Settling an envelope closes it, or leaves it pending while a call is.
LEMMA SettledStatus ==
    ASSUME NEW sp \in SpendRecord, NEW k \in [Calls -> CostRecord],
           sp.status \notin {"none", "archived"}
    PROVE  /\ SettledSpend(sp, k).status \in {"settled", "accounting_pending"}
           /\ (\A c \in Calls : k[c].status \notin Open) => SettledSpend(sp, k).status = "settled"
  BY SettledRow

\* Suspending keeps the amount and the day of an envelope that is still booked.
LEMMA SuspendedRow ==
    ASSUME NEW sp \in SpendRecord
    PROVE  /\ Suspended(sp) \in SpendRecord
           /\ Suspended(sp).day = sp.day /\ Suspended(sp).amount = sp.amount
           /\ Suspended(sp).status = IF sp.status \in {"none", "archived"} THEN sp.status
                                     ELSE "accounting_pending"
  BY DEF Suspended, SpendRecord

\* The tables after an expiry of leases have their types.
LEMMA ExpiredTypes ==
    ASSUME HostedTypeOK
    PROVE  /\ ExpiredRuns \in [Runs -> RunRecord]
           /\ ExpiredSpend \in [Runs -> SpendRecord]
  <1>1. \A r \in Runs : run[r] \in RunRecord /\ spend[r] \in SpendRecord
                        /\ cost[r] \in [Calls -> CostRecord]
    BY DEF HostedTypeOK
  <1>2. "failed" \in Statuses /\ "lease_expired" \in Statuses
    BY DEF Statuses, Row, Terminal, Uncertain
  <1>3. \A r \in Runs : ExpiredRuns[r] \in RunRecord
    BY <1>1, <1>2, FenceRow DEF ExpiredRuns
  <1>4. \A r \in Runs : ExpiredSpend[r] \in SpendRecord
    BY <1>1, SettledRow, SuspendedRow DEF ExpiredSpend
  <1> QED
    BY <1>3, <1>4 DEF ExpiredRuns, ExpiredSpend

\* What a dispatch does to the cost rows: its own, and only while it is reserved.
LEMMA CostRow ==
    ASSUME HostedTypeOK, NEW r \in Runs, NEW c \in Calls,
           NEW status \in {"settled", "accounting_pending"}, NEW actual \in Nat,
           NEW k, k = CostOf(r, c, status, actual)
    PROVE  /\ k \in [Runs -> [Calls -> CostRecord]]
           /\ cost[r][c].status = "reserved" =>
                 k[r][c].status = status /\ k[r][c].bound = cost[r][c].bound
                 /\ k[r][c].actual = actual
           /\ cost[r][c].status # "reserved" => k[r][c] = cost[r][c]
           /\ \A q \in Runs \ {r} : k[q] = cost[q]
           /\ \A e \in Calls \ {c} : k[r][e] = cost[r][e]
  <1> DEFINE row == [cost[r][c] EXCEPT !.status = status, !.actual = actual]
  <1>1. /\ cost \in [Runs -> [Calls -> CostRecord]]
        /\ cost[r] \in [Calls -> CostRecord] /\ cost[r][c] \in CostRecord
    BY DEF HostedTypeOK
  <1>2. /\ row \in CostRecord /\ row.status = status /\ row.actual = actual
        /\ row.bound = cost[r][c].bound
    BY <1>1 DEF CostRecord
  <1>3. k = IF cost[r][c].status = "reserved" THEN [cost EXCEPT ![r][c] = row] ELSE cost
    BY DEF CostOf
  <1> HIDE DEF row
  <1>4. [cost EXCEPT ![r][c] = row] = [cost EXCEPT ![r] = [cost[r] EXCEPT ![c] = row]]
    BY <1>1
  <1> QED
    BY <1>1, <1>2, <1>3, <1>4

\* The tables are well typed when the service is first started.
LEMMA HostedInitType == Init => HostedTypeOK
  <1> SUFFICES ASSUME Init PROVE HostedTypeOK
    OBVIOUS
  <1>1. archived \in Nat
    BY Constants DEF Init
  <1>2. today \in 1 .. MaxDay
    BY Constants DEF Init
  <1> QED
    BY <1>1, <1>2 DEF Init, HostedTypeOK, RunRecord, SpendRecord, CostRecord, NoCost, Phase

\* A step of a slot moves its worker.
LEMMA MoveType ==
    ASSUME HostedTypeOK, NEW r \in Runs, NEW from, NEW to \in Phase, Move(r, from, to)
    PROVE  /\ worker' \in [Runs -> [phase : Phase, fence : Nat]]
           /\ worker[r].phase = from /\ worker'[r].phase = to /\ worker'[r].fence = worker[r].fence
           /\ \A q \in Runs \ {r} : worker'[q] = worker[q]
  BY DEF HostedTypeOK, Move

\* Every step keeps the types of the tables.
LEMMA TypeStep ==
    ASSUME HostedTypeOK, Next PROVE HostedTypeOK'
  <1>0. \A r \in Runs : run[r] \in RunRecord /\ spend[r] \in SpendRecord
                        /\ cost[r] \in [Calls -> CostRecord]
                        /\ worker[r] \in [phase : Phase, fence : Nat]
    BY DEF HostedTypeOK
  <1>s. /\ "failed" \in Statuses /\ "cancelled" \in Statuses /\ "gone" \in Statuses
        /\ "completed" \in Statuses /\ "partial_blocked" \in Statuses
        /\ "accounting_pending" \in Statuses /\ "lease_expired" \in Statuses
        /\ "queued" \in Statuses /\ "running" \in Statuses
    BY DEF Statuses, Row, Terminal, Uncertain, Active
  <1>c. Cardinality({q \in Runs : run[q].status # "absent"}) \in Nat
    <2>1. IsFiniteSet({q \in Runs : run[q].status # "absent"})
      BY Constants, FS_Subset
    <2> QED
      BY <2>1, FS_CardinalityType
  <1>1. ASSUME NEW r \in Runs, CreateRun(r) PROVE HostedTypeOK'
    <2>1. [status |-> "queued", fence |-> 0, lease |-> FALSE,
           created |-> Cardinality({q \in Runs : run[q].status # "absent"})] \in RunRecord
      BY <1>c DEF RunRecord, Row, Active
    <2>2. [status |-> "reserved", amount |-> Envelope, day |-> today] \in SpendRecord
      BY Constants DEF SpendRecord, HostedTypeOK
    <2> QED
      BY <1>1, <2>1, <2>2 DEF CreateRun, HostedTypeOK
  <1>2. CASE ControlState
    BY <1>2, ExpiredTypes DEF ControlState, HostedTypeOK
  <1>3. ASSUME NEW r \in Runs, Claim(r) PROVE HostedTypeOK'
    <2>1. Next1(run[r].fence) \in Nat
      BY <1>0, Constants DEF RunRecord, Next1
    <2>2. Claimed(ExpiredRuns[r]) \in RunRecord
      <3>1. ExpiredRuns[r] \in RunRecord
        BY ExpiredTypes
      <3>2. Next1(ExpiredRuns[r].fence) \in Nat
        BY <3>1, Constants DEF RunRecord, Next1
      <3> QED
        BY <3>1, <3>2 DEF Claimed, RunRecord, Row, Active
    <2>3. run' \in [Runs -> RunRecord]
      BY <1>3, <2>2, ExpiredTypes DEF Claim
    <2>4. worker' \in [Runs -> [phase : Phase, fence : Nat]]
      BY <1>3, <2>1 DEF Claim, HostedTypeOK, Phase
    <2> QED
      BY <1>3, <2>3, <2>4, ExpiredTypes DEF Claim, HostedTypeOK
  <1>4. ASSUME NEW r \in Runs, Progress(r) PROVE HostedTypeOK'
    <2>1. CASE PrepareStart(r)
      BY <2>1, MoveType DEF PrepareStart, HostedTypeOK, Phase
    <2>2. CASE PrepareEnd(r)
      BY <2>2, MoveType DEF PrepareEnd, HostedTypeOK, Phase
    <2>3. CASE AnalysisOpen(r)
      BY <2>3, MoveType DEF AnalysisOpen, HostedTypeOK, Phase
    <2>4. CASE AnalysisLock(r)
      BY <2>4, MoveType DEF AnalysisLock, HostedTypeOK, Phase
    <2>5. CASE AnalysisStart(r)
      BY <2>5, MoveType DEF AnalysisStart, HostedTypeOK, Phase
    <2>6. CASE AnalysisEnd(r)
      BY <2>6, MoveType DEF AnalysisEnd, HostedTypeOK, Phase
    <2>7. ASSUME NEW status \in {"completed", "partial_blocked"}, PublishAnalysis(r, status)
          PROVE  HostedTypeOK'
      <3>1. Ended(run[r], status) \in RunRecord
        BY <1>0, <1>s, EndedRow
      <3>2. SettledSpend(spend[r], cost[r]) \in SpendRecord
        BY <1>0, SettledRow
      <3> QED
        BY <2>7, <3>1, <3>2, MoveType DEF PublishAnalysis, HostedTypeOK, Phase
    <2>8. CASE Abort(r)
      BY <2>8 DEF Abort, HostedTypeOK, Phase
    <2>9. CASE Handle(r)
      <3>1. Ended(run[r], "failed") \in RunRecord
        BY <1>0, <1>s, EndedRow
      <3>2. SettledSpend(spend[r], cost[r]) \in SpendRecord
        BY <1>0, SettledRow
      <3>3. run' \in [Runs -> RunRecord] /\ spend' \in [Runs -> SpendRecord]
        BY <2>9, <3>1, <3>2 DEF Handle, HostedTypeOK
      <3>4. worker' \in [Runs -> [phase : Phase, fence : Nat]]
        BY <2>9, MoveType DEF Handle, Phase
      <3> QED
        BY <2>9, <3>3, <3>4 DEF Handle, HostedTypeOK
    <2> QED
      BY <1>4, <2>1, <2>2, <2>3, <2>4, <2>5, <2>6, <2>7, <2>8, <2>9 DEF Progress
  <1>5. ASSUME NEW r \in Runs, Crash(r) PROVE HostedTypeOK'
    BY <1>5 DEF Crash, HostedTypeOK, Phase
  <1>6. ASSUME NEW r \in Runs, OrphanEnds(r) PROVE HostedTypeOK'
    BY <1>6, MoveType DEF OrphanEnds, HostedTypeOK, Phase
  <1>7. ASSUME NEW r \in Runs, LeaseElapses(r) PROVE HostedTypeOK'
    <2>1. [run[r] EXCEPT !.lease = FALSE] \in RunRecord
      BY <1>0 DEF RunRecord
    <2>2. run' = [run EXCEPT ![r] = [run[r] EXCEPT !.lease = FALSE]]
      BY <1>7 DEF LeaseElapses
    <2> QED
      BY <1>7, <2>1, <2>2 DEF LeaseElapses, HostedTypeOK
  <1>8. ASSUME NEW r \in Runs, DispatchStep(r) PROVE HostedTypeOK'
    <2>1. ASSUME NEW c \in Calls, NEW b \in Bounds, Reserve(r, c, b) PROVE HostedTypeOK'
      <3>1. [status |-> "reserved", bound |-> b, actual |-> 0] \in CostRecord
        BY Constants DEF CostRecord
      <3> QED
        BY <2>1, <3>1 DEF Reserve, HostedTypeOK
    <2>2. ASSUME NEW c \in Calls, NEW amount \in 0 .. Envelope, Transport(r, c, amount)
          PROVE  HostedTypeOK'
      <3>1. amount \in Nat
        BY Constants
      <3> QED
        BY <2>2, <3>1 DEF Transport, HostedTypeOK
    <2>3. ASSUME NEW c \in Calls, NEW status \in {"settled", "accounting_pending"},
                 NEW actual \in Nat
          PROVE  CostOf(r, c, status, actual) \in [Runs -> [Calls -> CostRecord]]
      BY CostRow
    <2>4. ASSUME NEW c \in Calls, Settle(r, c) PROVE HostedTypeOK'
      <3>1. charged[r][c] \in Nat
        BY DEF HostedTypeOK
      <3>2. cost' \in [Runs -> [Calls -> CostRecord]]
        BY <2>3, <2>4, <3>1 DEF Settle
      <3>3. SettledSpend(spend[r], cost'[r]) \in SpendRecord
        BY <1>0, <3>2, SettledRow
      <3> QED
        BY <2>4, <3>2, <3>3 DEF Settle, HostedTypeOK
    <2>5. ASSUME NEW c \in Calls, NotSent(r, c) PROVE HostedTypeOK'
      BY <2>3, <2>5 DEF NotSent, HostedTypeOK
    <2>6. ASSUME NEW c \in Calls, NEW end \in {"isolated", "failed", "accounting_pending"},
                 DispatchFails(r, c, end)
          PROVE  HostedTypeOK'
      <3>1. cost' \in [Runs -> [Calls -> CostRecord]]
        BY <2>3, <2>6 DEF DispatchFails
      <3>2. Suspended(spend[r]) \in SpendRecord
        BY <1>0, SuspendedRow
      <3>3. end # "isolated" => Fence(r, end) \in RunRecord
        BY <1>s, FenceRow
      <3> QED
        BY <2>6, <3>1, <3>2, <3>3 DEF DispatchFails, HostedTypeOK
    <2> QED
      BY <1>8, <2>1, <2>2, <2>4, <2>5, <2>6 DEF DispatchStep
  <1>9. ASSUME NEW d \in Documents, PurgeFiles(d) PROVE HostedTypeOK'
    BY <1>9 DEF PurgeFiles, HostedTypeOK
  <1>10. ASSUME NEW d \in Documents, PurgeRows(d) PROVE HostedTypeOK'
    <2>1. \A r \in Runs : Fence(r, "gone") \in RunRecord
      BY <1>s, FenceRow
    <2>2. \A r \in Runs : SettledSpend(spend[r], cost[r]) \in SpendRecord
      BY <1>0, SettledRow
    <2> QED
      BY <1>0, <1>10, <2>1, <2>2 DEF PurgeRows, HostedTypeOK
  <1>11. ASSUME NEW d \in Documents, DocumentExpires(d) PROVE HostedTypeOK'
    BY <1>11 DEF DocumentExpires, HostedTypeOK
  <1>12. ASSUME NEW n \in 0 .. Cardinality(Runs), Maintain(n) PROVE HostedTypeOK'
    <2> DEFINE old == OldSettled(ExpiredSpend, n)
               f == [r \in Runs |-> ExpiredSpend[r].amount]
    <2>1. Total(f, old) \in Nat
      <3>1. old \subseteq Runs /\ IsFiniteSet(old)
        BY Constants, FS_Subset DEF OldSettled
      <3>2. \A r \in old : f[r] \in Nat
        BY <3>1, ExpiredTypes DEF SpendRecord
      <3> HIDE DEF f, old
      <3> QED
        BY <3>1, <3>2, TotalNat
    <2>2. archived' \in Nat
      <3>1. archived' = archived + Total(f, old)
        BY <1>12 DEF Maintain
      <3> HIDE DEF f, old
      <3> QED
        BY <2>1, <3>1 DEF HostedTypeOK
    <2>3. spend' \in [Runs -> SpendRecord]
      BY <1>12, ExpiredTypes DEF Maintain, SpendRecord
    <2>4. cost' \in [Runs -> [Calls -> CostRecord]]
      BY <1>0, <1>12 DEF Maintain, CostRecord, NoCost
    <2> QED
      BY <1>12, <2>2, <2>3, <2>4, ExpiredTypes DEF Maintain, HostedTypeOK
  <1>13. CASE Outside
    <2>1. ASSUME NEW r \in Runs, Cancel(r) PROVE HostedTypeOK'
      <3>1. Fence(r, "cancelled") \in RunRecord
        BY <1>s, FenceRow
      <3>2. SettledSpend(spend[r], cost[r]) \in SpendRecord
        BY <1>0, SettledRow
      <3> QED
        BY <2>1, <3>1, <3>2 DEF Cancel, HostedTypeOK
    <2>2. ASSUME NEW r \in Runs, Reconcile(r) PROVE HostedTypeOK'
      <3>1. Fence(r, "failed") \in RunRecord
        BY <1>s, FenceRow
      <3>2. Attested(r) \in [Calls -> CostRecord]
        <4>1. ASSUME NEW c \in Calls PROVE Attested(r)[c] \in CostRecord
          <5>1. cost[r][c] \in CostRecord /\ charged[r][c] \in Nat
            BY DEF HostedTypeOK
          <5> QED
            BY <5>1 DEF Attested, CostRecord
        <4> QED
          BY <4>1 DEF Attested
      <3>3. cost' \in [Runs -> [Calls -> CostRecord]] /\ cost'[r] = Attested(r)
        BY <2>2, <3>2 DEF Reconcile, HostedTypeOK
      <3>4. SettledSpend(spend[r], cost'[r]) \in SpendRecord
        BY <1>0, <3>2, <3>3, SettledRow
      <3> QED
        BY <2>2, <3>1, <3>3, <3>4 DEF Reconcile, HostedTypeOK
    <2>3. ASSUME NEW d \in Documents, DeleteDocument(d) PROVE HostedTypeOK'
      <3>1. \A r \in Runs : Fence(r, "cancelled") \in RunRecord
        BY <1>s, FenceRow
      <3> QED
        BY <1>0, <2>3, <3>1 DEF DeleteDocument, HostedTypeOK
    <2>4. CASE Drain
      BY <2>4 DEF Drain, HostedTypeOK
    <2>5. CASE LoseControl
      <3>1. \A r \in Runs : Fence(r, "gone") \in RunRecord
        BY <1>s, FenceRow
      <3>2. spend' \in [Runs -> SpendRecord]
        BY <1>0, <2>5, SuspendedRow DEF LoseControl, Startup
      <3>3. run' \in [Runs -> RunRecord]
        BY <1>0, <2>5, <3>1 DEF LoseControl
      <3>4. worker' \in [Runs -> [phase : Phase, fence : Nat]]
        BY <1>0, <2>5 DEF LoseControl, Phase
      <3>5. /\ flight' \in [Runs -> [Calls -> {"none", "reserved", "sent"}]]
            /\ doc' \in [Documents -> {"live", "expired", "tombstoned", "purged"}]
        BY <2>5 DEF LoseControl, HostedTypeOK
      <3> QED
        BY <2>5, <3>2, <3>3, <3>4, <3>5 DEF LoseControl, HostedTypeOK
    <2> QED
      BY <1>13, <2>1, <2>2, <2>3, <2>4, <2>5 DEF Outside
  <1>14. CASE NewDay
    BY <1>14, Constants DEF NewDay, HostedTypeOK
  <1> QED
    BY <1>1, <1>2, <1>3, <1>4, <1>5, <1>6, <1>7, <1>8, <1>9, <1>10, <1>11, <1>12, <1>13,
       <1>14 DEF Next, SlotStep
-----------------------------------------------------------------------------
(* Control *)

\* Nothing changes in the rows of q, nor in its worker or its calls.
SameRun(q) ==
    /\ run'[q] = run[q] /\ worker'[q] = worker[q] /\ spend'[q] = spend[q]
    /\ cost'[q] = cost[q] /\ flight'[q] = flight[q] /\ charged'[q] = charged[q]
    /\ q \in results' <=> q \in results

\* Nor in its document.
SamePlace(q) ==
    /\ doc'[DocOf[q]] = doc[DocOf[q]]
    /\ DocOf[q] \in files' <=> DocOf[q] \in files

\* A run whose rows, worker and document are left alone keeps Control.
LEMMA FrameControl ==
    ASSUME NEW q \in Runs, Control(q), SameRun(q), SamePlace(q) PROVE Control(q)'
  BY DEF Control, SameRun, SamePlace

\* What _expire_running does to a run.
LEMMA ExpiredRow ==
    ASSUME HostedInv, NEW q \in Runs
    PROVE  /\ ~ToExpire(q) => ExpiredRuns[q] = run[q] /\ ExpiredSpend[q] = spend[q]
           /\ ToExpire(q) =>
                 /\ run[q].status \in {"running", "lease_expired"}
                 /\ spend[q].status \in Open
                 /\ ExpiredRuns[q].created = run[q].created
                 /\ ExpiredSpend[q].day = spend[q].day
                 /\ \/ /\ \A c \in Calls : cost[q][c].status = "none"
                       /\ ExpiredRuns[q].status = "failed"
                       /\ ExpiredSpend[q].status = "settled"
                       /\ ExpiredSpend[q] = SettledSpend(spend[q], cost[q])
                    \/ /\ ExpiredRuns[q].status = "lease_expired"
                       /\ ExpiredSpend[q].status = "accounting_pending"
                       /\ ExpiredSpend[q].amount = spend[q].amount
  <1>1. CASE ~ToExpire(q)
    BY <1>1 DEF ExpiredRuns, ExpiredSpend
  <1>2. CASE ToExpire(q)
    <2>1. /\ run[q] \in RunRecord /\ spend[q] \in SpendRecord /\ cost[q] \in [Calls -> CostRecord]
          /\ HostedTypeOK /\ Control(q)
      BY DEF HostedInv, HostedTypeOK
    <2>2. run[q].status \in {"running", "lease_expired"}
      BY <1>2 DEF ToExpire
    <2>3. spend[q].status \in Open
      BY <2>1, <2>2 DEF Control, Active, Uncertain
    <2>4. "failed" \in Statuses /\ "lease_expired" \in Statuses
      BY DEF Statuses, Row, Terminal, Uncertain
    <2>5. CASE NoDispatch(q)
      <3>1. \A c \in Calls : cost[q][c].status = "none"
        BY <2>5 DEF NoDispatch
      <3>2. ExpiredRuns[q] = Fence(q, "failed") /\ ExpiredSpend[q] = SettledSpend(spend[q], cost[q])
        BY <1>2, <2>5 DEF ExpiredRuns, ExpiredSpend
      <3>3. ExpiredSpend[q].status = "settled" /\ ExpiredSpend[q].day = spend[q].day
        <4>1. spend[q].status \notin {"none", "archived"}
          BY <2>3 DEF Open
        <4>2. \A c \in Calls : cost[q][c].status \notin Open
          BY <3>1 DEF Open
        <4>3. SettledSpend(spend[q], cost[q]).status = "settled"
          BY <2>1, <4>1, <4>2, SettledStatus
        <4>4. SettledSpend(spend[q], cost[q]).day = spend[q].day
          BY <2>1, SettledRow
        <4> QED
          BY <3>2, <4>3, <4>4
      <3> QED
        BY <1>2, <2>1, <2>2, <2>3, <2>4, <3>1, <3>2, <3>3, FenceRow
    <2>6. CASE ~NoDispatch(q)
      <3>1. ExpiredRuns[q] = Fence(q, "lease_expired") /\ ExpiredSpend[q] = Suspended(spend[q])
        BY <1>2, <2>6 DEF ExpiredRuns, ExpiredSpend
      <3>2. ExpiredRuns[q].created = run[q].created /\ ExpiredRuns[q].status = "lease_expired"
        BY <2>1, <2>4, <3>1, FenceRow
      <3>3. /\ ExpiredSpend[q].day = spend[q].day /\ ExpiredSpend[q].amount = spend[q].amount
            /\ ExpiredSpend[q].status = "accounting_pending"
        BY <2>1, <2>3, <3>1, SuspendedRow DEF Open
      <3> QED
        BY <1>2, <2>2, <2>3, <3>2, <3>3
    <2> QED
      BY <2>5, <2>6
  <1> QED
    BY <1>1, <1>2

\* Expiry alone: everything but the run and its envelope stays.
LEMMA ExpiredControl ==
    ASSUME HostedInv, NEW q \in Runs, SamePlace(q) \/ doc'[DocOf[q]] = "tombstoned",
           doc[DocOf[q]] # "purged",
           run'[q] = ExpiredRuns[q], spend'[q] = ExpiredSpend[q],
           worker'[q] = worker[q], cost'[q] = cost[q], flight'[q] = flight[q],
           files' = files, results' = results
    PROVE  Control(q)'
  <1>1. Control(q) /\ run[q] \in RunRecord /\ spend[q] \in SpendRecord
    BY DEF HostedInv, HostedTypeOK
  <1>2. CASE ~ToExpire(q)
    <2>1. run'[q] = run[q] /\ spend'[q] = spend[q]
      BY <1>2, ExpiredRow
    <2> QED
      BY <1>1, <2>1 DEF Control, SamePlace, Uploaded
  <1>3. CASE ToExpire(q)
    BY <1>1, <1>3, ExpiredRow DEF Control, SamePlace, Open, Active, Uncertain, Terminal, Uploaded
  <1> QED
    BY <1>2, <1>3

\* The same for a purged document, of which no run is left to expire.
LEMMA ExpiredPurged ==
    ASSUME HostedInv, NEW q \in Runs, doc[DocOf[q]] = "purged"
    PROVE  ~ToExpire(q)
  BY DEF HostedInv, Control, ToExpire

\* Every step keeps Control of every run.
LEMMA ControlStep ==
    ASSUME HostedInv, HostedTypeOK', Next, NEW q \in Runs PROVE Control(q)'
  <1>0. /\ HostedTypeOK /\ Control(q)
        /\ \A r \in Runs : /\ run[r] \in RunRecord /\ spend[r] \in SpendRecord
                           /\ cost[r] \in [Calls -> CostRecord] /\ DocOf[r] \in Documents
                           /\ Control(r)
    BY Constants DEF HostedInv, HostedTypeOK
  <1>s. /\ "failed" \in Statuses /\ "cancelled" \in Statuses /\ "gone" \in Statuses
        /\ "completed" \in Statuses /\ "partial_blocked" \in Statuses
        /\ "accounting_pending" \in Statuses
    BY DEF Statuses, Row, Terminal, Uncertain
  <1>1. ASSUME NEW r \in Runs, CreateRun(r) PROVE Control(q)'
    <2>1. CASE q = r
      <3>1. /\ run'[r].status = "queued" /\ spend'[r].status = "reserved"
            /\ run[r].status = "absent" /\ doc[DocOf[r]] = "live" /\ DocOf[r] \in files
        BY <1>1 DEF CreateRun, HostedTypeOK, HostedInv
      <3>2. UNCHANGED <<worker, cost, flight, results, doc, files>>
        BY <1>1 DEF CreateRun
      <3> QED
        BY <1>0, <2>1, <3>1, <3>2 DEF Control, Open, Active, Uncertain, Terminal, Uploaded
    <2>2. CASE q # r
      BY <1>0, <1>1, <2>2, FrameControl DEF CreateRun, SameRun, SamePlace, HostedTypeOK
    <2> QED
      BY <2>1, <2>2
  <1>2. CASE ControlState
    <2>1. /\ run' = ExpiredRuns /\ spend' = ExpiredSpend
          /\ UNCHANGED <<worker, cost, flight, charged, results, doc, files>>
      BY <1>2 DEF ControlState
    <2>2. CASE doc[DocOf[q]] = "purged"
      BY <1>0, <2>1, <2>2, ExpiredPurged, ExpiredRow, FrameControl DEF SameRun, SamePlace
    <2>3. CASE doc[DocOf[q]] # "purged"
      BY <2>1, <2>3, ExpiredControl DEF SamePlace
    <2> QED
      BY <2>2, <2>3
  <1>3. ASSUME NEW r \in Runs, Claim(r) PROVE Control(q)'
    <2>1. /\ spend' = ExpiredSpend
          /\ UNCHANGED <<cost, flight, charged, results, doc, files>>
          /\ \A p \in Runs \ {r} : run'[p] = ExpiredRuns[p] /\ worker'[p] = worker[p]
          /\ run'[r] = Claimed(ExpiredRuns[r]) /\ worker'[r].phase = "claimed"
      BY <1>3, ExpiredTypes DEF Claim, HostedTypeOK, HostedInv
    <2>2. CASE q = r
      <3>1. ExpiredRuns[r].status = "queued" /\ doc[DocOf[r]] \in Uploaded
        BY <1>3 DEF Claim, Eligible
      <3>2. ~ToExpire(r) /\ run[r].status = "queued" /\ spend'[r] = spend[r]
        BY <2>1, <3>1, ExpiredRow
      <3>3. run'[r].status = "running"
        BY <2>1, ExpiredTypes, <1>0 DEF Claimed, RunRecord
      <3> QED
        BY <1>0, <2>1, <2>2, <3>1, <3>2, <3>3 DEF Control, Open, Active, Uncertain, Terminal, Uploaded
    <2>3. CASE q # r
      <3>1. CASE doc[DocOf[q]] = "purged"
        BY <1>0, <2>1, <2>3, <3>1, ExpiredPurged, ExpiredRow, FrameControl DEF SameRun, SamePlace
      <3>2. CASE doc[DocOf[q]] # "purged"
        BY <2>1, <2>3, <3>2, ExpiredControl DEF SamePlace
      <3> QED
        BY <3>1, <3>2
    <2> QED
      BY <2>2, <2>3
  <1>4. ASSUME NEW r \in Runs, Progress(r) PROVE Control(q)'
    <2>f. Fenced(r) => /\ run[r].status = "running" /\ doc[DocOf[r]] \in Uploaded
                       /\ DocOf[r] \in files
      BY <1>0 DEF Fenced, Control, Active
    <2>m. ASSUME NEW from, NEW to \in Phase, Move(r, from, to),
                 from \in Phase \ {"none"}, to # "none",
                 from \in {"analysing", "orphaned"} => \A c \in Calls : flight[r][c] = "none",
                 to \in {"preparing", "analysing", "returned", "orphaned"} =>
                      from \in {"analysing", "returned"} \/ Fenced(r),
                 UNCHANGED <<run, spend, cost, flight, charged, results, doc, files>>
          PROVE  Control(q)'
      <3>1. CASE q = r
        <4>1. worker[r].phase = from /\ worker'[r].phase = to
          BY <1>0, <2>m, MoveType
        <4> QED
          BY <1>0, <2>f, <2>m, <3>1, <4>1 DEF Control
      <3>2. CASE q # r
        <4>1. worker'[q] = worker[q]
          BY <1>0, <2>m, <3>2, MoveType
        <4> QED
          BY <1>0, <2>m, <3>2, <4>1, FrameControl DEF SameRun, SamePlace
      <3> QED
        BY <3>1, <3>2
    <2>1. CASE PrepareStart(r)
      BY <2>1, <2>m DEF PrepareStart, Phase
    <2>2. CASE PrepareEnd(r)
      BY <2>2, <2>m DEF PrepareEnd, Phase
    <2>3. CASE AnalysisOpen(r)
      BY <2>3, <2>m DEF AnalysisOpen, Phase
    <2>4. CASE AnalysisLock(r)
      BY <2>4, <2>m DEF AnalysisLock, Phase
    <2>5. CASE AnalysisStart(r)
      BY <2>5, <2>m DEF AnalysisStart, Phase
    <2>6. CASE AnalysisEnd(r)
      BY <2>6, <2>m DEF AnalysisEnd, Phase
    <2>7. ASSUME NEW status \in {"completed", "partial_blocked"}, PublishAnalysis(r, status)
          PROVE  Control(q)'
      <3>1. CASE q = r
        <4>1. worker[r].phase = "returned" /\ worker'[r].phase = "done"
          BY <1>0, <2>7, MoveType DEF PublishAnalysis, Phase
        <4>2. run[r].status = "running" /\ run'[r].status = status /\ doc[DocOf[r]] \in Uploaded
          <5>1. run'[r] = Ended(run[r], status)
            BY <2>7 DEF PublishAnalysis, HostedInv, HostedTypeOK
          <5>2. run'[r].status = status
            <6>1. status \in Statuses
              BY <1>s
            <6> QED
              BY <1>0, <5>1, <6>1, EndedRow
          <5> QED
            BY <2>7, <5>2 DEF PublishAnalysis, Fenced
        <4>3. spend'[r] = SettledSpend(spend[r], cost[r])
          BY <2>7 DEF PublishAnalysis, HostedInv, HostedTypeOK
        <4>4. spend[r].status \in Open
          BY <1>0, <4>2 DEF Control, Active
        <4>5. spend'[r].status \in {"settled", "accounting_pending"}
          <5>1. spend[r].status \notin {"none", "archived"}
            BY <4>4 DEF Open
          <5> QED
            BY <1>0, <4>3, <5>1, SettledStatus
        <4>6. UNCHANGED <<cost, flight, doc, files>>
          BY <2>7 DEF PublishAnalysis
        <4> QED
          BY <1>0, <3>1, <4>1, <4>2, <4>5, <4>6
             DEF Control, Open, Active, Uncertain, Terminal, Uploaded
      <3>2. CASE q # r
        <4>1. worker'[q] = worker[q]
          BY <1>0, <2>7, <3>2, MoveType DEF PublishAnalysis, Phase
        <4> QED
          BY <1>0, <2>7, <3>2, <4>1, FrameControl
             DEF PublishAnalysis, SameRun, SamePlace, HostedTypeOK
      <3> QED
        BY <3>1, <3>2
    <2>8. CASE Abort(r)
      <3>1. CASE q = r
        <4>1. worker[r].phase # "none" /\ worker'[r].phase = "failing"
          BY <2>8 DEF Abort, HostedInv, HostedTypeOK
        <4>2. \A c \in Calls : flight'[r][c] = "none"
          BY <2>8 DEF Abort, HostedInv, HostedTypeOK
        <4>3. UNCHANGED <<run, spend, cost, results, doc, files>>
          BY <2>8 DEF Abort
        <4> QED
          BY <1>0, <3>1, <4>1, <4>2, <4>3 DEF Control
      <3>2. CASE q # r
        BY <1>0, <2>8, <3>2, FrameControl DEF Abort, SameRun, SamePlace, HostedTypeOK
      <3> QED
        BY <3>1, <3>2
    <2>9. CASE Handle(r)
      <3>1. CASE q = r
        <4>1. worker[r].phase = "failing" /\ worker'[r].phase = "done"
          BY <1>0, <2>9, MoveType DEF Handle, Phase
        <4>2. UNCHANGED <<cost, flight, results, doc, files>>
          BY <2>9 DEF Handle
        <4>3. CASE UNCHANGED <<run, spend>>
          BY <1>0, <3>1, <4>1, <4>2, <4>3 DEF Control
        <4>4. CASE /\ run[r].status = "running"
                   /\ run' = [run EXCEPT ![r] = Ended(run[r], "failed")]
                   /\ spend' = [spend EXCEPT ![r] = SettledSpend(spend[r], cost[r])]
          <5>1. run'[r].status = "failed"
            BY <1>0, <1>s, <4>4, EndedRow DEF HostedTypeOK
          <5>2. spend[r].status \in Open /\ spend'[r] = SettledSpend(spend[r], cost[r])
            BY <1>0, <4>4 DEF Control, Active, HostedTypeOK
          <5>3. spend'[r].status \in {"settled", "accounting_pending"}
            <6>1. spend[r].status \notin {"none", "archived"}
              BY <5>2 DEF Open
            <6> QED
              BY <1>0, <5>2, <6>1, SettledStatus
          <5> QED
            BY <1>0, <3>1, <4>1, <4>2, <4>4, <5>1, <5>3
               DEF Control, Open, Active, Uncertain, Terminal, Uploaded
        <4> QED
          BY <2>9, <4>3, <4>4 DEF Handle
      <3>2. CASE q # r
        <4>1. worker'[q] = worker[q]
          BY <1>0, <2>9, <3>2, MoveType DEF Handle, Phase
        <4> QED
          BY <1>0, <2>9, <3>2, <4>1, FrameControl
             DEF Handle, SameRun, SamePlace, HostedTypeOK
      <3> QED
        BY <3>1, <3>2
    <2> QED
      BY <1>4, <2>1, <2>2, <2>3, <2>4, <2>5, <2>6, <2>7, <2>8, <2>9 DEF Progress
  <1>5. ASSUME NEW r \in Runs, Crash(r) PROVE Control(q)'
    <2>1. CASE q = r
      <3>1. /\ worker[r].phase # "none"
            /\ worker'[r].phase = IF worker[r].phase = "analysing" THEN "orphaned" ELSE "done"
            /\ worker[r].phase # "orphaned"
        BY <1>5 DEF Crash, HostedInv, HostedTypeOK
      <3>2. UNCHANGED <<run, spend, cost, flight, results, doc, files>>
        BY <1>5 DEF Crash
      <3> QED
        BY <1>0, <2>1, <3>1, <3>2 DEF Control
    <2>2. CASE q # r
      BY <1>0, <1>5, <2>2, FrameControl DEF Crash, SameRun, SamePlace, HostedTypeOK
    <2> QED
      BY <2>1, <2>2
  <1>6. ASSUME NEW r \in Runs, OrphanEnds(r) PROVE Control(q)'
    <2>1. CASE q = r
      <3>1. worker[r].phase = "orphaned" /\ worker'[r].phase = "done"
        BY <1>0, <1>6, MoveType DEF OrphanEnds, Phase
      <3>2. \A c \in Calls : flight'[r][c] = "none"
        BY <1>6 DEF OrphanEnds, HostedInv, HostedTypeOK
      <3>3. UNCHANGED <<run, spend, cost, results, doc, files>>
        BY <1>6 DEF OrphanEnds
      <3> QED
        BY <1>0, <2>1, <3>1, <3>2, <3>3 DEF Control
    <2>2. CASE q # r
      <3>1. worker'[q] = worker[q]
        BY <1>0, <1>6, <2>2, MoveType DEF OrphanEnds, Phase
      <3> QED
        BY <1>0, <1>6, <2>2, <3>1, FrameControl DEF OrphanEnds, SameRun, SamePlace, HostedTypeOK
    <2> QED
      BY <2>1, <2>2
  <1>7. ASSUME NEW r \in Runs, LeaseElapses(r) PROVE Control(q)'
    <2>1. run'[q].status = run[q].status
      BY <1>0, <1>7 DEF LeaseElapses, HostedTypeOK, RunRecord
    <2> QED
      BY <1>0, <1>7, <2>1 DEF LeaseElapses, Control
  <1>8. ASSUME NEW r \in Runs, NEW c \in Calls, NEW b \in Bounds, Reserve(r, c, b)
        PROVE  Control(q)'
    <2>1. CASE q = r
      <3>1. /\ worker[r].phase \in {"analysing", "orphaned"}
            /\ cost'[r][c].status = "reserved" /\ \A e \in Calls \ {c} : cost'[r][e] = cost[r][e]
            /\ \A e \in Calls \ {c} : flight'[r][e] = flight[r][e]
        BY <1>8 DEF Reserve, HostedInv, HostedTypeOK
      <3>2. UNCHANGED <<run, worker, spend, results, doc, files>>
        BY <1>8 DEF Reserve
      <3> QED
        BY <1>0, <2>1, <3>1, <3>2 DEF Control
    <2>2. CASE q # r
      BY <1>0, <1>8, <2>2, FrameControl DEF Reserve, SameRun, SamePlace, HostedTypeOK
    <2> QED
      BY <2>1, <2>2
  <1>9. ASSUME NEW r \in Runs, NEW c \in Calls, NEW amount \in 0 .. Envelope,
               Transport(r, c, amount)
        PROVE  Control(q)'
    <2>1. /\ UNCHANGED <<run, worker, spend, cost, results, doc, files>>
          /\ \A e \in Calls : flight'[q][e] # "none" => flight[q][e] # "none"
      BY <1>9 DEF Transport, HostedInv, HostedTypeOK
    <2> QED
      BY <1>0, <2>1 DEF Control
  <1>10. ASSUME NEW r \in Runs, NEW c \in Calls,
                Settle(r, c) \/ NotSent(r, c)
                  \/ \E end \in {"isolated", "failed", "accounting_pending"} :
                        DispatchFails(r, c, end)
         PROVE  Control(q)'
    <2>0. /\ UNCHANGED <<worker, results, doc, files, charged>>
          /\ flight[r][c] # "none" /\ flight' = [flight EXCEPT ![r][c] = "none"]
      BY <1>10 DEF Settle, NotSent, DispatchFails
    <2>1. /\ cost[r][c].status = "reserved" /\ worker[r].phase \in {"analysing", "orphaned"}
          /\ run[r].status \notin {"absent", "queued"} /\ spend[r].status # "none"
      BY <1>0, <2>0 DEF Control
    <2>2. PICK status \in {"settled", "accounting_pending"}, actual \in Nat :
              cost' = CostOf(r, c, status, actual)
      <3>1. charged[r][c] \in Nat /\ 0 \in Nat
        BY <1>0 DEF HostedTypeOK
      <3> QED
        BY <1>10, <3>1 DEF Settle, NotSent, DispatchFails
    <2>3. /\ cost' \in [Runs -> [Calls -> CostRecord]]
          /\ cost'[r][c].status # "none" /\ \A p \in Runs \ {r} : cost'[p] = cost[p]
          /\ \A e \in Calls \ {c} : cost'[r][e] = cost[r][e]
      BY <1>0, <2>1, <2>2, CostRow
    <2>4. /\ \A p \in Runs \ {r} : spend'[p] = spend[p] /\ run'[p] = run[p] /\ flight'[p] = flight[p]
          /\ \A e \in Calls \ {c} : flight'[r][e] = flight[r][e]
          /\ flight'[r][c] = "none"
      BY <1>0, <1>10, <2>0 DEF Settle, NotSent, DispatchFails, HostedTypeOK
    <2>5. CASE q # r
      BY <1>0, <2>0, <2>3, <2>4, <2>5, FrameControl DEF SameRun, SamePlace
    <2>6. /\ run'[r].status = run[r].status \/ run'[r].status \in {"failed", "accounting_pending"}
          /\ spend'[r].status = spend[r].status \/
               spend'[r].status \in {"settled", "accounting_pending"}
          /\ run'[r].status \notin {"absent"}
          /\ run'[r].status # run[r].status =>
                run[r].status = "running" /\ spend'[r].status = "accounting_pending"
          /\ spend'[r].status = "settled" => spend[r].status = "settled"
                \/ run[r].status \in Terminal \cup {"gone"}
          /\ spend'[r].status = "archived" <=> spend[r].status = "archived"
      <3>1. CASE Settle(r, c)
        <4>1. run' = run
          BY <3>1 DEF Settle
        <4>2. CASE run[r].status \in Terminal \cup {"gone"}
          <5>1. spend'[r] = SettledSpend(spend[r], cost'[r])
            BY <1>0, <3>1, <4>2 DEF Settle, HostedTypeOK
          <5>2. CASE spend[r].status = "archived"
            <6>1. spend'[r] = spend[r]
              BY <5>1, <5>2 DEF SettledSpend
            <6> QED
              BY <2>1, <4>1, <5>2, <6>1 DEF Open
          <5>3. CASE spend[r].status # "archived"
            <6>1. spend[r].status \notin {"none", "archived"} /\ cost'[r] \in [Calls -> CostRecord]
              BY <2>1, <2>3, <5>3
            <6>2. spend'[r].status \in {"settled", "accounting_pending"}
              BY <1>0, <5>1, <6>1, SettledStatus
            <6> QED
              BY <2>1, <4>1, <4>2, <5>3, <6>2 DEF Open
          <5> QED
            BY <5>2, <5>3
        <4>3. CASE run[r].status \notin Terminal \cup {"gone"}
          <5>1. spend' = spend
            BY <3>1, <4>3 DEF Settle
          <5> QED
            BY <2>1, <4>1, <5>1
        <4> QED
          BY <4>2, <4>3
      <3>2. CASE NotSent(r, c)
        BY <2>1, <3>2 DEF NotSent
      <3>3. ASSUME NEW end \in {"isolated", "failed", "accounting_pending"},
                   DispatchFails(r, c, end)
            PROVE  <2>6!:
        <4>1. spend'[r] = Suspended(spend[r])
          BY <1>0, <3>3 DEF DispatchFails, HostedTypeOK
        <4>2. spend'[r].status = IF spend[r].status = "archived" THEN "archived"
                                 ELSE "accounting_pending"
          BY <1>0, <2>1, <4>1, SuspendedRow
        <4>3. \/ run' = run
              \/ /\ run[r].status = "running" /\ run'[r] = Fence(r, end)
                 /\ end \in {"failed", "accounting_pending"}
          BY <1>0, <3>3 DEF DispatchFails, HostedTypeOK
        <4>4. run' = run \/ (run[r].status = "running" /\ run'[r].status = end
                             /\ end \in {"failed", "accounting_pending"})
          BY <1>0, <1>s, <4>3, FenceRow
        <4>5. run[r].status = "running" => spend[r].status \in Open
          BY <1>0 DEF Control, Active
        <4> QED
          BY <2>1, <4>2, <4>4, <4>5 DEF Open
      <3> QED
        BY <1>10, <3>1, <3>2, <3>3
    <2>7. CASE q = r
      BY <1>0, <2>0, <2>1, <2>3, <2>4, <2>6, <2>7
         DEF Control, Open, Active, Uncertain, Terminal, Uploaded
    <2> QED
      BY <2>5, <2>7
  <1>11. ASSUME NEW d \in Documents, PurgeFiles(d) PROVE Control(q)'
    <2>1. /\ UNCHANGED <<run, worker, spend, cost, flight, charged, results, doc>>
          /\ files' = files \ {d} /\ doc[d] = "tombstoned" /\ Unlocked(d)
      BY <1>11 DEF PurgeFiles
    <2>2. CASE DocOf[q] = d
      <3>1. worker[q].phase \notin Excluding \cup {"preparing"}
        BY <2>1, <2>2 DEF Unlocked, LockedBy
      <3> QED
        BY <1>0, <2>1, <2>2, <3>1 DEF Control, Excluding, Uploaded
    <2>3. CASE DocOf[q] # d
      BY <1>0, <2>1, <2>3, FrameControl DEF SameRun, SamePlace
    <2> QED
      BY <2>2, <2>3
  <1>12. ASSUME NEW d \in Documents, PurgeRows(d) PROVE Control(q)'
    <2>1. /\ UNCHANGED <<worker, cost, flight, charged, files>>
          /\ doc[d] = "tombstoned" /\ d \notin files /\ results' = results \ RowsOf(d)
          /\ doc'[d] = "purged" /\ \A e \in Documents \ {d} : doc'[e] = doc[e]
      BY <1>0, <1>12 DEF PurgeRows, HostedTypeOK
    <2>2. CASE DocOf[q] # d
      <3>1. q \notin RowsOf(d)
        BY <2>2 DEF RowsOf
      <3> QED
        BY <1>0, <1>12, <2>1, <2>2, <3>1, FrameControl DEF PurgeRows, SameRun, SamePlace
    <2>3. CASE DocOf[q] = d /\ q \notin RowsOf(d)
      <3>1. run'[q] = run[q] /\ spend'[q] = spend[q]
        BY <1>12, <2>3 DEF PurgeRows
      <3>2. run[q].status \in {"absent", "gone"}
        BY <1>0, <2>3 DEF RowsOf, RunRecord
      <3> QED
        BY <1>0, <2>1, <2>3, <3>1, <3>2 DEF Control, Active, Terminal, Uncertain, Uploaded
    <2>4. CASE DocOf[q] = d /\ q \in RowsOf(d)
      <3>1. run'[q].status = "gone"
        BY <1>0, <1>s, <1>12, <2>4, FenceRow DEF PurgeRows
      <3>2. spend'[q] = SettledSpend(spend[q], cost[q])
        BY <1>12, <2>4 DEF PurgeRows
      <3>3. spend[q].status # "none"
        BY <1>0, <2>4 DEF Control, RowsOf, Row, Active, Uncertain, Terminal
      <3>4. spend'[q].status \in {"settled", "accounting_pending", "archived"}
        <4>1. CASE spend[q].status = "archived"
          BY <3>2, <4>1 DEF SettledSpend
        <4>2. CASE spend[q].status # "archived"
          BY <1>0, <3>2, <3>3, <4>2, SettledStatus
        <4> QED
          BY <4>1, <4>2
      <3>5. worker[q].phase \notin {"preparing", "analysing", "returned", "orphaned"}
        BY <1>0, <2>1, <2>4 DEF Control
      <3> QED
        BY <1>0, <2>1, <2>4, <3>1, <3>4, <3>5 DEF Control, Active, Terminal, Uncertain, Uploaded
    <2> QED
      BY <2>2, <2>3, <2>4
  <1>13. ASSUME NEW d \in Documents, DocumentExpires(d) PROVE Control(q)'
    <2>1. UNCHANGED <<run, worker, spend, cost, flight, results, files>>
      BY <1>13 DEF DocumentExpires
    <2>2. doc'[DocOf[q]] = doc[DocOf[q]]
            \/ (doc[DocOf[q]] = "live" /\ doc'[DocOf[q]] = "expired")
      <3>1. doc[d] = "live" /\ doc'[d] = "expired" /\ \A e \in Documents \ {d} : doc'[e] = doc[e]
        BY <1>0, <1>13 DEF DocumentExpires, HostedTypeOK
      <3> QED
        BY <1>0, <3>1
    <2> QED
      BY <1>0, <2>1, <2>2 DEF Control, Uploaded
  <1>14. ASSUME NEW n \in 0 .. Cardinality(Runs), Maintain(n) PROVE Control(q)'
    <2> DEFINE old == OldSettled(ExpiredSpend, n)
    <2>1. /\ run' = ExpiredRuns /\ UNCHANGED <<worker, flight, charged, results, files>>
          /\ doc' = [d \in Documents |-> IF doc[d] = "expired" THEN "tombstoned" ELSE doc[d]]
      BY <1>14 DEF Maintain
    <2>2. SamePlace(q) \/ doc'[DocOf[q]] = "tombstoned"
      BY <1>0, <2>1 DEF SamePlace
    <2>p. doc'[DocOf[q]] = "purged" <=> doc[DocOf[q]] = "purged"
      BY <1>0, <2>1
    <2>3. CASE q \in old
      <3>1. spend'[q].status = "archived" /\ \A c \in Calls : cost'[q][c].status = "none"
        BY <1>0, <1>14, <2>3, ExpiredTypes DEF Maintain, NoCost, SpendRecord
      <3>2. ExpiredSpend[q].status = "settled"
        BY <2>3 DEF OldSettled
      <3>3. ExpiredRuns[q].status \in Terminal \cup {"gone"}
        <4>1. CASE ToExpire(q)
          BY <3>2, <4>1, ExpiredRow DEF Terminal
        <4>2. CASE ~ToExpire(q)
          BY <1>0, <3>2, <4>2, ExpiredRow
             DEF Control, RunRecord, Row, Active, Uncertain, Terminal, Open
        <4> QED
          BY <4>1, <4>2
      <3>4. run[q].status # ExpiredRuns[q].status =>
              run[q].status \in Active \cup Uncertain /\ ExpiredRuns[q].status = "failed"
        BY <3>2, ExpiredRow DEF Active, Uncertain
      <3>5. \A c \in Calls : flight[q][c] = "none"
        <4>1. CASE ToExpire(q)
          BY <1>0, <3>2, <4>1, ExpiredRow DEF Control
        <4>2. CASE ~ToExpire(q)
          <5>1. spend[q].status = "settled"
            BY <3>2, <4>2, ExpiredRow
          <5> QED
            BY <1>0, <5>1 DEF HostedInv, Control, Money, SpendOK, Open
        <4> QED
          BY <4>1, <4>2
      <3> QED
        BY <1>0, <2>1, <2>2, <2>p, <3>1, <3>3, <3>4, <3>5
           DEF Control, SamePlace, Open, Active, Uncertain, Terminal, Uploaded
    <2>4. CASE q \notin old
      <3>1. spend'[q] = ExpiredSpend[q] /\ cost'[q] = cost[q]
        BY <1>14, <2>4 DEF Maintain
      <3>2. CASE doc[DocOf[q]] = "purged"
        <4>1. run'[q] = run[q] /\ spend'[q] = spend[q]
          BY <2>1, <3>1, <3>2, ExpiredPurged, ExpiredRow
        <4>2. SamePlace(q)
          BY <1>0, <2>1, <3>2 DEF SamePlace
        <4> QED
          BY <1>0, <2>1, <3>1, <4>1, <4>2, FrameControl DEF SameRun
      <3>3. CASE doc[DocOf[q]] # "purged"
        BY <2>1, <2>2, <3>1, <3>3, ExpiredControl
      <3> QED
        BY <3>2, <3>3
    <2> QED
      BY <2>3, <2>4
  <1>15. ASSUME NEW r \in Runs, Cancel(r) PROVE Control(q)'
    <2>1. CASE q = r
      <3>1. /\ run[r].status \in Row /\ doc[DocOf[r]] \in Uploaded
            /\ UNCHANGED <<worker, cost, flight, results, doc, files>>
            /\ run'[r] = Fence(r, "cancelled") /\ spend'[r] = SettledSpend(spend[r], cost[r])
        BY <1>0, <1>15 DEF Cancel, HostedTypeOK
      <3>2. run'[r].status = "cancelled"
        BY <1>0, <1>s, <3>1, FenceRow
      <3>3. spend[r].status # "none"
        BY <1>0, <3>1 DEF Control, Row, Active, Uncertain, Terminal
      <3>4. spend'[r].status \in {"settled", "accounting_pending", "archived"}
        <4>1. CASE spend[r].status = "archived"
          BY <3>1, <4>1 DEF SettledSpend
        <4>2. CASE spend[r].status # "archived"
          BY <1>0, <3>1, <3>3, <4>2, SettledStatus
        <4> QED
          BY <4>1, <4>2
      <3> QED
        BY <1>0, <2>1, <3>1, <3>2, <3>4 DEF Control, Active, Uncertain, Terminal, Uploaded
    <2>2. CASE q # r
      BY <1>0, <1>15, <2>2, FrameControl DEF Cancel, SameRun, SamePlace, HostedTypeOK
    <2> QED
      BY <2>1, <2>2
  <1>16. ASSUME NEW r \in Runs, Reconcile(r) PROVE Control(q)'
    <2>1. CASE q = r
      <3>1. /\ run[r].status \in Row \ Active /\ doc[DocOf[r]] \in Uploaded /\ DocOf[r] \in files
            /\ Unlocked(DocOf[r])
            /\ UNCHANGED <<worker, flight, results, doc, files>>
            /\ cost'[r] = Attested(r) /\ spend'[r] = SettledSpend(spend[r], cost'[r])
        BY <1>0, <1>16 DEF Reconcile, HostedTypeOK
      <3>2. run'[r].status = IF run[r].status \in Uncertain THEN "failed" ELSE run[r].status
        BY <1>0, <1>s, <1>16, FenceRow DEF Reconcile, HostedTypeOK
      <3>3. spend[r].status # "none" /\ cost'[r] \in [Calls -> CostRecord]
        BY <1>0, <3>1 DEF Control, Row, Active, Uncertain, Terminal, HostedTypeOK
      <3>4. spend'[r].status \in {"settled", "accounting_pending", "archived"}
        <4>1. CASE spend[r].status = "archived"
          BY <3>1, <4>1 DEF SettledSpend
        <4>2. CASE spend[r].status # "archived"
          BY <1>0, <3>1, <3>3, <4>2, SettledStatus
        <4> QED
          BY <4>1, <4>2
      <3>5. worker[r].phase \notin Excluding
        BY <3>1 DEF Unlocked, LockedBy
      <3>6. \A c \in Calls : flight[r][c] = "none"
        BY <1>0, <3>5 DEF Control, Excluding
      <3>7. \A c \in Calls : cost[r][c].status = "none" => cost'[r][c].status = "none"
        BY <3>1 DEF Attested
      <3> QED
        BY <1>0, <2>1, <3>1, <3>2, <3>4, <3>6, <3>7 DEF Control, Row, Active, Uncertain, Terminal, Uploaded
    <2>2. CASE q # r
      BY <1>0, <1>16, <2>2, FrameControl DEF Reconcile, SameRun, SamePlace, HostedTypeOK
    <2> QED
      BY <2>1, <2>2
  <1>17. ASSUME NEW d \in Documents, DeleteDocument(d) PROVE Control(q)'
    <2>1. /\ UNCHANGED <<worker, spend, cost, flight, charged, results, files>>
          /\ doc[d] \in Uploaded /\ doc'[d] = "tombstoned"
          /\ \A e \in Documents \ {d} : doc'[e] = doc[e]
      BY <1>0, <1>17 DEF DeleteDocument, HostedTypeOK
    <2>2. CASE q \notin RowsOf(d)
      <3>1. run'[q] = run[q]
        BY <1>17, <2>2 DEF DeleteDocument
      <3>2. DocOf[q] = d => run[q].status \in {"absent", "gone"}
        BY <1>0, <2>2 DEF RowsOf, RunRecord
      <3> QED
        BY <1>0, <2>1, <3>1, <3>2 DEF Control, Active, Uploaded
    <2>3. CASE q \in RowsOf(d)
      <3>1. run'[q].status = "cancelled" /\ DocOf[q] = d /\ run[q].status \in Row
        BY <1>0, <1>s, <1>17, <2>3, FenceRow DEF DeleteDocument, RowsOf
      <3> QED
        BY <1>0, <2>1, <3>1 DEF Control, Row, Active, Uncertain, Terminal, Uploaded
    <2> QED
      BY <2>2, <2>3
  <1>18. CASE LoseControl
    <2>1. /\ UNCHANGED <<cost, charged>> /\ results' = {} /\ files' = {}
          /\ \A c \in Calls : flight'[q][c] = "none"
          /\ worker'[q].phase = IF worker[q].phase = "none" THEN "none" ELSE "done"
          /\ doc'[DocOf[q]] = IF doc[DocOf[q]] = "expired" THEN "purged" ELSE doc[DocOf[q]]
      BY <1>0, <1>18 DEF LoseControl, HostedTypeOK
    <2>2. run'[q].status = IF run[q].status = "absent" THEN "absent" ELSE "gone"
      BY <1>0, <1>s, <1>18, FenceRow DEF LoseControl, RunRecord, Row, Active, Uncertain, Terminal
    <2>3. spend'[q].status = IF spend[q].status = "reserved" THEN "accounting_pending"
                             ELSE spend[q].status
      BY <1>0, <1>18, SuspendedRow DEF LoseControl, Startup
    <2> QED
      BY <1>0, <2>1, <2>2, <2>3 DEF Control, Active, Uncertain, Terminal, Uploaded
  <1>19. CASE Drain \/ NewDay
    BY <1>0, <1>19, FrameControl DEF Drain, NewDay, SameRun, SamePlace
  <1> QED
    BY <1>1, <1>2, <1>3, <1>4, <1>5, <1>6, <1>7, <1>8, <1>9, <1>10, <1>11, <1>12, <1>13,
       <1>14, <1>15, <1>16, <1>17, <1>18, <1>19 DEF Next, SlotStep, DispatchStep, Outside
-----------------------------------------------------------------------------
(* Money *)

\* What the cost rows of a run hold are amounts, and so is their sum.
LEMMA HeldNat ==
    ASSUME NEW k \in [Calls -> CostRecord]
    PROVE  /\ \A c \in Calls : Held(k[c]) \in Nat
           /\ HeldSum(k) \in Nat
  <1> DEFINE f == [c \in Calls |-> Held(k[c])]
  <1>1. \A c \in Calls : Held(k[c]) \in Nat
    BY DEF Held, CostRecord
  <1>2. \A c \in Calls : f[c] \in Nat
    BY <1>1
  <1> HIDE DEF f
  <1>3. Total(f, Calls) \in Nat
    BY <1>2, Constants, TotalNat
  <1> QED
    BY <1>1, <1>3 DEF HeldSum, f

\* Lowering what single calls hold lowers the sum.
LEMMA HeldLower ==
    ASSUME NEW k \in [Calls -> CostRecord], NEW m \in [Calls -> CostRecord],
           \A c \in Calls : Held(m[c]) <= Held(k[c])
    PROVE  HeldSum(m) <= HeldSum(k)
  <1> DEFINE f == [c \in Calls |-> Held(k[c])]
             g == [c \in Calls |-> Held(m[c])]
  <1>1. \A c \in Calls : f[c] \in Int /\ g[c] \in Int /\ g[c] <= f[c]
    BY HeldNat
  <1> HIDE DEF f, g
  <1>2. Total(g, Calls) <= Total(f, Calls)
    BY <1>1, Constants, TotalMonotone
  <1> QED
    BY <1>2 DEF HeldSum, f, g

\* What the provider charged for the calls of a run adds up to an amount.
LEMMA ChargesNat ==
    ASSUME NEW ch \in [Calls -> Nat] PROVE Total(ch, Calls) \in Nat
  BY Constants, TotalNat

\* What was charged is never more than what the rows hold.
LEMMA ChargesHeld ==
    ASSUME NEW k \in [Calls -> CostRecord], NEW ch \in [Calls -> Nat], NEW fl,
           \A c \in Calls : CallOK(k[c], ch[c], fl[c]),
           \A c \in Calls : k[c].status = "none" => ch[c] = 0
    PROVE  Total(ch, Calls) <= HeldSum(k)
  <1> DEFINE f == [c \in Calls |-> Held(k[c])]
  <1>1. ASSUME NEW c \in Calls PROVE ch[c] \in Int /\ f[c] \in Int /\ ch[c] <= f[c]
    <2>1. k[c] \in CostRecord /\ CallOK(k[c], ch[c], fl[c]) /\ Held(k[c]) \in Nat
          /\ ch[c] \in Nat
      BY HeldNat
    <2>2. ch[c] <= Held(k[c])
      BY <2>1 DEF CallOK, Held, CostRecord, NoCost, Open
    <2> QED
      BY <2>1, <2>2
  <1> HIDE DEF f
  <1>2. Total(ch, Calls) <= Total(f, Calls)
    BY <1>1, Constants, TotalMonotone
  <1> QED
    BY <1>2 DEF HeldSum, f

\* _settle_envelope keeps the books right, whatever the envelope's state.
LEMMA SettlesOK ==
    ASSUME NEW sp \in SpendRecord, NEW k \in [Calls -> CostRecord],
           NEW ch \in [Calls -> Nat], NEW fl,
           \A c \in Calls : CallOK(k[c], ch[c], fl[c]), SpendOK(sp, k, ch)
    PROVE  SpendOK(SettledSpend(sp, k), k, ch)
  <1> DEFINE new == SettledSpend(sp, k)
  <1>1. CASE sp.status \in {"none", "archived"}
    BY <1>1, SettledRow
  <1>2. CASE sp.status \notin {"none", "archived"}
    <2>0. sp.status \in Open \cup {"settled"}
      BY <1>2 DEF SpendRecord, Open
    <2>n. \A c \in Calls : k[c].status = "none" => ch[c] = 0
      BY <1>2 DEF SpendOK
    <2>1. CASE \E c \in Calls : k[c].status \in Open
      <3>1. sp.status \in Open
        BY <2>0, <2>1 DEF SpendOK
      <3>2. new.status = "accounting_pending" /\ new.amount = sp.amount
        BY <1>2, <2>1, SettledRow
      <3> HIDE DEF new
      <3>3. SpendOK(new, k, ch)
        BY <2>n, <3>1, <3>2 DEF SpendOK, Open
      <3> QED
        BY <3>3 DEF new
    <2>2. CASE \A c \in Calls : k[c].status \notin Open
      <3> DEFINE a == [c \in Calls |-> k[c].actual]
      <3>1. new.status = "settled" /\ new.amount = Total(a, Calls)
        BY <1>2, <2>2, SettledRow
      <3>2. \A c \in Calls : a[c] = ch[c]
        <4>1. ASSUME NEW c \in Calls PROVE k[c].actual = ch[c]
          <5>1. k[c] \in CostRecord /\ CallOK(k[c], ch[c], fl[c]) /\ k[c].status \notin Open
            BY <2>2
          <5> QED
            BY <2>n, <5>1 DEF CallOK, CostRecord, NoCost, Open
        <4> QED
          BY <4>1
      <3> HIDE DEF a, new
      <3>3. Total(a, Calls) = Total(ch, Calls)
        BY <3>2, Constants, TotalEqual
      <3>4. Total(ch, Calls) <= Envelope
        <4>1. CASE sp.status \in Open
          <5>1. HeldSum(k) <= Envelope /\ HeldSum(k) \in Nat
            BY <4>1, HeldNat DEF SpendOK
          <5>2. Total(ch, Calls) <= HeldSum(k) /\ Total(ch, Calls) \in Nat
            BY <2>n, ChargesHeld, ChargesNat
          <5> QED
            BY <5>1, <5>2, Constants
        <4>2. CASE sp.status = "settled"
          BY <4>2 DEF SpendOK
        <4> QED
          BY <2>0, <4>1, <4>2
      <3>5. SpendOK(new, k, ch)
        BY <2>2, <2>n, <3>1, <3>3, <3>4 DEF SpendOK, Open
      <3> QED
        BY <3>5 DEF new
    <2> QED
      BY <2>1, <2>2
  <1> QED
    BY <1>1, <1>2

\* So does suspending an envelope that is not settled.
LEMMA SuspendsOK ==
    ASSUME NEW sp \in SpendRecord, NEW k, NEW ch, SpendOK(sp, k, ch), sp.status # "settled"
    PROVE  SpendOK(Suspended(sp), k, ch)
  BY DEF SpendOK, Suspended, SpendRecord, Open

\* A run whose books are left alone keeps Money, also when a call of it is given up.
LEMMA FrameMoney ==
    ASSUME NEW q \in Runs, Money(q), spend'[q] = spend[q], cost'[q] = cost[q],
           charged'[q] = charged[q],
           \A c \in Calls : flight'[q][c] = flight[q][c] \/ flight'[q][c] = "none"
    PROVE  Money(q)'
  BY DEF Money, CallOK

\* Settling the envelope of q is the only change in its books.
LEMMA SettleMoney ==
    ASSUME HostedInv, NEW q \in Runs, spend'[q] = SettledSpend(spend[q], cost[q]),
           cost'[q] = cost[q], charged'[q] = charged[q], flight'[q] = flight[q]
    PROVE  Money(q)'
  <1>1. /\ spend[q] \in SpendRecord /\ cost[q] \in [Calls -> CostRecord]
        /\ charged[q] \in [Calls -> Nat] /\ Money(q)
    BY DEF HostedInv, HostedTypeOK
  <1>2. SpendOK(SettledSpend(spend[q], cost[q]), cost[q], charged[q])
    BY <1>1, SettlesOK DEF Money
  <1> QED
    BY <1>1, <1>2 DEF Money

\* An expiry of leases leaves every envelope in order.
LEMMA ExpiredMoney ==
    ASSUME HostedInv, NEW q \in Runs
    PROVE  SpendOK(ExpiredSpend[q], cost[q], charged[q])
  <1>1. /\ spend[q] \in SpendRecord /\ cost[q] \in [Calls -> CostRecord]
        /\ charged[q] \in [Calls -> Nat] /\ Money(q)
    BY DEF HostedInv, HostedTypeOK
  <1>2. CASE ~ToExpire(q)
    BY <1>1, <1>2, ExpiredRow DEF Money
  <1>3. CASE ToExpire(q) /\ NoDispatch(q)
    <2>1. ExpiredSpend[q] = SettledSpend(spend[q], cost[q])
      BY <1>3 DEF ExpiredSpend
    <2> QED
      BY <1>1, <2>1, SettlesOK DEF Money
  <1>4. CASE ToExpire(q) /\ ~NoDispatch(q)
    <2>1. ExpiredSpend[q] = Suspended(spend[q])
      BY <1>4 DEF ExpiredSpend
    <2>2. spend[q].status # "settled"
      BY <1>4, ExpiredRow DEF Open
    <2> QED
      BY <1>1, <2>1, <2>2, SuspendsOK DEF Money
  <1> QED
    BY <1>2, <1>3, <1>4
\* One call of r changes: its row, its charge and its flight.
LEMMA CallMoney ==
    ASSUME HostedInv, HostedTypeOK', NEW r \in Runs, NEW c \in Calls,
           cost[r][c].status = "reserved", spend[r].status \in Open,
           \A e \in Calls \ {c} : cost'[r][e] = cost[r][e] /\ charged'[r][e] = charged[r][e]
                                  /\ flight'[r][e] = flight[r][e],
           cost'[r][c].status # "none",
           CallOK(cost'[r][c], charged'[r][c], flight'[r][c]),
           Held(cost'[r][c]) <= Held(cost[r][c]),
           spend'[r].status \in Open, spend'[r].amount = spend[r].amount
    PROVE  Money(r)'
  <1>1. /\ cost[r] \in [Calls -> CostRecord] /\ cost'[r] \in [Calls -> CostRecord] /\ Money(r)
    BY DEF HostedInv, HostedTypeOK
  <1>2. \A e \in Calls : Held(cost'[r][e]) <= Held(cost[r][e])
    BY <1>1, HeldNat
  <1>3. HeldSum(cost'[r]) <= HeldSum(cost[r])
    BY <1>1, <1>2, HeldLower
  <1>4. HeldSum(cost'[r]) \in Nat /\ HeldSum(cost[r]) \in Nat
    BY <1>1, HeldNat
  <1>5. HeldSum(cost'[r]) <= Envelope
    BY <1>1, <1>3, <1>4, Constants DEF Money, SpendOK
  <1>6. \A e \in Calls : CallOK(cost'[r][e], charged'[r][e], flight'[r][e])
    BY <1>1 DEF Money
  <1>7. spend[r].amount = Envelope /\ \A e \in Calls : cost[r][e].status = "none" => charged[r][e] = 0
    BY <1>1 DEF Money, SpendOK, Open
  <1>8. \A e \in Calls : cost'[r][e].status = "none" => charged'[r][e] = 0
    BY <1>7
  <1>9. SpendOK(spend'[r], cost'[r], charged'[r])
    BY <1>5, <1>7, <1>8 DEF SpendOK, Open
  <1> QED
    BY <1>6, <1>9 DEF Money, HeldSum, Held, SpendOK, CallOK

\* Every step keeps Money of every run.
LEMMA MoneyStep ==
    ASSUME HostedInv, HostedTypeOK', Next, NEW q \in Runs PROVE Money(q)'
  <1>0. /\ HostedTypeOK
        /\ \A r \in Runs : /\ run[r] \in RunRecord /\ spend[r] \in SpendRecord
                           /\ cost[r] \in [Calls -> CostRecord]
                           /\ charged[r] \in [Calls -> Nat]
                           /\ Control(r) /\ Money(r)
    BY DEF HostedInv, HostedTypeOK
  <1>1. ASSUME NEW r \in Runs, CreateRun(r) PROVE Money(q)'
    <2>1. CASE q = r
      <3>1. /\ spend'[r].status = "reserved" /\ spend'[r].amount = Envelope
            /\ run[r].status = "absent" /\ UNCHANGED <<cost, charged, flight>>
        BY <1>0, <1>1 DEF CreateRun, HostedTypeOK
      <3>2. spend[r].status = "none"
        BY <1>0, <3>1 DEF Control
      <3>3. \A c \in Calls : cost[r][c].status = "none" /\ cost[r][c] = NoCost /\ charged[r][c] = 0
        BY <1>0, <3>2 DEF Money, SpendOK, CallOK
      <3>4. HeldSum(cost[r]) = 0
        <4> DEFINE f == [c \in Calls |-> Held(cost[r][c])]
        <4>1. \A c \in Calls : f[c] = 0
          BY <3>3 DEF Held, NoCost
        <4> HIDE DEF f
        <4>2. Total(f, Calls) = 0
          BY <4>1, Constants, TotalZero
        <4> QED
          BY <4>2 DEF f, HeldSum
      <3>5. SpendOK(spend'[r], cost[r], charged[r])
        BY <3>1, <3>3, <3>4, Constants DEF SpendOK, Open
      <3> QED
        BY <1>0, <2>1, <3>1, <3>5 DEF Money
    <2>2. CASE q # r
      BY <1>0, <1>1, <2>2, FrameMoney DEF CreateRun, HostedTypeOK
    <2> QED
      BY <2>1, <2>2
  <1>2. CASE ControlState \/ \E r \in Runs : Claim(r)
    <2>1. spend' = ExpiredSpend /\ UNCHANGED <<cost, flight, charged>>
      BY <1>2 DEF ControlState, Claim
    <2> QED
      BY <1>0, <2>1, ExpiredMoney DEF Money
  <1>3. ASSUME NEW r \in Runs,
               PrepareStart(r) \/ PrepareEnd(r) \/ AnalysisOpen(r) \/ AnalysisLock(r)
                 \/ AnalysisStart(r) \/ AnalysisEnd(r) \/ Crash(r) \/ LeaseElapses(r)
        PROVE  Money(q)'
    BY <1>0, <1>3, FrameMoney DEF PrepareStart, PrepareEnd, AnalysisOpen, AnalysisLock,
       AnalysisStart, AnalysisEnd, Crash, LeaseElapses
  <1>4. ASSUME NEW r \in Runs,
               (\E status \in {"completed", "partial_blocked"} : PublishAnalysis(r, status))
                 \/ Handle(r) \/ Cancel(r)
        PROVE  Money(q)'
    <2>1. /\ UNCHANGED <<cost, flight, charged>>
          /\ spend' = spend \/ spend' = [spend EXCEPT ![r] = SettledSpend(spend[r], cost[r])]
      BY <1>4 DEF PublishAnalysis, Handle, Cancel
    <2>2. spend'[q] = spend[q] \/ spend'[q] = SettledSpend(spend[q], cost[q])
      BY <1>0, <2>1 DEF HostedTypeOK
    <2> QED
      BY <1>0, <2>1, <2>2, SettleMoney, FrameMoney
  <1>5. ASSUME NEW r \in Runs, Abort(r) \/ OrphanEnds(r) PROVE Money(q)'
    <2>1. /\ UNCHANGED <<spend, cost, charged>>
          /\ \A c \in Calls : flight'[q][c] = flight[q][c] \/ flight'[q][c] = "none"
      <3>1. /\ UNCHANGED <<spend, cost, charged>>
            /\ flight' = [flight EXCEPT ![r] = [c \in Calls |-> "none"]]
        BY <1>5 DEF Abort, OrphanEnds
      <3>2. flight'[q] = flight[q] \/ flight'[q] = [c \in Calls |-> "none"]
        BY <1>0, <3>1 DEF HostedTypeOK
      <3> QED
        BY <3>1, <3>2
    <2> QED
      BY <1>0, <2>1, FrameMoney
  <1>6. ASSUME NEW r \in Runs, NEW c \in Calls, NEW b \in Bounds, Reserve(r, c, b)
        PROVE  Money(q)'
    <2>1. CASE q = r
      <3>1. /\ cost'[r] = [cost[r] EXCEPT ![c] = [status |-> "reserved", bound |-> b, actual |-> 0]]
            /\ \A e \in Calls \ {c} : flight'[r][e] = flight[r][e]
            /\ UNCHANGED <<spend, charged>>
            /\ cost[r][c].status = "none" /\ run[r].status = "running"
            /\ HeldSum(cost[r]) + b <= Envelope
        BY <1>0, <1>6 DEF Reserve, Fenced, HostedTypeOK, HeldSum
      <3>2. spend[r].status \in Open
        BY <1>0, <3>1 DEF Control, Active
      <3>3. charged[r][c] = 0 /\ spend[r].amount = Envelope /\ cost[r][c] = NoCost
            /\ \A e \in Calls : cost[r][e].status = "none" => charged[r][e] = 0
        BY <1>0, <3>1, <3>2 DEF Money, SpendOK, CallOK, Open
      <3>4. /\ cost'[r][c] = [status |-> "reserved", bound |-> b, actual |-> 0]
            /\ \A e \in Calls \ {c} : cost'[r][e] = cost[r][e]
            /\ cost'[r] \in [Calls -> CostRecord] /\ b \in Nat
        BY <1>0, <3>1, Constants DEF HostedTypeOK
      <3>5. HeldSum(cost'[r]) = HeldSum(cost[r]) + b
        <4> DEFINE f == [e \in Calls |-> Held(cost[r][e])]
                   g == [e \in Calls |-> Held(cost'[r][e])]
        <4>1. \A e \in Calls : f[e] \in Int /\ g[e] \in Int
          BY <1>0, <3>4, HeldNat
        <4>2. \A e \in Calls : e # c => f[e] = g[e]
          BY <3>4
        <4>3. f[c] = 0 /\ g[c] = b
          BY <3>3, <3>4 DEF Held, NoCost
        <4>4. HeldSum(cost[r]) = Total(f, Calls) /\ HeldSum(cost'[r]) = Total(g, Calls)
          BY DEF HeldSum
        <4> HIDE DEF f, g
        <4>5. Total(g, Calls) = Total(f, Calls) - f[c] + g[c]
          BY <4>1, <4>2, Constants, TotalUpdate
        <4>6. Total(f, Calls) \in Int
          BY <4>1, Constants, TotalElement
        <4> QED
          BY <3>4, <4>3, <4>4, <4>5, <4>6
      <3>6. SpendOK(spend'[r], cost'[r], charged'[r])
        BY <3>1, <3>2, <3>3, <3>4, <3>5 DEF SpendOK, Open
      <3>7. CallOK(cost'[r][c], charged'[r][c], flight'[r][c])
        BY <3>1, <3>3, <3>4 DEF CallOK
      <3>8. \A e \in Calls \ {c} : CallOK(cost'[r][e], charged'[r][e], flight'[r][e])
        BY <1>0, <3>1, <3>4 DEF Money
      <3> QED
        BY <2>1, <3>6, <3>7, <3>8 DEF Money, CallOK, SpendOK, HeldSum, Held
    <2>2. CASE q # r
      BY <1>0, <1>6, <2>2, FrameMoney DEF Reserve, HostedTypeOK
    <2> QED
      BY <2>1, <2>2
  <1>7. ASSUME NEW r \in Runs, NEW c \in Calls, flight[r][c] # "none"
        PROVE  cost[r][c].status = "reserved" /\ spend[r].status \in Open
    <2>1. cost[r][c].status = "reserved"
      BY <1>0, <1>7 DEF Control
    <2>2. spend[r].status \in Open \cup {"none", "archived", "settled"}
      BY <1>0 DEF SpendRecord, Open
    <2>3. SpendOK(spend[r], cost[r], charged[r])
      BY <1>0 DEF Money
    <2> QED
      BY <2>1, <2>2, <2>3 DEF SpendOK, Open
  <1>8. ASSUME NEW r \in Runs, NEW c \in Calls, NEW amount \in 0 .. Envelope,
               Transport(r, c, amount)
        PROVE  Money(q)'
    <2>1. CASE q = r
      <3>1. /\ flight[r][c] = "reserved" /\ amount <= cost[r][c].bound
            /\ flight'[r][c] = "sent" /\ charged'[r][c] = amount
            /\ \A e \in Calls \ {c} : flight'[r][e] = flight[r][e] /\ charged'[r][e] = charged[r][e]
            /\ UNCHANGED <<spend, cost>>
        BY <1>0, <1>8 DEF Transport, HostedTypeOK
      <3>2. cost[r][c].status = "reserved" /\ spend[r].status \in Open
        BY <1>7, <3>1
      <3>3. CallOK(cost'[r][c], charged'[r][c], flight'[r][c])
        BY <3>1, <3>2 DEF CallOK
      <3>4. Held(cost'[r][c]) <= Held(cost[r][c])
        BY <1>0, <3>1, HeldNat
      <3> QED
        BY <2>1, <3>1, <3>2, <3>3, <3>4, CallMoney
    <2>2. CASE q # r
      BY <1>0, <1>8, <2>2, FrameMoney DEF Transport, HostedTypeOK
    <2> QED
      BY <2>1, <2>2
  <1>9. ASSUME NEW r \in Runs, NEW c \in Calls,
               Settle(r, c) \/ NotSent(r, c)
                 \/ \E end \in {"isolated", "failed", "accounting_pending"} :
                       DispatchFails(r, c, end)
        PROVE  Money(q)'
    <2>0. /\ UNCHANGED charged
          /\ flight[r][c] # "none" /\ flight' = [flight EXCEPT ![r][c] = "none"]
      BY <1>9 DEF Settle, NotSent, DispatchFails
    <2>1. cost[r][c].status = "reserved" /\ spend[r].status \in Open
      BY <1>7, <2>0
    <2>2. /\ charged[r][c] \in Nat /\ cost[r][c] \in CostRecord
          /\ CallOK(cost[r][c], charged[r][c], flight[r][c])
      BY <1>0 DEF Money
    <2>3. PICK status \in {"settled", "accounting_pending"}, actual \in Nat :
              /\ cost' = CostOf(r, c, status, actual)
              /\ status = "settled" => actual = charged[r][c]
      <3>1. 0 \in Nat
        OBVIOUS
      <3>2. NotSent(r, c) => charged[r][c] = 0
        BY <2>2 DEF NotSent, CallOK
      <3> QED
        BY <1>9, <2>2, <3>1, <3>2 DEF Settle, NotSent, DispatchFails
    <2>4. /\ cost' \in [Runs -> [Calls -> CostRecord]]
          /\ cost'[r][c].status = status /\ cost'[r][c].bound = cost[r][c].bound
          /\ cost'[r][c].actual = actual
          /\ \A p \in Runs \ {r} : cost'[p] = cost[p]
          /\ \A e \in Calls \ {c} : cost'[r][e] = cost[r][e]
      BY <1>0, <2>1, <2>3, CostRow
    <2>5. /\ \A p \in Runs \ {r} : spend'[p] = spend[p] /\ flight'[p] = flight[p]
          /\ \A e \in Calls \ {c} : flight'[r][e] = flight[r][e]
          /\ flight'[r][c] = "none"
      BY <1>0, <1>9, <2>0 DEF Settle, NotSent, DispatchFails, HostedTypeOK
    <2>6. CASE q # r
      BY <1>0, <2>0, <2>4, <2>5, <2>6, FrameMoney
    <2>7. charged[r][c] <= cost[r][c].bound
      BY <2>1, <2>2 DEF CallOK, Open
    <2>8. CallOK(cost'[r][c], charged'[r][c], flight'[r][c])
      BY <2>0, <2>3, <2>4, <2>5, <2>7 DEF CallOK, Open
    <2>9. Held(cost'[r][c]) <= Held(cost[r][c])
      BY <2>1, <2>2, <2>3, <2>4, <2>7 DEF Held, CostRecord
    \* The rows of r with the envelope as it was.
    <2>10. /\ \A e \in Calls : CallOK(cost'[r][e], charged'[r][e], flight'[r][e])
           /\ SpendOK(spend[r], cost'[r], charged'[r])
      <3>1. \A e \in Calls \ {c} : CallOK(cost'[r][e], charged'[r][e], flight'[r][e])
        BY <1>0, <2>0, <2>4, <2>5 DEF Money
      <3>2. cost'[r] \in [Calls -> CostRecord] /\ cost[r] \in [Calls -> CostRecord]
        BY <1>0, <2>4
      <3>3. \A e \in Calls : Held(cost'[r][e]) <= Held(cost[r][e])
        BY <2>4, <2>9, <3>2, HeldNat
      <3>4. HeldSum(cost'[r]) <= HeldSum(cost[r])
        BY <3>2, <3>3, HeldLower
      <3>5. HeldSum(cost[r]) <= Envelope /\ spend[r].amount = Envelope
            /\ \A e \in Calls : cost[r][e].status = "none" => charged[r][e] = 0
        BY <1>0, <2>1 DEF Money, SpendOK, Open
      <3>6. HeldSum(cost'[r]) <= Envelope
        <4>1. HeldSum(cost'[r]) \in Nat /\ HeldSum(cost[r]) \in Nat
          BY <3>2, HeldNat
        <4> QED
          BY <3>4, <3>5, <4>1, Constants
      <3>7. \A e \in Calls : cost'[r][e].status = "none" => charged'[r][e] = 0
        BY <2>0, <2>3, <2>4, <3>5
      <3>8. SpendOK(spend[r], cost'[r], charged'[r])
        BY <2>1, <3>5, <3>6, <3>7 DEF SpendOK, Open
      <3> QED
        BY <2>8, <3>1, <3>8
    <2>11. spend'[r] \in {spend[r], SettledSpend(spend[r], cost'[r]), Suspended(spend[r])}
      BY <1>0, <1>9 DEF Settle, NotSent, DispatchFails, HostedTypeOK
    <2>12. SpendOK(spend'[r], cost'[r], charged'[r])
      <3>1. cost'[r] \in [Calls -> CostRecord] /\ charged'[r] \in [Calls -> Nat]
        BY <1>0, <2>0, <2>4
      <3>2. SpendOK(SettledSpend(spend[r], cost'[r]), cost'[r], charged'[r])
        BY <1>0, <2>10, <3>1, SettlesOK
      <3>3. SpendOK(Suspended(spend[r]), cost'[r], charged'[r])
        BY <1>0, <2>1, <2>10, SuspendsOK DEF Open
      <3> QED
        BY <2>10, <2>11, <3>2, <3>3
    <2>13. CASE q = r
      BY <2>10, <2>12, <2>13 DEF Money
    <2> QED
      BY <2>6, <2>13
  <1>10. ASSUME NEW d \in Documents, PurgeRows(d) PROVE Money(q)'
    <2>1. UNCHANGED <<cost, flight, charged>>
          /\ (spend'[q] = spend[q] \/ spend'[q] = SettledSpend(spend[q], cost[q]))
      BY <1>10 DEF PurgeRows
    <2> QED
      BY <1>0, <2>1, SettleMoney, FrameMoney
  <1>11. ASSUME NEW n \in 0 .. Cardinality(Runs), Maintain(n) PROVE Money(q)'
    <2> DEFINE old == OldSettled(ExpiredSpend, n)
    <2>1. UNCHANGED <<flight, charged>>
      BY <1>11 DEF Maintain
    <2>2. CASE q \in old
      <3>1. /\ spend'[q].status = "archived" /\ spend'[q].amount = 0
            /\ cost'[q] = [c \in Calls |-> NoCost]
        BY <1>11, <2>2, <1>0, ExpiredTypes DEF Maintain, SpendRecord
      <3>2. \A c \in Calls : cost'[q][c] = NoCost /\ flight'[q][c] # "reserved"
        <4>1. \A c \in Calls : flight[q][c] = "none"
          <5>1. CASE ToExpire(q)
            BY <1>0, <2>2, <5>1, ExpiredRow DEF OldSettled, Control
          <5>2. CASE ~ToExpire(q)
            BY <1>0, <1>7, <2>2, <5>2, ExpiredRow DEF OldSettled, Open
          <5> QED
            BY <5>1, <5>2
        <4> QED
          BY <2>1, <3>1, <4>1
      <3> QED
        BY <3>1, <3>2 DEF Money, SpendOK, CallOK, NoCost, Open
    <2>3. CASE q \notin old
      <3>1. spend'[q] = ExpiredSpend[q] /\ cost'[q] = cost[q]
        BY <1>11, <2>3 DEF Maintain
      <3> QED
        BY <1>0, <2>1, <3>1, ExpiredMoney DEF Money
    <2> QED
      BY <2>2, <2>3
  <1>12. ASSUME NEW r \in Runs, Reconcile(r) PROVE Money(q)'
    <2>1. CASE q # r
      BY <1>0, <1>12, <2>1, FrameMoney DEF Reconcile, HostedTypeOK
    <2>2. CASE q = r
      <3>1. /\ cost'[r] = Attested(r) /\ UNCHANGED <<flight, charged>>
            /\ spend'[r] = SettledSpend(spend[r], cost'[r]) /\ Unlocked(DocOf[r])
            /\ cost'[r] \in [Calls -> CostRecord]
        BY <1>0, <1>12 DEF Reconcile, HostedTypeOK
      <3>2. \A c \in Calls : flight[r][c] = "none"
        BY <1>0, <3>1 DEF Unlocked, LockedBy, Excluding, Control
      <3>3. ASSUME NEW c \in Calls
            PROVE  /\ CallOK(cost'[r][c], charged[r][c], flight[r][c])
                   /\ Held(cost'[r][c]) <= Held(cost[r][c])
                   /\ cost'[r][c].status = "none" <=> cost[r][c].status = "none"
                   /\ cost'[r][c].status \notin Open
        <4>1. /\ cost[r][c] \in CostRecord /\ charged[r][c] \in Nat
              /\ CallOK(cost[r][c], charged[r][c], flight[r][c])
          BY <1>0 DEF Money
        <4>2. CASE cost[r][c].status \in Open
          <5>1. /\ cost'[r][c].status = "settled" /\ cost'[r][c].actual = charged[r][c]
                /\ cost'[r][c].bound = cost[r][c].bound
            BY <3>1, <4>1, <4>2 DEF Attested, Open, CostRecord
          <5> QED
            BY <3>2, <4>1, <4>2, <5>1 DEF CallOK, Held, Open, CostRecord
        <4>3. CASE cost[r][c].status \notin Open
          <5>1. cost'[r][c] = cost[r][c]
            BY <3>1, <4>3 DEF Attested, Open
          <5> QED
            BY <1>0, <4>1, <4>3, <5>1, HeldNat
        <4> QED
          BY <4>2, <4>3
      <3>4. HeldSum(cost'[r]) <= HeldSum(cost[r])
        BY <1>0, <3>1, <3>3, HeldLower
      <3>5. HeldSum(cost'[r]) \in Nat /\ HeldSum(cost[r]) \in Nat
        BY <1>0, <3>1, HeldNat
      <3>6. SpendOK(spend[r], cost[r], charged[r])
        BY <1>0 DEF Money
      <3>7. SpendOK(spend[r], cost'[r], charged[r])
        BY <3>3, <3>4, <3>5, <3>6, Constants DEF SpendOK
      <3>8. SpendOK(spend'[r], cost'[r], charged[r])
        BY <1>0, <3>1, <3>3, <3>7, SettlesOK
      <3> QED
        BY <2>2, <3>1, <3>3, <3>8 DEF Money
    <2> QED
      BY <2>1, <2>2
  <1>13. CASE LoseControl
    <2>1. /\ UNCHANGED <<cost, charged>> /\ \A c \in Calls : flight'[q][c] = "none"
          /\ spend'[q] = IF spend[q].status = "reserved" THEN Suspended(spend[q]) ELSE spend[q]
      BY <1>13 DEF LoseControl, Startup
    <2>2. SpendOK(spend'[q], cost[q], charged[q])
      BY <1>0, <2>1, SuspendsOK DEF Money
    <2> QED
      BY <1>0, <2>1, <2>2 DEF Money, CallOK
  <1>14. ASSUME \/ Drain \/ NewDay
                \/ \E d \in Documents : PurgeFiles(d) \/ DocumentExpires(d) \/ DeleteDocument(d)
         PROVE  Money(q)'
    BY <1>0, <1>14, FrameMoney DEF Drain, NewDay, PurgeFiles, DocumentExpires, DeleteDocument
  <1> QED
    BY <1>1, <1>2, <1>3, <1>4, <1>5, <1>6, <1>8, <1>9, <1>10, <1>11, <1>12, <1>13, <1>14
       DEF Next, SlotStep, Progress, DispatchStep, Outside

\* The invariant holds when the service is first started.
LEMMA HostedInit == Init => HostedInv
  <1> SUFFICES ASSUME Init PROVE HostedInv
    OBVIOUS
  <1>1. HostedTypeOK
    BY HostedInitType
  <1>2. \A r \in Runs : Control(r)
    BY Constants DEF Init, Control, NoCost, Open, Active, Uncertain, Terminal, Uploaded
  <1>3. \A r \in Runs : Money(r)
    BY DEF Init, Money, CallOK, SpendOK, NoCost, Open
  <1> QED
    BY <1>1, <1>2, <1>3 DEF HostedInv

\* Every step keeps the invariant.
LEMMA HostedNext == HostedInv /\ [Next]_vars => HostedInv'
  <1>1. ASSUME HostedInv, Next PROVE HostedInv'
    <2>1. HostedTypeOK'
      BY <1>1, TypeStep DEF HostedInv
    <2> QED
      BY <1>1, <2>1, ControlStep, MoneyStep DEF HostedInv
  <1>2. ASSUME HostedInv, UNCHANGED vars PROVE HostedInv'
    BY <1>2 DEF vars, HostedInv, HostedTypeOK, Control, Money, CallOK, SpendOK, HeldSum, Held
  <1> QED
    BY <1>1, <1>2

\* The inductive invariant of the hosted control plane holds in every state.
THEOREM HostedInductive == Spec => []HostedInv
  BY HostedInit, HostedNext, PTL DEF Spec

\* Every row has its type and every reservation has somebody who will settle it.
THEOREM ReservationsHaveOwners == Spec => []ReservationsSound
  <1>1. HostedInv => ReservationsSound
    BY DEF HostedInv, Control, ReservationsSound, ReservationOwned
  <1> QED
    BY <1>1, HostedInductive, PTL

\* _purge, delete and restore: a purged document leaves no run, result or bytes.
THEOREM DeletionIsComplete == Spec => []DeletedLeavesNothing
  <1>1. HostedInv => DeletedLeavesNothing
    BY DEF HostedInv, Control, DeletedLeavesNothing, Terminal
  <1> QED
    BY <1>1, HostedInductive, PTL

-----------------------------------------------------------------------------
(* Runs end once, and slots are respected *)

Over == Uncertain \cup Terminal \cup {"gone"}

\* How the status of a run may change.
RunStep(q) ==
    \/ run'[q].status = run[q].status
    \/ run[q].status = "absent" /\ run'[q].status = "queued"
    \/ run[q].status \in Row /\ run'[q].status \in Over
    \/ run[q].status = "queued" /\ run'[q].status = "running" /\ Claim(q)

\* Every step moves the status of a run in one of the ways of RunStep.
LEMMA StatusStep ==
    ASSUME HostedInv, Next, NEW q \in Runs PROVE RunStep(q)
  <1>0. HostedTypeOK /\ \A r \in Runs : run[r] \in RunRecord
    BY DEF HostedInv, HostedTypeOK
  <1>s. /\ {"failed", "cancelled", "gone", "completed", "partial_blocked",
            "accounting_pending", "lease_expired"} \subseteq Statuses
        /\ {"failed", "cancelled", "gone", "completed", "partial_blocked",
            "accounting_pending", "lease_expired"} \subseteq Over
    BY DEF Statuses, Over, Row, Terminal, Uncertain
  <1>1. ASSUME NEW r \in Runs, CreateRun(r) PROVE RunStep(q)
    BY <1>0, <1>1 DEF CreateRun, RunStep, HostedTypeOK
  <1>e. /\ ExpiredRuns[q].status = run[q].status \/
             (run[q].status \in Row /\ ExpiredRuns[q].status \in Over)
        /\ ExpiredRuns[q].status = "queued" => run[q].status = "queued"
    BY ExpiredRow DEF Over, Terminal, Row, Active, Uncertain
  <1>2. CASE ControlState \/ \E n \in 0 .. Cardinality(Runs) : Maintain(n)
    <2>1. run' = ExpiredRuns
      BY <1>2 DEF ControlState, Maintain
    <2> QED
      BY <1>e, <2>1 DEF RunStep
  <1>3. ASSUME NEW r \in Runs, Claim(r) PROVE RunStep(q)
    <2>1. CASE q = r
      <3>1. run'[r] = Claimed(ExpiredRuns[r]) /\ ExpiredRuns[r].status = "queued"
        BY <1>0, <1>3, ExpiredTypes DEF Claim, Eligible
      <3>2. run'[r].status = "running"
        BY <1>0, <3>1, ExpiredTypes DEF Claimed, RunRecord
      <3> QED
        BY <1>3, <1>e, <2>1, <3>1, <3>2 DEF RunStep
    <2>2. CASE q # r
      <3>1. run'[q] = ExpiredRuns[q]
        BY <1>0, <1>3, <2>2, ExpiredTypes DEF Claim
      <3> QED
        BY <1>e, <3>1 DEF RunStep
    <2> QED
      BY <2>1, <2>2
  <1>4. ASSUME NEW r \in Runs, NEW status \in {"completed", "partial_blocked"},
               PublishAnalysis(r, status)
        PROVE  RunStep(q)
    <2>1. run' = [run EXCEPT ![r] = Ended(run[r], status)] /\ run[r].status = "running"
      BY <1>4 DEF PublishAnalysis, Fenced
    <2>2. status \in Statuses /\ status \in Over
      BY <1>s
    <2>3. Ended(run[r], status).status = status
      BY <1>0, <2>2, EndedRow
    <2>4. run'[q] = IF q = r THEN Ended(run[r], status) ELSE run[q]
      BY <1>0, <2>1 DEF HostedTypeOK
    <2> QED
      BY <2>1, <2>2, <2>3, <2>4 DEF RunStep, Row, Active
  <1>5. ASSUME NEW r \in Runs, Handle(r) PROVE RunStep(q)
    <2>1. \/ run' = run
          \/ run' = [run EXCEPT ![r] = Ended(run[r], "failed")] /\ run[r].status = "running"
      BY <1>5 DEF Handle
    <2>2. Ended(run[r], "failed").status = "failed"
      BY <1>0, <1>s, EndedRow
    <2> QED
      BY <1>0, <1>s, <2>1, <2>2 DEF RunStep, HostedTypeOK, Row, Active
  <1>6. ASSUME NEW r \in Runs, LeaseElapses(r) PROVE RunStep(q)
    BY <1>0, <1>6 DEF LeaseElapses, RunStep, HostedTypeOK, RunRecord
  <1>7. ASSUME NEW r \in Runs, NEW c \in Calls,
               NEW end \in {"isolated", "failed", "accounting_pending"}, DispatchFails(r, c, end)
        PROVE  RunStep(q)
    <2>1. \/ run' = run
          \/ /\ run' = [run EXCEPT ![r] = Fence(r, end)] /\ run[r].status = "running"
             /\ end \in {"failed", "accounting_pending"}
      BY <1>7 DEF DispatchFails
    <2>2. end # "isolated" => Fence(r, end).status = end
      BY <1>0, <1>s, FenceRow
    <2> QED
      BY <1>0, <1>s, <2>1, <2>2 DEF RunStep, HostedTypeOK, Row, Active
  <1>8. ASSUME NEW d \in Documents, PurgeRows(d) \/ DeleteDocument(d) PROVE RunStep(q)
    <2>1. \/ run'[q] = run[q]
          \/ run[q].status \in Row /\ run'[q] \in {Fence(q, "gone"), Fence(q, "cancelled")}
      BY <1>8 DEF PurgeRows, DeleteDocument, RowsOf
    <2>2. Fence(q, "gone").status = "gone" /\ Fence(q, "cancelled").status = "cancelled"
      BY <1>0, <1>s, FenceRow
    <2> QED
      BY <1>s, <2>1, <2>2 DEF RunStep
  <1>9. ASSUME NEW r \in Runs, Cancel(r) \/ Reconcile(r) PROVE RunStep(q)
    <2>1. \/ run' = run
          \/ /\ run[r].status \in Row
             /\ \E s \in {"failed", "cancelled"} : run' = [run EXCEPT ![r] = Fence(r, s)]
      BY <1>9 DEF Cancel, Reconcile
    <2>2. Fence(r, "failed").status = "failed" /\ Fence(r, "cancelled").status = "cancelled"
      BY <1>0, <1>s, FenceRow
    <2> QED
      BY <1>0, <1>s, <2>1, <2>2 DEF RunStep, HostedTypeOK
  <1>10. CASE LoseControl
    <2>1. run'[q] = run[q] \/ (run[q].status \in Row /\ run'[q] = Fence(q, "gone"))
      BY <1>10 DEF LoseControl
    <2>2. Fence(q, "gone").status = "gone"
      BY <1>0, <1>s, FenceRow
    <2> QED
      BY <1>s, <2>1, <2>2 DEF RunStep
  <1>11. CASE run' = run
    BY <1>11 DEF RunStep
  <1>12. ASSUME NEW r \in Runs, SlotStep(r) PROVE RunStep(q)
    <2>1. CASE \/ PrepareStart(r) \/ PrepareEnd(r) \/ AnalysisOpen(r) \/ AnalysisLock(r)
               \/ AnalysisStart(r) \/ AnalysisEnd(r) \/ Abort(r) \/ Crash(r) \/ OrphanEnds(r)
      BY <1>11, <2>1 DEF PrepareStart, PrepareEnd, AnalysisOpen, AnalysisLock, AnalysisStart,
                         AnalysisEnd, Abort, Crash, OrphanEnds
    <2> QED
      BY <1>3, <1>4, <1>5, <1>6, <1>12, <2>1 DEF SlotStep, Progress
  <1>13. ASSUME NEW r \in Runs, DispatchStep(r) PROVE RunStep(q)
    BY <1>7, <1>11, <1>13 DEF DispatchStep, Reserve, Transport, Settle, NotSent
  <1>14. CASE Outside
    BY <1>8, <1>9, <1>10, <1>11, <1>14 DEF Outside, Drain
  <1> QED
    BY <1>1, <1>2, <1>8, <1>11, <1>12, <1>13, <1>14
       DEF Next, PurgeFiles, DocumentExpires, NewDay

\* A run that is over stays so, gets no result and makes no further call.
LEMMA OverStep ==
    ASSUME HostedInv, HostedInv', Next, NEW q \in Runs, run[q].status \in Over
    PROVE  /\ run'[q].status \in Over
           /\ q \in results' => q \in results
           /\ \A c \in Calls : cost[q][c].status = "none" => cost'[q][c].status = "none"
  <1>0. run[q].status \notin {"absent", "queued", "running"}
    BY DEF Over, Uncertain, Terminal
  <1>1. run'[q].status \in Over
    BY <1>0, StatusStep DEF RunStep
  <1>2. q \in results' => q \in results
    <2>1. ASSUME NEW r \in Runs, NEW status \in {"completed", "partial_blocked"},
                 PublishAnalysis(r, status)
          PROVE  q \in results' => q \in results
      BY <1>0, <2>1 DEF PublishAnalysis, Fenced
    <2>2. CASE UNCHANGED results
      BY <2>2
    <2>3. ASSUME NEW d \in Documents, PurgeRows(d) PROVE q \in results' => q \in results
      BY <2>3 DEF PurgeRows
    <2>4. CASE LoseControl
      BY <2>4 DEF LoseControl
    <2>5. ASSUME NEW r \in Runs, DispatchStep(r) PROVE UNCHANGED results
      BY <2>5 DEF DispatchStep, Reserve, Transport, Settle, NotSent, DispatchFails
    <2>6. ASSUME NEW r \in Runs, CreateRun(r) \/ SlotStep(r)
          PROVE  \/ UNCHANGED results
                 \/ \E status \in {"completed", "partial_blocked"} : PublishAnalysis(r, status)
      BY <2>6 DEF CreateRun, SlotStep, Progress, PrepareStart, PrepareEnd, AnalysisOpen,
                  AnalysisLock, AnalysisStart, AnalysisEnd, Abort, Handle, Crash, OrphanEnds,
                  LeaseElapses, Claim
    <2>7. CASE Outside
      BY <2>2, <2>4, <2>7 DEF Outside, Drain, Cancel, Reconcile, DeleteDocument
    <2> QED
      BY <2>1, <2>2, <2>3, <2>5, <2>6, <2>7
         DEF Next, PurgeFiles, DocumentExpires, NewDay, ControlState, Maintain
  <1>3. \A c \in Calls : cost[q][c].status = "none" => cost'[q][c].status = "none"
    <2>0. HostedTypeOK
      BY DEF HostedInv
    <2>1. ASSUME NEW r \in Runs, NEW c \in Calls, NEW b \in Bounds, Reserve(r, c, b)
          PROVE  cost'[q] = cost[q]
      BY <1>0, <2>0, <2>1 DEF Reserve, Fenced, HostedTypeOK
    <2>2. ASSUME NEW r \in Runs, NEW c \in Calls, NEW status \in {"settled", "accounting_pending"},
                 NEW actual \in Nat, cost' = CostOf(r, c, status, actual)
          PROVE  \A e \in Calls : cost[q][e].status = "none" => cost'[q][e].status = "none"
      <3>1. /\ \A e \in Calls \ {c} : cost'[r][e] = cost[r][e]
            /\ \A p \in Runs \ {r} : cost'[p] = cost[p]
            /\ cost[r][c].status # "reserved" => cost'[r][c] = cost[r][c]
        BY <2>0, <2>2, CostRow
      <3> QED
        BY <3>1
    <2>3. ASSUME NEW r \in Runs, NEW c \in Calls,
                 Settle(r, c) \/ NotSent(r, c)
                   \/ \E end \in {"isolated", "failed", "accounting_pending"} :
                         DispatchFails(r, c, end)
          PROVE  \A e \in Calls : cost[q][e].status = "none" => cost'[q][e].status = "none"
      <3>1. charged[r][c] \in Nat /\ 0 \in Nat
        BY <2>0 DEF HostedTypeOK
      <3> QED
        BY <2>2, <2>3, <3>1 DEF Settle, NotSent, DispatchFails
    <2>4. ASSUME NEW n \in 0 .. Cardinality(Runs), Maintain(n)
          PROVE  \A c \in Calls : cost[q][c].status = "none" => cost'[q][c].status = "none"
      BY <2>4 DEF Maintain, NoCost
    <2>5. ASSUME NEW r \in Runs, Reconcile(r)
          PROVE  \A c \in Calls : cost[q][c].status = "none" => cost'[q][c].status = "none"
      <3>1. cost'[q] = cost[q] \/ cost'[q] = Attested(q)
        BY <2>0, <2>5 DEF Reconcile, HostedTypeOK
      <3> QED
        BY <3>1 DEF Attested
    <2>6. CASE cost' = cost
      BY <2>6
    <2> QED
      BY <2>1, <2>3, <2>4, <2>5, <2>6
         DEF Next, SlotStep, Progress, DispatchStep, Outside, PrepareStart, PrepareEnd,
             AnalysisOpen, AnalysisLock, AnalysisStart, AnalysisEnd, Abort, Handle, Crash,
             OrphanEnds, LeaseElapses, Transport, PublishAnalysis,
             PurgeFiles, PurgeRows, DocumentExpires, Drain, NewDay, CreateRun, Claim,
             ControlState, Cancel, DeleteDocument, LoseControl
  <1> QED
    BY <1>1, <1>2, <1>3

\* claim, publish_analysis and dispatch: no late worker, orphan or call revives a run.
THEOREM NoRedelivery == Spec => EndedForGood
  <1>1. HostedInv /\ HostedInv' /\ [Next]_vars =>
          [\A r \in Runs :
             run[r].status \in Uncertain \cup Terminal \cup {"gone"}
               => /\ run'[r].status \in Uncertain \cup Terminal \cup {"gone"}
                  /\ r \in results' => r \in results
                  /\ \A c \in Calls : cost[r][c].status = "none" => cost'[r][c].status = "none"]_vars
    BY OverStep DEF Over
  <1> QED
    BY <1>1, HostedInductive, PTL DEF Spec, EndedForGood

\* No step runs more analyses than there are slots.
LEMMA SlotsStep ==
    ASSUME HostedInv, SlotsRespected, Next PROVE SlotsRespected'
  <1> DEFINE R == Running(run)
             R2 == Running(run')
  <1>0. IsFiniteSet(R) /\ IsFiniteSet(R2) /\ R \subseteq Runs /\ R2 \subseteq Runs
    BY Constants, FS_Subset DEF Running
  <1>1. CASE \A r \in Runs : ~Claim(r)
    <2>1. R2 \subseteq R
      BY <1>1, StatusStep DEF RunStep, Running, Over, Uncertain, Terminal
    <2>2. Cardinality(R2) <= MaxActive
      <3>1. Cardinality(R2) <= Cardinality(R)
        BY <1>0, <2>1, FS_Subset
      <3>2. Cardinality(R2) \in Nat /\ Cardinality(R) \in Nat
        BY <1>0, FS_CardinalityType
      <3> QED
        BY <3>1, <3>2, Constants DEF SlotsRespected
    <2>3. \A r, q \in R2 : DocOf[r] = DocOf[q] => r = q
      BY <2>1 DEF SlotsRespected
    <2>4. ASSUME NEW r \in Runs
          PROVE  Cardinality({q \in R2 : UserOf[q] = UserOf[r]}) <= UserActive
      <3> DEFINE U == {q \in R : UserOf[q] = UserOf[r]}
                 U2 == {q \in R2 : UserOf[q] = UserOf[r]}
      <3>1. IsFiniteSet(U) /\ U2 \subseteq U
        BY <1>0, <2>1, FS_Subset
      <3>2. IsFiniteSet(U2) /\ Cardinality(U2) <= Cardinality(U)
        BY <3>1, FS_Subset
      <3>3. Cardinality(U2) \in Nat /\ Cardinality(U) \in Nat
        BY <3>1, <3>2, FS_CardinalityType
      <3>4. Cardinality(U) <= UserActive
        BY DEF SlotsRespected
      <3> QED
        BY <3>2, <3>3, <3>4, Constants
    <2> QED
      BY <2>2, <2>3, <2>4 DEF SlotsRespected
  <1>2. ASSUME NEW r \in Runs, Claim(r) PROVE SlotsRespected'
    <2> DEFINE X == Running(ExpiredRuns)
    <2>0. HostedTypeOK /\ IsFiniteSet(X) /\ X \subseteq Runs
      BY Constants, FS_Subset DEF Running, HostedInv
    <2>1. /\ Cardinality(X) < MaxActive
          /\ ExpiredRuns[r].status = "queued"
          /\ \A q \in X : DocOf[q] # DocOf[r]
          /\ Cardinality({q \in X : UserOf[q] = UserOf[r]}) < UserActive
      BY <1>2 DEF Claim, Eligible
    <2>2. X \subseteq R /\ r \notin X
      BY <2>1, ExpiredRow DEF Running
    <2>3. R2 = X \cup {r}
      <3>1. run'[r] = Claimed(ExpiredRuns[r]) /\ \A q \in Runs \ {r} : run'[q] = ExpiredRuns[q]
        BY <1>2, <2>0, ExpiredTypes DEF Claim
      <3>2. run'[r].status = "running"
        BY <2>0, <3>1, ExpiredTypes DEF Claimed, RunRecord
      <3> QED
        BY <3>1, <3>2 DEF Running
    <2>4. Cardinality(R2) <= MaxActive
      <3>1. Cardinality(X \cup {r}) = Cardinality(X) + 1
        BY <2>0, <2>2, FS_AddElement
      <3>2. Cardinality(X) \in Nat
        BY <2>0, FS_CardinalityType
      <3> QED
        BY <2>1, <2>3, <3>1, <3>2, Constants
    <2>5. \A p, q \in R2 : DocOf[p] = DocOf[q] => p = q
      BY <2>1, <2>2, <2>3 DEF SlotsRespected
    <2>6. ASSUME NEW u \in Runs
          PROVE  Cardinality({q \in R2 : UserOf[q] = UserOf[u]}) <= UserActive
      <3> DEFINE U == {q \in R : UserOf[q] = UserOf[u]}
                 V == {q \in X : UserOf[q] = UserOf[u]}
                 U2 == {q \in R2 : UserOf[q] = UserOf[u]}
      <3>1. IsFiniteSet(U) /\ V \subseteq U
        BY <1>0, <2>2, FS_Subset
      <3>2. IsFiniteSet(V) /\ Cardinality(V) <= Cardinality(U)
        BY <3>1, FS_Subset
      <3>3. Cardinality(V) \in Nat /\ Cardinality(U) \in Nat
        BY <3>1, <3>2, FS_CardinalityType
      <3>4. Cardinality(U) <= UserActive
        BY DEF SlotsRespected
      <3>5. CASE UserOf[u] = UserOf[r]
        <4>1. U2 = V \cup {r} /\ r \notin V
          BY <2>2, <2>3, <3>5
        <4>2. Cardinality(V \cup {r}) = Cardinality(V) + 1
          BY <3>2, <4>1, FS_AddElement
        <4>3. Cardinality(V) < UserActive
          BY <2>1, <3>5
        <4>4. Cardinality(U2) = Cardinality(V) + 1
          BY <4>1, <4>2
        <4> HIDE DEF U2, V
        <4>5. Cardinality(U2) <= UserActive
          BY <3>3, <4>3, <4>4, Constants
        <4> QED
          BY <4>5 DEF U2
      <3>6. CASE UserOf[u] # UserOf[r]
        <4>1. U2 = V
          BY <2>3, <3>6
        <4> QED
          BY <3>2, <3>3, <3>4, <4>1, Constants
      <3> QED
        BY <3>5, <3>6
    <2> QED
      BY <2>4, <2>5, <2>6 DEF SlotsRespected
  <1> QED
    BY <1>1, <1>2

\* No analysis runs at the start.
LEMMA SlotsInit == Init => SlotsRespected
  <1> SUFFICES ASSUME Init PROVE SlotsRespected
    OBVIOUS
  <1>1. Running(run) = {}
    BY DEF Init, Running
  <1>2. \A r \in Runs : {q \in Running(run) : UserOf[q] = UserOf[r]} = {}
    BY <1>1
  <1>3. Cardinality({}) = 0
    BY FS_EmptySet
  <1>4. \A r \in Runs : Cardinality({q \in Running(run) : UserOf[q] = UserOf[r]}) = 0
    BY <1>2, <1>3
  <1> QED
    BY <1>1, <1>3, <1>4, Constants DEF SlotsRespected

\* claim, prepare, execute_analysis and _purge: the limits on slots hold, and nobody removes
\* the bytes of a document that a worker or an orphaned child is analysing.
THEOREM AnalysesAreUndisturbed == Spec => []AnalysisUndisturbed
  <1>1. HostedInv => BytesWhileAnalysing
    BY DEF HostedInv, Control, BytesWhileAnalysing
  <1>2. HostedInv /\ SlotsRespected /\ [Next]_vars => SlotsRespected'
    <2>1. ASSUME SlotsRespected, UNCHANGED vars PROVE SlotsRespected'
      BY <2>1 DEF vars, SlotsRespected, Running
    <2> QED
      BY <2>1, SlotsStep
  <1> QED
    BY <1>1, <1>2, SlotsInit, HostedInductive, PTL DEF Spec, AnalysisUndisturbed

-----------------------------------------------------------------------------
(* What a step does to an envelope *)

\* An envelope keeps its day; it may be settled but is never opened again.
Moves(sp, new) ==
    /\ new.day = sp.day
    /\ \/ sp.status = "none" /\ new.status = "none"
       \/ sp.status \in Open /\ new.status \in Open \cup {"settled"}
       \/ sp.status = "settled" /\ new.status = "settled"
       \/ sp.status = "archived" /\ new.status = "archived"

\* Or _maintain drops its row.
Archives(r) ==
    /\ spend[r].status \in Open \cup {"settled"}
    /\ spend'[r].status = "archived"
    /\ \E n \in 0 .. Cardinality(Runs) : Maintain(n)

\* An envelope that is left alone.
LEMMA StaysMoves == ASSUME NEW sp \in SpendRecord PROVE Moves(sp, sp)
  BY DEF Moves, SpendRecord, Open

\* Settling an envelope settles it or leaves it open.
LEMMA SettleMoves ==
    ASSUME NEW sp \in SpendRecord, NEW k \in [Calls -> CostRecord],
           sp.status = "settled" => \A c \in Calls : k[c].status \notin Open
    PROVE  Moves(sp, SettledSpend(sp, k))
  <1> DEFINE new == SettledSpend(sp, k)
  <1>1. new.day = sp.day
    BY SettledRow
  <1>2. CASE sp.status \in {"none", "archived"}
    <2>1. new = sp
      BY <1>2, SettledRow
    <2> QED
      BY <2>1, StaysMoves
  <1>3. CASE sp.status \notin {"none", "archived"}
    <2>1. sp.status \in Open \cup {"settled"}
      BY <1>3 DEF SpendRecord, Open
    <2>2. /\ new.status \in {"settled", "accounting_pending"}
          /\ (\A c \in Calls : k[c].status \notin Open) => new.status = "settled"
      BY <1>3, SettledStatus
    <2> HIDE DEF new
    <2>3. Moves(sp, new)
      BY <1>1, <2>1, <2>2 DEF Moves, Open
    <2> QED
      BY <2>3 DEF new
  <1> QED
    BY <1>2, <1>3

\* Suspending leaves an open envelope open and settles none.
LEMMA SuspendMoves ==
    ASSUME NEW sp \in SpendRecord, sp.status # "settled" PROVE Moves(sp, Suspended(sp))
  BY SuspendedRow DEF Moves, SpendRecord, Open

\* An expiry of leases settles an envelope or leaves it open.
LEMMA ExpiredMoves ==
    ASSUME HostedInv, NEW q \in Runs PROVE Moves(spend[q], ExpiredSpend[q])
  <1>1. spend[q] \in SpendRecord
    BY DEF HostedInv, HostedTypeOK
  <1>2. CASE ~ToExpire(q)
    BY <1>1, <1>2, ExpiredRow, StaysMoves
  <1>3. CASE ToExpire(q)
    BY <1>3, ExpiredRow DEF Moves, Open
  <1> QED
    BY <1>2, <1>3

\* The envelope of a call that is under way is open.
LEMMA InFlight ==
    ASSUME HostedInv, NEW r \in Runs, NEW c \in Calls, flight[r][c] # "none"
    PROVE  spend[r].status \in Open
  <1>1. Control(r) /\ Money(r) /\ spend[r] \in SpendRecord
    BY DEF HostedInv, HostedTypeOK
  <1>2. cost[r][c].status = "reserved"
    BY <1>1 DEF Control
  <1> QED
    BY <1>1, <1>2 DEF Money, SpendOK, SpendRecord, Open

\* Every step opens an envelope, settles or keeps it, or archives it.
LEMMA SpendStep ==
    ASSUME HostedInv, HostedTypeOK', Next, NEW q \in Runs
    PROVE  CreateRun(q) \/ Moves(spend[q], spend'[q]) \/ Archives(q)
  <1> DEFINE Goal == CreateRun(q) \/ Moves(spend[q], spend'[q]) \/ Archives(q)
  <1>0. HostedTypeOK /\ \A r \in Runs : /\ spend[r] \in SpendRecord
                                        /\ cost[r] \in [Calls -> CostRecord]
                                        /\ Money(r) /\ Control(r)
    BY DEF HostedInv, HostedTypeOK
  <1>s. Moves(spend[q], spend[q])
    BY <1>0, StaysMoves
  <1>t. Moves(spend[q], SettledSpend(spend[q], cost[q]))
    <2>1. spend[q].status = "settled" => \A c \in Calls : cost[q][c].status \notin Open
      BY <1>0 DEF Money, SpendOK
    <2> QED
      BY <1>0, <2>1, SettleMoves
  <1>1. ASSUME NEW r \in Runs, CreateRun(r) PROVE Goal
    <2>1. q # r => spend'[q] = spend[q]
      BY <1>0, <1>1 DEF CreateRun, HostedTypeOK
    <2> QED
      BY <1>1, <1>s, <2>1
  <1>2. CASE ControlState \/ \E r \in Runs : Claim(r)
    <2>1. spend' = ExpiredSpend
      BY <1>2 DEF ControlState, Claim
    <2> QED
      BY <2>1, ExpiredMoves
  <1>3. ASSUME NEW n \in 0 .. Cardinality(Runs), Maintain(n) PROVE Goal
    <2>1. CASE q \in OldSettled(ExpiredSpend, n)
      <3>1. ExpiredSpend[q].status = "settled" /\ ExpiredSpend[q] \in SpendRecord
        BY <1>0, <2>1, ExpiredTypes DEF OldSettled
      <3>2. spend'[q] = [ExpiredSpend[q] EXCEPT !.status = "archived", !.amount = 0]
        BY <1>3, <2>1 DEF Maintain
      <3>3. spend'[q].status = "archived"
        BY <3>1, <3>2 DEF SpendRecord
      <3>4. spend[q].status \in Open \cup {"settled"}
        BY <3>1, ExpiredMoves DEF Moves
      <3> QED
        BY <1>3, <3>3, <3>4 DEF Archives
    <2>2. CASE q \notin OldSettled(ExpiredSpend, n)
      <3>1. spend'[q] = ExpiredSpend[q]
        BY <1>3, <2>2 DEF Maintain
      <3> QED
        BY <3>1, ExpiredMoves
    <2> QED
      BY <2>1, <2>2
  <1>4. ASSUME NEW r \in Runs, Progress(r) PROVE Goal
    <2>1. \/ spend' = spend
          \/ spend' = [spend EXCEPT ![r] = SettledSpend(spend[r], cost[r])]
      BY <1>4 DEF Progress, PrepareStart, PrepareEnd, AnalysisOpen, AnalysisLock,
                  AnalysisStart, AnalysisEnd, PublishAnalysis, Abort, Handle
    <2>2. spend'[q] = spend[q] \/ spend'[q] = SettledSpend(spend[q], cost[q])
      BY <1>0, <2>1 DEF HostedTypeOK
    <2> QED
      BY <1>s, <1>t, <2>2
  <1>5. ASSUME NEW r \in Runs, NEW c \in Calls, Settle(r, c) PROVE Goal
    <2>1. spend'[q] = spend[q] \/ (q = r /\ spend'[q] = SettledSpend(spend[q], cost'[q]))
      BY <1>0, <1>5 DEF Settle, HostedTypeOK
    <2>2. q = r => spend[q].status # "settled"
      <3>1. q = r => flight[q][c] # "none"
        BY <1>5 DEF Settle
      <3> QED
        BY <3>1, InFlight DEF Open
    <2>3. cost'[q] \in [Calls -> CostRecord]
      BY DEF HostedTypeOK
    <2>4. q = r => Moves(spend[q], SettledSpend(spend[q], cost'[q]))
      BY <1>0, <2>2, <2>3, SettleMoves
    <2> QED
      BY <1>s, <2>1, <2>4
  <1>6. ASSUME NEW r \in Runs, NEW c \in Calls,
               NEW end \in {"isolated", "failed", "accounting_pending"}, DispatchFails(r, c, end)
        PROVE  Goal
    <2>1. spend'[q] = spend[q] \/ (q = r /\ spend'[q] = Suspended(spend[q]))
      BY <1>0, <1>6 DEF DispatchFails, HostedTypeOK
    <2>2. q = r => spend[q].status # "settled"
      <3>1. q = r => flight[q][c] # "none"
        BY <1>6 DEF DispatchFails
      <3> QED
        BY <3>1, InFlight DEF Open
    <2>3. q = r => Moves(spend[q], Suspended(spend[q]))
      BY <1>0, <2>2, SuspendMoves
    <2> QED
      BY <1>s, <2>1, <2>3
  <1>7. ASSUME NEW r \in Runs, Cancel(r) PROVE Goal
    <2>1. spend'[q] = spend[q] \/ spend'[q] = SettledSpend(spend[q], cost[q])
      BY <1>0, <1>7 DEF Cancel, HostedTypeOK
    <2> QED
      BY <1>s, <1>t, <2>1
  <1>8. ASSUME NEW r \in Runs, Reconcile(r) PROVE Goal
    <2>1. spend'[q] = spend[q] \/ (q = r /\ spend'[q] = SettledSpend(spend[q], cost'[q]))
      BY <1>0, <1>8 DEF Reconcile, HostedTypeOK
    <2>2. q = r => \A c \in Calls : cost'[q][c].status \notin Open
      <3>1. q = r => cost'[q] = Attested(q)
        BY <1>0, <1>8 DEF Reconcile, HostedTypeOK
      <3>2. ASSUME NEW c \in Calls PROVE Attested(q)[c].status \notin Open
        <4>1. cost[q][c] \in CostRecord
          BY <1>0
        <4> QED
          BY <4>1 DEF Attested, CostRecord, Open
      <3> QED
        BY <3>1, <3>2
    <2>3. cost'[q] \in [Calls -> CostRecord]
      BY DEF HostedTypeOK
    <2>4. q = r => Moves(spend[q], SettledSpend(spend[q], cost'[q]))
      BY <1>0, <2>2, <2>3, SettleMoves
    <2> QED
      BY <1>s, <2>1, <2>4
  <1>9. ASSUME NEW d \in Documents, PurgeRows(d) PROVE Goal
    <2>1. spend'[q] = spend[q] \/ spend'[q] = SettledSpend(spend[q], cost[q])
      BY <1>9 DEF PurgeRows
    <2> QED
      BY <1>s, <1>t, <2>1
  <1>10. CASE LoseControl
    <2>1. \/ spend'[q] = spend[q]
          \/ spend[q].status = "reserved" /\ spend'[q] = Suspended(spend[q])
      BY <1>10 DEF LoseControl, Startup
    <2> QED
      BY <1>0, <1>s, <2>1, SuspendMoves
  <1>11. CASE UNCHANGED spend
    BY <1>11, <1>s
  <1>12. ASSUME NEW r \in Runs, SlotStep(r) PROVE Goal
    BY <1>2, <1>4, <1>11, <1>12 DEF SlotStep, Crash, OrphanEnds, LeaseElapses
  <1>13. ASSUME NEW r \in Runs, DispatchStep(r) PROVE Goal
    BY <1>5, <1>6, <1>11, <1>13 DEF DispatchStep, Reserve, Transport, NotSent
  <1>14. CASE Outside
    BY <1>7, <1>8, <1>10, <1>11, <1>14 DEF Outside, DeleteDocument, Drain
  <1> QED
    BY <1>1, <1>2, <1>3, <1>9, <1>11, <1>12, <1>13, <1>14
       DEF Next, PurgeFiles, DocumentExpires, NewDay

-----------------------------------------------------------------------------
(* The sums over all runs *)

\* The columns of the ledger, of a spend table sp and the charges ch.
AmountOf(sp) == [r \in Runs |-> sp[r].amount]
RealOf(ch) == [r \in Runs |-> Total(ch[r], Calls)]
HeldOf(sp, ch) == [r \in Runs |-> IF sp[r].status = "archived" THEN Total(ch[r], Calls)
                                  ELSE sp[r].amount]
DailyOf(sp, day) == [r \in Runs |-> IF sp[r].status \in Open \cup {"settled"} /\ sp[r].day = day
                                    THEN sp[r].amount ELSE 0]
BookedOf(sp) == {r \in Runs : sp[r].status \in Open \cup {"settled"}}
ArchivedOf(sp) == {r \in Runs : sp[r].status = "archived"}
OpenOf(sp) == {r \in Runs : sp[r].status \in Open}

\* What event_totals held before the first run.
BaseOf(a, sp, ch) == a - Total(RealOf(ch), ArchivedOf(sp))

\* What a spend row says of the sum t of the charges of its run.
RowSound(x, t) ==
    /\ t \in Nat
    /\ x.status = "none" => x.amount = 0 /\ t = 0
    /\ x.status = "archived" => x.amount = 0
    /\ x.status \in Open => x.amount = Envelope /\ t <= Envelope
    /\ x.status = "settled" => x.amount = t /\ t <= Envelope

Sound(sp, ch) ==
    /\ sp \in [Runs -> SpendRecord]
    /\ \A r \in Runs : RowSound(sp[r], Total(ch[r], Calls))

\* The rows of a run that are in order cover what was charged for it.
LEMMA RowsSound ==
    ASSUME NEW x \in SpendRecord, NEW k \in [Calls -> CostRecord], NEW ch \in [Calls -> Nat],
           NEW fl, \A c \in Calls : CallOK(k[c], ch[c], fl[c]), SpendOK(x, k, ch)
    PROVE  RowSound(x, Total(ch, Calls))
  <1>1. Total(ch, Calls) \in Nat
    BY ChargesNat
  <1>2. CASE x.status = "none"
    <2>1. \A c \in Calls : ch[c] = 0
      BY <1>2 DEF SpendOK
    <2>2. Total(ch, Calls) = 0
      BY <2>1, Constants, TotalZero
    <2>3. x.amount = 0
      BY <1>2 DEF SpendOK
    <2> QED
      BY <1>2, <2>2, <2>3 DEF RowSound, Open
  <1>3. CASE x.status = "archived"
    BY <1>1, <1>3 DEF SpendOK, RowSound, Open
  <1>4. CASE x.status \in Open
    <2>1. \A c \in Calls : k[c].status = "none" => ch[c] = 0
      BY <1>4 DEF SpendOK, Open
    <2>2. Total(ch, Calls) <= HeldSum(k)
      BY <2>1, ChargesHeld
    <2>3. HeldSum(k) <= Envelope /\ x.amount = Envelope /\ HeldSum(k) \in Nat
      BY <1>4, HeldNat DEF SpendOK
    <2>4. Total(ch, Calls) <= Envelope
      BY <1>1, <2>2, <2>3, Constants
    <2> QED
      BY <1>1, <1>4, <2>3, <2>4 DEF RowSound, Open
  <1>5. CASE x.status = "settled"
    BY <1>1, <1>5 DEF SpendOK, RowSound, Open
  <1> QED
    BY <1>2, <1>3, <1>4, <1>5 DEF SpendRecord, Open

\* The same for the tables of all runs.
LEMMA TablesSound ==
    ASSUME NEW sp \in [Runs -> SpendRecord], NEW k \in [Runs -> [Calls -> CostRecord]],
           NEW ch \in [Runs -> [Calls -> Nat]], NEW fl,
           \A r \in Runs : (\A c \in Calls : CallOK(k[r][c], ch[r][c], fl[r][c]))
                           /\ SpendOK(sp[r], k[r], ch[r])
    PROVE  Sound(sp, ch)
  <1> SUFFICES ASSUME NEW r \in Runs PROVE RowSound(sp[r], Total(ch[r], Calls))
    BY DEF Sound
  <1>1. sp[r] \in SpendRecord /\ k[r] \in [Calls -> CostRecord] /\ ch[r] \in [Calls -> Nat]
    OBVIOUS
  <1>2. (\A c \in Calls : CallOK(k[r][c], ch[r][c], fl[r][c])) /\ SpendOK(sp[r], k[r], ch[r])
    OBVIOUS
  <1> QED
    BY <1>1, <1>2, RowsSound

\* The invariant says that every envelope covers its charges.
LEMMA InvSound == ASSUME HostedInv PROVE Sound(spend, charged)
  BY TablesSound DEF HostedInv, HostedTypeOK, Money

\* The same of the state after a step.
LEMMA InvSoundNext == ASSUME HostedInv' PROVE Sound(spend', charged')
  BY TablesSound DEF HostedInv, HostedTypeOK, Money

\* Every column has natural numbers.
LEMMA ColumnsNat ==
    ASSUME NEW sp, NEW ch, Sound(sp, ch)
    PROVE  \A r \in Runs : /\ AmountOf(sp)[r] \in Nat /\ RealOf(ch)[r] \in Nat
                           /\ HeldOf(sp, ch)[r] \in Nat
                           /\ \A day : DailyOf(sp, day)[r] \in Nat
  BY DEF Sound, RowSound, AmountOf, RealOf, HeldOf, DailyOf, SpendRecord

\* The event's total is its base and what the ledger holds for every run.
LEMMA HeldTotal ==
    ASSUME NEW sp, NEW ch, Sound(sp, ch), NEW a \in Int
    PROVE  /\ a + Total(AmountOf(sp), BookedOf(sp))
                = BaseOf(a, sp, ch) + Total(HeldOf(sp, ch), Runs)
           /\ BaseOf(a, sp, ch) \in Int /\ Total(HeldOf(sp, ch), Runs) \in Nat
           /\ Total(AmountOf(sp), BookedOf(sp)) \in Nat
           /\ Total(RealOf(ch), ArchivedOf(sp)) \in Nat
  <1> DEFINE h == HeldOf(sp, ch)
             m == AmountOf(sp)
             t == RealOf(ch)
             B == BookedOf(sp)
             A == ArchivedOf(sp)
             U == Runs \ A
  <1>0. /\ IsFiniteSet(Runs) /\ IsFiniteSet(A) /\ IsFiniteSet(B) /\ IsFiniteSet(U)
        /\ A \subseteq Runs /\ B \subseteq U /\ U \subseteq Runs
    <2>1. A \subseteq Runs /\ U \subseteq Runs
      BY DEF ArchivedOf
    <2>2. B \subseteq U
      BY DEF ArchivedOf, BookedOf, Open
    <2>3. IsFiniteSet(Runs)
      BY Constants
    <2>4. IsFiniteSet(A) /\ IsFiniteSet(U)
      BY <2>1, <2>3, FS_Subset
    <2>5. IsFiniteSet(B)
      BY <2>2, <2>4, FS_Subset
    <2> QED
      BY <2>1, <2>2, <2>3, <2>4, <2>5
  <1>1. \A r \in Runs : h[r] \in Nat /\ m[r] \in Nat /\ t[r] \in Nat
    BY ColumnsNat
  <1>2. \A r \in A : h[r] = t[r]
    BY DEF HeldOf, RealOf, ArchivedOf
  <1>3. \A r \in U : h[r] = m[r]
    BY DEF HeldOf, AmountOf, ArchivedOf
  <1>4. \A r \in U \ B : m[r] = 0
    BY DEF AmountOf, ArchivedOf, BookedOf, Sound, RowSound, SpendRecord, Open
  <1>5. A \cap U = {} /\ A \cup U = Runs
    BY <1>0
  <1> HIDE DEF h, m, t, B, A, U
  <1>6. Total(h, A \cup U) = Total(h, A) + Total(h, U)
    BY <1>0, <1>1, <1>5, TotalUnion
  <1>7. Total(h, A) = Total(t, A)
    BY <1>0, <1>2, TotalEqual
  <1>8. Total(h, U) = Total(m, U)
    BY <1>0, <1>3, TotalEqual
  <1>9. Total(m, U) = Total(m, B)
    BY <1>0, <1>1, <1>4, TotalExtend
  <1>10. Total(h, Runs) = Total(t, A) + Total(m, B)
    BY <1>5, <1>6, <1>7, <1>8, <1>9
  <1>11. Total(t, A) \in Nat /\ Total(m, B) \in Nat
    BY <1>0, <1>1, TotalNat
  <1>12. BaseOf(a, sp, ch) = a - Total(t, A)
    BY DEF BaseOf, t, A
  <1>13. /\ a + Total(m, B) = BaseOf(a, sp, ch) + Total(h, Runs)
         /\ BaseOf(a, sp, ch) \in Int /\ Total(h, Runs) \in Nat
    BY <1>10, <1>11, <1>12
  <1> QED
    BY <1>11, <1>13 DEF h, m, B, t, A

\* What is booked for a day, as a sum over all runs.
LEMMA DailyTotal ==
    ASSUME NEW sp, NEW ch, Sound(sp, ch), NEW day
    PROVE  Total(AmountOf(sp), {r \in BookedOf(sp) : sp[r].day = day})
             = Total(DailyOf(sp, day), Runs)
  <1> DEFINE m == AmountOf(sp)
             f == DailyOf(sp, day)
             D == {r \in BookedOf(sp) : sp[r].day = day}
  <1>0. D \subseteq Runs /\ IsFiniteSet(D) /\ IsFiniteSet(Runs)
    BY Constants, FS_Subset DEF BookedOf
  <1>1. \A r \in D : f[r] = m[r]
    BY DEF DailyOf, AmountOf, BookedOf
  <1>2. \A r \in Runs \ D : f[r] = 0
    BY DEF DailyOf, BookedOf
  <1>3. \A r \in Runs : f[r] \in Int
    BY ColumnsNat
  <1> HIDE DEF m, f, D
  <1>4. Total(f, Runs) = Total(f, D)
    BY <1>0, <1>2, <1>3, TotalExtend
  <1>5. Total(f, D) = Total(m, D)
    BY <1>0, <1>1, TotalEqual
  <1>6. Total(m, D) = Total(f, Runs)
    BY <1>4, <1>5
  <1> QED
    BY <1>6 DEF m, f, D

\* The sums that the admission of a run reads, written over the booked rows.
LEMMA AmountsAre ==
    ASSUME NEW sp \in [Runs -> SpendRecord], sp = spend
    PROVE  /\ Amounts(Runs) = Total(AmountOf(sp), BookedOf(sp))
           /\ \A day : Amounts(Of(day)) = Total(AmountOf(sp), {r \in BookedOf(sp) : sp[r].day = day})
  <1>1. \A r \in Runs : Booked(r) <=> sp[r].status \in Open \cup {"settled"}
    BY DEF Booked, Open
  <1>2. {r \in Runs : Booked(r)} = BookedOf(sp)
    BY <1>1 DEF BookedOf
  <1>3. ASSUME NEW day
        PROVE  {r \in Of(day) : Booked(r)} = {r \in BookedOf(sp) : sp[r].day = day}
    BY <1>1 DEF BookedOf, Of
  <1> QED
    BY <1>2, <1>3 DEF Amounts, AmountOf

\* The same of the state after a step.
LEMMA AmountsAreNext ==
    ASSUME NEW sp \in [Runs -> SpendRecord], sp = spend'
    PROVE  /\ Amounts(Runs)' = Total(AmountOf(sp), BookedOf(sp))
           /\ \A day : Amounts(Of(day))' = Total(AmountOf(sp), {r \in BookedOf(sp) : sp[r].day = day})
  <1>1. \A r \in Runs : Booked(r)' <=> sp[r].status \in Open \cup {"settled"}
    BY DEF Booked, Open
  <1>2. {r \in Runs : Booked(r)}' = BookedOf(sp)
    BY <1>1 DEF BookedOf
  <1>3. ASSUME NEW day
        PROVE  {r \in Of(day)' : Booked(r)'} = {r \in BookedOf(sp) : sp[r].day = day}
    BY <1>1 DEF BookedOf, Of
  <1> QED
    BY <1>2, <1>3 DEF Amounts, AmountOf

\* Only a call that is sent charges, and only a run whose envelope is open.
LEMMA ChargeStep ==
    ASSUME HostedInv, Next, NEW q \in Runs
    PROVE  \/ charged'[q] = charged[q]
           \/ /\ spend[q].status \in Open
              /\ \E c \in Calls, amount \in 0 .. Envelope : Transport(q, c, amount)
  <1>1. ASSUME NEW r \in Runs, NEW c \in Calls, NEW amount \in 0 .. Envelope,
               Transport(r, c, amount)
        PROVE  charged'[q] = charged[q] \/ (q = r /\ spend[q].status \in Open)
    <2>1. q # r => charged'[q] = charged[q]
      BY <1>1 DEF Transport, HostedInv, HostedTypeOK
    <2>2. flight[r][c] # "none"
      BY <1>1 DEF Transport
    <2>3. spend[r].status \in Open
      BY <2>2, InFlight
    <2> QED
      BY <2>1, <2>3
  <1>2. ASSUME NEW r \in Runs, DispatchStep(r)
        PROVE  UNCHANGED charged \/ \E c \in Calls, amount \in 0 .. Envelope : Transport(r, c, amount)
    BY <1>2 DEF DispatchStep, Reserve, Settle, NotSent, DispatchFails
  <1>3. ASSUME NEW r \in Runs, CreateRun(r) \/ SlotStep(r) PROVE UNCHANGED charged
    BY <1>3 DEF CreateRun, SlotStep, Progress, PrepareStart, PrepareEnd, AnalysisOpen,
                AnalysisLock, AnalysisStart, AnalysisEnd, PublishAnalysis, Abort, Handle,
                Crash, OrphanEnds, LeaseElapses, Claim
  <1>4. CASE Outside
    BY <1>4 DEF Outside, Drain, Cancel, Reconcile, DeleteDocument, LoseControl
  <1> QED
    BY <1>1, <1>2, <1>3, <1>4
       DEF Next, PurgeFiles, PurgeRows, DocumentExpires, NewDay, ControlState, Maintain

\* Only _maintain moves event_totals.
LEMMA ArchivedStep ==
    ASSUME Next, \A n \in 0 .. Cardinality(Runs) : ~Maintain(n) PROVE UNCHANGED archived
  <1>1. ASSUME NEW r \in Runs, DispatchStep(r) PROVE UNCHANGED archived
    BY <1>1 DEF DispatchStep, Reserve, Transport, Settle, NotSent, DispatchFails
  <1>2. ASSUME NEW r \in Runs, CreateRun(r) \/ SlotStep(r) PROVE UNCHANGED archived
    BY <1>2 DEF CreateRun, SlotStep, Progress, PrepareStart, PrepareEnd, AnalysisOpen,
                AnalysisLock, AnalysisStart, AnalysisEnd, PublishAnalysis, Abort, Handle,
                Crash, OrphanEnds, LeaseElapses, Claim
  <1>3. CASE Outside
    BY <1>3 DEF Outside, Drain, Cancel, Reconcile, DeleteDocument, LoseControl
  <1> QED
    BY <1>1, <1>2, <1>3
       DEF Next, PurgeFiles, PurgeRows, DocumentExpires, NewDay, ControlState

\* Archiving moves exactly what was charged, so that the base of event_totals stays.
LEMMA BaseStep ==
    ASSUME HostedInv, HostedInv', Next
    PROVE  BaseOf(archived', spend', charged') = BaseOf(archived, spend, charged)
  <1> DEFINE t == RealOf(charged)
             t2 == RealOf(charged')
             A == ArchivedOf(spend)
             A2 == ArchivedOf(spend')
  <1>0. /\ Sound(spend, charged) /\ Sound(spend', charged') /\ archived \in Int
        /\ HostedTypeOK /\ HostedTypeOK'
    BY InvSound, InvSoundNext DEF HostedInv, HostedTypeOK
  <1>1. \A r \in Runs : t[r] \in Nat /\ t2[r] \in Nat
    BY <1>0, ColumnsNat
  <1>2. \A r \in A : t2[r] = t[r]
    BY ChargeStep DEF ArchivedOf, RealOf, Open
  <1>3. A \subseteq Runs /\ A2 \subseteq Runs /\ IsFiniteSet(A) /\ IsFiniteSet(A2)
    BY Constants, FS_Subset DEF ArchivedOf
  <1>4. Total(t2, A) = Total(t, A)
    <2> HIDE DEF A, t, t2
    <2> QED
      BY <1>2, <1>3, TotalEqual
  <1>5. CASE \A n \in 0 .. Cardinality(Runs) : ~Maintain(n)
    <2>1. archived' = archived
      BY <1>5, ArchivedStep
    <2>2. ASSUME NEW r \in Runs
          PROVE  spend'[r].status = "archived" <=> spend[r].status = "archived"
      <3>1. CASE CreateRun(r)
        <4>1. spend'[r].status = "reserved" /\ run[r].status = "absent"
          BY <1>0, <3>1 DEF CreateRun, HostedTypeOK
        <4>2. spend[r].status = "none"
          BY <4>1 DEF HostedInv, Control
        <4> QED
          BY <4>1, <4>2
      <3>2. CASE Moves(spend[r], spend'[r])
        BY <3>2 DEF Moves, Open
      <3> QED
        BY <1>0, <1>5, <3>1, <3>2, SpendStep DEF Archives
    <2>3. A2 = A
      BY <2>2 DEF ArchivedOf
    <2> QED
      BY <1>4, <2>1, <2>3 DEF BaseOf
  <1>6. ASSUME NEW n \in 0 .. Cardinality(Runs), Maintain(n)
        PROVE  BaseOf(archived', spend', charged') = BaseOf(archived, spend, charged)
    <2> DEFINE O == OldSettled(ExpiredSpend, n)
               e == [r \in Runs |-> ExpiredSpend[r].amount]
    <2>1. archived' = archived + Total(e, O) /\ charged' = charged
      BY <1>6 DEF Maintain
    <2>2. O \subseteq Runs /\ IsFiniteSet(O)
      BY Constants, FS_Subset DEF OldSettled
    <2>3. \A r \in O : e[r] = t[r]
      <3>1. ASSUME NEW r \in O PROVE e[r] = t[r]
        <4>1. ExpiredSpend[r].status = "settled" /\ r \in Runs
          BY DEF OldSettled
        <4>2. SpendOK(ExpiredSpend[r], cost[r], charged[r])
          BY <4>1, ExpiredMoney
        <4> QED
          BY <4>1, <4>2 DEF SpendOK, RealOf
      <3> QED
        BY <3>1
    <2>4. A2 = A \cup O /\ A \cap O = {}
      <3>1. ASSUME NEW r \in O PROVE spend'[r].status = "archived" /\ spend[r].status # "archived"
        <4>1. /\ ExpiredSpend[r].status = "settled" /\ r \in Runs
              /\ ExpiredSpend[r] \in SpendRecord
          BY <1>0, ExpiredTypes DEF OldSettled
        <4>2. spend'[r] = [ExpiredSpend[r] EXCEPT !.status = "archived", !.amount = 0]
          BY <1>6, <4>1 DEF Maintain
        <4> QED
          BY <4>1, <4>2, ExpiredMoves DEF Moves, Open, SpendRecord
      <3>2. ASSUME NEW r \in Runs \ O
            PROVE  spend'[r].status = "archived" <=> spend[r].status = "archived"
        <4>1. spend'[r] = ExpiredSpend[r]
          BY <1>6 DEF Maintain
        <4> QED
          BY <4>1, ExpiredMoves DEF Moves, Open
      <3> HIDE DEF O
      <3> QED
        BY <2>2, <3>1, <3>2 DEF ArchivedOf
    <2>5. t2 = t
      BY <2>1
    <2> HIDE DEF O, e, t, t2, A, A2
    <2>6. Total(t, A \cup O) = Total(t, A) + Total(t, O)
      BY <1>1, <1>3, <2>2, <2>4, TotalUnion
    <2>7. Total(e, O) = Total(t, O)
      BY <2>2, <2>3, TotalEqual
    <2>8. Total(t, A) \in Int /\ Total(t, O) \in Int
      BY <1>1, <1>3, <2>2, TotalElement
    <2>9. archived' - Total(t2, A2) = archived - Total(t, A)
      BY <1>0, <2>1, <2>4, <2>5, <2>6, <2>7, <2>8
    <2> QED
      BY <2>9 DEF BaseOf, t, t2, A, A2
  <1> QED
    BY <1>5, <1>6

\* What the ledger holds for a run that is not being created falls only when its envelope
\* is closed; what its day counts never rises.
LEMMA HeldStep ==
    ASSUME HostedInv, HostedInv', Next, NEW q \in Runs, ~CreateRun(q)
    PROVE  /\ HeldOf(spend', charged')[q] <= HeldOf(spend, charged)[q]
           /\ \/ HeldOf(spend', charged')[q] = HeldOf(spend, charged)[q]
              \/ q \in OpenOf(spend) /\ q \notin OpenOf(spend')
           /\ q \in OpenOf(spend') => q \in OpenOf(spend)
           /\ \A day : DailyOf(spend', day)[q] <= DailyOf(spend, day)[q]
  <1> DEFINE x == spend[q]
             y == spend'[q]
             t == Total(charged[q], Calls)
             t2 == Total(charged'[q], Calls)
             h == HeldOf(spend, charged)[q]
             h2 == HeldOf(spend', charged')[q]
  <1>0. HostedTypeOK' /\ x \in SpendRecord /\ y \in SpendRecord
    BY DEF HostedInv, HostedTypeOK
  <1>1. RowSound(x, t) /\ RowSound(y, t2)
    BY InvSound, InvSoundNext DEF Sound
  <1>2. h = (IF x.status = "archived" THEN t ELSE x.amount)
    BY DEF HeldOf
  <1>3. h2 = (IF y.status = "archived" THEN t2 ELSE y.amount)
    BY DEF HeldOf
  <1>4. \A day : DailyOf(spend, day)[q] =
          IF x.status \in Open \cup {"settled"} /\ x.day = day THEN x.amount ELSE 0
    BY DEF DailyOf
  <1>5. \A day : DailyOf(spend', day)[q] =
          IF y.status \in Open \cup {"settled"} /\ y.day = day THEN y.amount ELSE 0
    BY DEF DailyOf
  <1>6. (q \in OpenOf(spend) <=> x.status \in Open) /\ (q \in OpenOf(spend') <=> y.status \in Open)
    BY DEF OpenOf
  <1>7. x.status \notin Open => t2 = t
    BY ChargeStep
  <1>8. Archives(q) => t2 = t /\ x.status \in Open \cup {"settled"} /\ y.status = "archived"
    BY DEF Archives, Maintain
  <1>9. Moves(x, y) \/ Archives(q)
    BY <1>0, SpendStep
  <1> HIDE DEF x, y, t, t2, h, h2
  <1>10. CASE Moves(x, y)
    <2>1. /\ h2 <= h
          /\ h2 = h \/ (x.status \in Open /\ y.status \notin Open)
          /\ y.status \in Open => x.status \in Open
      BY <1>0, <1>1, <1>2, <1>3, <1>7, <1>10, Constants DEF Moves, RowSound, Open, SpendRecord
    <2>2. x.status \in Open \cup {"settled"} => y.amount <= x.amount
      BY <1>0, <1>1, <1>7, <1>10, Constants DEF Moves, RowSound, Open, SpendRecord
    <2>3. /\ y.day = x.day /\ x.amount \in Nat
          /\ y.status \in Open \cup {"settled"} <=> x.status \in Open \cup {"settled"}
      BY <1>0, <1>10 DEF Moves, Open, SpendRecord
    <2>4. \A day : DailyOf(spend', day)[q] <= DailyOf(spend, day)[q]
      BY <1>4, <1>5, <2>2, <2>3
    <2> QED
      BY <1>6, <2>1, <2>4 DEF h, h2
  <1>11. CASE Archives(q)
    <2>1. /\ h2 <= h
          /\ h2 = h \/ (x.status \in Open /\ y.status \notin Open)
          /\ y.status \notin Open
      BY <1>0, <1>1, <1>2, <1>3, <1>8, <1>11, Constants DEF RowSound, Open, SpendRecord
    <2>2. \A day : DailyOf(spend', day)[q] = 0 /\ 0 <= DailyOf(spend, day)[q]
      BY <1>0, <1>4, <1>5, <1>8, <1>11 DEF Open, SpendRecord
    <2>3. \A day : DailyOf(spend', day)[q] <= DailyOf(spend, day)[q]
      BY <2>2
    <2> QED
      BY <1>6, <2>1, <2>3 DEF h, h2
  <1> QED
    BY <1>9, <1>10, <1>11

\* What create_run does to the columns.
LEMMA CreateStep ==
    ASSUME HostedInv, HostedInv', NEW r \in Runs, CreateRun(r)
    PROVE  /\ spend[r].status = "none" /\ charged' = charged /\ archived' = archived
           /\ HeldOf(spend, charged)[r] = 0 /\ RealOf(charged)[r] = 0
           /\ HeldOf(spend', charged') = [HeldOf(spend, charged) EXCEPT ![r] = Envelope]
           /\ r \notin OpenOf(spend) /\ OpenOf(spend') = OpenOf(spend) \cup {r}
           /\ \A day : /\ DailyOf(spend, day)[r] = 0
                       /\ DailyOf(spend', day)[r] = IF day = today THEN Envelope ELSE 0
                       /\ \A q \in Runs \ {r} : DailyOf(spend', day)[q] = DailyOf(spend, day)[q]
  <1>0. /\ spend \in [Runs -> SpendRecord] /\ run[r].status = "absent"
        /\ charged' = charged /\ archived' = archived
    BY DEF HostedInv, HostedTypeOK, CreateRun
  <1>1. /\ spend'[r].status = "reserved" /\ spend'[r].amount = Envelope /\ spend'[r].day = today
        /\ \A q \in Runs \ {r} : spend'[q] = spend[q]
    BY <1>0 DEF CreateRun
  <1>2. spend[r].status = "none"
    BY <1>0 DEF HostedInv, Control
  <1>3. RowSound(spend[r], Total(charged[r], Calls))
    BY InvSound DEF Sound
  <1>4. spend[r].amount = 0 /\ Total(charged[r], Calls) = 0
    BY <1>2, <1>3 DEF RowSound
  <1>5. HeldOf(spend, charged)[r] = 0 /\ RealOf(charged)[r] = 0
    BY <1>2, <1>4 DEF HeldOf, RealOf
  <1>6. HeldOf(spend', charged') = [HeldOf(spend, charged) EXCEPT ![r] = Envelope]
    <2>1. HeldOf(spend', charged')[r] = Envelope
      BY <1>1 DEF HeldOf
    <2>2. ASSUME NEW q \in Runs, q # r
          PROVE  HeldOf(spend', charged')[q] = HeldOf(spend, charged)[q]
      BY <1>0, <1>1, <2>2 DEF HeldOf
    <2>3. HeldOf(spend', charged') = [q \in Runs |-> HeldOf(spend', charged')[q]]
      BY DEF HeldOf
    <2>4. HeldOf(spend, charged) = [q \in Runs |-> HeldOf(spend, charged)[q]]
      BY DEF HeldOf
    <2> QED
      BY <2>1, <2>2, <2>3, <2>4
  <1>7. r \notin OpenOf(spend) /\ OpenOf(spend') = OpenOf(spend) \cup {r}
    BY <1>1, <1>2 DEF OpenOf, Open
  <1>8. ASSUME NEW day
        PROVE  /\ DailyOf(spend, day)[r] = 0
               /\ DailyOf(spend', day)[r] = IF day = today THEN Envelope ELSE 0
               /\ \A q \in Runs \ {r} : DailyOf(spend', day)[q] = DailyOf(spend, day)[q]
    BY <1>1, <1>2 DEF DailyOf, Open
  <1> QED
    BY <1>0, <1>2, <1>5, <1>6, <1>7, <1>8

\* The totals before and after a step.
LEMMA TotalsAre ==
    ASSUME HostedInv, HostedInv'
    PROVE  /\ archived + Amounts(Runs)
                = BaseOf(archived, spend, charged) + Total(HeldOf(spend, charged), Runs)
           /\ archived' + Amounts(Runs)'
                = BaseOf(archived', spend', charged') + Total(HeldOf(spend', charged'), Runs)
           /\ {BaseOf(archived, spend, charged), BaseOf(archived', spend', charged')} \subseteq Int
           /\ Amounts(Runs) \in Nat /\ archived \in Nat
           /\ \A day : /\ Amounts(Of(day)) = Total(DailyOf(spend, day), Runs)
                       /\ Amounts(Of(day))' = Total(DailyOf(spend', day), Runs)
  <1>1. /\ spend \in [Runs -> SpendRecord] /\ spend' \in [Runs -> SpendRecord]
        /\ archived \in Nat /\ archived' \in Nat
        /\ archived \in Int /\ archived' \in Int
    BY DEF HostedInv, HostedTypeOK
  <1>2. Sound(spend, charged) /\ Sound(spend', charged')
    BY InvSound, InvSoundNext
  <1>3. /\ Amounts(Runs) = Total(AmountOf(spend), BookedOf(spend))
        /\ Amounts(Runs)' = Total(AmountOf(spend'), BookedOf(spend'))
    BY <1>1, AmountsAre, AmountsAreNext
  <1>4. ASSUME NEW day
        PROVE  /\ Amounts(Of(day)) = Total(DailyOf(spend, day), Runs)
               /\ Amounts(Of(day))' = Total(DailyOf(spend', day), Runs)
    <2> DEFINE D == {r \in BookedOf(spend) : spend[r].day = day}
               D2 == {r \in BookedOf(spend') : spend'[r].day = day}
    <2>1. Amounts(Of(day)) = Total(AmountOf(spend), D)
      BY <1>1, AmountsAre
    <2>2. Amounts(Of(day))' = Total(AmountOf(spend'), D2)
      BY <1>1, AmountsAreNext
    <2>3. Total(AmountOf(spend), D) = Total(DailyOf(spend, day), Runs)
      BY <1>2, DailyTotal
    <2>4. Total(AmountOf(spend'), D2) = Total(DailyOf(spend', day), Runs)
      BY <1>2, DailyTotal
    <2> HIDE DEF D, D2
    <2> QED
      BY <2>1, <2>2, <2>3, <2>4
  <1>5. /\ archived + Total(AmountOf(spend), BookedOf(spend))
             = BaseOf(archived, spend, charged) + Total(HeldOf(spend, charged), Runs)
        /\ BaseOf(archived, spend, charged) \in Int
        /\ Total(AmountOf(spend), BookedOf(spend)) \in Nat
    BY <1>1, <1>2, HeldTotal
  <1>6. /\ archived' + Total(AmountOf(spend'), BookedOf(spend'))
             = BaseOf(archived', spend', charged') + Total(HeldOf(spend', charged'), Runs)
        /\ BaseOf(archived', spend', charged') \in Int
    BY <1>1, <1>2, HeldTotal
  <1> QED
    BY <1>1, <1>3, <1>4, <1>5, <1>6

\* Every step keeps the caps of the day and of the event.
LEMMA CapsStep ==
    ASSUME HostedInv, HostedInv', CapsHold, Next PROVE CapsHold'
  <1> DEFINE h == HeldOf(spend, charged)
             h2 == HeldOf(spend', charged')
             b == BaseOf(archived, spend, charged)
             sum == archived + Amounts(Runs)
             sum2 == archived' + Amounts(Runs)'
  <1>0. \A q \in Runs : h[q] \in Int /\ h2[q] \in Int
                        /\ \A day : DailyOf(spend, day)[q] \in Int /\ DailyOf(spend', day)[q] \in Int
    BY InvSound, InvSoundNext, ColumnsNat
  <1>1. /\ sum = b + Total(h, Runs) /\ sum2 = b + Total(h2, Runs) /\ b \in Int
        /\ Amounts(Runs) \in Nat /\ archived \in Nat
        /\ \A day : /\ Amounts(Of(day)) = Total(DailyOf(spend, day), Runs)
                    /\ Amounts(Of(day))' = Total(DailyOf(spend', day), Runs)
    BY TotalsAre, BaseStep
  <1>2. Total(h, Runs) \in Int /\ Total(h2, Runs) \in Int
        /\ \A day : /\ Total(DailyOf(spend, day), Runs) \in Int
                    /\ Total(DailyOf(spend', day), Runs) \in Int
    <2> HIDE DEF h, h2
    <2> QED
      BY <1>0, Constants, TotalElement
  <1>3. sum <= EventCap /\ \A day \in 1 .. MaxDay : Total(DailyOf(spend, day), Runs) <= DayCap
    BY <1>1 DEF CapsHold
  <1>4. ASSUME NEW r \in Runs, CreateRun(r)
        PROVE  /\ sum2 <= EventCap
               /\ \A day \in 1 .. MaxDay : Total(DailyOf(spend', day), Runs) <= DayCap
    <2>1. Total(DailyOf(spend, today), Runs) + Envelope <= DayCap /\ sum + Envelope <= EventCap
      <3>1. /\ Amounts(Of(today)) + Envelope <= DayCap
            /\ Amounts(Runs) + archived + Envelope <= EventCap
        BY <1>4 DEF CreateRun, WithinCaps
      <3> QED
        BY <1>1, <3>1, Constants
    <2>2. h2[r] = Envelope /\ h[r] = 0 /\ \A q \in Runs : q # r => h[q] = h2[q]
      <3>1. /\ h2 = [h EXCEPT ![r] = Envelope] /\ h[r] = 0
            /\ h = [q \in Runs |-> h[q]]
        BY <1>4, CreateStep DEF HeldOf
      <3> HIDE DEF h, h2
      <3> QED
        BY <3>1
    <2>3. Total(h2, Runs) = Total(h, Runs) - h[r] + h2[r]
      <3> HIDE DEF h, h2
      <3> QED
        BY <1>0, <2>2, Constants, TotalUpdate
    <2>4. sum2 = sum + Envelope
      <3> HIDE DEF h, h2, b, sum, sum2
      <3> QED
        BY <1>1, <1>2, <2>2, <2>3, Constants
    <2>5. ASSUME NEW day \in 1 .. MaxDay PROVE Total(DailyOf(spend', day), Runs) <= DayCap
      <3> DEFINE g == DailyOf(spend, day)
                 g2 == DailyOf(spend', day)
      <3>1. /\ g[r] = 0 /\ g2[r] = (IF day = today THEN Envelope ELSE 0)
            /\ \A q \in Runs : q # r => g[q] = g2[q]
        BY <1>4, CreateStep
      <3>2. \A q \in Runs : g[q] \in Int /\ g2[q] \in Int
        BY <1>0
      <3>3. Total(g, Runs) \in Int /\ Total(g, Runs) <= DayCap
            /\ (day = today => Total(g, Runs) + Envelope <= DayCap)
        BY <1>2, <1>3, <2>1
      <3> HIDE DEF g, g2
      <3>4. Total(g2, Runs) = Total(g, Runs) - g[r] + g2[r]
        BY <3>1, <3>2, Constants, TotalUpdate
      <3>5. Total(g2, Runs) <= DayCap
        BY <3>1, <3>3, <3>4, Constants
      <3> QED
        BY <3>5 DEF g2
    <2> QED
      BY <2>1, <2>4, <2>5
  <1>5. ASSUME \A r \in Runs : ~CreateRun(r)
        PROVE  /\ sum2 <= EventCap
               /\ \A day \in 1 .. MaxDay : Total(DailyOf(spend', day), Runs) <= DayCap
    <2>1. \A q \in Runs : h2[q] <= h[q] /\ \A day : DailyOf(spend', day)[q] <= DailyOf(spend, day)[q]
      BY <1>5, HeldStep
    <2>2. Total(h2, Runs) <= Total(h, Runs)
      <3> HIDE DEF h, h2
      <3> QED
        BY <1>0, <2>1, Constants, TotalMonotone
    <2>3. ASSUME NEW day PROVE Total(DailyOf(spend', day), Runs) <= Total(DailyOf(spend, day), Runs)
      BY <1>0, <2>1, Constants, TotalMonotone
    <2>4. sum2 <= EventCap
      <3> HIDE DEF h, h2, b, sum, sum2
      <3> QED
        BY <1>1, <1>2, <1>3, <2>2, Constants
    <2>5. ASSUME NEW day \in 1 .. MaxDay PROVE Total(DailyOf(spend', day), Runs) <= DayCap
      BY <1>2, <1>3, <2>3, Constants
    <2> HIDE DEF h, h2, b, sum, sum2
    <2> QED
      BY <2>4, <2>5
  <1>6. sum2 <= EventCap /\ \A day \in 1 .. MaxDay : Total(DailyOf(spend', day), Runs) <= DayCap
    <2> HIDE DEF h, h2, b, sum, sum2
    <2> QED
      BY <1>4, <1>5
  <1> QED
    BY <1>1, <1>6 DEF CapsHold

\* The caps hold at the start.
LEMMA CapsInit == Init => CapsHold
  <1> SUFFICES ASSUME Init PROVE CapsHold
    OBVIOUS
  <1>1. \A r \in Runs : ~Booked(r)
    BY DEF Init, Booked
  <1>2. {r \in Runs : Booked(r)} = {} /\ \A day : {r \in Of(day) : Booked(r)} = {}
    BY <1>1 DEF Of
  <1>3. Amounts(Runs) = 0 /\ \A day : Amounts(Of(day)) = 0
    BY <1>2, TotalEmpty DEF Amounts
  <1>4. archived \in Nat /\ archived <= EventCap
    BY Constants DEF Init
  <1> QED
    BY <1>3, <1>4, Constants DEF CapsHold

\* create_run checks the caps once: calls, failures, cancellations, settlements and
\* archiving that come later never lift the booked money above them.
THEOREM CapsAreKept == Spec => []CapsHold
  <1>1. HostedInv /\ HostedInv' /\ CapsHold /\ [Next]_vars => CapsHold'
    <2>1. ASSUME CapsHold, UNCHANGED vars PROVE CapsHold'
      BY <2>1 DEF vars, CapsHold, Amounts, Of, Booked
    <2> QED
      BY <2>1, CapsStep
  <1> QED
    BY <1>1, CapsInit, HostedInductive, PTL DEF Spec

\* event_totals is what it was before the first run and what archived runs were charged.
BaseKept == BaseOf(archived, spend, charged) \in Earlier

\* Before the first run, event_totals is what was spent earlier.
LEMMA BaseInit == Init => BaseKept
  <1> SUFFICES ASSUME Init PROVE BaseKept
    OBVIOUS
  <1>1. ArchivedOf(spend) = {}
    BY DEF Init, ArchivedOf
  <1>2. Total(RealOf(charged), {}) = 0
    BY TotalEmpty
  <1>3. archived \in Earlier /\ archived \in Int
    BY Constants DEF Init
  <1>4. BaseOf(archived, spend, charged) = archived
    BY <1>1, <1>2, <1>3 DEF BaseOf
  <1> QED
    BY <1>3, <1>4 DEF BaseKept

\* However runs are archived, the rest of event_totals is what was spent earlier.
LEMMA BaseAlways == Spec => []BaseKept
  <1>1. HostedInv /\ HostedInv' /\ BaseKept /\ [Next]_vars => BaseKept'
    <2>1. ASSUME BaseKept, UNCHANGED vars PROVE BaseKept'
      BY <2>1 DEF vars, BaseKept
    <2> QED
      BY <2>1, BaseStep DEF BaseKept
  <1> QED
    BY <1>1, BaseInit, HostedInductive, PTL DEF Spec

\* dispatch, _settle_envelope, _maintain and reconcile: no charge of a provider is missing
\* from the ledger, and what is settled or archived is booked with exactly its charges.
THEOREM MoneyIsAccounted == Spec => []MoneyAccounted
  <1>1. HostedInv /\ BaseKept => MoneyAccounted
    <2> SUFFICES ASSUME HostedInv, BaseKept PROVE MoneyAccounted
      OBVIOUS
    <2>1. \A r \in Runs : spend[r] \in SpendRecord /\ RowSound(spend[r], Total(charged[r], Calls))
      BY InvSound DEF Sound
    <2>2. ASSUME NEW r \in Runs
          PROVE  /\ Booked(r) => Total(charged[r], Calls) <= spend[r].amount
                 /\ spend[r].status = "settled" => Total(charged[r], Calls) = spend[r].amount
                 /\ spend[r].status = "none" => Total(charged[r], Calls) = 0
      <3>1. spend[r] \in SpendRecord /\ RowSound(spend[r], Total(charged[r], Calls))
        BY <2>1
      <3> QED
        BY <3>1 DEF Booked, RowSound, Open, SpendRecord
    <2>3. archived - Total([r \in Runs |-> Total(charged[r], Calls)],
                           {r \in Runs : spend[r].status = "archived"}) \in Earlier
      BY DEF BaseKept, BaseOf, RealOf, ArchivedOf
    <2> QED
      BY <2>2, <2>3 DEF MoneyAccounted
  <1> QED
    BY <1>1, BaseAlways, HostedInductive, PTL

-----------------------------------------------------------------------------
(* The spend table implements the abstract ledger *)

\* The sum of the abstract ledger is the sum of this module.
LEMMA RunTotal == \A f, S : RunLedger!Total(f, S) = Total(f, S)
  BY DEF RunLedger!Total, RunLedger!MapThenSumSet, RunLedger!MapThenFoldSet,
         Total, MapThenSumSet, MapThenFoldSet

\* create_run admits an entry.
LEMMA CreateHolds ==
    ASSUME HostedInv, HostedInv', Next, NEW r \in Runs, CreateRun(r) PROVE RunLedger!Next
  <1> DEFINE h == HeldOf(spend, charged)
             h2 == HeldOf(spend', charged')
             b == BaseOf(archived, spend, charged)
             sum == archived + Amounts(Runs)
             sum2 == archived' + Amounts(Runs)'
  <1>1. /\ h[r] = 0 /\ RealOf(charged)[r] = 0 /\ charged' = charged
        /\ h2 = [h EXCEPT ![r] = Envelope]
        /\ r \notin OpenOf(spend) /\ OpenOf(spend') = OpenOf(spend) \cup {r}
    BY CreateStep
  <1>2. /\ sum = b + Total(h, Runs) /\ sum2 = b + Total(h2, Runs) /\ b \in Int
        /\ Amounts(Runs) \in Nat /\ archived \in Nat
    BY TotalsAre, BaseStep
  <1>3. Amounts(Runs) + archived + Envelope <= EventCap
    BY DEF CreateRun, WithinCaps
  <1>4. Envelope \in 0 .. EventCap /\ sum + Envelope <= EventCap
    BY <1>2, <1>3, Constants
  <1>5. \A q \in Runs : h[q] \in Int /\ h2[q] \in Int
    BY InvSound, InvSoundNext, ColumnsNat
  <1>6. h2[r] = Envelope /\ \A q \in Runs : q # r => h[q] = h2[q]
    <2>1. h = [q \in Runs |-> h[q]]
      BY DEF HeldOf
    <2> HIDE DEF h, h2
    <2> QED
      BY <1>1, <2>1
  <1>7. sum2 = sum + Envelope
    <2> HIDE DEF h, h2, b, sum, sum2
    <2>1. Total(h2, Runs) = Total(h, Runs) - h[r] + h2[r]
      BY <1>5, <1>6, Constants, TotalUpdate
    <2>2. Total(h, Runs) \in Int
      BY <1>5, Constants, TotalElement
    <2> QED
      BY <1>1, <1>2, <1>6, <2>1, <2>2, Constants
  <1>8. RunLedger!Hold(r, Envelope)
    BY <1>1, <1>4, <1>7 DEF RunLedger!Hold, HeldOf, RealOf, OpenOf, Open
  <1> QED
    BY <1>4, <1>8 DEF RunLedger!Next

\* A call that is sent charges its entry.
LEMMA TransportCharges ==
    ASSUME HostedInv, HostedInv', Next, NEW r \in Runs, NEW c \in Calls,
           NEW amount \in 0 .. Envelope, Transport(r, c, amount)
    PROVE  RunLedger!Next
  <1> DEFINE h == HeldOf(spend, charged)
             t == RealOf(charged)
             t2 == RealOf(charged')
  <1>0. /\ charged \in [Runs -> [Calls -> Nat]] /\ Money(r) /\ flight[r][c] = "reserved"
        /\ charged' = [charged EXCEPT ![r][c] = amount] /\ amount \in Nat
        /\ spend' = spend /\ archived' = archived
    BY Constants DEF HostedInv, HostedTypeOK, Transport
  <1>1. spend[r].status \in Open
    BY <1>0, InFlight
  <1>2. charged[r][c] = 0
    BY <1>0 DEF Money, CallOK
  <1>3. /\ \A q \in Runs : q # r => charged'[q] = charged[q]
        /\ charged'[r] = [charged[r] EXCEPT ![c] = amount]
    BY <1>0
  <1>4. t2[r] = t[r] + amount /\ t[r] \in Nat
    <2> DEFINE f == charged[r]
               g == charged'[r]
    <2>1. /\ \A e \in Calls : f[e] \in Int /\ g[e] \in Int
          /\ \A e \in Calls : e # c => f[e] = g[e]
          /\ f[c] = 0 /\ g[c] = amount
      BY <1>0, <1>2, <1>3
    <2>2. t[r] = Total(f, Calls) /\ t2[r] = Total(g, Calls)
      BY DEF RealOf
    <2>3. t[r] \in Nat
      BY InvSound, ColumnsNat
    <2> HIDE DEF f, g, t, t2
    <2>4. Total(g, Calls) = Total(f, Calls) - f[c] + g[c]
      BY <2>1, Constants, TotalUpdate
    <2> QED
      BY <1>0, <2>1, <2>2, <2>3, <2>4
  <1>5. t2 = [t EXCEPT ![r] = @ + amount]
    <2>1. \A q \in Runs : q # r => t2[q] = t[q]
      BY <1>3 DEF RealOf
    <2>2. t = [q \in Runs |-> t[q]] /\ t2 = [q \in Runs |-> t2[q]]
      BY DEF RealOf
    <2> HIDE DEF t, t2
    <2> QED
      BY <1>4, <2>1, <2>2
  <1>6. HeldOf(spend', charged') = h
    <2>1. \A q \in Runs : spend[q].status = "archived" => charged'[q] = charged[q]
      BY <1>1, <1>3 DEF Open
    <2> QED
      BY <1>0, <2>1 DEF HeldOf
  <1>7. h[r] = Envelope /\ t2[r] <= Envelope
    <2>1. RowSound(spend[r], Total(charged[r], Calls)) /\ RowSound(spend'[r], Total(charged'[r], Calls))
      BY InvSound, InvSoundNext DEF Sound
    <2> QED
      BY <1>0, <1>1, <2>1 DEF RowSound, HeldOf, RealOf, Open
  <1>8. OpenOf(spend') = OpenOf(spend) /\ r \in OpenOf(spend)
    BY <1>0, <1>1 DEF OpenOf
  <1>9. Amounts(Runs)' = Amounts(Runs)
    BY <1>0 DEF Amounts, Booked
  <1>10. t[r] + amount <= h[r] /\ amount \in 0 .. h[r]
    BY <1>0, <1>4, <1>7, Constants
  <1>11. RunLedger!Charge(r, amount)
    BY <1>0, <1>5, <1>6, <1>8, <1>9, <1>10
       DEF RunLedger!Charge, HeldOf, RealOf, OpenOf, Open
  <1>12. amount \in 0 .. (IF spend[r].status = "archived" THEN Total(charged[r], Calls)
                          ELSE spend[r].amount)
    BY <1>10 DEF HeldOf
  <1> QED
    BY <1>11, <1>12 DEF RunLedger!Next

\* Every other step settles the envelopes it closes, often none.
LEMMA OthersSettle ==
    ASSUME HostedInv, HostedInv', Next, \A r \in Runs : ~CreateRun(r), UNCHANGED charged
    PROVE  RunLedger!Next
  <1> DEFINE h == HeldOf(spend, charged)
             h2 == HeldOf(spend', charged')
             b == BaseOf(archived, spend, charged)
             sum == archived + Amounts(Runs)
             sum2 == archived' + Amounts(Runs)'
             O == OpenOf(spend)
             O2 == OpenOf(spend')
             S == O \ O2
             t == RealOf(charged)
  <1>0. IsFiniteSet(Runs) /\ O \subseteq Runs /\ O2 \subseteq Runs /\ S \subseteq Runs
    BY Constants DEF OpenOf
  <1>1. \A q \in Runs : h[q] \in Nat /\ h2[q] \in Nat
    BY InvSound, InvSoundNext, ColumnsNat
  <1>2. \A q \in Runs : /\ h2[q] <= h[q] /\ (h2[q] = h[q] \/ q \in S)
                        /\ q \in O2 => q \in O
    BY HeldStep
  <1>3. \A q \in S : t[q] <= h2[q]
    <2>1. ASSUME NEW q \in S PROVE t[q] <= h2[q]
      <3>1. q \in Runs /\ spend'[q].status \notin Open /\ spend[q].status \in Open
        BY DEF OpenOf
      <3>2. /\ spend'[q] \in SpendRecord /\ RowSound(spend'[q], Total(charged'[q], Calls))
            /\ spend[q] \in SpendRecord
        BY <3>1, InvSound, InvSoundNext DEF Sound
      <3>3. spend'[q].status # "none"
        <4>1. CASE Moves(spend[q], spend'[q])
          BY <3>1, <4>1 DEF Moves, Open
        <4>2. CASE Archives(q)
          BY <4>2 DEF Archives
        <4> QED
          BY <3>1, <4>1, <4>2, SpendStep DEF HostedInv
      <3>4. t[q] = Total(charged'[q], Calls)
        BY <3>1 DEF RealOf
      <3>5. h2[q] = IF spend'[q].status = "archived" THEN Total(charged'[q], Calls)
                    ELSE spend'[q].amount
        BY <3>1 DEF HeldOf
      <3> QED
        BY <3>1, <3>2, <3>3, <3>4, <3>5 DEF RowSound, SpendRecord, Open
    <2> QED
      BY <2>1
  <1>4. /\ sum = b + Total(h, Runs) /\ sum2 = b + Total(h2, Runs) /\ b \in Int
    BY TotalsAre, BaseStep
  <1>5. sum2 = sum - Total(h, S) + Total(h2, S)
    <2>1. \A q \in Runs \ S : h[q] = h2[q]
      BY <1>2
    <2> HIDE DEF h, h2, b, sum, sum2, S
    <2>2. Total(h2, Runs) = Total(h, Runs) - Total(h, S) + Total(h2, S)
      BY <1>0, <1>1, <2>1, TotalReplace
    <2>3. IsFiniteSet(S)
      BY <1>0, FS_Subset
    <2>4. Total(h, Runs) \in Int /\ Total(h, S) \in Int /\ Total(h2, S) \in Int
      BY <1>0, <1>1, <2>3, TotalElement
    <2> QED
      BY <1>4, <2>2, <2>4
  <1>6. O2 = O \ S
    <2> HIDE DEF O, O2
    <2> QED
      BY <1>0, <1>2
  <1>7. h2 \in [Runs -> Nat]
    <2>1. h2 = [q \in Runs |-> h2[q]]
      BY DEF HeldOf
    <2> HIDE DEF h2
    <2> QED
      BY <1>1, <2>1
  <1>8. \A q \in Runs \ S : h2[q] = h[q]
    BY <1>2
  <1>9. RealOf(charged') = t
    OBVIOUS
  <1>10. /\ h = [r \in Runs |-> IF spend[r].status = "archived" THEN Total(charged[r], Calls)
                                ELSE spend[r].amount]
         /\ h2 = [r \in Runs |-> IF spend[r].status = "archived" THEN Total(charged[r], Calls)
                                ELSE spend[r].amount]'
         /\ t = [r \in Runs |-> Total(charged[r], Calls)]
         /\ O = {r \in Runs : spend[r].status \in {"reserved", "accounting_pending"}}
         /\ O2 = {r \in Runs : spend[r].status \in {"reserved", "accounting_pending"}}'
    BY DEF HeldOf, RealOf, OpenOf, Open
  <1>11. S \subseteq O
    OBVIOUS
  <1>12. \A q \in S : h2[q] <= h[q]
    BY <1>0, <1>2
  <1>13. [r \in Runs |-> Total(charged[r], Calls)]' = [r \in Runs |-> Total(charged[r], Calls)]
    OBVIOUS
  <1> HIDE DEF h, h2, b, O, O2, S, t
  <1>14. PICK X : X = S
    OBVIOUS
  <1>15. RunLedger!Settle(X)
    BY <1>3, <1>5, <1>6, <1>7, <1>8, <1>10, <1>11, <1>12, <1>13, <1>14, RunTotal
       DEF RunLedger!Settle
  <1>16. X \in SUBSET {r \in Runs : spend[r].status \in {"reserved", "accounting_pending"}}
    BY <1>10, <1>11, <1>14
  <1> QED
    BY <1>15, <1>16 DEF RunLedger!Next

\* Every step is a step of the abstract ledger of envelopes, or leaves it alone.
LEMMA LedgerSimulation ==
    ASSUME HostedInv, HostedInv', [Next]_vars PROVE [RunLedger!Next]_(RunLedger!lvars)
  <1>1. CASE UNCHANGED vars
    BY <1>1 DEF vars, RunLedger!lvars, Amounts, Booked
  <1>2. ASSUME Next, NEW r \in Runs, CreateRun(r) PROVE RunLedger!Next
    BY <1>2, CreateHolds
  <1>3. ASSUME Next, NEW r \in Runs, NEW c \in Calls, NEW amount \in 0 .. Envelope,
               Transport(r, c, amount)
        PROVE  RunLedger!Next
    BY <1>3, TransportCharges
  <1>4. ASSUME Next, \A r \in Runs : ~CreateRun(r),
               \A r \in Runs, c \in Calls, amount \in 0 .. Envelope : ~Transport(r, c, amount)
        PROVE  RunLedger!Next
    <2>1. \A q \in Runs : charged'[q] = charged[q]
      BY <1>4, ChargeStep
    <2>2. charged' = charged
      BY <2>1 DEF HostedInv, HostedTypeOK
    <2> QED
      BY <1>4, <2>2, OthersSettle
  <1> QED
    BY <1>1, <1>2, <1>3, <1>4

\* The abstract ledger of envelopes starts in one of its initial states.
LEMMA LedgerInit == Init => RunLedger!Init
  <1> SUFFICES ASSUME Init PROVE RunLedger!Init
    OBVIOUS
  <1>1. \A r \in Runs : spend[r].status = "none" /\ spend[r].amount = 0
    BY DEF Init
  <1>2. ASSUME NEW r \in Runs PROVE Total(charged[r], Calls) = 0
    <2>1. \A c \in Calls : charged[r][c] = 0
      BY DEF Init
    <2> QED
      BY <2>1, Constants, TotalZero
  <1>3. {r \in Runs : Booked(r)} = {}
    BY <1>1 DEF Booked
  <1>4. Amounts(Runs) = 0
    BY <1>3, TotalEmpty DEF Amounts
  <1>5. archived \in 0 .. EventCap
    BY Constants DEF Init
  <1>6. archived + Amounts(Runs) \in 0 .. EventCap
    BY <1>4, <1>5, Constants
  <1> QED
    BY <1>1, <1>2, <1>6 DEF RunLedger!Init

\* The spend table with event_totals implements the abstract ledger, step by step.
THEOREM SpendImplementsLedger == Spec => HostedImplementsLedger
  <1>1. HostedInv /\ HostedInv' /\ [Next]_vars => [RunLedger!Next]_(RunLedger!lvars)
    BY LedgerSimulation
  <1> QED
    BY <1>1, LedgerInit, HostedInductive, PTL DEF Spec, HostedImplementsLedger, RunLedger!Spec
=============================================================================
