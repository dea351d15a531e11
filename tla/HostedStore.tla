---------------------------- MODULE HostedStore ----------------------------
(***************************************************************************)
(* The control plane of the hosted deployment                              *)
(* (apps/api/src/proofops_api/hosted_store.py, hosted_analysis.py and      *)
(* scripts/hosted_control.py): admission of runs against money caps, the   *)
(* claim of a run by a worker slot, the broker through which every paid    *)
(* provider call passes, publication, cancellation, deletion of documents, *)
(* expiry, archiving and operator reconciliation.                          *)
(*                                                                         *)
(* Two databases are written in one rollback-journal transaction: the      *)
(* control database (runs, documents, result snapshots) and a ledger       *)
(* (spend, costs, event_totals, tombstones) that survives its loss.  An    *)
(* action is one such transaction, or one file or provider step between    *)
(* two of them.                                                            *)
(*                                                                         *)
(* Of the clock only comparisons matter, so lease_until > now is a Boolean *)
(* that may become FALSE at any time, and a renewal, which the code allows *)
(* only while it is TRUE, leaves it as it is.                              *)
(*                                                                         *)
(* A definition named ...Mutant is a plausible bug in the definition it    *)
(* precedes; no specification uses it.                                     *)
(***************************************************************************)
EXTENDS Integers, FiniteSets, Sums

CONSTANTS
    Runs,           \* identities of the runs that may ever be created
    Documents,      \* documents, all uploaded before the first run
    DocOf,          \* DocOf[r]: the document r analyses
    UserOf,         \* UserOf[r]: who creates r
    Calls,          \* call ids a run may use
    Bounds,         \* upper costs a call may reserve
    Envelope,       \* run_usd: what a run reserves at admission
    EventCap,       \* event_usd
    DayCap,         \* day_usd
    DailyRuns,      \* daily_runs
    UserDailyRuns,  \* user_daily_runs
    QueueLimit,     \* runs that may be queued (8)
    MaxActive,      \* max_active_runs
    UserActive,     \* user_active_runs
    Earlier,        \* event totals, before the first run, of runs archived earlier
    Requests,       \* bound: what users, operator and fate may do, see Outside
    MaxFence,       \* bound: the fence counter saturates here
    MaxDay          \* bound: last day

ASSUME HostedAssumption ==
    /\ IsFiniteSet(Runs) /\ IsFiniteSet(Documents) /\ IsFiniteSet(Calls)
    /\ DocOf \in [Runs -> Documents]
    /\ DOMAIN UserOf = Runs
    /\ Bounds \subseteq Nat \ {0}
    /\ {Envelope, EventCap, DayCap, DailyRuns, UserDailyRuns} \subseteq Nat
    /\ Earlier \subseteq 0 .. EventCap
    /\ {QueueLimit, MaxActive, UserActive, MaxDay} \subseteq Nat \ {0}
    /\ Requests \subseteq {"cancel", "delete", "reconcile", "drain", "lose"}
    /\ MaxFence \in Nat /\ MaxFence > 1

VARIABLES
    run,        \* runs table; "absent" before, "gone" after the row exists
    worker,     \* worker[r]: the slot, and its child process, that executes r
    spend,      \* ledger: the envelope of each run
    cost,       \* ledger: cost[r][c], one row per dispatched call
    flight,     \* flight[r][c]: how far the dispatch of c has come
    charged,    \* charged[r][c]: what the provider really charges for c
    archived,   \* ledger: event_totals, the spend rows that were dropped
    results,    \* runs with a published result snapshot
    doc,        \* document row and tombstone
    files,      \* documents whose payload directory exists
    draining,   \* admission_control
    today

vars == <<run, worker, spend, cost, flight, charged, archived, results, doc, files,
          draining, today>>

-----------------------------------------------------------------------------
(* Records *)

\* lease_expired is accounting_pending with error_code LEASE_EXPIRED.
Active == {"queued", "running"}
Uncertain == {"accounting_pending", "lease_expired"}
Terminal == {"partial_blocked", "completed", "cancelled", "failed"}
Row == Active \cup Uncertain \cup Terminal

RunRecord == [status : Row \cup {"absent", "gone"}, fence : Nat, lease : BOOLEAN,
              created : Nat]
SpendRecord == [status : {"none", "reserved", "accounting_pending", "settled", "archived"},
                amount : Nat, day : Nat]
CostRecord == [status : {"none", "reserved", "accounting_pending", "settled"},
               bound : Nat, actual : Nat]
Phase == {"none", "claimed", "preparing", "prepared", "opened", "locked", "analysing",
          "returned", "orphaned", "failing", "done"}

NoCost == [status |-> "none", bound |-> 0, actual |-> 0]
Uploaded == {"live", "expired"}     \* the document row exists and has no tombstone

Booked(r) == spend[r].status \in {"reserved", "accounting_pending", "settled"}

-----------------------------------------------------------------------------
(* Money *)

\* What a call holds of its run's envelope: its real cost once it is known.
Held(k) == IF k.status = "settled" THEN k.actual ELSE k.bound

\* _settle_envelope, on the spend row sp with the cost rows k of a run.
SettleEnvelopeMutant(sp, k) ==
    [sp EXCEPT !.status = "settled", !.amount = Total([c \in Calls |-> k[c].actual], Calls)]

SettleEnvelope(sp, k) ==
    IF \E c \in Calls : k[c].status \in {"reserved", "accounting_pending"}
    THEN [sp EXCEPT !.status = "accounting_pending"]
    ELSE [sp EXCEPT !.status = "settled",
                    !.amount = Total([c \in Calls |-> k[c].actual], Calls)]

\* An UPDATE of a spend row that is no longer there changes nothing.
SettledSpend(sp, k) == IF sp.status \in {"none", "archived"} THEN sp ELSE SettleEnvelope(sp, k)

Suspended(sp) ==
    IF sp.status \in {"none", "archived"} THEN sp ELSE [sp EXCEPT !.status = "accounting_pending"]

-----------------------------------------------------------------------------
(* The run row *)

Next1(f) == IF f < MaxFence THEN f + 1 ELSE f

\* An UPDATE of the status that ends the lease, and one that moves the fence too.
Ended(row, status) == [row EXCEPT !.status = status, !.lease = FALSE]
Fence(r, status) == [run[r] EXCEPT !.status = status, !.fence = Next1(@), !.lease = FALSE]

\* _fenced, through _run and _document: a tombstone refuses every fenced write.
Fenced(r) ==
    /\ run[r].status = "running"
    /\ run[r].fence = worker[r].fence
    /\ run[r].lease
    /\ doc[DocOf[r]] \in Uploaded

\* The analysis.lock file of a document, shared while a page selection is prepared.
Excluding == {"locked", "analysing", "returned", "orphaned"}
LockedBy(d, phases) == \E r \in Runs : DocOf[r] = d /\ worker[r].phase \in phases
Unlocked(d) == ~LockedBy(d, Excluding \cup {"preparing"})

-----------------------------------------------------------------------------
Init ==
    /\ run = [r \in Runs |-> [status |-> "absent", fence |-> 0, lease |-> FALSE, created |-> 0]]
    /\ worker = [r \in Runs |-> [phase |-> "none", fence |-> 0]]
    /\ spend = [r \in Runs |-> [status |-> "none", amount |-> 0, day |-> 0]]
    /\ cost = [r \in Runs |-> [c \in Calls |-> NoCost]]
    /\ flight = [r \in Runs |-> [c \in Calls |-> "none"]]
    /\ charged = [r \in Runs |-> [c \in Calls |-> 0]]
    /\ archived \in Earlier
    /\ results = {}
    /\ doc = [d \in Documents |-> "live"]
    /\ files = Documents
    /\ draining = FALSE
    /\ today = 1

-----------------------------------------------------------------------------
(* create_run.  A replay of the idempotency key returns the old run. *)

Amounts(S) == Total([r \in Runs |-> spend[r].amount], {r \in S : Booked(r)})
Of(day) == {r \in Runs : Booked(r) /\ spend[r].day = day}

WithinCapsMutant ==
    /\ Amounts(Of(today)) + Envelope <= DayCap
    /\ Amounts(Runs) + Envelope <= EventCap

WithinCaps ==
    /\ Amounts(Of(today)) + Envelope <= DayCap
    /\ Amounts(Runs) + archived + Envelope <= EventCap

CreateRun(r) ==
    /\ run[r].status = "absent"
    /\ doc[DocOf[r]] = "live"
    /\ DocOf[r] \in files
    /\ ~draining
    /\ Cardinality({q \in Runs : run[q].status = "queued"}) < QueueLimit
    /\ Cardinality({q \in Of(today) : UserOf[q] = UserOf[r]}) < UserDailyRuns
    /\ Cardinality(Of(today)) < DailyRuns
    /\ WithinCaps
    /\ run' = [run EXCEPT ![r] =
                  [status |-> "queued", fence |-> 0, lease |-> FALSE,
                   created |-> Cardinality({q \in Runs : run[q].status # "absent"})]]
    /\ spend' = [spend EXCEPT ![r] =
                  [status |-> "reserved", amount |-> Envelope, day |-> today]]
    /\ UNCHANGED <<worker, cost, flight, charged, archived, results, doc, files, draining, today>>

-----------------------------------------------------------------------------
(* _expire_running, the first statement of claim, control_state and _maintain *)

ToExpire(r) == \/ run[r].status = "running" /\ ~run[r].lease
               \/ run[r].status = "lease_expired"

\* No row in the surviving ledger proves that no provider call was made.
NoDispatch(r) == Booked(r) /\ \A c \in Calls : cost[r][c].status = "none"

ExpiredRuns ==
    [r \in Runs |-> IF ~ToExpire(r) THEN run[r]
                    ELSE Fence(r, IF NoDispatch(r) THEN "failed" ELSE "lease_expired")]
ExpiredSpend ==
    [r \in Runs |-> IF ~ToExpire(r) THEN spend[r]
                    ELSE IF NoDispatch(r) THEN SettledSpend(spend[r], cost[r])
                         ELSE Suspended(spend[r])]

ControlState ==
    /\ \E r \in Runs : ToExpire(r)
    /\ run' = ExpiredRuns
    /\ spend' = ExpiredSpend
    /\ UNCHANGED <<worker, cost, flight, charged, archived, results, doc, files, draining, today>>

-----------------------------------------------------------------------------
(* claim: the oldest queued run whose document and user are not occupied *)

Running(rs) == {r \in Runs : rs[r].status = "running"}

RedeliverMutant(rs, r) ==
    /\ rs[r].status \in {"queued", "lease_expired"}
    /\ \A q \in Running(rs) : DocOf[q] # DocOf[r]
    /\ Cardinality({q \in Running(rs) : UserOf[q] = UserOf[r]}) < UserActive

Eligible(rs, r) ==
    /\ rs[r].status = "queued"
    /\ \A q \in Running(rs) : DocOf[q] # DocOf[r]
    /\ Cardinality({q \in Running(rs) : UserOf[q] = UserOf[r]}) < UserActive

Claimed(row) == [row EXCEPT !.status = "running", !.fence = Next1(@), !.lease = TRUE]

\* The head of the queue is taken or, when its document has a tombstone, claim
\* raises: a later run is never taken instead.
Claim(r) ==
    /\ ~draining
    /\ Cardinality(Running(ExpiredRuns)) < MaxActive
    /\ Eligible(ExpiredRuns, r)
    /\ \A q \in Runs : Eligible(ExpiredRuns, q) => ExpiredRuns[q].created >= run[r].created
    /\ doc[DocOf[r]] \in Uploaded
    /\ run' = [ExpiredRuns EXCEPT ![r] = Claimed(@)]
    /\ spend' = ExpiredSpend
    /\ worker' = [worker EXCEPT ![r] = [phase |-> "claimed", fence |-> Next1(run[r].fence)]]
    /\ UNCHANGED <<cost, flight, charged, archived, results, doc, files, draining, today>>

-----------------------------------------------------------------------------
(* tick: one slot executes the claimed run *)

Move(r, from, to) ==
    /\ worker[r].phase = from
    /\ worker' = [worker EXCEPT ![r].phase = to]

\* prepare: the file lock is taken inside the transaction that checks the fence.
PrepareStart(r) ==
    /\ Move(r, "claimed", "preparing")
    /\ Fenced(r)
    /\ doc[DocOf[r]] = "live"
    /\ ~LockedBy(DocOf[r], Excluding)
    /\ UNCHANGED <<run, spend, cost, flight, charged, archived, results, doc, files, draining, today>>

PrepareEnd(r) ==
    /\ Move(r, "preparing", "prepared")
    /\ Fenced(r)
    /\ UNCHANGED <<run, spend, cost, flight, charged, archived, results, doc, files, draining, today>>

\* execute_analysis opens the lock file under the fence, waits for the lock outside
\* of it, and renews the lease, which checks the fence again, before it starts.
AnalysisOpen(r) ==
    /\ Move(r, "prepared", "opened")
    /\ Fenced(r)
    /\ UNCHANGED <<run, spend, cost, flight, charged, archived, results, doc, files, draining, today>>

AnalysisLock(r) ==
    /\ Move(r, "opened", "locked")
    /\ Unlocked(DocOf[r])
    /\ UNCHANGED <<run, spend, cost, flight, charged, archived, results, doc, files, draining, today>>

AnalysisStartMutant(r) ==
    /\ Move(r, "locked", "analysing")
    /\ UNCHANGED <<run, spend, cost, flight, charged, archived, results, doc, files, draining, today>>

AnalysisStart(r) ==
    /\ Move(r, "locked", "analysing")
    /\ Fenced(r)
    /\ UNCHANGED <<run, spend, cost, flight, charged, archived, results, doc, files, draining, today>>

AnalysisEnd(r) ==
    /\ Move(r, "analysing", "returned")
    /\ \A c \in Calls : flight[r][c] = "none"
    /\ UNCHANGED <<run, spend, cost, flight, charged, archived, results, doc, files, draining, today>>

\* publish_analysis: fence, snapshot, status and settlement in one transaction.
PublishAnalysis(r, status) ==
    /\ Move(r, "returned", "done")
    /\ Fenced(r)
    /\ r \notin results
    /\ results' = results \cup {r}
    /\ run' = [run EXCEPT ![r] = Ended(@, status)]
    /\ spend' = [spend EXCEPT ![r] = SettledSpend(@, cost[r])]
    /\ UNCHANGED <<cost, flight, charged, archived, doc, files, draining, today>>

\* Any error, time limit or lost lease: the child is killed with its calls and the
\* lock is released; the handler's transaction is a later step.
Abort(r) ==
    /\ worker[r].phase \in Phase \ {"none", "orphaned", "failing", "done"}
    /\ worker' = [worker EXCEPT ![r].phase = "failing"]
    /\ flight' = [flight EXCEPT ![r] = [c \in Calls |-> "none"]]
    /\ UNCHANGED <<run, spend, cost, charged, archived, results, doc, files, draining, today>>

Handle(r) ==
    /\ Move(r, "failing", "done")
    /\ IF run[r].status = "running" /\ run[r].fence = worker[r].fence
       THEN /\ run' = [run EXCEPT ![r] = Ended(@, "failed")]
            /\ spend' = [spend EXCEPT ![r] = SettledSpend(@, cost[r])]
       ELSE UNCHANGED <<run, spend>>
    /\ UNCHANGED <<cost, flight, charged, archived, results, doc, files, draining, today>>

\* The worker process dies.  An analysis child is a session of its own: it keeps the
\* inherited lock and its calls until its hard deadline.
Crash(r) ==
    /\ worker[r].phase \in Phase \ {"none", "orphaned", "done"}
    /\ worker' = [worker EXCEPT ![r].phase = IF @ = "analysing" THEN "orphaned" ELSE "done"]
    /\ UNCHANGED <<run, spend, cost, flight, charged, archived, results, doc, files, draining, today>>

OrphanEnds(r) ==
    /\ Move(r, "orphaned", "done")
    /\ flight' = [flight EXCEPT ![r] = [c \in Calls |-> "none"]]
    /\ UNCHANGED <<run, spend, cost, charged, archived, results, doc, files, draining, today>>

LeaseElapses(r) ==
    /\ run[r].lease
    /\ run' = [run EXCEPT ![r].lease = FALSE]
    /\ UNCHANGED <<worker, spend, cost, flight, charged, archived, results, doc, files, draining, today>>

-----------------------------------------------------------------------------
(* dispatch: reserve in the ledger, call the provider, settle in the ledger *)

Reserve(r, c, b) ==
    /\ worker[r].phase \in {"analysing", "orphaned"}
    /\ Fenced(r)
    /\ cost[r][c].status = "none"
    /\ Total([k \in Calls |-> Held(cost[r][k])], Calls) + b <= Envelope
    /\ cost' = [cost EXCEPT ![r][c] = [status |-> "reserved", bound |-> b, actual |-> 0]]
    /\ flight' = [flight EXCEPT ![r][c] = "reserved"]
    /\ UNCHANGED <<run, worker, spend, charged, archived, results, doc, files, draining, today>>

\* The provider (external) handles the request; what it charges stays within the bound.
Transport(r, c, amount) ==
    /\ flight[r][c] = "reserved"
    /\ amount <= cost[r][c].bound
    /\ flight' = [flight EXCEPT ![r][c] = "sent"]
    /\ charged' = [charged EXCEPT ![r][c] = amount]
    /\ UNCHANGED <<run, worker, spend, cost, archived, results, doc, files, draining, today>>

\* The receipt arrives, however late: money is settled even when the run is cancelled
\* or its row is gone.
CostOf(r, c, status, actual) ==
    IF cost[r][c].status = "reserved"
    THEN [cost EXCEPT ![r][c] = [@ EXCEPT !.status = status, !.actual = actual]]
    ELSE cost

Settle(r, c) ==
    /\ flight[r][c] = "sent"
    /\ flight' = [flight EXCEPT ![r][c] = "none"]
    /\ cost' = CostOf(r, c, "settled", charged[r][c])
    /\ spend' = IF run[r].status \in Terminal \cup {"gone"}
                THEN [spend EXCEPT ![r] = SettledSpend(@, cost'[r])]
                ELSE spend
    /\ UNCHANGED <<run, worker, charged, archived, results, doc, files, draining, today>>

\* OpenAIConnectNotSent, OpenAIControlNotSent: proof that nothing was sent.
NotSent(r, c) ==
    /\ flight[r][c] = "reserved"
    /\ flight' = [flight EXCEPT ![r][c] = "none"]
    /\ cost' = CostOf(r, c, "settled", 0)
    /\ UNCHANGED <<run, worker, spend, charged, archived, results, doc, files, draining, today>>

\* Any other exception after the reservation: the cost is unknown.  Only an isolated
\* model failure leaves the run running; a quota refusal ends it as failed.
DispatchFails(r, c, end) ==
    /\ flight[r][c] \in {"reserved", "sent"}
    /\ flight' = [flight EXCEPT ![r][c] = "none"]
    /\ cost' = CostOf(r, c, "accounting_pending", 0)
    /\ spend' = [spend EXCEPT ![r] = Suspended(@)]
    /\ run' = IF /\ end # "isolated"
                 /\ run[r].status = "running"
                 /\ run[r].fence = worker[r].fence
              THEN [run EXCEPT ![r] = Fence(r, end)]
              ELSE run
    /\ UNCHANGED <<worker, charged, archived, results, doc, files, draining, today>>

-----------------------------------------------------------------------------
(* Requests of users and of the operator *)

\* cancel does not look at the status: a finished run can be cancelled too.
Cancel(r) ==
    /\ run[r].status \in Row
    /\ doc[DocOf[r]] \in Uploaded
    /\ run' = [run EXCEPT ![r] = Fence(r, "cancelled")]
    /\ spend' = [spend EXCEPT ![r] = SettledSpend(@, cost[r])]
    /\ UNCHANGED <<worker, cost, flight, charged, archived, results, doc, files, draining, today>>

RowsOfMutant(d) == {r \in Runs : DocOf[r] = d /\ run[r].status \in Terminal}

RowsOf(d) == {r \in Runs : DocOf[r] = d /\ run[r].status \in Row}

\* The tombstone is durable before any file is removed.
DeleteDocument(d) ==
    /\ doc[d] \in Uploaded
    /\ doc' = [doc EXCEPT ![d] = "tombstoned"]
    /\ run' = [r \in Runs |-> IF r \in RowsOf(d) THEN Fence(r, "cancelled") ELSE run[r]]
    /\ UNCHANGED <<worker, spend, cost, flight, charged, archived, results, files, draining, today>>

\* _purge: bytes first, under the exclusive lock that no analysis may hold; rows after.
PurgeFilesMutant(d) ==
    /\ doc[d] = "tombstoned"
    /\ d \in files
    /\ Unlocked(d)
    /\ \A r \in Runs : DocOf[r] = d => run[r].status \notin Active
    /\ files' = files \ {d}
    /\ UNCHANGED <<run, worker, spend, cost, flight, charged, archived, results, doc, draining, today>>

PurgeFiles(d) ==
    /\ doc[d] = "tombstoned"
    /\ d \in files
    /\ Unlocked(d)
    /\ files' = files \ {d}
    /\ UNCHANGED <<run, worker, spend, cost, flight, charged, archived, results, doc, draining, today>>

PurgeRows(d) ==
    /\ doc[d] = "tombstoned"
    /\ d \notin files
    /\ doc' = [doc EXCEPT ![d] = "purged"]
    /\ spend' = [r \in Runs |-> IF r \in RowsOf(d) THEN SettledSpend(spend[r], cost[r])
                                ELSE spend[r]]
    /\ run' = [r \in Runs |-> IF r \in RowsOf(d) THEN Fence(r, "gone") ELSE run[r]]
    /\ results' = results \ RowsOf(d)
    /\ UNCHANGED <<worker, cost, flight, charged, archived, files, draining, today>>

Drain ==
    /\ draining' = ~draining
    /\ UNCHANGED <<run, worker, spend, cost, flight, charged, archived, results, doc, files, today>>

Attested(r) ==
    [c \in Calls |-> IF cost[r][c].status \in {"reserved", "accounting_pending"}
                     THEN [cost[r][c] EXCEPT !.status = "settled", !.actual = charged[r][c]]
                     ELSE cost[r][c]]

\* reconcile (scripts/hosted_control.py): the operator attests what every recorded call
\* really cost; the exclusive lock proves that none of them is still under way.
Reconcile(r) ==
    /\ run[r].status \in Row \ Active
    /\ doc[DocOf[r]] \in Uploaded
    /\ DocOf[r] \in files
    /\ Unlocked(DocOf[r])
    /\ \E c \in Calls : cost[r][c].status # "none"
    /\ cost' = [cost EXCEPT ![r] = Attested(r)]
    /\ spend' = [spend EXCEPT ![r] = SettledSpend(@, cost'[r])]
    /\ run' = IF run[r].status \in Uncertain THEN [run EXCEPT ![r] = Fence(r, "failed")] ELSE run
    /\ UNCHANGED <<worker, flight, charged, archived, results, doc, files, draining, today>>

-----------------------------------------------------------------------------
(* Time, maintenance and loss of the control database *)

DocumentExpires(d) ==
    /\ doc[d] = "live"
    /\ doc' = [doc EXCEPT ![d] = "expired"]
    /\ UNCHANGED <<run, worker, spend, cost, flight, charged, archived, results, files, draining, today>>

NewDay ==
    /\ today < MaxDay
    /\ today' = today + 1
    /\ UNCHANGED <<run, worker, spend, cost, flight, charged, archived, results, doc, files, draining>>

\* _maintain: expire leases, put a tombstone on expired documents, and replace the
\* settled spend rows of the oldest runs by their total.
OldSettledMutant(sp, n) ==
    {r \in Runs : sp[r].status \in {"settled", "accounting_pending"} /\ run[r].created < n}

OldSettled(sp, n) == {r \in Runs : sp[r].status = "settled" /\ run[r].created < n}

Maintain(n) ==
    LET old == OldSettled(ExpiredSpend, n)
    IN  /\ \/ \E r \in Runs : ToExpire(r)
           \/ \E d \in Documents : doc[d] = "expired"
           \/ old # {}
        /\ run' = ExpiredRuns
        /\ doc' = [d \in Documents |-> IF doc[d] = "expired" THEN "tombstoned" ELSE doc[d]]
        /\ archived' = archived + Total([r \in Runs |-> ExpiredSpend[r].amount], old)
        /\ spend' = [r \in Runs |-> IF r \in old
                                    THEN [ExpiredSpend[r] EXCEPT !.status = "archived", !.amount = 0]
                                    ELSE ExpiredSpend[r]]
        /\ cost' = [r \in Runs |-> IF r \in old THEN [c \in Calls |-> NoCost] ELSE cost[r]]
        /\ UNCHANGED <<worker, flight, charged, results, files, draining, today>>

\* Everything but the ledger is lost and, with the services stopped, restore brings back the
\* metadata of documents without a tombstone, never a run and never an original; then
\* HostedStore.__init__ suspends the reservations that have no run any more.
StartupMutant == spend

Startup ==
    [r \in Runs |-> IF spend[r].status = "reserved" THEN Suspended(spend[r]) ELSE spend[r]]

LoseControl ==
    /\ \E r \in Runs : run[r].status \in Row
    /\ run' = [r \in Runs |-> IF run[r].status \in Row THEN Fence(r, "gone") ELSE run[r]]
    /\ worker' = [r \in Runs |-> IF worker[r].phase = "none" THEN worker[r]
                                 ELSE [worker[r] EXCEPT !.phase = "done"]]
    /\ flight' = [r \in Runs |-> [c \in Calls |-> "none"]]
    /\ spend' = Startup
    /\ results' = {}
    /\ doc' = [d \in Documents |-> IF doc[d] = "expired" THEN "purged" ELSE doc[d]]
    /\ files' = {}
    /\ draining' = FALSE
    /\ UNCHANGED <<cost, charged, archived, today>>
-----------------------------------------------------------------------------
\* What the thread of a slot does next: the steps of tick, or the error that ends it.
Progress(r) ==
    \/ PrepareStart(r) \/ PrepareEnd(r)
    \/ AnalysisOpen(r) \/ AnalysisLock(r) \/ AnalysisStart(r) \/ AnalysisEnd(r)
    \/ \E status \in {"completed", "partial_blocked"} : PublishAnalysis(r, status)
    \/ Abort(r) \/ Handle(r)

SlotStep(r) == Claim(r) \/ Progress(r) \/ Crash(r) \/ OrphanEnds(r) \/ LeaseElapses(r)

DispatchStep(r) ==
    \E c \in Calls :
        \/ \E b \in Bounds : Reserve(r, c, b)
        \/ \E amount \in 0 .. Envelope : Transport(r, c, amount)
        \/ Settle(r, c)
        \/ NotSent(r, c)
        \/ \E end \in {"isolated", "failed", "accounting_pending"} : DispatchFails(r, c, end)

Outside ==
    \/ "cancel" \in Requests /\ \E r \in Runs : Cancel(r)
    \/ "reconcile" \in Requests /\ \E r \in Runs : Reconcile(r)
    \/ "delete" \in Requests /\ \E d \in Documents : DeleteDocument(d)
    \/ "drain" \in Requests /\ Drain
    \/ "lose" \in Requests /\ LoseControl

Next ==
    \/ \E r \in Runs : CreateRun(r) \/ SlotStep(r) \/ DispatchStep(r)
    \/ \E d \in Documents : PurgeFiles(d) \/ PurgeRows(d) \/ DocumentExpires(d)
    \/ \E n \in 0 .. Cardinality(Runs) : Maintain(n)
    \/ Outside \/ ControlState \/ NewDay

Spec == Init /\ [][Next]_vars

\* The worker process runs tick and maintain in a loop, no step of a slot blocks for ever
\* (prepare, the lock and the analysis have time limits), an orphan has its hard deadline,
\* and a lease that nobody renews runs out.  Nothing is assumed of users, of the operator
\* or of the provider.
Fairness ==
    /\ \A r \in Runs : /\ WF_vars(Claim(r))
                       /\ WF_vars(Progress(r))
                       /\ WF_vars(OrphanEnds(r))
                       /\ WF_vars(worker[r].phase = "done" /\ LeaseElapses(r))
    /\ \A d \in Documents : WF_vars(PurgeFiles(d)) /\ WF_vars(PurgeRows(d))
    /\ WF_vars(Maintain(0))

FairSpec == Spec /\ Fairness

-----------------------------------------------------------------------------
(* Properties *)

\* Every row and every process has its type.
HostedTypeOK ==
    /\ run \in [Runs -> RunRecord]
    /\ worker \in [Runs -> [phase : Phase, fence : Nat]]
    /\ spend \in [Runs -> SpendRecord]
    /\ cost \in [Runs -> [Calls -> CostRecord]]
    /\ flight \in [Runs -> [Calls -> {"none", "reserved", "sent"}]]
    /\ charged \in [Runs -> [Calls -> Nat]]
    /\ archived \in Nat
    /\ results \subseteq Runs
    /\ doc \in [Documents -> {"live", "expired", "tombstoned", "purged"}]
    /\ files \subseteq Documents
    /\ draining \in BOOLEAN
    /\ today \in 1 .. MaxDay

\* The caps that create_run checks once hold in every later state, whatever calls,
\* failures, cancellations and archiving happen after admission: what the ledger
\* counts never grows beyond the event's cap or the day's.
CapsHold ==
    /\ archived + Amounts(Runs) <= EventCap
    /\ \A day \in 1 .. MaxDay : Amounts(Of(day)) <= DayCap

\* Unknown costs are never released (dispatch, _settle_envelope, _maintain): what
\* providers really charged a run never exceeds what the ledger books for it, a settled
\* run is booked with exactly that, and so are the archived runs in the event's total.
MoneyAccounted ==
    LET real(r) == Total(charged[r], Calls)
    IN  /\ \A r \in Runs : Booked(r) => real(r) <= spend[r].amount
        /\ \A r \in Runs : spend[r].status = "settled" => real(r) = spend[r].amount
        /\ archived - Total([r \in Runs |-> real(r)], {r \in Runs : spend[r].status = "archived"})
              \in Earlier
        /\ \A r \in Runs : spend[r].status = "none" => real(r) = 0

\* A reservation stays plain "reserved" only while something will still settle it: the
\* run is queued or running, or its document has a tombstone and purging it settles.
ReservationOwned ==
    \A r \in Runs : spend[r].status = "reserved"
                       => run[r].status \in Active \/ doc[DocOf[r]] = "tombstoned"

\* Every row has its type and every reservation its owner, the loss of the control database
\* included.
ReservationsSound == HostedTypeOK /\ ReservationOwned

\* claim: the worker slots, the limit per user and one running analysis per document,
\* with expired leases freeing slots inside the same transaction.
SlotsRespected ==
    /\ Cardinality(Running(run)) <= MaxActive
    /\ \A r, q \in Running(run) : DocOf[r] = DocOf[q] => r = q
    /\ \A r \in Runs : Cardinality({q \in Running(run) : UserOf[q] = UserOf[r]}) <= UserActive

\* prepare, execute_analysis and _purge share the document lock: nobody removes the
\* bytes of a document while a worker or an orphaned child is analysing it, even
\* when its run was cancelled and the document deleted meanwhile.
BytesWhileAnalysing ==
    \A r \in Runs : worker[r].phase \in {"preparing", "analysing", "returned", "orphaned"}
                       => DocOf[r] \in files

\* An analysis has its slot, its document and the document's bytes to itself.
AnalysisUndisturbed == SlotsRespected /\ BytesWhileAnalysing

\* A purged document leaves no run, no result and no bytes behind, and none comes back
\* through a worker or a call that was under way.
DeletedLeavesNothing ==
    \A r \in Runs : doc[DocOf[r]] = "purged"
                       => /\ run[r].status \in {"absent", "gone"}
                          /\ r \notin results
                          /\ DocOf[r] \notin files

\* A run is executed at most once ("never automatic paid redelivery"): when it has left
\* the states queued and running, no late worker or orphan runs it again, publishes a
\* result for it or makes another paid call in its name.
EndedForGood ==
    [][\A r \in Runs :
          run[r].status \in Uncertain \cup Terminal \cup {"gone"}
              => /\ run'[r].status \in Uncertain \cup Terminal \cup {"gone"}
                 /\ r \in results' => r \in results
                 /\ \A c \in Calls : cost[r][c].status = "none" => cost'[r][c].status = "none"]_vars

\* A queued run does not wait for ever while the service is not being drained, although
\* a document with a tombstone at the head of the queue makes claim raise and so holds up
\* the runs behind it; and a running one ends, whatever happens to its worker.
RunsEnd ==
    <>[]~draining => \A r \in Runs : run[r].status \in Active ~> run[r].status \notin Active

\* A tombstone is followed by the removal of the document, although running analyses
\* hold its lock and every process may die in between.
DeletionCompletes ==
    \A d \in Documents : doc[d] = "tombstoned" ~> doc[d] = "purged"

\* The spend table, with event_totals, as a ledger whose entries are runs.
RunLedger == INSTANCE Ledger WITH
    Entries <- Runs,
    Cap <- EventCap,
    held <- [r \in Runs |-> IF spend[r].status = "archived" THEN Total(charged[r], Calls)
                            ELSE spend[r].amount],
    real <- [r \in Runs |-> Total(charged[r], Calls)],
    open <- {r \in Runs : spend[r].status \in {"reserved", "accounting_pending"}},
    total <- archived + Amounts(Runs)

\* create_run, dispatch, _settle_envelope, _maintain and reconcile implement the abstract
\* ledger: an envelope is counted before a call is paid from it, is never released below
\* what was charged, and nothing is charged to it once it is settled.
HostedImplementsLedger == RunLedger!Spec
=============================================================================
