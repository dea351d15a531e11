------------------------------ MODULE JobStore ------------------------------
(***************************************************************************)
(* The durable job store of one analysis run                               *)
(* (packages/proofops/adapters/local/job_store.py): the run record, its    *)
(* stage jobs with their leases and fencing tokens, the transactional      *)
(* outbox, the immutable lease and checkpoint records, and the operator    *)
(* actions cancel and retry.  The callers that add jobs to a run that      *)
(* already has some are here too: extraction continuation                  *)
(* (extract_runner.py), tag recovery (tag_recovery.py) and                 *)
(* manual-classification reprocess (classification_reprocess.py).          *)
(*                                                                         *)
(* A definition named ...Mutant is a plausible bug in the definition it    *)
(* precedes; no specification uses it.                                     *)
(*                                                                         *)
(* Every action is one BEGIN IMMEDIATE transaction, so it is atomic.  The  *)
(* environment is the most general one: whoever ever was given a lease may *)
(* present it to any operation at any later time.                          *)
(*                                                                         *)
(* Time is relative.  The code compares deadlines with the clock only      *)
(* (lease_until <= now, next_attempt_at > now), so a deadline is stored as *)
(* the number of ticks left, and 0 means it is reached.                    *)
(*                                                                         *)
(* An owner is a fresh UUID per delivery and attempt moves with the token, *)
(* so the pair job and token stands for the whole JobLease.                *)
(***************************************************************************)
EXTENDS Integers, FiniteSets

CONSTANTS
    Jobs,           \* identities of the jobs the run may ever have
    Stage,          \* Stage[j]: "parse", "extract" or "tag"
    Origin,         \* who enqueues j: "pipeline", "batch", "recovery", "reprocess"
    FirstJob,       \* the parse job enqueued with the run
    NextJob,        \* NextJob[j]: the job enqueued by the commit of j, or None
    None,           \* no job
    LeaseSeconds,   \* ticks a claim or a renewal grants
    Delays,         \* back-off delays a failure may choose
    RetryLimit,     \* deliveries after which a transient failure is final (3)
    PublishedStatus, \* run status set by a tag commit
    MaxClaims,      \* bound: claims of all jobs together
    MaxMarks,       \* bound: MaxMarks[j], the delivery attempts of one event of job j
    MaxActions      \* bound: operator actions (cancel, retry) that are applied

StageNames == {"parse", "extract", "tag"}

ASSUME JobsAssumption ==
    /\ None \notin Jobs
    /\ Stage \in [Jobs -> StageNames]
    /\ Origin \in [Jobs -> {"pipeline", "batch", "recovery", "reprocess"}]
    /\ NextJob \in [Jobs -> Jobs \cup {None}]
    /\ FirstJob \in Jobs
    /\ Stage[FirstJob] = "parse"
    /\ \A j \in Jobs : /\ NextJob[j] # j
                       /\ Stage[j] = "tag" => NextJob[j] = None
                       /\ Origin[j] = "batch" => Stage[j] = "extract"
                       /\ Origin[j] \in {"recovery", "reprocess"} => Stage[j] = "tag"

ASSUME BoundsAssumption ==
    /\ LeaseSeconds \in Nat \ {0}
    /\ Delays \subseteq Nat
    /\ Delays # {}
    /\ RetryLimit \in Nat \ {0}
    /\ PublishedStatus \in {"partial", "completed"}
    /\ MaxClaims \in Nat
    /\ MaxMarks \in [Jobs -> Nat]
    /\ MaxActions \in Nat

VARIABLES
    run,        \* the run META record
    job,        \* job[j]: the job record; status "absent" before it is enqueued
    outbox,     \* stage_ready events, a function on the event ids inserted so far
    leases,     \* immutable lease records [job, token]
    artifacts,  \* immutable checkpoints job/<job>/attempt/<token>/checkpoint
    plan,       \* plan[j]: tag job whose checkpoint a recovery or reprocess pinned
    basis,      \* basis[j]: extraction that was current when j was last claimed
    actions     \* number of action records, the operator actions applied so far

vars == <<run, job, outbox, leases, artifacts, plan, basis, actions>>

-----------------------------------------------------------------------------
(* Records *)

RunStatus == {"queued", "running", "partial", "failed", "completed", "cancelled"}
JobStatus == {"absent", "pending", "leased", "succeeded", "failed", "cancelled",
              "superseded"}
Open == {"pending", "leased"}

Key == [job : Jobs, token : Nat]
EventId == [job : Jobs, cause : {"initial", "retry", "manual"}, n : Nat]

RunRecord == [status : RunStatus, revision : Nat, cancelled : BOOLEAN,
              heads : Jobs \cup {None},
              extract_job : Jobs \cup {None}, tag_job : Jobs \cup {None}]
JobRecord == [status : JobStatus, token : Nat, retry : Nat, lease : Nat, wait : Nat]
EventRecord == [status : {"pending", "sent", "superseded"}, wait : Nat, attempts : Nat]

AbsentJob == [status |-> "absent", token |-> 0, retry |-> 0, lease |-> 0, wait |-> 0]
FreshJob == [AbsentJob EXCEPT !.status = "pending"]

Event(j, cause, n) == [job |-> j, cause |-> cause, n |-> n]
Pending(wait) == [status |-> "pending", wait |-> wait, attempts |-> 0]

\* _event: an INSERT of an immutable record.
WithEvents(ob, ids, wait) ==
    [e \in DOMAIN ob \cup ids |-> IF e \in DOMAIN ob THEN ob[e] ELSE Pending(wait)]

\* _bump_run
Bump(r, status) == [r EXCEPT !.revision = @ + 1, !.status = status]

-----------------------------------------------------------------------------
(* _enqueue: silent when the identical job exists, otherwise job and event. *)

EnqueuedJob(jb, j) ==
    IF j # None /\ jb[j].status = "absent" THEN [jb EXCEPT ![j] = FreshJob] ELSE jb

EnqueuedEvent(ob, jb, j) ==
    IF j # None /\ jb[j].status = "absent"
    THEN WithEvents(ob, {Event(j, "initial", 0)}, 0)
    ELSE ob

-----------------------------------------------------------------------------
(* guard_extract_continuation *)

ContinuationAllowedMutant ==
    /\ run.tag_job = None
    /\ run.status \notin {"partial", "completed"}
    /\ \A j \in Jobs : Stage[j] = "tag" => ~(job[j].status = "leased" /\ job[j].lease > 0)

ContinuationAllowed ==
    /\ run.tag_job = None
    /\ run.status \notin {"partial", "completed"}
    /\ run.heads = None
    /\ \A j \in Jobs : Stage[j] = "tag" => ~(job[j].status = "leased" /\ job[j].lease > 0)

Superseded(jb) ==
    [j \in Jobs |-> IF Stage[j] = "tag" /\ jb[j].status \in Open
                    THEN [jb[j] EXCEPT !.status = "superseded", !.token = @ + 1]
                    ELSE jb[j]]

SupersededEvents(ob) ==
    [e \in DOMAIN ob |-> IF Stage[e.job] = "tag" /\ ob[e].status = "pending"
                         THEN [ob[e] EXCEPT !.status = "superseded"]
                         ELSE ob[e]]

-----------------------------------------------------------------------------
Init ==
    /\ run = [status |-> "queued", revision |-> 1, cancelled |-> FALSE, heads |-> None,
              extract_job |-> None, tag_job |-> None]
    /\ job = [j \in Jobs |-> IF j = FirstJob THEN FreshJob ELSE AbsentJob]
    /\ outbox = [e \in {Event(FirstJob, "initial", 0)} |-> Pending(0)]
    /\ leases = {}
    /\ artifacts = {}
    /\ plan = [j \in Jobs |-> None]
    /\ basis = [j \in Jobs |-> None]
    /\ actions = 0

-----------------------------------------------------------------------------
(* The lease protocol *)

\* claim_job.  A claim of an extract job of a run that already has an extract
\* checkpoint supersedes the tag jobs, or is refused.
ClaimableMutant(j) == ~run.cancelled /\ job[j].wait = 0 /\ job[j].status = "pending"

Claimable(j) ==
    /\ ~run.cancelled
    /\ job[j].wait = 0
    /\ \/ job[j].status = "pending"
       \/ job[j].status = "leased" /\ job[j].lease = 0

Continues(j) == Stage[j] = "extract" /\ run.extract_job # None

Leased(r) == [r EXCEPT !.status = "leased", !.lease = LeaseSeconds,
                       !.token = @ + 1, !.retry = @ + 1]

ClaimJob(j) ==
    /\ Claimable(j)
    /\ Continues(j) => ContinuationAllowed
    /\ Cardinality(leases) < MaxClaims
    /\ LET jb == IF Continues(j) THEN Superseded(job) ELSE job
       IN  job' = [jb EXCEPT ![j] = Leased(@)]
    /\ outbox' = IF Continues(j) THEN SupersededEvents(outbox) ELSE outbox
    /\ leases' = leases \cup {[job |-> j, token |-> job[j].token + 1]}
    /\ basis' = [basis EXCEPT ![j] = run.extract_job]
    /\ run' = Bump(run, "running")
    /\ UNCHANGED <<artifacts, plan, actions>>

\* _owned
OwnedMutant(l) == ~run.cancelled /\ job[l.job].status = "leased" /\ job[l.job].lease > 0

Owned(l) ==
    /\ ~run.cancelled
    /\ job[l.job].status = "leased"
    /\ job[l.job].token = l.token
    /\ job[l.job].lease > 0

\* heartbeat, _renew_heartbeat: never shortens, never revives an expired lease.
Renewed(r) ==
    [r EXCEPT !.lease = IF r.lease > LeaseSeconds THEN r.lease ELSE LeaseSeconds]

Heartbeat(l) ==
    /\ Owned(l)
    /\ job' = [job EXCEPT ![l.job] = Renewed(@)]
    /\ UNCHANGED <<run, outbox, leases, artifacts, plan, basis, actions>>

\* fail_job
RetriesLeftMutant(j) == job[j].retry <= RetryLimit

RetriesLeft(j) == job[j].retry < RetryLimit

FailJob(l, transient, delay) ==
    /\ Owned(l)
    /\ LET j     == l.job
           again == transient /\ RetriesLeft(j)
       IN  /\ job' = [job EXCEPT ![j] =
                          [@ EXCEPT !.status = IF again THEN "pending" ELSE "failed",
                                    !.wait = delay]]
           /\ outbox' = IF again
                        THEN WithEvents(outbox, {Event(j, "retry", l.token)}, delay)
                        ELSE outbox
           /\ run' = Bump(run, IF again THEN "running"
                               ELSE IF \E k \in Jobs : job[k].status = "succeeded"
                                    THEN "partial" ELSE "failed")
    /\ UNCHANGED <<leases, artifacts, plan, basis, actions>>

-----------------------------------------------------------------------------
(* commit_job, by stage: checkpoint, job, next job and run in one transaction. *)

Succeeded(jb, j) == [jb EXCEPT ![j] = [@ EXCEPT !.status = "succeeded"]]

CommitParse(l) ==
    /\ Owned(l)
    /\ Stage[l.job] = "parse"
    /\ job' = EnqueuedJob(Succeeded(job, l.job), NextJob[l.job])
    /\ outbox' = EnqueuedEvent(outbox, job, NextJob[l.job])
    /\ artifacts' = artifacts \cup {l}
    /\ run' = Bump(run, run.status)
    /\ UNCHANGED <<leases, plan, basis, actions>>

\* validate_extract_commit supersedes the tag jobs that are still open.
CommitExtract(l) ==
    /\ Owned(l)
    /\ Stage[l.job] = "extract"
    /\ ContinuationAllowed
    /\ job' = EnqueuedJob(Succeeded(Superseded(job), l.job), NextJob[l.job])
    /\ outbox' = EnqueuedEvent(SupersededEvents(outbox), job, NextJob[l.job])
    /\ artifacts' = artifacts \cup {l}
    /\ run' = [Bump(run, run.status) EXCEPT !.extract_job = l.job]
    /\ UNCHANGED <<leases, plan, basis, actions>>

EventFence(e, seen) ==
    /\ e \in DOMAIN outbox
    /\ outbox[e].status = "pending"
    /\ outbox[e].attempts = seen

\* TagReprocess.verify_publication, inside the publication transaction; a
\* recovery has no such check.
LineagePinned(j) == Origin[j] = "reprocess" => run.tag_job = plan[j]

Sent(r) == [r EXCEPT !.status = "sent", !.attempts = @ + 1]

\* validate_tag_commit compares the pins of the extraction that was tagged.
ExtractionPinned(j) == run.extract_job # None /\ basis[j] = run.extract_job

CommitTag(l, e, seen) ==
    /\ Owned(l)
    /\ Stage[l.job] = "tag"
    /\ ExtractionPinned(l.job)
    /\ e.job = l.job
    /\ EventFence(e, seen)
    /\ LineagePinned(l.job)
    /\ job' = Succeeded(job, l.job)
    /\ outbox' = [outbox EXCEPT ![e] = Sent(@)]
    /\ artifacts' = artifacts \cup {l}
    /\ run' = [Bump(run, PublishedStatus) EXCEPT !.tag_job = l.job,
                                                !.heads = basis[l.job]]
    /\ UNCHANGED <<leases, plan, basis, actions>>

\* _publish_claim: an ordinary or recovery tag job publishes claim heads while it
\* runs, each in a fenced transaction of its own; the heads are kept as the
\* extraction they were tagged from, so only the first one changes anything.
PublishClaim(l) ==
    /\ Owned(l)
    /\ Stage[l.job] = "tag"
    /\ Origin[l.job] # "reprocess"
    /\ run.heads # basis[l.job]
    /\ run' = [Bump(run, run.status) EXCEPT !.heads = basis[l.job]]
    /\ UNCHANGED <<job, outbox, leases, artifacts, plan, basis, actions>>

-----------------------------------------------------------------------------
(* Jobs added to a run that already has some *)

\* run_batch (continue_extraction) checks guard_extract_continuation in a transaction
\* of its own, replays receipts, and enqueues in a later one: a guard that held after the
\* extraction was committed may be stale by now, and only claim_job looks again.
EnqueueBatch(j) ==
    /\ Origin[j] = "batch"
    /\ job[j].status = "absent"
    /\ ~run.cancelled
    /\ run.extract_job # None
    /\ job' = EnqueuedJob(job, j)
    /\ outbox' = EnqueuedEvent(outbox, job, j)
    /\ UNCHANGED <<run, leases, artifacts, plan, basis, actions>>

\* authorize_recovery: only recoveries of the same lineage are looked at.
OpenRecoveries ==
    {k \in Jobs : Origin[k] = "recovery" /\ plan[k] = run.tag_job /\ job[k].status \in Open}

Authorize(j) ==
    /\ job[j].status = "absent"
    /\ ~run.cancelled
    /\ run.tag_job # None
    /\ job' = EnqueuedJob(job, j)
    /\ outbox' = EnqueuedEvent(outbox, job, j)
    /\ plan' = [plan EXCEPT ![j] = run.tag_job]
    /\ UNCHANGED <<run, leases, artifacts, basis, actions>>

AuthorizeRecovery(j) ==
    /\ Origin[j] = "recovery"
    /\ OpenRecoveries = {}
    /\ Authorize(j)

\* authorize_reprocess: refuses while any tag job is outstanding.
OutstandingTagJobs == {k \in Jobs : Stage[k] = "tag" /\ job[k].status \in Open}

AuthorizeReprocess(j) ==
    /\ Origin[j] = "reprocess"
    /\ OutstandingTagJobs = {}
    /\ Authorize(j)

-----------------------------------------------------------------------------
(* Operator actions (_action); the expected revision is the current one, a   *)
(* stale or replayed request changes nothing.                                *)

Cancelled(r) == [r EXCEPT !.status = "cancelled"]

ToCancelMutant == {j \in Jobs : job[j].status \in Open}
ToCancel == {j \in Jobs : job[j].status \in Open \cup {"failed"}}

CancelRun ==
    /\ run.status # "completed"
    /\ actions < MaxActions
    /\ actions' = actions + 1
    /\ job' = [j \in Jobs |-> IF j \in ToCancel THEN Cancelled(job[j]) ELSE job[j]]
    /\ run' = [Bump(run, "cancelled") EXCEPT !.cancelled = TRUE]
    /\ UNCHANGED <<outbox, leases, artifacts, plan, basis>>

RevivedMutant(r) == [r EXCEPT !.status = "pending", !.wait = 0, !.retry = 0, !.token = 0]
Revived(r) == [r EXCEPT !.status = "pending", !.wait = 0, !.retry = 0]

ToRetryMutant == {j \in Jobs : job[j].status \in {"failed", "superseded"}}
ToRetry == {j \in Jobs : job[j].status = "failed"}

RetryRun ==
    /\ run.status \in {"partial", "failed"}
    /\ ~run.cancelled
    /\ actions < MaxActions
    /\ actions' = actions + 1
    /\ job' = [j \in Jobs |-> IF j \in ToRetry THEN Revived(job[j]) ELSE job[j]]
    /\ outbox' = WithEvents(outbox, {Event(j, "manual", run.revision) : j \in ToRetry}, 0)
    /\ run' = Bump(run, "running")
    /\ UNCHANGED <<leases, artifacts, plan, basis>>

-----------------------------------------------------------------------------
(* Outbox *)

\* pending_outbox
Due(e) ==
    /\ ~run.cancelled
    /\ e \in DOMAIN outbox
    /\ outbox[e].status = "pending"
    /\ outbox[e].wait = 0

\* mark_outbox: compare-and-set on the attempt count the caller saw.  The deadline
\* of an event that is no longer pending is never read.
MarkOutbox(e, sent, seen, delay) ==
    /\ EventFence(e, seen)
    /\ seen < MaxMarks[e.job]
    /\ outbox' = [outbox EXCEPT ![e] = [status |-> IF sent THEN "sent" ELSE "pending",
                                        wait |-> IF sent THEN 0 ELSE delay,
                                        attempts |-> seen + 1]]
    /\ UNCHANGED <<run, job, leases, artifacts, plan, basis, actions>>

-----------------------------------------------------------------------------
(* Time *)

Less(n) == IF n > 0 THEN n - 1 ELSE 0
Aged(r) == [r EXCEPT !.lease = Less(@), !.wait = Less(@)]

Tick ==
    /\ \/ \E j \in Jobs : job[j].lease > 0 \/ job[j].wait > 0
       \/ \E e \in DOMAIN outbox : outbox[e].wait > 0
    /\ job' = [j \in Jobs |-> Aged(job[j])]
    /\ outbox' = [e \in DOMAIN outbox |-> [outbox[e] EXCEPT !.wait = Less(@)]]
    /\ UNCHANGED <<run, leases, artifacts, plan, basis, actions>>

-----------------------------------------------------------------------------
WorkerStep ==
    \/ \E j \in Jobs : ClaimJob(j)
    \/ \E l \in leases :
          \/ Heartbeat(l)
          \/ \E transient \in BOOLEAN, delay \in Delays : FailJob(l, transient, delay)
          \/ CommitParse(l)
          \/ CommitExtract(l)
          \/ PublishClaim(l)
          \/ \E e \in DOMAIN outbox : CommitTag(l, e, outbox[e].attempts)

OperatorStep ==
    \/ CancelRun
    \/ RetryRun
    \/ \E j \in Jobs : EnqueueBatch(j) \/ AuthorizeRecovery(j) \/ AuthorizeReprocess(j)

RelayStep ==
    \E e \in DOMAIN outbox, sent \in BOOLEAN, delay \in Delays :
        \E seen \in 0 .. MaxMarks[e.job] : MarkOutbox(e, sent, seen, delay)

Next == WorkerStep \/ OperatorStep \/ RelayStep \/ Tick

Spec == Init /\ [][Next]_vars

-----------------------------------------------------------------------------
(* Properties *)

\* Every record has its type: no transaction leaves a malformed run, job, event,
\* lease or checkpoint row.
TypeOK ==
    /\ run \in RunRecord
    /\ job \in [Jobs -> JobRecord]
    /\ DOMAIN outbox \subseteq EventId
    /\ outbox \in [DOMAIN outbox -> EventRecord]
    /\ leases \subseteq Key
    /\ artifacts \subseteq Key
    /\ plan \in [Jobs -> Jobs \cup {None}]
    /\ basis \in [Jobs -> Jobs \cup {None}]
    /\ actions \in Nat

\* Fencing (commit_job, _owned): a checkpoint exists only for a succeeded job, was
\* written by the newest claim of that job and there is no second one; and every
\* succeeded job has the checkpoint its artifact_ref names.
CheckpointFenced ==
    /\ \A a \in artifacts : /\ job[a.job].status = "succeeded"
                            /\ job[a.job].token = a.token
    /\ \A j \in Jobs : job[j].status = "succeeded"
                           => [job |-> j, token |-> job[j].token] \in artifacts

\* Once the run is cancelled no job is left to claim, renew, retry or publish
\* (_action cancel, _enqueue, _owned): a worker still running cannot bring one back.
CancelledRunIsClosed ==
    run.cancelled => /\ run.status = "cancelled"
                     /\ \A j \in Jobs : job[j].status \notin Open \cup {"failed"}

\* _event inserts an immutable row and raises on a duplicate id: whenever a job is
\* leased the id its failure would insert is still free, and so is every id the
\* next operator retry would insert.
EventIdsFresh ==
    /\ \A j \in Jobs : job[j].status = "leased"
                           => Event(j, "retry", job[j].token) \notin DOMAIN outbox
    /\ \A e \in DOMAIN outbox : e.cause = "manual" => e.n < run.revision
    /\ \A j \in Jobs : job[j].status = "absent" => \A e \in DOMAIN outbox : e.job # j

\* fail_job's automatic retries: between two operator retries a job gets at most
\* RetryLimit - 1 retry events, lost leases and re-claims included.
RetryBudget ==
    \A j \in Jobs :
        LET events(cause) == {e \in DOMAIN outbox : e.job = j /\ e.cause = cause}
        IN  Cardinality(events("retry"))
                <= (RetryLimit - 1) * (1 + Cardinality(events("manual")))

\* guard_extract_continuation and the fencing token together: what a tag worker
\* publishes under a live lease, and every claim head it has published, was tagged
\* from the extraction the run points at, although extraction may be continued
\* after tagging has started.
TaggedFromCurrentExtraction ==
    /\ run.heads # None => run.heads = run.extract_job
    /\ \A l \in leases : Stage[l.job] = "tag" /\ Owned(l) => basis[l.job] = run.extract_job

\* authorize_reprocess promises that "two reprocess/recovery callbacks can never race
\* the same lineage": no two open jobs are pinned to the same published tag job.
NoRacingTagCallbacks ==
    \A j, k \in Jobs : /\ plan[j] # None /\ plan[j] = plan[k]
                       /\ job[j].status \in Open /\ job[k].status \in Open
                       => j = k

\* A job that succeeded, was superseded or was cancelled is settled for good: no
\* late worker, retry or continuation changes its status or its fencing token; and
\* no token ever goes back.
SettledForGood ==
    [][\A j \in Jobs :
          /\ job'[j].token >= job[j].token
          /\ job[j].status \in {"succeeded", "superseded", "cancelled"}
                => /\ job'[j].status = job[j].status
                   /\ job'[j].token = job[j].token]_vars
=============================================================================
