----------------------------- MODULE JobWorkers -----------------------------
(***************************************************************************)
(* The worker processes that drive one run through the job store           *)
(* (apps/worker: consumer.consume_job, and run_once of the parse, extract  *)
(* and tag runners).  A worker reads a due outbox event, claims its job,   *)
(* runs the stage with a keepalive thread, records usage, commits or       *)
(* fails, and acknowledges the event.  Each store call is a transaction of *)
(* its own, and the process may die between any two of them.               *)
(***************************************************************************)
EXTENDS JobStore

CONSTANTS
    Workers,
    MaxCrashes,   \* bound: worker processes that die
    Punctual      \* TRUE: the keepalive of a live worker is never late

ASSUME WorkersAssumption == MaxCrashes \in Nat /\ Punctual \in BOOLEAN

VARIABLES
    wk,       \* wk[w]: program counter, event, attempts seen, token, outcome
    usage,    \* immutable usage records, keyed like the lease
    crashes

wvars == <<run, job, outbox, leases, artifacts, plan, basis, actions, wk, usage, crashes>>

NoEvent == Event(None, "initial", 0)
Idle == [pc |-> "idle", event |-> NoEvent, seen |-> 0, token |-> 0, outcome |-> "none"]

Lease(w) == [job |-> wk[w].event.job, token |-> wk[w].token]
At(w, pc) == wk[w].pc = pc
Goto(w, pc) == wk' = [wk EXCEPT ![w].pc = pc]
GoIdle(w) == wk' = [wk EXCEPT ![w] = Idle]

WInit ==
    /\ Init
    /\ wk = [w \in Workers |-> Idle]
    /\ usage = {}
    /\ crashes = 0

-----------------------------------------------------------------------------
\* run_once: a due event; TagRecovery.load and TagReprocess.load refuse a plan
\* whose lineage is not the published one before any lease is taken.
PlanCurrent(j) == Origin[j] \in {"recovery", "reprocess"} => plan[j] = run.tag_job

Pick(w, e) ==
    /\ At(w, "idle")
    /\ Due(e)
    /\ PlanCurrent(e.job)
    /\ wk' = [wk EXCEPT ![w] = [Idle EXCEPT !.pc = "picked", !.event = e,
                                            !.seen = outbox[e].attempts]]
    /\ UNCHANGED <<vars, usage, crashes>>

Claim(w) ==
    LET j == wk[w].event.job
    IN  /\ At(w, "picked")
        /\ ClaimJob(j)
        /\ wk' = [wk EXCEPT ![w].pc = "leased", ![w].token = job[j].token + 1]
        /\ UNCHANGED <<usage, crashes>>

ClaimRefused(j) == ~Claimable(j) \/ (Continues(j) /\ ~ContinuationAllowed)

Refuse(w) ==
    /\ At(w, "picked")
    /\ ClaimRefused(wk[w].event.job)
    /\ Goto(w, "refused")
    /\ UNCHANGED <<vars, usage, crashes>>

\* delivery_status: "deferred" keeps the event, "ignored" acknowledges it.
DeliveryStatusMutant(w) ==
    /\ At(w, "refused")
    /\ Goto(w, "ack")
    /\ UNCHANGED <<vars, usage, crashes>>

DeliveryStatus(w) ==
    /\ At(w, "refused")
    /\ IF job[wk[w].event.job].status \in Open THEN GoIdle(w) ELSE Goto(w, "ack")
    /\ UNCHANGED <<vars, usage, crashes>>

\* can_call, before the operation of the parse and extract stages starts
Start(w) ==
    /\ At(w, "leased")
    /\ IF Stage[wk[w].event.job] = "tag" \/ Owned(Lease(w))
       THEN Goto(w, "working")
       ELSE GoIdle(w)
    /\ UNCHANGED <<vars, usage, crashes>>

\* The keepalive thread of with_lease_heartbeat, and the point heartbeats.
RenewMutant(w) ==
    /\ At(w, "working")
    /\ job' = [job EXCEPT ![Lease(w).job] = Renewed(@)]
    /\ UNCHANGED <<run, outbox, leases, artifacts, plan, basis, actions, wk, usage, crashes>>

Renew(w) ==
    /\ At(w, "working")
    /\ Heartbeat(Lease(w))
    /\ UNCHANGED <<wk, usage, crashes>>

PublishOne(w) ==
    /\ At(w, "working")
    /\ PublishClaim(Lease(w))
    /\ UNCHANGED <<wk, usage, crashes>>

\* The operation returns or raises (a lost lease included) and record_usage commits.
FinishMutant(w, outcome) ==
    /\ At(w, "working")
    /\ usage' = IF outcome = "ok" THEN usage \cup {Lease(w)} ELSE usage
    /\ wk' = [wk EXCEPT ![w].pc = "returned", ![w].outcome = outcome]
    /\ UNCHANGED <<vars, crashes>>

Finish(w, outcome) ==
    /\ At(w, "working")
    /\ usage' = usage \cup {Lease(w)}
    /\ wk' = [wk EXCEPT ![w].pc = "returned", ![w].outcome = outcome]
    /\ UNCHANGED <<vars, crashes>>

CommitStep(w) ==
    \/ (CommitParse(Lease(w)) \/ CommitExtract(Lease(w))) /\ Goto(w, "ack")
    \/ CommitTag(Lease(w), wk[w].event, wk[w].seen) /\ GoIdle(w)

Commit(w) ==
    /\ At(w, "returned")
    /\ wk[w].outcome = "ok"
    /\ CommitStep(w)
    /\ UNCHANGED <<usage, crashes>>

\* commit_job returned False, or raised and rolled back (extraction conflict, event
\* fence, lineage): nothing is written and the event is left alone.
Discard(w) ==
    /\ At(w, "returned")
    /\ IF wk[w].outcome = "ok" THEN ~ENABLED CommitStep(w) ELSE ~Owned(Lease(w))
    /\ GoIdle(w)
    /\ UNCHANGED <<vars, usage, crashes>>

Fail(w) ==
    /\ At(w, "returned")
    /\ wk[w].outcome \in {"transient", "fatal"}
    /\ \E delay \in Delays : FailJob(Lease(w), wk[w].outcome = "transient", delay)
    /\ Goto(w, "ack")
    /\ UNCHANGED <<usage, crashes>>

\* mark_outbox after committed, ignored, failed or retry
Ack(w) ==
    /\ At(w, "ack")
    /\ IF EventFence(wk[w].event, wk[w].seen)
       THEN \E delay \in Delays : MarkOutbox(wk[w].event, TRUE, wk[w].seen, delay)
       ELSE UNCHANGED vars
    /\ GoIdle(w)
    /\ UNCHANGED <<usage, crashes>>

Crash(w) ==
    /\ ~At(w, "idle")
    /\ crashes < MaxCrashes
    /\ crashes' = crashes + 1
    /\ GoIdle(w)
    /\ UNCHANGED <<vars, usage>>

-----------------------------------------------------------------------------
KeptAlive ==
    \A w \in Workers : ~At(w, "idle") /\ Owned(Lease(w)) => job[Lease(w).job].lease > 1

Time ==
    /\ Punctual => KeptAlive
    /\ Tick
    /\ UNCHANGED <<wk, usage, crashes>>

Operator == OperatorStep /\ UNCHANGED <<wk, usage, crashes>>

Outcomes == {"ok", "transient", "fatal"}

Deliver(w) ==
    \/ \E e \in DOMAIN outbox : Pick(w, e)
    \/ Claim(w)
    \/ Refuse(w)
    \/ DeliveryStatus(w)
    \/ Start(w)
    \/ \E outcome \in Outcomes : Finish(w, outcome)
    \/ Commit(w)
    \/ Discard(w)
    \/ Fail(w)
    \/ Ack(w)

WNext ==
    \/ \E w \in Workers : Deliver(w) \/ Renew(w) \/ PublishOne(w) \/ Crash(w)
    \/ Operator
    \/ Time

WSpec == WInit /\ [][WNext]_wvars

\* Workers keep polling and their operations return (every provider call has a
\* timeout), the keepalive thread runs and the clock advances.
Fairness ==
    /\ \A w \in Workers : WF_wvars(Deliver(w)) /\ WF_wvars(Renew(w))
    /\ WF_wvars(Time)

FairSpec == WSpec /\ Fairness

-----------------------------------------------------------------------------
(* Properties *)

\* Worker records are well formed: a worker past its claim holds a lease the store
\* recorded, and usage is recorded for recorded attempts only.
WorkersTypeOK ==
    /\ wk \in [Workers -> [pc : {"idle", "picked", "refused", "leased", "working",
                                 "returned", "ack"},
                           event : EventId \cup {NoEvent}, seen : Nat, token : Nat,
                           outcome : Outcomes \cup {"none"}]]
    /\ usage \subseteq leases
    /\ \A w \in Workers : wk[w].pc \in {"leased", "working", "returned"} => Lease(w) \in leases

\* consume_job records usage before it commits or fails: every published
\* checkpoint's attempt, and every attempt that ended in a retry or a failure, is
\* accounted for, whichever process died in between.
UsageBeforeOutcome ==
    /\ artifacts \subseteq usage
    /\ \A e \in DOMAIN outbox : e.cause = "retry" => [job |-> e.job, token |-> e.n] \in usage
    /\ \A j \in Jobs : job[j].status = "failed" => [job |-> j, token |-> job[j].token] \in usage

\* Workers and accounts agree in every state.
AttemptsAccounted == WorkersTypeOK /\ UsageBeforeOutcome

\* No lost wake-up: a job that can still be claimed, now or after its lease runs
\* out, has an outbox event that will deliver it, although events are acknowledged
\* in a transaction of their own and duplicates of a job's events exist.
NoLostWakeup ==
    \A j \in Jobs : job[j].status \in Open
        => \E e \in DOMAIN outbox : e.job = j /\ outbox[e].status = "pending"

\* The job store's own specification is implemented by the workers.
StoreSpec == Spec

\* A run that is admitted is eventually settled: it leaves the active states, which
\* frees the tenant's slot, in spite of crashes and transient failures.
RunSettles == (run.status \in {"queued", "running"}) ~> (run.status \notin {"queued", "running"})

\* Workers that keep polling leave no job open for ever: it is committed, failed,
\* cancelled or superseded.
JobsSettle == \A j \in Jobs : (job[j].status \in Open) ~> (job[j].status \notin Open)

\* Whoever dies or fails on the way, the run and all of its jobs come to an end.
WorkSettles == RunSettles /\ JobsSettle
=============================================================================
