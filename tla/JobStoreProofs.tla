--------------------------- MODULE JobStoreProofs ---------------------------
(***************************************************************************)
(* Safety of the job store for every set of jobs, every way they follow    *)
(* each other and every value of the bounds, proved from one inductive     *)
(* invariant; the bound on retries, which counts events; and the workers:  *)
(* that they implement the store, account for what they did and never      *)
(* leave an open job without an event that will wake somebody.             *)
(***************************************************************************)
EXTENDS JobWorkers, FiniteSetTheorems, TLAPS

JobFunction == [Jobs -> JobRecord]
OutboxOK(ob) == DOMAIN ob \subseteq EventId /\ ob \in [DOMAIN ob -> EventRecord]

\* _bump_run raises the revision by one, sets the status and keeps every other field.
LEMMA BumpFacts ==
    ASSUME NEW r \in RunRecord, NEW s \in RunStatus
    PROVE  /\ Bump(r, s) \in RunRecord
           /\ Bump(r, s).revision = r.revision + 1
           /\ Bump(r, s).status = s
           /\ Bump(r, s).cancelled = r.cancelled
           /\ Bump(r, s).heads = r.heads
           /\ Bump(r, s).extract_job = r.extract_job
           /\ Bump(r, s).tag_job = r.tag_job
<1>1. r.revision + 1 \in Nat
  BY DEF RunRecord
<1>2. Bump(r, s) \in RunRecord
  BY <1>1, Zenon DEF RunRecord, Bump
<1>3. Bump(r, s).revision = r.revision + 1 /\ Bump(r, s).status = s
  BY DEF Bump, RunRecord
<1>4. Bump(r, s).cancelled = r.cancelled /\ Bump(r, s).heads = r.heads
  BY DEF Bump, RunRecord
<1>5. Bump(r, s).extract_job = r.extract_job /\ Bump(r, s).tag_job = r.tag_job
  BY DEF Bump, RunRecord
<1> QED
  BY <1>2, <1>3, <1>4, <1>5

\* A claim makes the record leased under the next fencing token.
LEMMA LeasedFacts ==
    ASSUME NEW r \in JobRecord
    PROVE  /\ Leased(r) \in JobRecord
           /\ Leased(r).status = "leased"
           /\ Leased(r).token = r.token + 1
<1>1. r.token + 1 \in Nat /\ r.retry + 1 \in Nat /\ LeaseSeconds \in Nat
  BY BoundsAssumption DEF JobRecord
<1>2. Leased(r) \in JobRecord
  BY <1>1, Zenon DEF JobRecord, JobStatus, Leased
<1>3. Leased(r).status = "leased" /\ Leased(r).token = r.token + 1
  BY DEF Leased, JobRecord
<1> QED
  BY <1>2, <1>3

\* A renewal changes neither status nor token.
LEMMA RenewedFacts ==
    ASSUME NEW r \in JobRecord
    PROVE  /\ Renewed(r) \in JobRecord
           /\ Renewed(r).status = r.status
           /\ Renewed(r).token = r.token
  BY BoundsAssumption DEF Renewed, JobRecord

\* Superseding changes open tag jobs only, and moves their token on.
LEMMA SupersededFacts ==
    ASSUME NEW jb \in JobFunction
    PROVE  /\ Superseded(jb) \in JobFunction
           /\ \A j \in Jobs :
                 IF Stage[j] = "tag" /\ jb[j].status \in Open
                 THEN /\ Superseded(jb)[j].status = "superseded"
                      /\ Superseded(jb)[j].token = jb[j].token + 1
                 ELSE Superseded(jb)[j] = jb[j]
<1>1. ASSUME NEW r \in JobRecord
      PROVE  /\ [r EXCEPT !.status = "superseded", !.token = @ + 1] \in JobRecord
             /\ [r EXCEPT !.status = "superseded", !.token = @ + 1].status = "superseded"
             /\ [r EXCEPT !.status = "superseded", !.token = @ + 1].token = r.token + 1
  <2>1. r.token + 1 \in Nat
    BY DEF JobRecord
  <2>2. [r EXCEPT !.status = "superseded", !.token = @ + 1] \in JobRecord
    BY <2>1, Zenon DEF JobRecord, JobStatus
  <2> QED
    BY <2>2 DEF JobRecord
<1>2. Superseded(jb) \in JobFunction
  BY <1>1 DEF Superseded, JobFunction
<1> QED
  BY <1>1, <1>2 DEF Superseded, JobFunction

\* Enqueuing creates a fresh pending job where there was none, and nothing else.
LEMMA EnqueuedFacts ==
    ASSUME NEW jb \in JobFunction, NEW j \in Jobs \cup {None}
    PROVE  /\ EnqueuedJob(jb, j) \in JobFunction
           /\ \A k \in Jobs : IF k = j /\ jb[k].status = "absent"
                              THEN /\ EnqueuedJob(jb, j)[k].status = "pending"
                                   /\ EnqueuedJob(jb, j)[k].token = 0
                              ELSE EnqueuedJob(jb, j)[k] = jb[k]
<1>1. FreshJob \in JobRecord /\ FreshJob.status = "pending" /\ FreshJob.token = 0
  BY DEF FreshJob, AbsentJob, JobRecord, JobStatus
<1> QED
  BY <1>1, JobsAssumption DEF EnqueuedJob, JobFunction

\* Completing a job keeps its token and leaves the other jobs alone.
LEMMA SucceededFacts ==
    ASSUME NEW jb \in JobFunction, NEW j \in Jobs
    PROVE  /\ Succeeded(jb, j) \in JobFunction
           /\ Succeeded(jb, j)[j].status = "succeeded"
           /\ Succeeded(jb, j)[j].token = jb[j].token
           /\ \A k \in Jobs \ {j} : Succeeded(jb, j)[k] = jb[k]
  BY DEF Succeeded, JobFunction, JobRecord, JobStatus

\* The clock changes deadlines only.
LEMMA AgedFacts ==
    ASSUME NEW r \in JobRecord
    PROVE  /\ Aged(r) \in JobRecord
           /\ Aged(r).status = r.status
           /\ Aged(r).token = r.token
           /\ Aged(r).lease > 0 => r.lease > 0
<1>1. Less(r.lease) \in Nat /\ Less(r.wait) \in Nat
  BY DEF Less, JobRecord
<1>2. Aged(r) \in JobRecord
  BY <1>1, Zenon DEF JobRecord, Aged
<1>3. Aged(r).lease > 0 => r.lease > 0
  BY DEF JobRecord, Aged, Less
<1> QED
  BY <1>2, <1>3 DEF JobRecord, Aged

\* Superseding keeps the set of event ids, inserting extends it.
LEMMA OutboxFacts ==
    ASSUME NEW ob, OutboxOK(ob)
    PROVE  /\ OutboxOK(SupersededEvents(ob))
           /\ DOMAIN SupersededEvents(ob) = DOMAIN ob
           /\ \A ids \in SUBSET EventId, wait \in Nat :
                 /\ OutboxOK(WithEvents(ob, ids, wait))
                 /\ DOMAIN WithEvents(ob, ids, wait) = DOMAIN ob \cup ids
<1>1. OutboxOK(SupersededEvents(ob)) /\ DOMAIN SupersededEvents(ob) = DOMAIN ob
  BY DEF OutboxOK, SupersededEvents, EventRecord
<1>2. ASSUME NEW ids \in SUBSET EventId, NEW wait \in Nat
      PROVE  /\ OutboxOK(WithEvents(ob, ids, wait))
             /\ DOMAIN WithEvents(ob, ids, wait) = DOMAIN ob \cup ids
  BY DEF OutboxOK, WithEvents, Pending, EventRecord
<1> QED
  BY <1>1, <1>2
\* The run fields a commit, a claim publication or a cancellation sets besides.
LEMMA RunFieldFacts ==
    ASSUME NEW r \in RunRecord, NEW j \in Jobs, NEW h \in Jobs \cup {None}
    PROVE  /\ [r EXCEPT !.extract_job = j] \in RunRecord
           /\ [r EXCEPT !.heads = h] \in RunRecord
           /\ [r EXCEPT !.cancelled = TRUE] \in RunRecord
           /\ [r EXCEPT !.tag_job = j, !.heads = h] \in RunRecord
  BY Zenon DEF RunRecord

\* An event keeps its id when its record is replaced.
LEMMA MarkedFacts ==
    ASSUME NEW ob, OutboxOK(ob), NEW e \in DOMAIN ob, NEW r \in EventRecord
    PROVE  /\ OutboxOK([ob EXCEPT ![e] = r])
           /\ DOMAIN [ob EXCEPT ![e] = r] = DOMAIN ob
  BY DEF OutboxOK

-----------------------------------------------------------------------------
(* What each operation does to the typed state *)

\* Every transaction leaves well-formed records (_put of run, job, outbox, lease
\* and artifact rows).
LEMMA TypeStep == TypeOK /\ [Next]_vars => TypeOK'
<1> SUFFICES ASSUME TypeOK, [Next]_vars PROVE TypeOK'
  OBVIOUS
<1> USE JobsAssumption, BoundsAssumption
<1>0. /\ job \in JobFunction /\ OutboxOK(outbox) /\ run \in RunRecord
      /\ leases \subseteq Key /\ artifacts \subseteq Key
      /\ plan \in [Jobs -> Jobs \cup {None}] /\ basis \in [Jobs -> Jobs \cup {None}]
      /\ actions \in Nat
  BY DEF TypeOK, JobFunction, OutboxOK
<1>1. ASSUME /\ job' \in JobFunction /\ OutboxOK(outbox') /\ run' \in RunRecord
             /\ leases' \subseteq Key /\ artifacts' \subseteq Key
             /\ plan' \in [Jobs -> Jobs \cup {None}]
             /\ basis' \in [Jobs -> Jobs \cup {None}] /\ actions' \in Nat
      PROVE  TypeOK'
  BY <1>1 DEF TypeOK, JobFunction, OutboxOK
<1>2. \A s \in RunStatus : Bump(run, s) \in RunRecord
  BY <1>0, BumpFacts
<1>3. run.status \in RunStatus /\ "running" \in RunStatus /\ "cancelled" \in RunStatus
      /\ "partial" \in RunStatus /\ "failed" \in RunStatus /\ PublishedStatus \in RunStatus
  BY <1>0 DEF RunRecord, RunStatus
<1>4. ASSUME NEW j \in Jobs, ClaimJob(j) PROVE TypeOK'
  <2>1. job' \in JobFunction
    BY <1>0, <1>4, SupersededFacts, LeasedFacts DEF ClaimJob, JobFunction
  <2>2. OutboxOK(outbox')
    BY <1>0, <1>4, OutboxFacts DEF ClaimJob
  <2>3. leases' \subseteq Key
    BY <1>0, <1>4 DEF ClaimJob, Key, JobFunction, JobRecord
  <2>4. basis' \in [Jobs -> Jobs \cup {None}]
    BY <1>0, <1>4 DEF ClaimJob, RunRecord
  <2> QED
    BY <1>0, <1>1, <1>2, <1>3, <1>4, <2>1, <2>2, <2>3, <2>4 DEF ClaimJob
<1>5. ASSUME NEW l \in leases, Heartbeat(l) PROVE TypeOK'
  <2>1. l.job \in Jobs
    BY <1>0 DEF Key
  <2>2. job' \in JobFunction
    BY <1>0, <1>5, <2>1, RenewedFacts DEF Heartbeat, JobFunction
  <2> QED
    BY <1>0, <1>1, <1>5, <2>2 DEF Heartbeat
<1>6. ASSUME NEW l \in leases, NEW transient \in BOOLEAN, NEW delay \in Delays,
             FailJob(l, transient, delay)
      PROVE  TypeOK'
  <2>1. l.job \in Jobs /\ l.token \in Nat /\ delay \in Nat
    BY <1>0 DEF Key
  <2>2. \A r \in JobRecord, s \in {"pending", "failed"} :
           [r EXCEPT !.status = s, !.wait = delay] \in JobRecord
    BY <2>1, Zenon DEF JobRecord, JobStatus
  <2>3. job' \in JobFunction
    BY <1>0, <1>6, <2>1, <2>2 DEF FailJob, JobFunction
  <2>4. {Event(l.job, "retry", l.token)} \in SUBSET EventId
    BY <2>1 DEF Event, EventId
  <2>5. OutboxOK(outbox')
    BY <1>0, <1>6, <2>1, <2>4, OutboxFacts DEF FailJob
  <2>6. run' \in RunRecord
    BY <1>2, <1>3, <1>6 DEF FailJob
  <2> QED
    BY <1>0, <1>1, <1>6, <2>3, <2>5, <2>6 DEF FailJob
<1>7. ASSUME NEW j \in Jobs \cup {None}, NEW ob, OutboxOK(ob)
      PROVE  OutboxOK(EnqueuedEvent(ob, job, j))
  <2>1. ASSUME j \in Jobs PROVE {Event(j, "initial", 0)} \in SUBSET EventId
    BY <2>1 DEF Event, EventId
  <2> QED
    BY <1>7, <2>1, OutboxFacts DEF EnqueuedEvent
<1>8. ASSUME NEW l \in leases, CommitParse(l) PROVE TypeOK'
  <2>1. l.job \in Jobs /\ NextJob[l.job] \in Jobs \cup {None} /\ l \in Key
    BY <1>0 DEF Key
  <2>2. job' \in JobFunction
    BY <1>0, <1>8, <2>1, SucceededFacts, EnqueuedFacts DEF CommitParse
  <2>3. OutboxOK(outbox')
    BY <1>0, <1>7, <1>8, <2>1 DEF CommitParse
  <2> QED
    BY <1>0, <1>1, <1>2, <1>3, <1>8, <2>1, <2>2, <2>3 DEF CommitParse
<1>9. ASSUME NEW l \in leases, CommitExtract(l) PROVE TypeOK'
  <2>1. l.job \in Jobs /\ NextJob[l.job] \in Jobs \cup {None} /\ l \in Key
    BY <1>0 DEF Key
  <2>2. job' \in JobFunction
    BY <1>0, <1>9, <2>1, SupersededFacts, SucceededFacts, EnqueuedFacts DEF CommitExtract
  <2>3. OutboxOK(outbox')
    BY <1>0, <1>7, <1>9, <2>1, OutboxFacts DEF CommitExtract
  <2>4. run' \in RunRecord
    BY <1>2, <1>3, <1>9, <2>1, RunFieldFacts DEF CommitExtract
  <2> QED
    BY <1>0, <1>1, <1>9, <2>1, <2>2, <2>3, <2>4 DEF CommitExtract
<1>10. ASSUME NEW l \in leases, PublishClaim(l) PROVE TypeOK'
  <2>1. run' \in RunRecord
    <3>1. basis[l.job] \in Jobs \cup {None}
      BY <1>0 DEF Key
    <3> QED
      BY <1>2, <1>3, <1>10, <3>1, RunFieldFacts DEF PublishClaim
  <2> QED
    BY <1>0, <1>1, <1>10, <2>1 DEF PublishClaim
<1>11. ASSUME NEW l \in leases, NEW e \in DOMAIN outbox, CommitTag(l, e, outbox[e].attempts)
       PROVE  TypeOK'
  <2>1. l.job \in Jobs /\ l \in Key
    BY <1>0 DEF Key
  <2>2. job' \in JobFunction
    BY <1>0, <1>11, <2>1, SucceededFacts DEF CommitTag
  <2>3. OutboxOK(outbox')
    <3>1. outbox[e] \in EventRecord /\ outbox[e].attempts + 1 \in Nat
      BY <1>0 DEF OutboxOK, EventRecord
    <3>2. Sent(outbox[e]) \in EventRecord
      BY <3>1, Zenon DEF EventRecord, Sent
    <3> QED
      BY <1>0, <1>11, <3>2, MarkedFacts DEF CommitTag
  <2>4. run' \in RunRecord
    <3>1. basis[l.job] \in Jobs \cup {None}
      BY <1>0, <2>1
    <3> QED
      BY <1>2, <1>3, <1>11, <2>1, <3>1, RunFieldFacts DEF CommitTag, ExtractionPinned
  <2> QED
    BY <1>0, <1>1, <1>11, <2>1, <2>2, <2>3, <2>4 DEF CommitTag
<1>12. ASSUME NEW j \in Jobs,
              EnqueueBatch(j) \/ AuthorizeRecovery(j) \/ AuthorizeReprocess(j)
       PROVE  TypeOK'
  <2>1. /\ job' = EnqueuedJob(job, j) /\ outbox' = EnqueuedEvent(outbox, job, j)
        /\ UNCHANGED <<run, leases, artifacts, basis, actions>>
    BY <1>12 DEF EnqueueBatch, AuthorizeRecovery, AuthorizeReprocess, Authorize
  <2>2. job' \in JobFunction /\ OutboxOK(outbox')
    BY <1>0, <1>7, <2>1, EnqueuedFacts
  <2>3. plan' \in [Jobs -> Jobs \cup {None}]
    BY <1>0, <1>12
    DEF EnqueueBatch, AuthorizeRecovery, AuthorizeReprocess, Authorize, RunRecord
  <2> QED
    BY <1>0, <1>1, <2>1, <2>2, <2>3
<1>13. CASE CancelRun
  <2>1. \A r \in JobRecord : Cancelled(r) \in JobRecord
    BY DEF JobRecord, JobStatus, Cancelled
  <2>2. job' \in JobFunction
    BY <1>0, <1>13, <2>1 DEF CancelRun, JobFunction
  <2>3. run' \in RunRecord
    BY <1>2, <1>3, <1>13, RunFieldFacts DEF CancelRun
  <2> QED
    BY <1>0, <1>1, <1>13, <2>2, <2>3 DEF CancelRun
<1>14. CASE RetryRun
  <2>1. \A r \in JobRecord : Revived(r) \in JobRecord
    BY Zenon, 0 \in Nat DEF JobRecord, JobStatus, Revived
  <2>2. job' \in JobFunction
    BY <1>0, <1>14, <2>1 DEF RetryRun, JobFunction
  <2>3. {Event(j, "manual", run.revision) : j \in ToRetry} \in SUBSET EventId
    BY <1>0 DEF Event, EventId, RunRecord, ToRetry
  <2>4. OutboxOK(outbox')
    BY <1>0, <1>14, <2>3, OutboxFacts DEF RetryRun
  <2>5. /\ run' = Bump(run, "running") /\ actions' = actions + 1
        /\ leases' = leases /\ artifacts' = artifacts /\ plan' = plan /\ basis' = basis
    BY <1>14, Zenon DEF RetryRun
  <2> QED
    BY <1>0, <1>1, <1>2, <1>3, <2>2, <2>4, <2>5
<1>15. ASSUME NEW e \in DOMAIN outbox, NEW sent \in BOOLEAN, NEW delay \in Delays,
              NEW seen \in 0 .. MaxMarks[e.job], MarkOutbox(e, sent, seen, delay)
       PROVE  TypeOK'
  <2>1. seen \in Nat /\ delay \in Nat
    OBVIOUS
  <2> DEFINE r == [status |-> IF sent THEN "sent" ELSE "pending",
                   wait |-> IF sent THEN 0 ELSE delay,
                   attempts |-> seen + 1]
  <2>2. r \in EventRecord
    BY <2>1 DEF EventRecord
  <2>3. OutboxOK(outbox')
    <3>1. outbox' = [outbox EXCEPT ![e] = r]
      BY <1>15, Zenon DEF MarkOutbox
    <3> HIDE DEF r
    <3> QED
      BY <1>0, <2>2, <3>1, MarkedFacts
  <2> QED
    BY <1>0, <1>1, <1>15, <2>3 DEF MarkOutbox
<1>16. CASE Tick
  <2>1. job' \in JobFunction
    BY <1>0, <1>16, AgedFacts DEF Tick, JobFunction
  <2>2. \A r \in EventRecord : [r EXCEPT !.wait = Less(@)] \in EventRecord
    BY DEF EventRecord, Less
  <2>3. OutboxOK(outbox')
    BY <1>0, <1>16, <2>2 DEF Tick, OutboxOK
  <2> QED
    BY <1>0, <1>1, <1>16, <2>1, <2>3 DEF Tick
<1>17. CASE UNCHANGED vars
  BY <1>0, <1>1, <1>17 DEF vars
<1> QED
  BY <1>4, <1>5, <1>6, <1>8, <1>9, <1>10, <1>11, <1>12, <1>13, <1>14, <1>15, <1>16, <1>17
  DEF Next, WorkerStep, OperatorStep, RelayStep

\* The job store never holds a malformed record.
THEOREM TypeCorrect == Spec => []TypeOK
<1>1. Init => TypeOK
  BY JobsAssumption
  DEF Init, TypeOK, RunRecord, JobRecord, EventRecord, EventId, Key, Event, Pending,
      FreshJob, AbsentJob, RunStatus, JobStatus
<1> QED
  BY <1>1, TypeStep, PTL DEF Spec

-----------------------------------------------------------------------------
(* What each operation does to the status, the token and the lease of the     *)
(* jobs, to the set of event ids and to the fields of the run.                *)

Live(r) == r.status = "leased" /\ r.lease > 0

\* Job k keeps status and token, and does not regain a lease it had lost.
Same(k) == /\ job'[k].status = job[k].status
           /\ job'[k].token = job[k].token
           /\ Live(job'[k]) => Live(job[k])

\* An open tag job is taken out of the run under a new token.
Replaced(k) == /\ Stage[k] = "tag" /\ job[k].status \in Open
               /\ job'[k].status = "superseded"
               /\ job'[k].token = job[k].token + 1

SameRun == /\ run'.cancelled = run.cancelled
           /\ run'.heads = run.heads
           /\ run'.extract_job = run.extract_job
           /\ run'.revision >= run.revision

\* _bump_run alone keeps the pinned fields of the run.
LEMMA BumpEffect ==
    ASSUME run \in RunRecord, NEW s \in RunStatus, run' = Bump(run, s)
    PROVE  SameRun
<1>1. run.revision \in Nat
  BY DEF RunRecord
<1> QED
  BY <1>1, BumpFacts DEF SameRun

\* claim_job: the job was open, gets the next token, and only open tag jobs are
\* superseded besides.
LEMMA ClaimEffect ==
    ASSUME TypeOK, NEW j \in Jobs, ClaimJob(j)
    PROVE  /\ ~run.cancelled
           /\ job[j].status \in Open
           /\ job'[j].status = "leased" /\ job'[j].token = job[j].token + 1
           /\ \A k \in Jobs \ {j} : Same(k) \/ Replaced(k)
           /\ DOMAIN outbox' = DOMAIN outbox
           /\ artifacts' = artifacts
           /\ basis'[j] = run.extract_job
           /\ \A k \in Jobs \ {j} : basis'[k] = basis[k]
           /\ SameRun
<1>1. job \in JobFunction /\ OutboxOK(outbox) /\ run \in RunRecord
  BY DEF TypeOK, JobFunction, OutboxOK
<1>2. ~run.cancelled /\ job[j].status \in Open /\ artifacts' = artifacts
  BY DEF ClaimJob, Claimable, Open
<1>3. DOMAIN outbox' = DOMAIN outbox
  BY <1>1, OutboxFacts DEF ClaimJob
<1>4. PICK jb \in JobFunction : /\ job' = [jb EXCEPT ![j] = Leased(jb[j])]
                                /\ jb = job \/ (jb = Superseded(job) /\ Continues(j))
  BY <1>1, SupersededFacts DEF ClaimJob
<1>5. jb[j] = job[j]
  BY <1>1, <1>4, SupersededFacts DEF Continues
<1>6. job'[j].status = "leased" /\ job'[j].token = job[j].token + 1
  BY <1>4, <1>5, LeasedFacts DEF JobFunction
<1>7. ASSUME NEW k \in Jobs \ {j} PROVE Same(k) \/ Replaced(k)
  <2>1. job'[k] = jb[k]
    BY <1>4 DEF JobFunction
  <2> QED
    BY <1>1, <1>4, <2>1, SupersededFacts DEF Same, Replaced, Live
<1>8. basis'[j] = run.extract_job /\ \A k \in Jobs \ {j} : basis'[k] = basis[k]
  BY DEF ClaimJob, TypeOK
<1>9. SameRun
  <2>1. "running" \in RunStatus /\ run' = Bump(run, "running")
    BY DEF RunStatus, ClaimJob
  <2> QED
    BY <1>1, <2>1, BumpEffect
<1> QED
  BY <1>2, <1>3, <1>6, <1>7, <1>8, <1>9

\* heartbeat: nothing but the deadline of a live lease moves.
LEMMA HeartbeatEffect ==
    ASSUME TypeOK, NEW l \in leases, Heartbeat(l)
    PROVE  /\ \A k \in Jobs : Same(k)
           /\ UNCHANGED <<run, outbox, artifacts, basis>>
<1>1. l.job \in Jobs /\ job \in JobFunction
  BY DEF TypeOK, Key, JobFunction
<1>2. Live(job[l.job])
  BY DEF Heartbeat, Owned, Live
<1>3. job'[l.job] = Renewed(job[l.job]) /\ \A k \in Jobs \ {l.job} : job'[k] = job[k]
  BY <1>1 DEF Heartbeat, JobFunction
<1>4. Same(l.job)
  BY <1>1, <1>2, <1>3, RenewedFacts DEF Same, JobFunction
<1> QED
  BY <1>3, <1>4 DEF Heartbeat, Same

\* fail_job: the owned job goes back to pending with a retry event of its own
\* token, or fails; nothing else changes.
LEMMA FailEffect ==
    ASSUME TypeOK, NEW l \in leases, NEW transient \in BOOLEAN, NEW delay \in Delays,
           FailJob(l, transient, delay)
    PROVE  /\ Owned(l)
           /\ job'[l.job].status \in {"pending", "failed"}
           /\ job'[l.job].token = l.token
           /\ \A k \in Jobs \ {l.job} : Same(k)
           /\ DOMAIN outbox' \subseteq DOMAIN outbox \cup {Event(l.job, "retry", l.token)}
           /\ DOMAIN outbox \subseteq DOMAIN outbox'
           /\ UNCHANGED <<artifacts, basis>>
           /\ SameRun
<1>1. l.job \in Jobs /\ l.token \in Nat /\ job \in JobFunction /\ OutboxOK(outbox)
      /\ run \in RunRecord /\ delay \in Nat
  BY BoundsAssumption DEF TypeOK, Key, JobFunction, OutboxOK
<1>2. Owned(l) /\ UNCHANGED <<artifacts, basis>>
  BY DEF FailJob
<1>3. PICK s \in {"pending", "failed"} :
         job' = [job EXCEPT ![l.job] = [job[l.job] EXCEPT !.status = s, !.wait = delay]]
  BY Zenon DEF FailJob
<1>4. job'[l.job].status \in {"pending", "failed"} /\ job'[l.job].token = l.token
  BY <1>1, <1>2, <1>3 DEF JobFunction, JobRecord, Owned
<1>5. \A k \in Jobs \ {l.job} : Same(k)
  BY <1>1, <1>3 DEF JobFunction, Same
<1>6. {Event(l.job, "retry", l.token)} \in SUBSET EventId
  BY <1>1 DEF Event, EventId
<1>7. \/ outbox' = outbox
      \/ outbox' = WithEvents(outbox, {Event(l.job, "retry", l.token)}, delay)
  <2>1. CASE transient /\ RetriesLeft(l.job)
    BY <2>1, Zenon DEF FailJob
  <2>2. CASE ~(transient /\ RetriesLeft(l.job))
    BY <2>2, Zenon DEF FailJob
  <2> QED
    BY <2>1, <2>2
<1>8. /\ DOMAIN outbox' \subseteq DOMAIN outbox \cup {Event(l.job, "retry", l.token)}
      /\ DOMAIN outbox \subseteq DOMAIN outbox'
  <2>1. DOMAIN WithEvents(outbox, {Event(l.job, "retry", l.token)}, delay)
            = DOMAIN outbox \cup {Event(l.job, "retry", l.token)}
    BY <1>1, <1>6, OutboxFacts
  <2> QED
    BY <1>7, <2>1
<1>9. SameRun
  <2>1. PICK t \in RunStatus : run' = Bump(run, t)
    <3>1. "running" \in RunStatus /\ "partial" \in RunStatus /\ "failed" \in RunStatus
      BY DEF RunStatus
    <3> QED
      BY <3>1, Zenon DEF FailJob
  <2> QED
    BY <1>1, <2>1, BumpEffect
<1> QED
  BY <1>2, <1>4, <1>5, <1>8, <1>9

\* _enqueue: an absent job becomes pending under token 0 with its initial event.
LEMMA EnqueueEffect ==
    ASSUME NEW jb \in JobFunction, NEW ob, OutboxOK(ob), NEW j \in Jobs \cup {None}
    PROVE  /\ DOMAIN ob \subseteq DOMAIN EnqueuedEvent(ob, jb, j)
           /\ \A e \in DOMAIN EnqueuedEvent(ob, jb, j) \ DOMAIN ob :
                 j # None /\ e = Event(j, "initial", 0)
<1>1. ASSUME j \in Jobs PROVE {Event(j, "initial", 0)} \in SUBSET EventId
  BY <1>1 DEF Event, EventId
<1>2. CASE j # None /\ jb[j].status = "absent"
  <2>1. EnqueuedEvent(ob, jb, j) = WithEvents(ob, {Event(j, "initial", 0)}, 0)
    BY <1>2 DEF EnqueuedEvent
  <2>2. {Event(j, "initial", 0)} \in SUBSET EventId /\ 0 \in Nat
    BY <1>1, <1>2
  <2>3. DOMAIN WithEvents(ob, {Event(j, "initial", 0)}, 0) = DOMAIN ob \cup {Event(j, "initial", 0)}
    BY <2>2, OutboxFacts
  <2>4. DOMAIN EnqueuedEvent(ob, jb, j) = DOMAIN ob \cup {Event(j, "initial", 0)}
    BY <2>1, <2>3
  <2> QED
    BY <1>2, <2>4
<1>3. CASE ~(j # None /\ jb[j].status = "absent")
  BY <1>3 DEF EnqueuedEvent
<1> QED
  BY <1>2, <1>3

\* Job k is absent before the step and pending under token 0 after it.
Added(k) == /\ job[k].status = "absent"
            /\ job'[k].status = "pending"
            /\ job'[k].token = 0

\* The events of a step that only enqueues.
EventsAdded == /\ DOMAIN outbox \subseteq DOMAIN outbox'
               /\ \A e \in DOMAIN outbox' \ DOMAIN outbox :
                     e.cause = "initial" /\ e.job \in Jobs /\ job'[e.job].status # "absent"

\* commit_job of a parse job
LEMMA CommitParseEffect ==
    ASSUME TypeOK, NEW l \in leases, CommitParse(l)
    PROVE  /\ Owned(l)
           /\ job'[l.job].status = "succeeded" /\ job'[l.job].token = l.token
           /\ \A k \in Jobs \ {l.job} : Same(k) \/ Added(k)
           /\ EventsAdded
           /\ artifacts' = artifacts \cup {l}
           /\ basis' = basis
           /\ SameRun
<1>1. l.job \in Jobs /\ l.token \in Nat /\ job \in JobFunction /\ OutboxOK(outbox)
      /\ run \in RunRecord /\ NextJob[l.job] \in Jobs \cup {None} /\ NextJob[l.job] # l.job
  BY JobsAssumption DEF TypeOK, Key, JobFunction, OutboxOK
<1>2. Owned(l) /\ artifacts' = artifacts \cup {l} /\ basis' = basis
  BY DEF CommitParse
<1> DEFINE jb == Succeeded(job, l.job)
<1>3. /\ jb \in JobFunction /\ jb[l.job].status = "succeeded" /\ jb[l.job].token = l.token
      /\ \A k \in Jobs \ {l.job} : jb[k] = job[k]
  BY <1>1, <1>2, SucceededFacts DEF Owned
<1>4. job' = EnqueuedJob(jb, NextJob[l.job])
      /\ outbox' = EnqueuedEvent(outbox, job, NextJob[l.job])
  BY DEF CommitParse
<1> HIDE DEF jb
<1>5. job'[l.job] = jb[l.job]
      /\ \A k \in Jobs \ {l.job} : job'[k] = jb[k] \/ Added(k)
  <2>1. \A k \in Jobs : IF k = NextJob[l.job] /\ jb[k].status = "absent"
                         THEN job'[k].status = "pending" /\ job'[k].token = 0
                         ELSE job'[k] = jb[k]
    BY <1>1, <1>3, <1>4, EnqueuedFacts
  <2> QED
    BY <1>1, <1>3, <2>1 DEF Added
<1>6. \A k \in Jobs \ {l.job} : Same(k) \/ Added(k)
  BY <1>3, <1>5 DEF Same
<1>7. NextJob[l.job] \in Jobs => job'[NextJob[l.job]].status # "absent"
  BY <1>1, <1>3, <1>4, EnqueuedFacts
<1>8. EventsAdded
  <2>1. /\ DOMAIN outbox \subseteq DOMAIN outbox'
        /\ \A e \in DOMAIN outbox' \ DOMAIN outbox :
              NextJob[l.job] # None /\ e = Event(NextJob[l.job], "initial", 0)
    BY <1>1, <1>4, EnqueueEffect
  <2> QED
    BY <1>1, <1>7, <2>1 DEF EventsAdded, Event
<1>9. SameRun
  <2>1. run.status \in RunStatus /\ run' = Bump(run, run.status)
    BY <1>1 DEF RunRecord, CommitParse
  <2> QED
    BY <1>1, <2>1, BumpEffect
<1> QED
  BY <1>2, <1>3, <1>5, <1>6, <1>8, <1>9

\* commit_job of an extract job: it becomes the current extraction, the open tag jobs
\* are superseded, and none of them held a live lease.
LEMMA CommitExtractEffect ==
    ASSUME TypeOK, NEW l \in leases, CommitExtract(l)
    PROVE  /\ Owned(l)
           /\ job'[l.job].status = "succeeded" /\ job'[l.job].token = l.token
           /\ \A k \in Jobs \ {l.job} : Same(k) \/ Replaced(k) \/ Added(k)
           /\ EventsAdded
           /\ artifacts' = artifacts \cup {l}
           /\ basis' = basis
           /\ run'.cancelled = run.cancelled /\ run'.revision >= run.revision
           /\ run.heads = None /\ run'.heads = None
           /\ \A k \in Jobs : Stage[k] = "tag" => ~Live(job[k])
<1>1. l.job \in Jobs /\ l.token \in Nat /\ job \in JobFunction /\ OutboxOK(outbox)
      /\ run \in RunRecord /\ NextJob[l.job] \in Jobs \cup {None} /\ NextJob[l.job] # l.job
  BY JobsAssumption DEF TypeOK, Key, JobFunction, OutboxOK
<1>2. /\ Owned(l) /\ artifacts' = artifacts \cup {l} /\ basis' = basis
      /\ Stage[l.job] = "extract"
  BY DEF CommitExtract
<1>3. run.heads = None /\ \A k \in Jobs : Stage[k] = "tag" => ~Live(job[k])
  BY DEF CommitExtract, ContinuationAllowed, Live
<1> DEFINE jt == Superseded(job)
           jb == Succeeded(jt, l.job)
           ob == SupersededEvents(outbox)
<1>4. /\ jt \in JobFunction /\ jt[l.job] = job[l.job]
      /\ \A k \in Jobs : \/ jt[k] = job[k]
                         \/ /\ Stage[k] = "tag" /\ job[k].status \in Open
                            /\ jt[k].status = "superseded" /\ jt[k].token = job[k].token + 1
  BY <1>1, <1>2, SupersededFacts
<1>5. job' = EnqueuedJob(jb, NextJob[l.job]) /\ outbox' = EnqueuedEvent(ob, job, NextJob[l.job])
  BY DEF CommitExtract
<1>6. OutboxOK(ob) /\ DOMAIN ob = DOMAIN outbox
  BY <1>1, OutboxFacts
<1> HIDE DEF jt, ob
<1>7. /\ jb \in JobFunction /\ jb[l.job].status = "succeeded" /\ jb[l.job].token = l.token
      /\ \A k \in Jobs \ {l.job} : jb[k] = jt[k]
  BY <1>1, <1>2, <1>4, SucceededFacts DEF Owned
<1> HIDE DEF jb
<1>8. job'[l.job] = jb[l.job]
      /\ \A k \in Jobs \ {l.job} : \/ job'[k] = jt[k]
                                   \/ /\ jt[k].status = "absent"
                                      /\ job'[k].status = "pending" /\ job'[k].token = 0
  <2>1. \A k \in Jobs : IF k = NextJob[l.job] /\ jb[k].status = "absent"
                         THEN job'[k].status = "pending" /\ job'[k].token = 0
                         ELSE job'[k] = jb[k]
    BY <1>1, <1>5, <1>7, EnqueuedFacts
  <2> QED
    BY <1>1, <1>7, <2>1
<1>9. \A k \in Jobs \ {l.job} : Same(k) \/ Replaced(k) \/ Added(k)
  BY <1>4, <1>8 DEF Same, Replaced, Added
<1>10. NextJob[l.job] \in Jobs => job'[NextJob[l.job]].status # "absent"
  BY <1>1, <1>5, <1>7, EnqueuedFacts
<1>11. EventsAdded
  BY <1>1, <1>5, <1>6, <1>10, EnqueueEffect DEF EventsAdded, Event
<1>12. run'.cancelled = run.cancelled /\ run'.revision >= run.revision /\ run'.heads = None
  <2>1. run.status \in RunStatus /\ run.revision \in Nat
    BY <1>1 DEF RunRecord
  <2>2. run' = [Bump(run, run.status) EXCEPT !.extract_job = l.job]
    BY DEF CommitExtract
  <2> QED
    BY <1>1, <1>3, <2>1, <2>2, BumpFacts DEF RunRecord
<1> QED
  BY <1>2, <1>3, <1>7, <1>8, <1>9, <1>11, <1>12

\* commit_job of a tag job: only that job succeeds, and the published heads are those
\* of the current extraction.
LEMMA CommitTagEffect ==
    ASSUME TypeOK, NEW l \in leases, NEW e \in DOMAIN outbox,
           CommitTag(l, e, outbox[e].attempts)
    PROVE  /\ Owned(l)
           /\ job'[l.job].status = "succeeded" /\ job'[l.job].token = l.token
           /\ \A k \in Jobs \ {l.job} : Same(k)
           /\ DOMAIN outbox' = DOMAIN outbox
           /\ artifacts' = artifacts \cup {l}
           /\ basis' = basis
           /\ run'.cancelled = run.cancelled /\ run'.revision >= run.revision
           /\ run'.extract_job = run.extract_job /\ run'.heads = run.extract_job
<1>1. l.job \in Jobs /\ job \in JobFunction /\ run \in RunRecord
  BY DEF TypeOK, Key, JobFunction
<1>2. /\ Owned(l) /\ artifacts' = artifacts \cup {l} /\ basis' = basis
      /\ basis[l.job] = run.extract_job /\ job' = Succeeded(job, l.job)
      /\ outbox' = [outbox EXCEPT ![e] = Sent(outbox[e])]
      /\ run' = [Bump(run, PublishedStatus) EXCEPT !.tag_job = l.job, !.heads = basis[l.job]]
  BY Zenon DEF CommitTag, ExtractionPinned
<1>3. /\ job'[l.job].status = "succeeded" /\ job'[l.job].token = l.token
      /\ \A k \in Jobs \ {l.job} : Same(k)
  BY <1>1, <1>2, SucceededFacts DEF Owned, Same
<1>4. DOMAIN outbox' = DOMAIN outbox
  BY <1>2
<1>5. PublishedStatus \in RunStatus /\ run.revision \in Nat
  BY <1>1, BoundsAssumption DEF RunRecord, RunStatus
<1>6. /\ run'.cancelled = run.cancelled /\ run'.revision >= run.revision
      /\ run'.extract_job = run.extract_job /\ run'.heads = run.extract_job
  BY <1>1, <1>2, <1>5, BumpFacts DEF RunRecord
<1> QED
  BY <1>2, <1>3, <1>4, <1>6

\* _publish_claim: a head of the extraction the lease was granted on.
LEMMA PublishEffect ==
    ASSUME TypeOK, NEW l \in leases, PublishClaim(l)
    PROVE  /\ Owned(l) /\ Stage[l.job] = "tag"
           /\ UNCHANGED <<job, outbox, artifacts, basis>>
           /\ run'.cancelled = run.cancelled /\ run'.revision >= run.revision
           /\ run'.extract_job = run.extract_job /\ run'.heads = basis[l.job]
<1>1. run \in RunRecord /\ run.status \in RunStatus /\ run.revision \in Nat
  BY DEF TypeOK, RunRecord
<1>2. /\ Owned(l) /\ Stage[l.job] = "tag" /\ UNCHANGED <<job, outbox, artifacts, basis>>
      /\ run' = [Bump(run, run.status) EXCEPT !.heads = basis[l.job]]
  BY DEF PublishClaim
<1> QED
  BY <1>1, <1>2, BumpFacts DEF RunRecord

\* continue_extraction, authorize_recovery and authorize_reprocess only enqueue.
LEMMA AddEffect ==
    ASSUME TypeOK, NEW j \in Jobs,
           EnqueueBatch(j) \/ AuthorizeRecovery(j) \/ AuthorizeReprocess(j)
    PROVE  /\ ~run.cancelled
           /\ \A k \in Jobs : Same(k) \/ Added(k)
           /\ EventsAdded
           /\ UNCHANGED <<run, artifacts, basis>>
<1>1. job \in JobFunction /\ OutboxOK(outbox)
  BY DEF TypeOK, JobFunction, OutboxOK
<1>2. /\ ~run.cancelled /\ UNCHANGED <<run, artifacts, basis>>
      /\ job' = EnqueuedJob(job, j) /\ outbox' = EnqueuedEvent(outbox, job, j)
  BY DEF EnqueueBatch, AuthorizeRecovery, AuthorizeReprocess, Authorize
<1>3. \A k \in Jobs : Same(k) \/ Added(k)
  BY <1>1, <1>2, EnqueuedFacts DEF Same, Added
<1>4. job'[j].status # "absent"
  BY <1>1, <1>2, EnqueuedFacts
<1>5. EventsAdded
  BY <1>1, <1>2, <1>4, EnqueueEffect DEF EventsAdded, Event
<1> QED
  BY <1>2, <1>3, <1>5

\* cancel: every job that could still run is cancelled.
LEMMA CancelEffect ==
    ASSUME TypeOK, CancelRun
    PROVE  /\ \A k \in Jobs : /\ job'[k].token = job[k].token
                              /\ IF job[k].status \in Open \cup {"failed"}
                                 THEN job'[k].status = "cancelled"
                                 ELSE job'[k] = job[k]
           /\ UNCHANGED <<outbox, artifacts, basis>>
           /\ run'.cancelled /\ run'.status = "cancelled" /\ run'.revision >= run.revision
           /\ run'.heads = run.heads /\ run'.extract_job = run.extract_job
<1>1. job \in JobFunction /\ run \in RunRecord /\ run.revision \in Nat
      /\ "cancelled" \in RunStatus
  BY DEF TypeOK, JobFunction, RunRecord, RunStatus
<1>2. \A k \in Jobs : /\ job'[k].token = job[k].token
                      /\ IF job[k].status \in Open \cup {"failed"}
                         THEN job'[k].status = "cancelled"
                         ELSE job'[k] = job[k]
  BY <1>1 DEF CancelRun, ToCancel, Cancelled, JobFunction, JobRecord
<1>3. /\ UNCHANGED <<outbox, artifacts, basis>>
      /\ run' = [Bump(run, "cancelled") EXCEPT !.cancelled = TRUE]
  BY DEF CancelRun
<1>4. run'.cancelled /\ run'.status = "cancelled"
  BY <1>1, <1>3, BumpFacts DEF RunRecord
<1>5. /\ run'.revision >= run.revision
      /\ run'.heads = run.heads /\ run'.extract_job = run.extract_job
  BY <1>1, <1>3, BumpFacts DEF RunRecord
<1> QED
  BY <1>2, <1>3, <1>4, <1>5

\* retry: failed jobs are pending again, each with an event of the old revision.
LEMMA RetryEffect ==
    ASSUME TypeOK, RetryRun
    PROVE  /\ ~run.cancelled
           /\ \A k \in Jobs : /\ job'[k].token = job[k].token
                              /\ IF job[k].status = "failed"
                                 THEN job'[k].status = "pending"
                                 ELSE job'[k] = job[k]
           /\ DOMAIN outbox \subseteq DOMAIN outbox'
           /\ \A e \in DOMAIN outbox' \ DOMAIN outbox :
                 /\ e.cause = "manual" /\ e.n = run.revision
                 /\ e.job \in Jobs /\ job[e.job].status = "failed"
           /\ UNCHANGED <<artifacts, basis>>
           /\ SameRun /\ run'.revision = run.revision + 1
<1>1. job \in JobFunction /\ run \in RunRecord /\ run.revision \in Nat
      /\ "running" \in RunStatus /\ OutboxOK(outbox)
  BY DEF TypeOK, JobFunction, RunRecord, RunStatus, OutboxOK
<1> DEFINE added == {Event(j, "manual", run.revision) : j \in ToRetry}
<1>2. /\ ~run.cancelled /\ artifacts' = artifacts /\ basis' = basis
      /\ run' = Bump(run, "running")
      /\ outbox' = WithEvents(outbox, added, 0)
      /\ job' = [j \in Jobs |-> IF j \in ToRetry THEN Revived(job[j]) ELSE job[j]]
  BY Zenon DEF RetryRun
<1>3. \A k \in Jobs : /\ job'[k].token = job[k].token
                      /\ IF job[k].status = "failed"
                         THEN job'[k].status = "pending"
                         ELSE job'[k] = job[k]
  BY <1>1, <1>2 DEF JobFunction, JobRecord, ToRetry, Revived
<1>4. added \in SUBSET EventId
  BY <1>1 DEF Event, EventId, ToRetry
<1>5. \A e \in added : /\ e.cause = "manual" /\ e.n = run.revision
                       /\ e.job \in Jobs /\ job[e.job].status = "failed"
  BY DEF Event, ToRetry
<1> HIDE DEF added
<1>6. DOMAIN outbox' = DOMAIN outbox \cup added
  BY <1>1, <1>2, <1>4, OutboxFacts
<1>7. SameRun /\ run'.revision = run.revision + 1
  BY <1>1, <1>2, BumpEffect, BumpFacts
<1> QED
  BY <1>2, <1>3, <1>5, <1>6, <1>7

\* mark_outbox and the clock
LEMMA QuietEffect ==
    ASSUME TypeOK,
           \/ RelayStep
           \/ Tick
           \/ UNCHANGED vars
    PROVE  /\ \A k \in Jobs : Same(k)
           /\ DOMAIN outbox' = DOMAIN outbox
           /\ UNCHANGED <<run, artifacts, basis>>
<1>1. CASE Tick
  <2>1. job \in JobFunction
    BY DEF TypeOK, JobFunction
  <2>2. \A k \in Jobs : job[k] \in JobRecord /\ job'[k] = Aged(job[k])
    BY <1>1, <2>1 DEF Tick, JobFunction
  <2>3. \A k \in Jobs : Same(k)
    BY <2>2, AgedFacts DEF Same, Live
  <2> QED
    BY <1>1, <2>3 DEF Tick
<1>2. CASE RelayStep
  BY <1>2 DEF RelayStep, MarkOutbox, Same
<1>3. CASE UNCHANGED vars
  BY <1>3 DEF vars, Same
<1> QED
  BY <1>1, <1>2, <1>3

-----------------------------------------------------------------------------
(* The inductive invariant *)

\* Every retry event belongs to a lease that has ended, every manual event to an
\* earlier revision, and a job that was never enqueued has no event and no token.
EventsOfThePast ==
    /\ \A e \in DOMAIN outbox : e.cause = "retry" =>
          /\ e.n <= job[e.job].token
          /\ job[e.job].status = "leased" => e.n < job[e.job].token
    /\ \A e \in DOMAIN outbox : e.cause = "manual" => e.n < run.revision
    /\ \A e \in DOMAIN outbox : job[e.job].status # "absent"
    /\ \A j \in Jobs : job[j].status = "absent" => job[j].token = 0

\* TaggedFromCurrentExtraction without the record of the leases.
LiveTagsCurrent ==
    /\ run.heads # None => run.heads = run.extract_job
    /\ \A j \in Jobs : Stage[j] = "tag" /\ Live(job[j]) => basis[j] = run.extract_job

IndInv ==
    /\ TypeOK
    /\ CheckpointFenced
    /\ CancelledRunIsClosed
    /\ EventsOfThePast
    /\ LiveTagsCurrent

\* The checkpoint conjunct: a step completes at most the job whose lease it owns, and
\* moves the token or the status of no succeeded job.
LEMMA CheckpointStep == IndInv /\ [Next]_vars => CheckpointFenced'
<1> SUFFICES ASSUME IndInv, [Next]_vars PROVE CheckpointFenced'
  OBVIOUS
<1>0. /\ TypeOK /\ CheckpointFenced /\ artifacts \subseteq Key
      /\ \A j \in Jobs : job[j].token \in Nat
  BY DEF IndInv, TypeOK, JobRecord
<1>1. ASSUME artifacts' = artifacts,
             \A k \in Jobs : \/ /\ job[k].status # "succeeded"
                                /\ job'[k].status # "succeeded"
                             \/ /\ job'[k].status = job[k].status
                                /\ job'[k].token = job[k].token
      PROVE  CheckpointFenced'
  BY <1>0, <1>1 DEF CheckpointFenced, Key
<1>2. ASSUME NEW l \in leases, artifacts' = artifacts \cup {l}, Owned(l),
             job'[l.job].status = "succeeded" /\ job'[l.job].token = l.token,
             \A k \in Jobs \ {l.job} : \/ /\ job[k].status # "succeeded"
                                          /\ job'[k].status # "succeeded"
                                       \/ /\ job'[k].status = job[k].status
                                          /\ job'[k].token = job[k].token
      PROVE  CheckpointFenced'
  <2>1. l \in Key /\ l.job \in Jobs /\ l = [job |-> l.job, token |-> l.token]
    BY <1>0 DEF TypeOK, Key
  <2>2. job[l.job].status # "succeeded"
    BY <1>2 DEF Owned
  <2>3. \A a \in artifacts : a.job # l.job
    BY <1>0, <2>2 DEF CheckpointFenced
  <2>4. \A a \in artifacts' : job'[a.job].status = "succeeded" /\ job'[a.job].token = a.token
    BY <1>0, <1>2, <2>3 DEF CheckpointFenced, Key
  <2>5. \A j \in Jobs : job'[j].status = "succeeded"
                            => [job |-> j, token |-> job'[j].token] \in artifacts'
    BY <1>0, <1>2, <2>1 DEF CheckpointFenced
  <2> QED
    BY <2>4, <2>5 DEF CheckpointFenced
<1>3. ASSUME NEW j \in Jobs, ClaimJob(j) PROVE CheckpointFenced'
  BY <1>0, <1>1, <1>3, ClaimEffect DEF Same, Replaced, Open
<1>4. ASSUME NEW l \in leases, Heartbeat(l) PROVE CheckpointFenced'
  BY <1>0, <1>1, <1>4, HeartbeatEffect DEF Same
<1>5. ASSUME NEW l \in leases, NEW transient \in BOOLEAN, NEW delay \in Delays,
             FailJob(l, transient, delay)
      PROVE  CheckpointFenced'
  BY <1>0, <1>1, <1>5, FailEffect DEF Same, Owned
<1>6. ASSUME NEW l \in leases, CommitParse(l) PROVE CheckpointFenced'
  BY <1>0, <1>2, <1>6, CommitParseEffect DEF Same, Added
<1>7. ASSUME NEW l \in leases, CommitExtract(l) PROVE CheckpointFenced'
  BY <1>0, <1>2, <1>7, CommitExtractEffect DEF Same, Added, Replaced, Open
<1>8. ASSUME NEW l \in leases, NEW e \in DOMAIN outbox, CommitTag(l, e, outbox[e].attempts)
      PROVE  CheckpointFenced'
  BY <1>0, <1>2, <1>8, CommitTagEffect DEF Same
<1>9. ASSUME NEW l \in leases, PublishClaim(l) PROVE CheckpointFenced'
  BY <1>0, <1>1, <1>9, PublishEffect
<1>10. ASSUME NEW j \in Jobs,
              EnqueueBatch(j) \/ AuthorizeRecovery(j) \/ AuthorizeReprocess(j)
       PROVE  CheckpointFenced'
  BY <1>0, <1>1, <1>10, AddEffect DEF Same, Added
<1>11. CASE CancelRun
  BY <1>0, <1>1, <1>11, CancelEffect DEF Open
<1>12. CASE RetryRun
  BY <1>0, <1>1, <1>12, RetryEffect
<1>13. CASE RelayStep \/ Tick \/ UNCHANGED vars
  BY <1>0, <1>1, <1>13, QuietEffect DEF Same
<1> QED
  BY <1>3, <1>4, <1>5, <1>6, <1>7, <1>8, <1>9, <1>10, <1>11, <1>12, <1>13
  DEF Next, WorkerStep, OperatorStep

\* The cancellation conjunct: every other operation that opens a job or sets the status
\* of the run is refused once the run is cancelled.
LEMMA CancelledStep == IndInv /\ [Next]_vars => CancelledRunIsClosed'
<1> SUFFICES ASSUME IndInv, [Next]_vars, run'.cancelled PROVE CancelledRunIsClosed'
  BY DEF CancelledRunIsClosed
<1>0. TypeOK /\ CancelledRunIsClosed
  BY DEF IndInv
<1>1. ASSUME NEW j \in Jobs, ClaimJob(j) PROVE FALSE
  BY <1>0, <1>1, ClaimEffect DEF SameRun
<1>2. ASSUME NEW l \in leases, Heartbeat(l) PROVE FALSE
  BY <1>0, <1>2, HeartbeatEffect DEF Heartbeat, Owned
<1>3. ASSUME NEW l \in leases, NEW transient \in BOOLEAN, NEW delay \in Delays,
             FailJob(l, transient, delay)
      PROVE  FALSE
  BY <1>0, <1>3, FailEffect DEF Owned, SameRun
<1>4. ASSUME NEW l \in leases, CommitParse(l) PROVE FALSE
  BY <1>0, <1>4, CommitParseEffect DEF Owned, SameRun
<1>5. ASSUME NEW l \in leases, CommitExtract(l) PROVE FALSE
  BY <1>0, <1>5, CommitExtractEffect DEF Owned
<1>6. ASSUME NEW l \in leases, NEW e \in DOMAIN outbox, CommitTag(l, e, outbox[e].attempts)
      PROVE  FALSE
  BY <1>0, <1>6, CommitTagEffect DEF Owned
<1>7. ASSUME NEW l \in leases, PublishClaim(l) PROVE FALSE
  BY <1>0, <1>7, PublishEffect DEF Owned
<1>8. ASSUME NEW j \in Jobs,
             EnqueueBatch(j) \/ AuthorizeRecovery(j) \/ AuthorizeReprocess(j)
      PROVE  FALSE
  BY <1>0, <1>8, AddEffect
<1>9. CASE CancelRun
  BY <1>0, <1>9, CancelEffect DEF CancelledRunIsClosed, Open
<1>10. CASE RetryRun
  BY <1>0, <1>10, RetryEffect DEF SameRun
<1>11. CASE RelayStep \/ Tick \/ UNCHANGED vars
  BY <1>0, <1>11, QuietEffect DEF Same, CancelledRunIsClosed
<1> QED
  BY <1>1, <1>2, <1>3, <1>4, <1>5, <1>6, <1>7, <1>8, <1>9, <1>10, <1>11
  DEF Next, WorkerStep, OperatorStep

\* The event conjunct: a step inserts events of a lease it ends, of the revision it
\* leaves or of a job it creates.
LEMMA EventsStep == IndInv /\ [Next]_vars => EventsOfThePast'
<1> SUFFICES ASSUME IndInv, [Next]_vars PROVE EventsOfThePast'
  OBVIOUS
<1>0. /\ TypeOK /\ EventsOfThePast /\ run.revision \in Nat
      /\ \A e \in DOMAIN outbox : e.job \in Jobs /\ e.n \in Nat
      /\ \A j \in Jobs : job[j].token \in Nat
      /\ \A l \in leases : l.job \in Jobs /\ l.token \in Nat
  BY DEF IndInv, TypeOK, EventId, JobRecord, RunRecord, Key
<1> DEFINE Later(k) ==
              /\ job'[k].token \in Nat /\ job'[k].token >= job[k].token
              /\ job'[k].status = "leased" =>
                    \/ job[k].status = "leased"
                    \/ job'[k].token > job[k].token
              /\ job[k].status # "absent" => job'[k].status # "absent"
              /\ job'[k].status = "absent" => job'[k].token = job[k].token
<1>1. TypeOK' /\ \A j \in Jobs : job'[j].token \in Nat /\ run'.revision \in Nat
  BY TypeStep, <1>0 DEF TypeOK, JobRecord, RunRecord
<1>2. \A k \in Jobs : Same(k) => Later(k)
  BY <1>0, <1>1 DEF Same
<1>3. \A k \in Jobs : Replaced(k) => Later(k)
  BY <1>0, <1>1 DEF Replaced
<1>4. \A k \in Jobs : Added(k) => Later(k)
  BY <1>0, <1>1 DEF Added, EventsOfThePast
<1>5. ASSUME \A k \in Jobs : Later(k), run'.revision >= run.revision,
             \A e \in DOMAIN outbox' \ DOMAIN outbox :
                /\ e.job \in Jobs /\ job'[e.job].status # "absent"
                /\ e.cause = "retry" => /\ e.n <= job'[e.job].token
                                        /\ job'[e.job].status # "leased"
                /\ e.cause = "manual" => e.n < run'.revision
      PROVE  EventsOfThePast'
  <2>1. ASSUME NEW e \in DOMAIN outbox'
        PROVE  /\ e.cause = "retry" =>
                     /\ e.n <= job'[e.job].token
                     /\ job'[e.job].status = "leased" => e.n < job'[e.job].token
               /\ e.cause = "manual" => e.n < run'.revision
               /\ job'[e.job].status # "absent"
    BY <1>0, <1>1, <1>5 DEF EventsOfThePast
  <2>2. \A j \in Jobs : job'[j].status = "absent" => job'[j].token = 0
    BY <1>0, <1>5 DEF EventsOfThePast
  <2> QED
    BY <2>1, <2>2 DEF EventsOfThePast
<1> HIDE DEF Later
<1>6. ASSUME NEW j \in Jobs, ClaimJob(j) PROVE EventsOfThePast'
  <2>1. Later(j)
    BY <1>0, <1>1, <1>6, ClaimEffect DEF Later
  <2> QED
    BY <1>0, <1>2, <1>3, <1>5, <1>6, <2>1, ClaimEffect DEF SameRun
<1>7. ASSUME NEW l \in leases, Heartbeat(l) PROVE EventsOfThePast'
  BY <1>0, <1>2, <1>5, <1>7, HeartbeatEffect
<1>8. ASSUME NEW l \in leases, NEW transient \in BOOLEAN, NEW delay \in Delays,
             FailJob(l, transient, delay)
      PROVE  EventsOfThePast'
  <2>1. l.job \in Jobs /\ l.token \in Nat /\ l.token = job[l.job].token
    BY <1>0, <1>8, FailEffect DEF Owned, TypeOK, Key
  <2>2. Later(l.job)
    BY <1>0, <1>1, <1>8, <2>1, FailEffect DEF Later
  <2>3. \A e \in DOMAIN outbox' \ DOMAIN outbox : e = Event(l.job, "retry", l.token)
    BY <1>0, <1>8, FailEffect
  <2>4. \A k \in Jobs : Later(k)
    BY <1>0, <1>2, <1>8, <2>2, FailEffect
  <2>5. run'.revision >= run.revision /\ job'[l.job].status \in {"pending", "failed"}
        /\ job'[l.job].token = l.token
    BY <1>0, <1>8, FailEffect DEF SameRun
  <2>6. \A e \in DOMAIN outbox' \ DOMAIN outbox :
           /\ e.job = l.job /\ e.cause = "retry" /\ e.n = l.token
    BY <2>3 DEF Event
  <2> QED
    BY <1>5, <2>1, <2>4, <2>5, <2>6
<1>9. ASSUME EventsAdded, \A k \in Jobs : Later(k), run'.revision >= run.revision
      PROVE  EventsOfThePast'
  BY <1>5, <1>9 DEF EventsAdded
<1>10. ASSUME NEW l \in leases, CommitParse(l) PROVE EventsOfThePast'
  <2>1. Later(l.job)
    BY <1>0, <1>1, <1>10, CommitParseEffect DEF Owned, Later
  <2>2. \A k \in Jobs : Later(k)
    BY <1>0, <1>2, <1>4, <1>10, <2>1, CommitParseEffect
  <2> QED
    BY <1>0, <1>9, <1>10, <2>2, CommitParseEffect DEF SameRun
<1>11. ASSUME NEW l \in leases, CommitExtract(l) PROVE EventsOfThePast'
  <2>1. Later(l.job)
    BY <1>0, <1>1, <1>11, CommitExtractEffect DEF Owned, Later
  <2>2. \A k \in Jobs : Later(k)
    BY <1>0, <1>2, <1>3, <1>4, <1>11, <2>1, CommitExtractEffect
  <2> QED
    BY <1>0, <1>9, <1>11, <2>2, CommitExtractEffect
<1>12. ASSUME NEW l \in leases, NEW e \in DOMAIN outbox, CommitTag(l, e, outbox[e].attempts)
       PROVE  EventsOfThePast'
  <2>1. Later(l.job)
    BY <1>0, <1>1, <1>12, CommitTagEffect DEF Owned, Later
  <2>2. \A k \in Jobs : Later(k)
    BY <1>0, <1>2, <1>12, <2>1, CommitTagEffect
  <2> QED
    BY <1>0, <1>5, <1>12, <2>2, CommitTagEffect
<1>13. ASSUME NEW l \in leases, PublishClaim(l) PROVE EventsOfThePast'
  <2>1. \A k \in Jobs : Same(k)
    BY <1>0, <1>13, PublishEffect DEF Same
  <2> QED
    BY <1>0, <1>2, <1>5, <1>13, <2>1, PublishEffect
<1>14. ASSUME NEW j \in Jobs,
              EnqueueBatch(j) \/ AuthorizeRecovery(j) \/ AuthorizeReprocess(j)
       PROVE  EventsOfThePast'
  <2>1. EventsAdded /\ run' = run /\ \A k \in Jobs : Same(k) \/ Added(k)
    BY <1>0, <1>14, AddEffect
  <2> QED
    BY <1>0, <1>2, <1>4, <1>9, <2>1
<1>15. CASE CancelRun
  <2>1. \A k \in Jobs : Later(k)
    BY <1>0, <1>1, <1>15, CancelEffect DEF Later
  <2> QED
    BY <1>0, <1>5, <1>15, <2>1, CancelEffect
<1>16. CASE RetryRun
  <2>1. \A k \in Jobs : Later(k)
    BY <1>0, <1>1, <1>16, RetryEffect DEF Later
  <2>2. \A e \in DOMAIN outbox' \ DOMAIN outbox :
           /\ e.job \in Jobs /\ e.cause = "manual" /\ e.n = run.revision
           /\ job'[e.job].status = "pending"
    BY <1>0, <1>16, RetryEffect
  <2>3. run'.revision = run.revision + 1
    BY <1>0, <1>16, RetryEffect
  <2> QED
    BY <1>0, <1>5, <2>1, <2>2, <2>3
<1>17. CASE RelayStep \/ Tick \/ UNCHANGED vars
  BY <1>0, <1>2, <1>5, <1>17, QuietEffect
<1> QED
  BY <1>6, <1>7, <1>8, <1>10, <1>11, <1>12, <1>13, <1>14, <1>15, <1>16, <1>17
  DEF Next, WorkerStep, OperatorStep

\* The tagging conjunct: the current extraction changes only while no tag job is live,
\* and a job becomes live only on the current extraction.
LEMMA TaggingStep == IndInv /\ [Next]_vars => LiveTagsCurrent'
<1> SUFFICES ASSUME IndInv, [Next]_vars PROVE LiveTagsCurrent'
  OBVIOUS
<1>0. /\ TypeOK /\ LiveTagsCurrent
      /\ \A l \in leases : l.job \in Jobs
      /\ \A l \in leases : Owned(l) => Live(job[l.job])
  BY DEF IndInv, TypeOK, Key, Owned, Live
<1>1. ASSUME run'.extract_job = run.extract_job,
             \/ run'.heads = run.heads
             \/ run'.heads = run.extract_job,
             \A k \in Jobs : \/ ~Live(job'[k])
                             \/ basis'[k] = run.extract_job
                             \/ Live(job[k]) /\ basis'[k] = basis[k]
      PROVE  LiveTagsCurrent'
  BY <1>0, <1>1 DEF LiveTagsCurrent
<1>2. ASSUME NEW j \in Jobs, ClaimJob(j) PROVE LiveTagsCurrent'
  BY <1>0, <1>1, <1>2, ClaimEffect DEF Same, Replaced, SameRun, Live
<1>3. ASSUME NEW l \in leases, Heartbeat(l) PROVE LiveTagsCurrent'
  BY <1>0, <1>1, <1>3, HeartbeatEffect DEF Same
<1>4. ASSUME NEW l \in leases, NEW transient \in BOOLEAN, NEW delay \in Delays,
             FailJob(l, transient, delay)
      PROVE  LiveTagsCurrent'
  BY <1>0, <1>1, <1>4, FailEffect DEF Same, SameRun, Live
<1>5. ASSUME NEW l \in leases, CommitParse(l) PROVE LiveTagsCurrent'
  BY <1>0, <1>1, <1>5, CommitParseEffect DEF Same, Added, SameRun, Live
<1>6. ASSUME NEW l \in leases, CommitExtract(l) PROVE LiveTagsCurrent'
  <2>1. \A k \in Jobs : Stage[k] = "tag" => ~Live(job'[k])
    BY <1>0, <1>6, CommitExtractEffect DEF Same, Added, Replaced, Live
  <2> QED
    BY <1>0, <1>6, <2>1, CommitExtractEffect DEF LiveTagsCurrent
<1>7. ASSUME NEW l \in leases, NEW e \in DOMAIN outbox, CommitTag(l, e, outbox[e].attempts)
      PROVE  LiveTagsCurrent'
  BY <1>0, <1>1, <1>7, CommitTagEffect DEF Same, Live
<1>8. ASSUME NEW l \in leases, PublishClaim(l) PROVE LiveTagsCurrent'
  <2>1. basis[l.job] = run.extract_job
    BY <1>0, <1>8, PublishEffect DEF LiveTagsCurrent
  <2> QED
    BY <1>0, <1>1, <1>8, <2>1, PublishEffect
<1>9. ASSUME NEW j \in Jobs,
             EnqueueBatch(j) \/ AuthorizeRecovery(j) \/ AuthorizeReprocess(j)
      PROVE  LiveTagsCurrent'
  BY <1>0, <1>1, <1>9, AddEffect DEF Same, Added, Live
<1>10. CASE CancelRun
  BY <1>0, <1>1, <1>10, CancelEffect DEF Live
<1>11. CASE RetryRun
  BY <1>0, <1>1, <1>11, RetryEffect DEF Live, SameRun
<1>12. CASE RelayStep \/ Tick \/ UNCHANGED vars
  BY <1>0, <1>1, <1>12, QuietEffect DEF Same
<1> QED
  BY <1>2, <1>3, <1>4, <1>5, <1>6, <1>7, <1>8, <1>9, <1>10, <1>11, <1>12
  DEF Next, WorkerStep, OperatorStep

-----------------------------------------------------------------------------
(* Theorems *)

\* The initial state of a run satisfies the invariant.
LEMMA StoreInvInit == Init => IndInv
<1> SUFFICES ASSUME Init PROVE IndInv
  OBVIOUS
<1>1. TypeOK
  BY JobsAssumption
  DEF Init, TypeOK, RunRecord, JobRecord, EventRecord, EventId, Key, Event, Pending,
      FreshJob, AbsentJob, RunStatus, JobStatus
<1>2. /\ \A j \in Jobs : /\ job[j].status \in {"absent", "pending"}
                         /\ job[j].token = 0
      /\ job[FirstJob].status = "pending"
      /\ artifacts = {} /\ ~run.cancelled /\ run.heads = None
  BY JobsAssumption DEF Init, FreshJob, AbsentJob
<1>3. \A e \in DOMAIN outbox : e.job = FirstJob /\ e.cause = "initial"
  BY DEF Init, Event
<1> QED
  BY <1>1, <1>2, <1>3
  DEF IndInv, CheckpointFenced, CancelledRunIsClosed, EventsOfThePast, LiveTagsCurrent, Live

\* The inductive invariant holds in every reachable state of the job store.
THEOREM Inductive == Spec => []IndInv
<1>1. IndInv /\ [Next]_vars => IndInv'
  <2>1. IndInv /\ [Next]_vars => TypeOK'
    BY TypeStep DEF IndInv
  <2> QED
    BY <2>1, CheckpointStep, CancelledStep, EventsStep, TaggingStep DEF IndInv
<1> QED
  BY <1>1, StoreInvInit, PTL DEF Spec

\* Only the newest claim of a job ever publishes its checkpoint, and only once.
THEOREM Fencing == Spec => []CheckpointFenced
  BY Inductive, PTL DEF IndInv

\* A cancelled run stays cancelled and nothing of it can run again.
THEOREM Cancellation == Spec => []CancelledRunIsClosed
  BY Inductive, PTL DEF IndInv

\* _event never meets an id that is already taken, so no failure and no operator
\* retry is lost to a duplicate row.
THEOREM FreshEvents == Spec => []EventIdsFresh
<1>1. IndInv => EventIdsFresh
  <2> SUFFICES ASSUME IndInv PROVE EventIdsFresh
    OBVIOUS
  <2>1. EventsOfThePast /\ \A j \in Jobs : job[j].token \in Nat
    BY DEF IndInv, TypeOK, JobRecord
  <2>2. ASSUME NEW j \in Jobs, job[j].status = "leased",
               Event(j, "retry", job[j].token) \in DOMAIN outbox
        PROVE  FALSE
    <3> DEFINE e == Event(j, "retry", job[j].token)
    <3>1. e.job = j /\ e.cause = "retry" /\ e.n = job[j].token
      BY DEF Event
    <3>2. e.n < job[j].token
      BY <2>1, <2>2, <3>1 DEF EventsOfThePast
    <3> QED
      BY <2>1, <3>1, <3>2
  <2> QED
    BY <2>1, <2>2 DEF EventIdsFresh, EventsOfThePast
<1> QED
  BY <1>1, Inductive, PTL

\* A tag worker never publishes what it derived from an extraction that was replaced.
THEOREM CurrentTagging == Spec => []TaggedFromCurrentExtraction
<1>1. IndInv => TaggedFromCurrentExtraction
  BY DEF IndInv, TypeOK, Key, LiveTagsCurrent, TaggedFromCurrentExtraction, Owned, Live
<1> QED
  BY <1>1, Inductive, PTL

\* A settled job stays settled under the same token, and no token goes back.
THEOREM Settled == Spec => SettledForGood
<1> DEFINE A == \A j \in Jobs :
                  /\ job'[j].token >= job[j].token
                  /\ job[j].status \in {"succeeded", "superseded", "cancelled"}
                        => /\ job'[j].status = job[j].status
                           /\ job'[j].token = job[j].token
<1>1. ASSUME IndInv, [Next]_vars PROVE A
  <2>0. /\ TypeOK /\ EventsOfThePast
        /\ \A j \in Jobs : job[j].token \in Nat
        /\ \A l \in leases : l.job \in Jobs /\ l.token \in Nat
    BY <1>1 DEF IndInv, TypeOK, JobRecord, Key
  <2> DEFINE B(k) == /\ job'[k].token >= job[k].token
                     /\ job[k].status \in {"succeeded", "superseded", "cancelled"}
                           => /\ job'[k].status = job[k].status
                              /\ job'[k].token = job[k].token
  <2>1. \A k \in Jobs : Same(k) => B(k)
    BY <2>0 DEF Same
  <2>2. \A k \in Jobs : Replaced(k) => B(k)
    BY <2>0 DEF Replaced, Open
  <2>3. \A k \in Jobs : Added(k) => B(k)
    BY <2>0 DEF Added, EventsOfThePast
  <2>4. ASSUME NEW l \in leases, Owned(l), job'[l.job].token = l.token PROVE B(l.job)
    BY <2>0, <2>4 DEF Owned
  <2>5. SUFFICES \A k \in Jobs : B(k)
    OBVIOUS
  <2>6. ASSUME NEW j \in Jobs, ClaimJob(j) PROVE \A k \in Jobs : B(k)
    <3>1. B(j)
      BY <2>0, <2>6, ClaimEffect DEF Open
    <3> HIDE DEF B
    <3> QED
      BY <2>0, <2>1, <2>2, <2>6, <3>1, ClaimEffect
  <2>7. CASE RetryRun
    BY <2>0, <2>7, RetryEffect
  <2>8. CASE CancelRun
    BY <2>0, <2>8, CancelEffect DEF Open
  <2> HIDE DEF B
  <2>9. ASSUME NEW l \in leases, Heartbeat(l) PROVE \A k \in Jobs : B(k)
    BY <2>0, <2>1, <2>9, HeartbeatEffect
  <2>10. ASSUME NEW l \in leases, NEW transient \in BOOLEAN, NEW delay \in Delays,
                FailJob(l, transient, delay)
         PROVE  \A k \in Jobs : B(k)
    BY <2>0, <2>1, <2>4, <2>10, FailEffect
  <2>11. ASSUME NEW l \in leases, CommitParse(l) PROVE \A k \in Jobs : B(k)
    BY <2>0, <2>1, <2>3, <2>4, <2>11, CommitParseEffect
  <2>12. ASSUME NEW l \in leases, CommitExtract(l) PROVE \A k \in Jobs : B(k)
    BY <2>0, <2>1, <2>2, <2>3, <2>4, <2>12, CommitExtractEffect
  <2>13. ASSUME NEW l \in leases, NEW e \in DOMAIN outbox,
                CommitTag(l, e, outbox[e].attempts)
         PROVE  \A k \in Jobs : B(k)
    BY <2>0, <2>1, <2>4, <2>13, CommitTagEffect
  <2>14. ASSUME NEW l \in leases, PublishClaim(l) PROVE \A k \in Jobs : B(k)
    <3>1. \A k \in Jobs : Same(k)
      BY <2>0, <2>14, PublishEffect DEF Same
    <3> QED
      BY <2>1, <3>1
  <2>15. ASSUME NEW j \in Jobs,
                EnqueueBatch(j) \/ AuthorizeRecovery(j) \/ AuthorizeReprocess(j)
         PROVE  \A k \in Jobs : B(k)
    BY <2>0, <2>1, <2>3, <2>15, AddEffect
  <2>16. CASE RelayStep \/ Tick \/ UNCHANGED vars
    BY <2>0, <2>1, <2>16, QuietEffect
  <2> QED
    BY <1>1, <2>6, <2>7, <2>8, <2>9, <2>10, <2>11, <2>12, <2>13, <2>14, <2>15, <2>16
    DEF Next, WorkerStep, OperatorStep
<1>2. IndInv /\ [Next]_vars => [A]_vars
  BY <1>1
<1> QED
  BY <1>2, Inductive, PTL DEF Spec, SettledForGood

-----------------------------------------------------------------------------
(* The retry budget *)

EventsOf(ob, j, cause) == {e \in DOMAIN ob : e.job = j /\ e.cause = cause}

\* The claims that may already have had a retry event since the last operator retry: the
\* current one has not.
Spent(r) == IF r.status = "leased" THEN r.retry - 1 ELSE r.retry

\* What the events of job j in ob and its record r owe one another.
BudgetHolds(ob, r, j) ==
    LET retried == EventsOf(ob, j, "retry")
        manual == EventsOf(ob, j, "manual")
    IN  /\ IsFiniteSet(retried) /\ IsFiniteSet(manual)
        /\ Cardinality(retried) <= (RetryLimit - 1) * Cardinality(manual) + (RetryLimit - 1)
        /\ Cardinality(retried) <= (RetryLimit - 1) * Cardinality(manual) + Spent(r)

BudgetInv == \A j \in Jobs : BudgetHolds(outbox, job[j], j)

\* A job whose events stay and which has spent no fewer claims keeps its budget, and so does
\* one that was never retried.
LEMMA BudgetSame ==
    ASSUME NEW ob, NEW on, NEW r \in JobRecord, NEW s \in JobRecord, NEW j \in Jobs,
           BudgetHolds(ob, r, j),
           EventsOf(on, j, "retry") = EventsOf(ob, j, "retry"),
           EventsOf(on, j, "manual") = EventsOf(ob, j, "manual"),
           \/ Spent(s) >= Spent(r)
           \/ Spent(s) >= 0 /\ EventsOf(ob, j, "retry") = {}
    PROVE  BudgetHolds(on, s, j)
<1>. DEFINE R == EventsOf(ob, j, "retry")
            M == EventsOf(ob, j, "manual")
            a == RetryLimit - 1
<1>1. IsFiniteSet(R) /\ IsFiniteSet(M)
  BY DEF BudgetHolds
<1>2. Cardinality(R) \in Nat /\ Cardinality(M) \in Nat /\ a \in Nat
  BY <1>1, FS_CardinalityType, BoundsAssumption
<1>3. a * Cardinality(M) \in Nat
  BY <1>2
<1>4. Spent(r) \in Int /\ Spent(s) \in Int
  BY DEF JobRecord, Spent
<1>5. Cardinality(R) <= a * Cardinality(M) + a /\ Cardinality(R) <= a * Cardinality(M) + Spent(r)
  BY DEF BudgetHolds
<1>6. R = {} => Cardinality(R) = 0
  BY FS_EmptySet
<1>. HIDE DEF R, M, a
<1>7. Cardinality(R) <= a * Cardinality(M) + Spent(s)
  <2>. DEFINE p == a * Cardinality(M)
  <2>. HIDE DEF p
  <2>1. p \in Nat /\ Cardinality(R) <= p + Spent(r)
    BY <1>3, <1>5 DEF p
  <2>2. Cardinality(R) <= p + Spent(s)
    BY <1>2, <1>4, <1>6, <2>1 DEF R
  <2>. QED BY <2>2 DEF p
<1>. QED BY <1>1, <1>5, <1>7 DEF BudgetHolds, R, M, a

\* fail_job inserts a retry event while claims are left.
LEMMA BudgetRetry ==
    ASSUME NEW ob, NEW on, NEW r \in JobRecord, NEW s \in JobRecord, NEW j \in Jobs, NEW e,
           BudgetHolds(ob, r, j),
           r.status = "leased", r.retry < RetryLimit,
           s.status # "leased", s.retry = r.retry,
           EventsOf(on, j, "retry") \subseteq EventsOf(ob, j, "retry") \cup {e},
           EventsOf(on, j, "manual") = EventsOf(ob, j, "manual")
    PROVE  BudgetHolds(on, s, j)
<1>. DEFINE R == EventsOf(ob, j, "retry")
            Q == EventsOf(on, j, "retry")
            M == EventsOf(ob, j, "manual")
            a == RetryLimit - 1
            p == a * Cardinality(M)
<1>1. IsFiniteSet(R) /\ IsFiniteSet(M) /\ Q \subseteq R \cup {e}
  BY DEF BudgetHolds
<1>2. Cardinality(R) \in Nat /\ Cardinality(M) \in Nat /\ a \in Nat /\ r.retry \in Nat
  BY <1>1, FS_CardinalityType, BoundsAssumption DEF JobRecord
<1>3. p \in Nat
  BY <1>2
<1>4. Cardinality(R) <= p + (r.retry - 1) /\ s.retry <= a
  BY <1>2, BoundsAssumption DEF BudgetHolds, Spent
<1>. HIDE DEF R, M, Q, p
<1>5. /\ IsFiniteSet(R \cup {e}) /\ Cardinality(R \cup {e}) \in Nat
      /\ Cardinality(R \cup {e}) <= Cardinality(R) + 1
  <2>1. /\ IsFiniteSet(R \cup {e})
        /\ \/ Cardinality(R \cup {e}) = Cardinality(R)
           \/ Cardinality(R \cup {e}) = Cardinality(R) + 1
    BY <1>1, FS_AddElement
  <2>. QED BY <1>2, <2>1
<1>6. IsFiniteSet(Q) /\ Cardinality(Q) <= Cardinality(R \cup {e}) /\ Cardinality(Q) \in Nat
  BY <1>1, <1>5, FS_Subset, FS_CardinalityType
<1>. HIDE DEF a
<1>7. Cardinality(Q) <= p + a /\ Cardinality(Q) <= p + s.retry
  BY <1>2, <1>3, <1>4, <1>5, <1>6
<1>. QED BY <1>1, <1>6, <1>7 DEF BudgetHolds, Spent, R, M, Q, a, p

\* _action retry starts the count again and leaves an event that says so.
LEMMA BudgetManual ==
    ASSUME NEW ob, NEW on, NEW r \in JobRecord, NEW s \in JobRecord, NEW j \in Jobs, NEW e,
           BudgetHolds(ob, r, j),
           s.status # "leased", s.retry = 0,
           e \notin EventsOf(ob, j, "manual"),
           EventsOf(on, j, "retry") = EventsOf(ob, j, "retry"),
           EventsOf(on, j, "manual") = EventsOf(ob, j, "manual") \cup {e}
    PROVE  BudgetHolds(on, s, j)
<1>. DEFINE R == EventsOf(ob, j, "retry")
            M == EventsOf(ob, j, "manual")
            N == EventsOf(on, j, "manual")
            a == RetryLimit - 1
<1>1. IsFiniteSet(R) /\ IsFiniteSet(M) /\ N = M \cup {e} /\ e \notin M
  BY DEF BudgetHolds
<1>2. Cardinality(R) \in Nat /\ Cardinality(M) \in Nat /\ a \in Nat
  BY <1>1, FS_CardinalityType, BoundsAssumption
<1>3. Cardinality(R) <= a * Cardinality(M) + a
  BY DEF BudgetHolds
<1>. HIDE DEF R, M, N, a
<1>4. IsFiniteSet(N) /\ Cardinality(N) = Cardinality(M) + 1
  BY <1>1, FS_AddElement
<1>5. \A m \in Nat : a * (m + 1) = a * m + a /\ a * m \in Nat
  BY <1>2
<1>6. a * Cardinality(N) = a * Cardinality(M) + a /\ a * Cardinality(N) \in Nat
  <2>1. a * (Cardinality(M) + 1) = a * Cardinality(M) + a /\ a * (Cardinality(M) + 1) \in Nat
    BY <1>2, <1>5
  <2>. QED BY <1>4, <2>1
<1>7. Cardinality(R) <= a * Cardinality(N) + a /\ Cardinality(R) <= a * Cardinality(N) + 0
  <2>. DEFINE p == a * Cardinality(N)
  <2>1. p \in Nat /\ Cardinality(R) <= p
    BY <1>3, <1>6
  <2>. HIDE DEF p
  <2>2. Cardinality(R) <= p + a /\ Cardinality(R) <= p + 0
    BY <1>2, <2>1
  <2>. QED BY <2>2 DEF p
<1>. QED BY <1>1, <1>4, <1>7 DEF BudgetHolds, Spent, R, M, N, a

\* No record that a transaction writes has spent fewer claims, except where the count starts.
LEMMA SpentFacts ==
    ASSUME NEW r \in JobRecord
    PROVE  /\ Spent(r) \in Int
           /\ Spent(Leased(r)) >= Spent(r)
           /\ Spent(Renewed(r)) >= Spent(r)
           /\ Spent([r EXCEPT !.status = "superseded", !.token = @ + 1]) >= Spent(r)
           /\ Spent([r EXCEPT !.status = "succeeded"]) >= Spent(r)
           /\ Spent(Cancelled(r)) >= Spent(r)
           /\ Spent(Aged(r)) >= Spent(r)
           /\ Spent(FreshJob) = 0
<1>1. r.retry \in Nat /\ Spent(r) \in Int /\ Spent(r) <= r.retry
  BY DEF JobRecord, Spent
<1>2. Leased(r).status = "leased" /\ Leased(r).retry = r.retry + 1
  BY DEF Leased, JobRecord
<1>3. Spent(Leased(r)) >= Spent(r)
  BY <1>1, <1>2 DEF Spent
<1>4. Renewed(r).status = r.status /\ Renewed(r).retry = r.retry
  BY DEF Renewed, JobRecord
<1>5. Aged(r).status = r.status /\ Aged(r).retry = r.retry
  BY DEF Aged, JobRecord
<1>6. ASSUME NEW s, s.status # "leased", s.retry = r.retry PROVE Spent(s) >= Spent(r)
  BY <1>1, <1>6 DEF Spent
<1>7. Spent([r EXCEPT !.status = "superseded", !.token = @ + 1]) >= Spent(r)
  BY <1>6 DEF JobRecord
<1>8. Spent([r EXCEPT !.status = "succeeded"]) >= Spent(r)
  BY <1>6 DEF JobRecord
<1>9. Spent(Cancelled(r)) >= Spent(r)
  BY <1>6 DEF JobRecord, Cancelled
<1>10. Spent(FreshJob) = 0
  BY DEF FreshJob, AbsentJob, Spent
<1>11. Spent(Renewed(r)) >= Spent(r) /\ Spent(Aged(r)) >= Spent(r)
  BY <1>1, <1>4, <1>5 DEF Spent
<1>. QED BY <1>1, <1>3, <1>7, <1>8, <1>9, <1>10, <1>11

\* Job k has spent no fewer claims in jn than in jb, or is new in jn.
Counts(jb, jn, k) ==
    \/ Spent(jn[k]) >= Spent(jb[k])
    \/ jb[k].status = "absent" /\ Spent(jn[k]) = 0

\* Superseding, completing and enqueuing.
LEMMA CountsFacts ==
    ASSUME NEW jb \in JobFunction, NEW k \in Jobs
    PROVE  /\ Spent(jb[k]) \in Int
           /\ Counts(jb, jb, k)
           /\ Spent(Superseded(jb)[k]) >= Spent(jb[k])
           /\ \A j \in Jobs : Spent(Succeeded(jb, j)[k]) >= Spent(jb[k])
           /\ \A j \in Jobs \cup {None} :
                 \/ EnqueuedJob(jb, j)[k] = jb[k]
                 \/ jb[k].status = "absent" /\ Spent(EnqueuedJob(jb, j)[k]) = 0
<1>1. jb[k] \in JobRecord
  BY DEF JobFunction
<1>10. PICK r \in JobRecord : r = jb[k]
  BY <1>1
<1>11. /\ Spent(r) \in Int
      /\ Spent([r EXCEPT !.status = "superseded", !.token = @ + 1]) >= Spent(r)
      /\ Spent([r EXCEPT !.status = "succeeded"]) >= Spent(r)
      /\ Spent(FreshJob) = 0
  BY SpentFacts
<1>2. Spent(r) >= Spent(r) /\ Spent(jb[k]) \in Int /\ Counts(jb, jb, k)
  BY <1>10, <1>11 DEF Counts
<1>3. Spent(Superseded(jb)[k]) >= Spent(jb[k])
  <2>1. \/ Superseded(jb)[k] = r
        \/ Superseded(jb)[k] = [r EXCEPT !.status = "superseded", !.token = @ + 1]
    BY <1>10 DEF Superseded
  <2>. QED BY <1>10, <1>11, <1>2, <2>1
<1>4. ASSUME NEW j \in Jobs PROVE Spent(Succeeded(jb, j)[k]) >= Spent(jb[k])
  <2>1. Succeeded(jb, j)[k] = r \/ Succeeded(jb, j)[k] = [r EXCEPT !.status = "succeeded"]
    BY <1>10 DEF Succeeded, JobFunction
  <2>. QED BY <1>10, <1>11, <1>2, <2>1
<1>5. ASSUME NEW j \in Jobs \cup {None}
      PROVE  \/ EnqueuedJob(jb, j)[k] = jb[k]
             \/ jb[k].status = "absent" /\ Spent(EnqueuedJob(jb, j)[k]) = 0
  <2>1. EnqueuedJob(jb, j)[k] = jb[k] \/ (jb[k].status = "absent" /\ EnqueuedJob(jb, j)[k] = FreshJob)
    BY JobsAssumption DEF EnqueuedJob, JobFunction
  <2>. QED BY <1>11, <2>1
<1>. QED BY <1>2, <1>3, <1>4, <1>5

\* A step that inserts no retry and no manual event keeps the budget of every job.
LEMMA BudgetQuiet ==
    ASSUME IndInv, TypeOK', BudgetInv,
           \A k \in Jobs : Counts(job, job', k),
           DOMAIN outbox \subseteq DOMAIN outbox',
           \A e \in DOMAIN outbox' \ DOMAIN outbox : e.cause = "initial"
    PROVE  BudgetInv'
<1>. SUFFICES ASSUME NEW k \in Jobs PROVE BudgetHolds(outbox', job'[k], k)
  BY DEF BudgetInv
<1>1. /\ job[k] \in JobRecord /\ job'[k] \in JobRecord /\ BudgetHolds(outbox, job[k], k)
  BY DEF IndInv, TypeOK, BudgetInv
<1>2. /\ EventsOf(outbox', k, "retry") = EventsOf(outbox, k, "retry")
      /\ EventsOf(outbox', k, "manual") = EventsOf(outbox, k, "manual")
  BY DEF EventsOf
<1>3. job[k].status = "absent" => EventsOf(outbox, k, "retry") = {}
  BY DEF EventsOf, IndInv, EventsOfThePast
<1>4. \/ Spent(job'[k]) >= Spent(job[k])
      \/ Spent(job'[k]) >= 0 /\ EventsOf(outbox, k, "retry") = {}
  BY <1>3 DEF Counts
<1>. QED BY <1>1, <1>2, <1>4, BudgetSame

\* What each transaction does to the claims that are counted and to the events that limit them.
LEMMA BudgetStep == IndInv /\ BudgetInv /\ [Next]_vars => BudgetInv'
<1>. SUFFICES ASSUME IndInv, BudgetInv, [Next]_vars PROVE BudgetInv'
  OBVIOUS
<1>0. /\ TypeOK /\ TypeOK' /\ job \in JobFunction /\ job' \in JobFunction /\ OutboxOK(outbox)
      /\ \A l \in leases : l.job \in Jobs /\ l.token \in Nat
      /\ \A k \in Jobs : job[k] \in JobRecord /\ job'[k] \in JobRecord /\ Spent(job[k]) \in Int
  <2>1. TypeOK /\ TypeOK'
    BY TypeStep DEF IndInv
  <2>2. job \in JobFunction /\ job' \in JobFunction /\ OutboxOK(outbox)
    BY <2>1 DEF TypeOK, JobFunction, OutboxOK
  <2>3. \A l \in leases : l.job \in Jobs /\ l.token \in Nat
    BY <2>1 DEF TypeOK, Key
  <2>. QED BY <2>1, <2>2, <2>3, CountsFacts DEF JobFunction
<1>1. ASSUME NEW j \in Jobs, ClaimJob(j) PROVE BudgetInv'
  <2>1. PICK jb \in JobFunction : /\ job' = [jb EXCEPT ![j] = Leased(jb[j])]
                                  /\ jb = job \/ jb = Superseded(job)
    BY <1>0, <1>1, SupersededFacts DEF ClaimJob
  <2>2. ASSUME NEW k \in Jobs PROVE Counts(job, job', k)
    <3>1. Spent(jb[k]) >= Spent(job[k]) /\ Spent(jb[k]) \in Int
      BY <1>0, <2>1, CountsFacts
    <3>2. jb[k] \in JobRecord /\ (job'[k] = jb[k] \/ job'[k] = Leased(jb[k]))
      BY <2>1 DEF JobFunction
    <3>3. Spent(Leased(jb[k])) >= Spent(jb[k]) /\ Leased(jb[k]) \in JobRecord
      BY <3>2, SpentFacts, LeasedFacts
    <3>4. Spent(Leased(jb[k])) \in Int
      BY <3>3, SpentFacts
    <3>. QED BY <1>0, <3>1, <3>2, <3>3, <3>4 DEF Counts
  <2>3. DOMAIN outbox' = DOMAIN outbox
    BY <1>0, <1>1, ClaimEffect
  <2>. QED BY <1>0, <2>2, <2>3, BudgetQuiet
<1>2. ASSUME NEW l \in leases, Heartbeat(l) PROVE BudgetInv'
  <2>1. ASSUME NEW k \in Jobs PROVE Counts(job, job', k)
    <3>1. job'[k] = job[k] \/ job'[k] = Renewed(job[k])
      BY <1>0, <1>2 DEF Heartbeat, JobFunction
    <3>2. Spent(Renewed(job[k])) >= Spent(job[k])
      BY <1>0, SpentFacts
    <3>. QED BY <1>0, <3>1, <3>2 DEF Counts
  <2>. QED BY <1>0, <1>2, <2>1, BudgetQuiet DEF Heartbeat
<1>3. ASSUME NEW l \in leases, NEW transient \in BOOLEAN, NEW delay \in Delays,
             FailJob(l, transient, delay)
      PROVE  BudgetInv'
  <2>. DEFINE j == l.job
              e == Event(j, "retry", l.token)
  <2>1. /\ j \in Jobs /\ job[j].status = "leased"
        /\ DOMAIN outbox \subseteq DOMAIN outbox' /\ DOMAIN outbox' \subseteq DOMAIN outbox \cup {e}
    BY <1>0, <1>3, FailEffect DEF Owned
  <2>2. e.job = j /\ e.cause = "retry"
    BY DEF Event
  <2>3. /\ job'[j].status \in {"pending", "failed"} /\ job'[j].retry = job[j].retry
        /\ \A k \in Jobs \ {j} : job'[k] = job[k]
    <3>1. PICK s \in {"pending", "failed"} :
             job' = [job EXCEPT ![j] = [job[j] EXCEPT !.status = s, !.wait = delay]]
      BY <1>3, Zenon DEF FailJob
    <3>. QED BY <1>0, <2>1, <3>1 DEF JobFunction, JobRecord
  <2>4. outbox' = outbox \/ job[j].retry < RetryLimit
    BY <1>3 DEF FailJob, RetriesLeft
  <2>. HIDE DEF e
  <2>5. ASSUME NEW k \in Jobs PROVE BudgetHolds(outbox', job'[k], k)
    <3>0. BudgetHolds(outbox, job[k], k) /\ job[k] \in JobRecord /\ job'[k] \in JobRecord
      BY <1>0 DEF BudgetInv
    <3>1. EventsOf(outbox', k, "manual") = EventsOf(outbox, k, "manual")
      BY <2>1, <2>2 DEF EventsOf
    <3>2. CASE k # j
      <4>1. job'[k] = job[k] /\ EventsOf(outbox', k, "retry") = EventsOf(outbox, k, "retry")
        BY <2>1, <2>2, <2>3, <3>2 DEF EventsOf
      <4>2. Spent(job'[k]) >= Spent(job[k])
        BY <1>0, <4>1
      <4>. QED BY <3>0, <3>1, <4>1, <4>2, BudgetSame
    <3>3. CASE k = j /\ outbox' = outbox
      <4>1. Spent(job'[j]) >= Spent(job[j])
        BY <1>0, <2>1, <2>3 DEF Spent, JobRecord
      <4>2. EventsOf(outbox', k, "retry") = EventsOf(outbox, k, "retry")
        BY <3>3
      <4>. QED BY <3>0, <3>1, <3>3, <4>1, <4>2, BudgetSame
    <3>4. CASE k = j /\ job[j].retry < RetryLimit
      <4>1. EventsOf(outbox', k, "retry") \subseteq EventsOf(outbox, k, "retry") \cup {e}
        BY <2>1 DEF EventsOf
      <4>2. job'[k].status # "leased" /\ job'[k].retry = job[k].retry
        BY <2>3, <3>4
      <4>. QED BY <2>1, <3>0, <3>1, <3>4, <4>1, <4>2, BudgetRetry
    <3>. QED BY <2>4, <3>2, <3>3, <3>4
  <2>. QED BY <2>5 DEF BudgetInv
<1>4. ASSUME NEW l \in leases, CommitParse(l) PROVE BudgetInv'
  <2>. DEFINE jb == Succeeded(job, l.job)
  <2>1. jb \in JobFunction /\ NextJob[l.job] \in Jobs \cup {None} /\ l.job \in Jobs
    BY <1>0, SucceededFacts, JobsAssumption
  <2>2. job' = EnqueuedJob(jb, NextJob[l.job])
    BY <1>4 DEF CommitParse
  <2>3. \A k \in Jobs : jb[k].status = "absent" => job[k].status = "absent"
    <3>1. jb[l.job].status = "succeeded" /\ \A k \in Jobs \ {l.job} : jb[k] = job[k]
      BY <1>0, <2>1, SucceededFacts
    <3>. HIDE DEF jb
    <3>. QED BY <3>1
  <2>4. \A k \in Jobs : Spent(jb[k]) >= Spent(job[k])
    BY <1>0, <2>1, CountsFacts
  <2>. HIDE DEF jb
  <2>5. \A k \in Jobs : job'[k] = jb[k] \/ (jb[k].status = "absent" /\ Spent(job'[k]) = 0)
    BY <2>1, <2>2, CountsFacts
  <2>6. \A k \in Jobs : Counts(job, job', k)
    BY <2>3, <2>4, <2>5 DEF Counts
  <2>. QED BY <1>0, <1>4, <2>6, CommitParseEffect, BudgetQuiet DEF EventsAdded
<1>5. ASSUME NEW l \in leases, CommitExtract(l) PROVE BudgetInv'
  <2>. DEFINE jt == Superseded(job)
              jb == Succeeded(jt, l.job)
  <2>1. jt \in JobFunction /\ NextJob[l.job] \in Jobs \cup {None} /\ l.job \in Jobs
    BY <1>0, SupersededFacts, JobsAssumption
  <2>2. job' = EnqueuedJob(jb, NextJob[l.job])
    BY <1>5 DEF CommitExtract
  <2>3. \A k \in Jobs : jt[k].status = "absent" => job[k].status = "absent"
    BY <1>0, SupersededFacts
  <2>4. \A k \in Jobs : Spent(jt[k]) >= Spent(job[k])
    BY <1>0, CountsFacts
  <2>. HIDE DEF jt
  <2>5. jb \in JobFunction /\ \A k \in Jobs : jb[k].status = "absent" => job[k].status = "absent"
    <3>1. /\ jb \in JobFunction /\ jb[l.job].status = "succeeded"
          /\ \A k \in Jobs \ {l.job} : jb[k] = jt[k]
      BY <2>1, SucceededFacts
    <3>. HIDE DEF jb
    <3>. QED BY <2>3, <3>1
  <2>6. \A k \in Jobs : Spent(jb[k]) >= Spent(jt[k]) /\ Spent(jt[k]) \in Int
    BY <2>1, CountsFacts
  <2>. HIDE DEF jb
  <2>7. \A k \in Jobs : Spent(jb[k]) >= Spent(job[k])
    <3>1. \A k \in Jobs : Spent(jb[k]) \in Int
      BY <2>5, CountsFacts
    <3>. QED BY <1>0, <2>4, <2>6, <3>1
  <2>8. \A k \in Jobs : job'[k] = jb[k] \/ (jb[k].status = "absent" /\ Spent(job'[k]) = 0)
    BY <2>1, <2>2, <2>5, CountsFacts
  <2>9. \A k \in Jobs : Counts(job, job', k)
    BY <2>5, <2>7, <2>8 DEF Counts
  <2>. QED BY <1>0, <1>5, <2>9, CommitExtractEffect, BudgetQuiet DEF EventsAdded
<1>6. ASSUME NEW l \in leases, NEW e \in DOMAIN outbox, CommitTag(l, e, outbox[e].attempts)
      PROVE  BudgetInv'
  <2>1. job' = Succeeded(job, l.job) /\ l.job \in Jobs
    BY <1>0, <1>6 DEF CommitTag
  <2>2. \A k \in Jobs : Counts(job, job', k)
    BY <1>0, <2>1, CountsFacts DEF Counts
  <2>. QED BY <1>0, <1>6, <2>2, CommitTagEffect, BudgetQuiet
<1>7. ASSUME NEW l \in leases, PublishClaim(l) PROVE BudgetInv'
  <2>1. job' = job /\ outbox' = outbox
    BY <1>7 DEF PublishClaim
  <2>2. \A k \in Jobs : Counts(job, job', k)
    BY <1>0, <2>1, CountsFacts
  <2>. QED BY <1>0, <2>1, <2>2, BudgetQuiet
<1>8. ASSUME NEW j \in Jobs, EnqueueBatch(j) \/ AuthorizeRecovery(j) \/ AuthorizeReprocess(j)
      PROVE  BudgetInv'
  <2>1. job' = EnqueuedJob(job, j)
    BY <1>8 DEF EnqueueBatch, AuthorizeRecovery, AuthorizeReprocess, Authorize
  <2>2. \A k \in Jobs : Counts(job, job', k)
    BY <1>0, <2>1, CountsFacts DEF Counts
  <2>. QED BY <1>0, <1>8, <2>2, AddEffect, BudgetQuiet DEF EventsAdded
<1>9. CASE CancelRun
  <2>1. ASSUME NEW k \in Jobs PROVE Counts(job, job', k)
    <3>1. job'[k] = job[k] \/ job'[k] = Cancelled(job[k])
      BY <1>9 DEF CancelRun
    <3>2. Spent(Cancelled(job[k])) >= Spent(job[k])
      BY <1>0, SpentFacts
    <3>. QED BY <1>0, <3>1, <3>2 DEF Counts
  <2>. QED BY <1>0, <1>9, <2>1, BudgetQuiet DEF CancelRun
<1>10. CASE RetryRun
  <2>. DEFINE added == {Event(x, "manual", run.revision) : x \in ToRetry}
  <2>1. /\ outbox' = WithEvents(outbox, added, 0)
        /\ job' = [x \in Jobs |-> IF x \in ToRetry THEN Revived(job[x]) ELSE job[x]]
    BY <1>10, Zenon DEF RetryRun
  <2>2. added \in SUBSET EventId
    BY <1>0 DEF Event, EventId, ToRetry, TypeOK, RunRecord
  <2>3. DOMAIN outbox' = DOMAIN outbox \cup added
    <3>. HIDE DEF added
    <3>. QED BY <1>0, <2>1, <2>2, OutboxFacts
  <2>4. ASSUME NEW k \in Jobs PROVE BudgetHolds(outbox', job'[k], k)
    <3>. DEFINE e == Event(k, "manual", run.revision)
    <3>0. BudgetHolds(outbox, job[k], k) /\ job[k] \in JobRecord /\ job'[k] \in JobRecord
      BY <1>0 DEF BudgetInv
    <3>1. EventsOf(outbox', k, "retry") = EventsOf(outbox, k, "retry")
      BY <2>3 DEF EventsOf, Event
    <3>2. CASE k \in ToRetry
      <4>1. EventsOf(outbox', k, "manual") = EventsOf(outbox, k, "manual") \cup {e}
        <5>1. EventsOf(outbox, k, "manual") \cup {e} \subseteq EventsOf(outbox', k, "manual")
          BY <2>3, <3>2 DEF EventsOf, Event
        <5>2. EventsOf(outbox', k, "manual") \subseteq EventsOf(outbox, k, "manual") \cup {e}
          BY <2>3 DEF EventsOf, Event
        <5>. QED BY <5>1, <5>2
      <4>2. e \notin EventsOf(outbox, k, "manual")
        <5>1. e.cause = "manual" /\ e.n = run.revision /\ run.revision \in Nat
          BY <1>0 DEF Event, TypeOK, RunRecord
        <5>. HIDE DEF e
        <5>. QED BY <5>1 DEF IndInv, EventsOfThePast, EventsOf
      <4>3. job'[k].status # "leased" /\ job'[k].retry = 0
        BY <1>0, <2>1, <3>2 DEF Revived, JobRecord
      <4>. HIDE DEF e
      <4>. QED BY <3>0, <3>1, <4>1, <4>2, <4>3, BudgetManual
    <3>3. CASE k \notin ToRetry
      <4>1. EventsOf(outbox', k, "manual") = EventsOf(outbox, k, "manual")
        BY <2>3, <3>3 DEF EventsOf, Event
      <4>2. job'[k] = job[k] /\ Spent(job'[k]) >= Spent(job[k])
        BY <1>0, <2>1, <3>3
      <4>. QED BY <3>0, <3>1, <4>1, <4>2, BudgetSame
    <3>. QED BY <3>2, <3>3
  <2>. QED BY <2>4 DEF BudgetInv
<1>11. CASE Tick
  <2>1. ASSUME NEW k \in Jobs PROVE Counts(job, job', k)
    <3>1. job'[k] = Aged(job[k]) /\ Spent(Aged(job[k])) >= Spent(job[k])
      BY <1>0, <1>11, SpentFacts DEF Tick
    <3>. QED BY <3>1 DEF Counts
  <2>. QED BY <1>0, <1>11, <2>1, BudgetQuiet, QuietEffect
<1>12. CASE RelayStep \/ UNCHANGED vars
  <2>1. job' = job
    BY <1>12 DEF RelayStep, MarkOutbox, vars
  <2>2. \A k \in Jobs : Counts(job, job', k)
    BY <1>0, <2>1, CountsFacts
  <2>. QED BY <1>0, <1>12, <2>2, BudgetQuiet, QuietEffect
<1>. QED BY <1>1, <1>2, <1>3, <1>4, <1>5, <1>6, <1>7, <1>8, <1>9, <1>10, <1>11, <1>12
       DEF Next, WorkerStep, OperatorStep

\* fail_job and _action retry: however leases are lost and jobs claimed again, a job is retried
\* by itself less than RetryLimit times for each time an operator started it.
THEOREM RetriesAreBounded == Spec => []RetryBudget
<1>1. Init => BudgetInv
  <2>. SUFFICES ASSUME Init, NEW j \in Jobs PROVE BudgetHolds(outbox, job[j], j)
    BY DEF BudgetInv
  <2>1. \A e \in DOMAIN outbox : e.cause = "initial"
    BY DEF Init, Event
  <2>2. EventsOf(outbox, j, "retry") = {} /\ EventsOf(outbox, j, "manual") = {}
    BY <2>1 DEF EventsOf
  <2>3. IsFiniteSet({}) /\ Cardinality({}) = 0
    BY FS_EmptySet
  <2>4. Spent(job[j]) = 0
    BY DEF Init, Spent, FreshJob, AbsentJob
  <2>5. (RetryLimit - 1) * 0 = 0 /\ RetryLimit - 1 >= 0
    BY BoundsAssumption
  <2>6. 0 <= 0 + (RetryLimit - 1) /\ 0 <= 0 + 0
    BY <2>5, BoundsAssumption
  <2>7. 0 <= (RetryLimit - 1) * 0 + (RetryLimit - 1) /\ 0 <= (RetryLimit - 1) * 0 + 0
    BY <2>5, <2>6
  <2>. QED BY <2>2, <2>3, <2>4, <2>7 DEF BudgetHolds
<1>2. BudgetInv => RetryBudget
  <2>. SUFFICES ASSUME BudgetInv, NEW j \in Jobs
                PROVE  Cardinality(EventsOf(outbox, j, "retry"))
                         <= (RetryLimit - 1) * (1 + Cardinality(EventsOf(outbox, j, "manual")))
    BY DEF RetryBudget, EventsOf
  <2>. DEFINE M == EventsOf(outbox, j, "manual")
              a == RetryLimit - 1
  <2>1. /\ Cardinality(M) \in Nat /\ a \in Nat
        /\ Cardinality(EventsOf(outbox, j, "retry")) <= a * Cardinality(M) + a
    BY FS_CardinalityType, BoundsAssumption DEF BudgetInv, BudgetHolds
  <2>. HIDE DEF M, a
  <2>2. \A m \in Nat : a * (1 + m) = a * m + a
    BY <2>1
  <2>3. a * (1 + Cardinality(M)) = a * Cardinality(M) + a
    BY <2>1, <2>2
  <2>. QED BY <2>1, <2>3 DEF M, a
<1>. QED BY <1>1, <1>2, BudgetStep, Inductive, PTL DEF Spec

-----------------------------------------------------------------------------
(* Workers: what a transaction does to leases, accounts and wake-ups *)

\* Job k gets an event that will deliver it.
NewEvent(k) ==
    \E e \in DOMAIN outbox' \ DOMAIN outbox : e.job = k /\ outbox'[e].status = "pending"

\* Job k was open and no event of it is lost.
KeptEvents(k) ==
    /\ job[k].status \in Open
    /\ \A e \in DOMAIN outbox :
          e.job = k /\ outbox[e].status = "pending" => outbox'[e].status = "pending"

Wakeful == \A k \in Jobs : job'[k].status \in Open => KeptEvents(k) \/ NewEvent(k)

\* The attempts that a transaction completes, retries or fails are those in S.
Settles(S) ==
    /\ leases \subseteq leases'
    /\ DOMAIN outbox \subseteq DOMAIN outbox'
    /\ artifacts' \subseteq artifacts \cup S
    /\ \A e \in DOMAIN outbox' \ DOMAIN outbox :
          e.cause = "retry" => [job |-> e.job, token |-> e.n] \in S
    /\ \A k \in Jobs : job'[k].status = "failed" =>
          \/ job[k].status = "failed" /\ job'[k].token = job[k].token
          \/ [job |-> k, token |-> job'[k].token] \in S

\* _enqueue: a job that was absent gets its event.
LEMMA EnqueueWakes ==
    ASSUME EventsOfThePast, NEW ob, OutboxOK(ob), DOMAIN ob = DOMAIN outbox,
           NEW n \in Jobs \cup {None}, outbox' = EnqueuedEvent(ob, job, n)
    PROVE  /\ DOMAIN outbox \subseteq DOMAIN outbox'
           /\ \A e \in DOMAIN outbox : outbox'[e] = ob[e]
           /\ n \in Jobs /\ job[n].status = "absent" => NewEvent(n)
           /\ \A e \in DOMAIN outbox' \ DOMAIN outbox : e.cause = "initial"
<1>. DEFINE i == Event(n, "initial", 0)
<1>1. CASE n # None /\ job[n].status = "absent"
  <2>1. outbox' = WithEvents(ob, {i}, 0)
    BY <1>1 DEF EnqueuedEvent
  <2>2. {i} \in SUBSET EventId /\ i.job = n /\ i.cause = "initial"
    BY <1>1 DEF Event, EventId
  <2>. HIDE DEF i
  <2>3. DOMAIN outbox' = DOMAIN ob \cup {i}
    <3>1. DOMAIN WithEvents(ob, {i}, 0) = DOMAIN ob \cup {i}
      BY DEF WithEvents, Pending
    <3>. QED BY <2>1, <3>1
  <2>4. /\ \A e \in DOMAIN ob : outbox'[e] = ob[e]
        /\ \A e \in {i} \ DOMAIN ob : outbox'[e].status = "pending"
    <3>1. /\ \A e \in DOMAIN ob : WithEvents(ob, {i}, 0)[e] = ob[e]
          /\ \A e \in {i} \ DOMAIN ob : WithEvents(ob, {i}, 0)[e].status = "pending"
      BY DEF WithEvents, Pending
    <3>. QED BY <2>1, <3>1
  <2>5. i \notin DOMAIN outbox
    BY <1>1, <2>2 DEF EventsOfThePast
  <2>6. NewEvent(n)
    BY <2>2, <2>3, <2>4, <2>5 DEF NewEvent
  <2>. QED BY <2>2, <2>3, <2>4, <2>6
<1>2. CASE ~(n # None /\ job[n].status = "absent")
  BY <1>2, JobsAssumption DEF EnqueuedEvent
<1>. QED BY <1>1, <1>2

\* claim_job: an extraction that is continued takes open tag jobs out of the run together with
\* their events.
LEMMA ClaimMoves ==
    ASSUME IndInv, NEW j \in Jobs, ClaimJob(j)
    PROVE  /\ Settles({}) /\ Wakeful
           /\ [job |-> j, token |-> job[j].token + 1] \in leases'
<1>0. TypeOK /\ job \in JobFunction
  BY DEF IndInv, TypeOK, JobFunction
<1>1. Settles({})
  BY <1>0, ClaimEffect DEF Settles, Same, Replaced, ClaimJob
<1>2. ASSUME NEW k \in Jobs, job'[k].status \in Open PROVE KeptEvents(k)
  <2>1. CASE ~Continues(j)
    <3>1. outbox' = outbox
      BY <2>1 DEF ClaimJob
    <3>2. job[k].status \in Open
      BY <1>0, <1>2, ClaimEffect DEF Same, Replaced, Open
    <3>. QED BY <3>1, <3>2 DEF KeptEvents
  <2>2. CASE Continues(j)
    <3>1. job' = [Superseded(job) EXCEPT ![j] = Leased(Superseded(job)[j])]
      BY <2>2 DEF ClaimJob
    <3>2. outbox' = SupersededEvents(outbox)
      BY <2>2 DEF ClaimJob
    <3>3. job[k].status \in Open
      BY <1>0, <1>2, ClaimEffect DEF Same, Replaced, Open
    <3>4. Stage[k] # "tag"
      <4>1. CASE k = j
        BY <2>2, <4>1 DEF Continues
      <4>2. CASE k # j
        <5>1. job'[k] = Superseded(job)[k]
          BY <1>0, <3>1, <4>2, SupersededFacts DEF JobFunction
        <5>2. Stage[k] = "tag" => Superseded(job)[k].status = "superseded"
          BY <1>0, <3>3, SupersededFacts
        <5>. QED BY <1>2, <5>1, <5>2 DEF Open
      <4>. QED BY <4>1, <4>2
    <3>5. \A e \in DOMAIN outbox : e.job = k => outbox'[e] = outbox[e]
      BY <3>2, <3>4 DEF SupersededEvents
    <3>. QED BY <3>3, <3>5 DEF KeptEvents
  <2>. QED BY <2>1, <2>2
<1>3. [job |-> j, token |-> job[j].token + 1] \in leases'
  BY DEF ClaimJob
<1>. QED BY <1>1, <1>2, <1>3 DEF Wakeful

\* Transactions that leave every job's status and every event alone.
LEMMA QuietMoves ==
    ASSUME leases \subseteq leases', artifacts' = artifacts, DOMAIN outbox' = DOMAIN outbox,
           \A k \in Jobs : Same(k),
           \A e \in DOMAIN outbox : outbox'[e].status = outbox[e].status
    PROVE  Settles({}) /\ Wakeful
BY DEF Settles, Wakeful, KeptEvents, Same

\* fail_job: the job that goes back to pending has its retry event.
LEMMA FailMoves ==
    ASSUME IndInv, NEW l \in leases, NEW transient \in BOOLEAN, NEW delay \in Delays,
           FailJob(l, transient, delay)
    PROVE  /\ Settles({l}) /\ Wakeful
           /\ job'[l.job].status \notin Open \/ NewEvent(l.job)
<1>. DEFINE i == Event(l.job, "retry", l.token)
            again == transient /\ RetriesLeft(l.job)
<1>0. /\ TypeOK /\ OutboxOK(outbox) /\ l.job \in Jobs /\ l.token \in Nat /\ delay \in Nat
      /\ l = [job |-> l.job, token |-> l.token]
  BY BoundsAssumption DEF IndInv, TypeOK, OutboxOK, Key
<1>1. i.job = l.job /\ i.cause = "retry" /\ i.n = l.token /\ {i} \in SUBSET EventId
  BY <1>0 DEF Event, EventId
<1>2. /\ Owned(l) /\ DOMAIN outbox' \subseteq DOMAIN outbox \cup {i}
      /\ DOMAIN outbox \subseteq DOMAIN outbox' /\ artifacts' = artifacts
      /\ job'[l.job].token = l.token /\ \A k \in Jobs \ {l.job} : Same(k)
  BY <1>0, FailEffect
<1>3. leases' = leases
  BY DEF FailJob
<1>4. i \notin DOMAIN outbox
  BY <1>0, <1>1, <1>2 DEF IndInv, EventsOfThePast, Owned
<1>. HIDE DEF i
<1>5. Settles({l})
  <2>1. \A e \in DOMAIN outbox' \ DOMAIN outbox : [job |-> e.job, token |-> e.n] = l
    BY <1>0, <1>1, <1>2
  <2>2. ASSUME NEW k \in Jobs, job'[k].status = "failed"
        PROVE  \/ job[k].status = "failed" /\ job'[k].token = job[k].token
               \/ [job |-> k, token |-> job'[k].token] = l
    <3>1. CASE k = l.job
      BY <1>0, <1>2, <3>1
    <3>2. CASE k # l.job
      BY <1>2, <2>2, <3>2 DEF Same
    <3>. QED BY <3>1, <3>2
  <2>. QED BY <1>2, <1>3, <2>1, <2>2 DEF Settles
<1>6. /\ again => outbox' = WithEvents(outbox, {i}, delay)
      /\ ~again => outbox' = outbox /\ job'[l.job].status = "failed"
  <2>1. CASE again
    BY <2>1, Zenon DEF FailJob, i
  <2>2. CASE ~again
    <3>1. outbox' = outbox
      BY <2>2, Zenon DEF FailJob
    <3>2. job' = [job EXCEPT ![l.job] = [job[l.job] EXCEPT !.status = "failed", !.wait = delay]]
      BY <2>2, Zenon DEF FailJob
    <3>3. job'[l.job].status = "failed"
      BY <1>0, <3>2 DEF TypeOK, JobRecord
    <3>. QED BY <2>2, <3>1, <3>3
  <2>. QED BY <2>1, <2>2
<1>. HIDE DEF again
<1>7. again => NewEvent(l.job)
  <2>. SUFFICES ASSUME again PROVE NewEvent(l.job)
    OBVIOUS
  <2>1. /\ DOMAIN WithEvents(outbox, {i}, delay) = DOMAIN outbox \cup {i}
        /\ \A e \in {i} \ DOMAIN outbox : WithEvents(outbox, {i}, delay)[e].status = "pending"
    BY DEF WithEvents, Pending
  <2>2. i \in DOMAIN outbox' /\ outbox'[i].status = "pending"
    <3>1. /\ DOMAIN outbox' = DOMAIN outbox \cup {i}
          /\ \A e \in {i} \ DOMAIN outbox : outbox'[e].status = "pending"
      BY <1>6, <2>1
    <3>. QED BY <1>4, <3>1
  <2>. QED BY <1>1, <1>4, <2>2 DEF NewEvent
<1>8. job'[l.job].status \notin Open \/ NewEvent(l.job)
  BY <1>6, <1>7 DEF Open
<1>9. \A e \in DOMAIN outbox : outbox'[e] = outbox[e]
  <2>1. \A e \in DOMAIN outbox : WithEvents(outbox, {i}, delay)[e] = outbox[e]
    BY DEF WithEvents, Pending
  <2>. QED BY <1>6, <2>1
<1>10. Wakeful
  BY <1>2, <1>8, <1>9 DEF Wakeful, KeptEvents, Same
<1>. QED BY <1>5, <1>8, <1>10

\* commit_job of a parse job
LEMMA CommitParseMoves ==
    ASSUME IndInv, NEW l \in leases, CommitParse(l)
    PROVE  Settles({l}) /\ Wakeful /\ job'[l.job].status \notin Open
<1>. DEFINE n == NextJob[l.job]
<1>0. /\ TypeOK /\ EventsOfThePast /\ OutboxOK(outbox) /\ l.job \in Jobs
      /\ n \in Jobs \cup {None} /\ job \in JobFunction
  BY JobsAssumption DEF IndInv, TypeOK, OutboxOK, Key, JobFunction
<1>1. /\ job'[l.job].status = "succeeded" /\ artifacts' = artifacts \cup {l}
      /\ \A k \in Jobs \ {l.job} : Same(k) \/ Added(k)
  BY <1>0, CommitParseEffect
<1>2. /\ DOMAIN outbox \subseteq DOMAIN outbox'
      /\ \A e \in DOMAIN outbox : outbox'[e] = outbox[e]
      /\ n \in Jobs /\ job[n].status = "absent" => NewEvent(n)
      /\ \A e \in DOMAIN outbox' \ DOMAIN outbox : e.cause = "initial"
  <2>1. outbox' = EnqueuedEvent(outbox, job, n)
    BY DEF CommitParse
  <2>. HIDE DEF n
  <2>. QED BY <1>0, <2>1, EnqueueWakes
<1>3. Settles({l})
  BY <1>1, <1>2 DEF Settles, Same, Added, CommitParse
<1>4. ASSUME NEW k \in Jobs, Added(k), k # l.job PROVE k = n
  <2>. DEFINE jb == Succeeded(job, l.job)
  <2>1. jb \in JobFunction /\ jb[k] = job[k] /\ job' = EnqueuedJob(jb, n)
    BY <1>0, <1>4, SucceededFacts DEF CommitParse
  <2>. HIDE DEF jb, n
  <2>2. k # n => job'[k] = jb[k]
    BY <1>0, <2>1, EnqueuedFacts
  <2>. QED BY <1>4, <2>1, <2>2 DEF Added
<1>5. ASSUME NEW k \in Jobs, job'[k].status \in Open PROVE KeptEvents(k) \/ NewEvent(k)
  <2>1. k # l.job
    BY <1>1, <1>5 DEF Open
  <2>2. CASE Added(k)
    BY <1>2, <1>4, <2>1, <2>2 DEF Added
  <2>3. CASE Same(k)
    BY <1>2, <1>5, <2>3 DEF Same, KeptEvents
  <2>. QED BY <1>1, <2>1, <2>2, <2>3
<1>. QED BY <1>1, <1>3, <1>5 DEF Wakeful, Open

\* commit_job of an extract job: the tag jobs it takes out of the run need no event.
LEMMA CommitExtractMoves ==
    ASSUME IndInv, NEW l \in leases, CommitExtract(l)
    PROVE  Settles({l}) /\ Wakeful /\ job'[l.job].status \notin Open
<1>. DEFINE n == NextJob[l.job]
            ob == SupersededEvents(outbox)
            jt == Superseded(job)
            jb == Succeeded(jt, l.job)
<1>0. /\ TypeOK /\ EventsOfThePast /\ OutboxOK(outbox) /\ l.job \in Jobs
      /\ n \in Jobs \cup {None} /\ job \in JobFunction
  BY JobsAssumption DEF IndInv, TypeOK, OutboxOK, Key, JobFunction
<1>1. /\ job'[l.job].status = "succeeded" /\ artifacts' = artifacts \cup {l}
      /\ \A k \in Jobs \ {l.job} : Same(k) \/ Replaced(k) \/ Added(k)
  BY <1>0, CommitExtractEffect
<1>2. outbox' = EnqueuedEvent(ob, job, n) /\ job' = EnqueuedJob(jb, n) /\ leases' = leases
  BY DEF CommitExtract
<1>3. OutboxOK(ob) /\ DOMAIN ob = DOMAIN outbox
  BY <1>0, OutboxFacts
<1>4. \A e \in DOMAIN outbox : Stage[e.job] # "tag" => ob[e] = outbox[e]
  BY DEF SupersededEvents
<1>5. /\ jt \in JobFunction
      /\ \A k \in Jobs : Stage[k] = "tag" /\ job[k].status \in Open => jt[k].status = "superseded"
      /\ \A k \in Jobs : jt[k] = job[k] \/ jt[k].status = "superseded"
  BY <1>0, SupersededFacts
<1>. HIDE DEF ob, jt, n
<1>6. jb \in JobFunction /\ \A k \in Jobs \ {l.job} : jb[k] = jt[k]
  BY <1>0, <1>5, SucceededFacts
<1>. HIDE DEF jb
<1>7. /\ DOMAIN outbox \subseteq DOMAIN outbox'
      /\ \A e \in DOMAIN outbox : outbox'[e] = ob[e]
      /\ n \in Jobs /\ job[n].status = "absent" => NewEvent(n)
      /\ \A e \in DOMAIN outbox' \ DOMAIN outbox : e.cause = "initial"
  BY <1>0, <1>2, <1>3, EnqueueWakes
<1>8. Settles({l})
  BY <1>1, <1>2, <1>7 DEF Settles, Same, Added, Replaced
<1>9. ASSUME NEW k \in Jobs, job'[k].status \in Open PROVE KeptEvents(k) \/ NewEvent(k)
  <2>1. k # l.job
    BY <1>1, <1>9 DEF Open
  <2>2. (k = n /\ jb[k].status = "absent") \/ job'[k] = jb[k]
    BY <1>0, <1>2, <1>6, EnqueuedFacts
  <2>3. CASE k = n /\ jb[k].status = "absent"
    <3>1. job[k].status = "absent"
      BY <1>5, <1>6, <2>1, <2>3
    <3>. QED BY <1>7, <2>3, <3>1
  <2>4. CASE job'[k] = jb[k]
    <3>1. job[k].status \in Open /\ Stage[k] # "tag"
      BY <1>5, <1>6, <1>9, <2>1, <2>4 DEF Open
    <3>2. \A e \in DOMAIN outbox : e.job = k => outbox'[e] = outbox[e]
      BY <1>4, <1>7, <3>1
    <3>. QED BY <3>1, <3>2 DEF KeptEvents
  <2>. QED BY <2>2, <2>3, <2>4
<1>. QED BY <1>1, <1>8, <1>9 DEF Wakeful, Open

\* commit_job of a tag job acknowledges the event in the same transaction.
LEMMA CommitTagMoves ==
    ASSUME IndInv, NEW l \in leases, NEW e \in DOMAIN outbox,
           CommitTag(l, e, outbox[e].attempts)
    PROVE  Settles({l}) /\ Wakeful /\ job'[l.job].status \notin Open
<1>0. TypeOK /\ l.job \in Jobs
  BY DEF IndInv, TypeOK, Key
<1>1. /\ job'[l.job].status = "succeeded" /\ artifacts' = artifacts \cup {l}
      /\ \A k \in Jobs \ {l.job} : Same(k)
      /\ DOMAIN outbox' = DOMAIN outbox
  BY <1>0, CommitTagEffect
<1>2. e.job = l.job /\ leases' = leases /\ outbox' = [outbox EXCEPT ![e] = Sent(outbox[e])]
  BY Zenon DEF CommitTag
<1>3. \A x \in DOMAIN outbox : x.job # l.job => outbox'[x] = outbox[x]
  BY <1>2
<1>4. Settles({l})
  BY <1>1, <1>2 DEF Settles, Same
<1>5. Wakeful
  BY <1>1, <1>3 DEF Wakeful, KeptEvents, Same, Open
<1>. QED BY <1>1, <1>4, <1>5 DEF Open

\* Operator actions and the callers that add jobs.
LEMMA OperatorMoves ==
    ASSUME IndInv, OperatorStep
    PROVE  Settles({}) /\ Wakeful
<1>0. TypeOK /\ EventsOfThePast /\ OutboxOK(outbox) /\ job \in JobFunction
  BY DEF IndInv, TypeOK, OutboxOK, JobFunction
<1>1. CASE CancelRun
  BY <1>0, <1>1, CancelEffect DEF Settles, Wakeful, KeptEvents, CancelRun, Open
<1>2. CASE RetryRun
  <2>. DEFINE added == {Event(x, "manual", run.revision) : x \in ToRetry}
  <2>1. outbox' = WithEvents(outbox, added, 0) /\ leases' = leases
    BY <1>2, Zenon DEF RetryRun
  <2>2. /\ \A k \in Jobs : /\ job'[k].token = job[k].token
                           /\ IF job[k].status = "failed" THEN job'[k].status = "pending"
                              ELSE job'[k] = job[k]
        /\ artifacts' = artifacts
        /\ \A e \in DOMAIN outbox' \ DOMAIN outbox : e.cause = "manual"
    BY <1>0, <1>2, RetryEffect
  <2>3. ASSUME NEW k \in Jobs, job[k].status = "failed"
        PROVE  /\ Event(k, "manual", run.revision) \in added
               /\ Event(k, "manual", run.revision).job = k
               /\ Event(k, "manual", run.revision) \notin DOMAIN outbox
    <3>. DEFINE i == Event(k, "manual", run.revision)
    <3>1. i.job = k /\ i.cause = "manual" /\ i.n = run.revision /\ run.revision \in Nat
      BY <1>0 DEF Event, TypeOK, RunRecord
    <3>2. i \in added
      BY <2>3 DEF ToRetry
    <3>. HIDE DEF i
    <3>3. i \notin DOMAIN outbox
      BY <1>0, <3>1 DEF EventsOfThePast
    <3>. QED BY <3>1, <3>2, <3>3 DEF i
  <2>. HIDE DEF added
  <2>4. /\ DOMAIN outbox' = DOMAIN outbox \cup added
        /\ \A e \in DOMAIN outbox : outbox'[e] = outbox[e]
        /\ \A e \in added \ DOMAIN outbox : outbox'[e].status = "pending"
    BY <2>1 DEF WithEvents, Pending
  <2>5. \A k \in Jobs : job[k].status = "failed" => NewEvent(k)
    BY <2>3, <2>4 DEF NewEvent
  <2>6. Settles({})
    BY <2>1, <2>2, <2>4 DEF Settles
  <2>. QED BY <2>2, <2>4, <2>5, <2>6 DEF Wakeful, KeptEvents
<1>3. ASSUME NEW j \in Jobs, EnqueueBatch(j) \/ AuthorizeRecovery(j) \/ AuthorizeReprocess(j)
      PROVE  Settles({}) /\ Wakeful
  <2>1. /\ job' = EnqueuedJob(job, j) /\ outbox' = EnqueuedEvent(outbox, job, j)
        /\ leases' = leases /\ artifacts' = artifacts
    BY <1>3 DEF EnqueueBatch, AuthorizeRecovery, AuthorizeReprocess, Authorize
  <2>2. /\ DOMAIN outbox \subseteq DOMAIN outbox'
        /\ \A e \in DOMAIN outbox : outbox'[e] = outbox[e]
        /\ job[j].status = "absent" => NewEvent(j)
        /\ \A e \in DOMAIN outbox' \ DOMAIN outbox : e.cause = "initial"
    BY <1>0, <2>1, EnqueueWakes
  <2>3. \A k \in Jobs : \/ job'[k] = job[k]
                        \/ k = j /\ job[k].status = "absent" /\ job'[k].status = "pending"
    BY <1>0, <2>1, EnqueuedFacts
  <2>4. Settles({})
    BY <2>1, <2>2, <2>3 DEF Settles
  <2>. QED BY <2>2, <2>3, <2>4 DEF Wakeful, KeptEvents
<1>. QED BY <1>1, <1>2, <1>3 DEF OperatorStep

\* heartbeat, _publish_claim and the clock
LEMMA OtherMoves ==
    ASSUME IndInv,
           \/ \E l \in leases : Heartbeat(l) \/ PublishClaim(l)
           \/ Tick
           \/ UNCHANGED vars
    PROVE  Settles({}) /\ Wakeful
<1>0. TypeOK
  BY DEF IndInv
<1>1. ASSUME NEW l \in leases, Heartbeat(l) PROVE Settles({}) /\ Wakeful
  BY <1>0, <1>1, HeartbeatEffect, QuietMoves DEF Heartbeat
<1>2. ASSUME NEW l \in leases, PublishClaim(l) PROVE Settles({}) /\ Wakeful
  BY <1>0, <1>2, QuietMoves DEF PublishClaim, Same
<1>3. CASE Tick
  <2>1. \A e \in DOMAIN outbox : outbox'[e].status = outbox[e].status
    <3>1. \A e \in DOMAIN outbox : outbox[e] \in EventRecord
      BY <1>0 DEF TypeOK
    <3>. QED BY <1>3, <3>1 DEF Tick, EventRecord
  <2>2. DOMAIN outbox' = DOMAIN outbox /\ \A k \in Jobs : Same(k)
    BY <1>0, <1>3, QuietEffect
  <2>. QED BY <1>3, <2>1, <2>2, QuietMoves DEF Tick
<1>4. CASE UNCHANGED vars
  BY <1>4, QuietMoves DEF vars, Same
<1>. QED BY <1>1, <1>2, <1>3, <1>4

-----------------------------------------------------------------------------
(* Workers: the invariant *)

WorkerRecord == [pc : {"idle", "picked", "refused", "leased", "working", "returned", "ack"},
                 event : EventId \cup {NoEvent}, seen : Nat, token : Nat,
                 outcome : Outcomes \cup {"none"}]

LeaseOf(r) == [job |-> r.event.job, token |-> r.token]

\* A worker handles an event that was inserted.
EventsKnown == \A w \in Workers : wk[w].pc # "idle" => wk[w].event \in DOMAIN outbox

\* A worker whose operation has returned has recorded its usage.
ReturnedAccounted == \A w \in Workers : wk[w].pc = "returned" => LeaseOf(wk[w]) \in usage

\* An open job has an event that nobody is about to acknowledge.
Wakes ==
    \A j \in Jobs : job[j].status \in Open =>
        \E e \in DOMAIN outbox :
            /\ e.job = j /\ outbox[e].status = "pending"
            /\ \A w \in Workers : wk[w].pc = "ack" => wk[w].event # e

WorkersInv ==
    /\ IndInv
    /\ WorkersTypeOK
    /\ EventsKnown
    /\ ReturnedAccounted
    /\ UsageBeforeOutcome
    /\ Wakes

\* What is asked of the record r a worker gets in a step.
Arrives(r) ==
    /\ r.pc # "idle" => r.event \in DOMAIN outbox
    /\ r.pc \in {"leased", "working", "returned"} => LeaseOf(r) \in leases'
    /\ r.pc = "returned" => LeaseOf(r) \in usage'

\* A worker that goes to acknowledge its event leaves a job that is settled or has another one.
Parts(r) == r.pc = "ack" => job'[r.event.job].status \notin Open \/ NewEvent(r.event.job)

\* The accounts after a step that settles the attempts in S.
LEMMA AccountsStep ==
    ASSUME WorkersInv, NEW S, S \subseteq usage', Settles(S),
           usage \subseteq usage', usage' \subseteq leases',
           wk' \in [Workers -> WorkerRecord],
           \A x \in Workers : wk'[x] = wk[x] \/ Arrives(wk'[x])
    PROVE  WorkersTypeOK' /\ EventsKnown' /\ ReturnedAccounted' /\ UsageBeforeOutcome'
<1>1. /\ \A x \in Workers : wk'[x].pc # "idle" => wk'[x].event \in DOMAIN outbox'
      /\ \A x \in Workers : wk'[x].pc \in {"leased", "working", "returned"} =>
            LeaseOf(wk'[x]) \in leases'
      /\ \A x \in Workers : wk'[x].pc = "returned" => LeaseOf(wk'[x]) \in usage'
  <2>. SUFFICES ASSUME NEW x \in Workers
                PROVE  /\ wk'[x].pc # "idle" => wk'[x].event \in DOMAIN outbox'
                       /\ wk'[x].pc \in {"leased", "working", "returned"} =>
                             LeaseOf(wk'[x]) \in leases'
                       /\ wk'[x].pc = "returned" => LeaseOf(wk'[x]) \in usage'
    OBVIOUS
  <2>1. CASE Arrives(wk'[x])
    BY <2>1 DEF Arrives, Settles
  <2>2. CASE wk'[x] = wk[x]
    BY <2>2 DEF WorkersInv, WorkersTypeOK, EventsKnown, ReturnedAccounted, Lease, LeaseOf, Settles
  <2>. QED BY <2>1, <2>2
<1>2. WorkersTypeOK'
  BY <1>1 DEF WorkersTypeOK, WorkerRecord, Lease, LeaseOf
<1>3. EventsKnown' /\ ReturnedAccounted'
  BY <1>1 DEF EventsKnown, ReturnedAccounted, LeaseOf
<1>4. UsageBeforeOutcome'
  <2>1. artifacts' \subseteq usage'
    BY DEF Settles, WorkersInv, UsageBeforeOutcome
  <2>2. \A e \in DOMAIN outbox' : e.cause = "retry" => [job |-> e.job, token |-> e.n] \in usage'
    BY DEF Settles, WorkersInv, UsageBeforeOutcome
  <2>3. \A j \in Jobs : job'[j].status = "failed" => [job |-> j, token |-> job'[j].token] \in usage'
    BY DEF Settles, WorkersInv, UsageBeforeOutcome
  <2>. QED BY <2>1, <2>2, <2>3 DEF UsageBeforeOutcome
<1>. QED BY <1>2, <1>3, <1>4

\* The wake-ups after a step that marks no event.
LEMMA WakesStep ==
    ASSUME WorkersInv, Wakeful, DOMAIN outbox \subseteq DOMAIN outbox',
           \A x \in Workers : wk'[x] = wk[x] \/ (Arrives(wk'[x]) /\ Parts(wk'[x]))
    PROVE  Wakes'
<1>. SUFFICES ASSUME NEW k \in Jobs, job'[k].status \in Open
              PROVE  \E e \in DOMAIN outbox' :
                        /\ e.job = k /\ outbox'[e].status = "pending"
                        /\ \A w \in Workers : wk'[w].pc = "ack" => wk'[w].event # e
  BY DEF Wakes
<1>1. \A x \in Workers : wk'[x].pc = "ack" => wk'[x].event \in DOMAIN outbox
  BY DEF WorkersInv, EventsKnown, Arrives
<1>2. CASE NewEvent(k)
  BY <1>1, <1>2 DEF NewEvent
<1>3. CASE ~NewEvent(k)
  <2>1. KeptEvents(k)
    BY <1>3 DEF Wakeful
  <2>2. PICK e \in DOMAIN outbox : /\ e.job = k /\ outbox[e].status = "pending"
                                   /\ \A w \in Workers : wk[w].pc = "ack" => wk[w].event # e
    BY <2>1 DEF KeptEvents, WorkersInv, Wakes
  <2>3. \A w \in Workers : wk'[w].pc = "ack" => wk'[w].event # e
    BY <1>3, <2>2 DEF Parts
  <2>. QED BY <2>1, <2>2, <2>3 DEF KeptEvents
<1>. QED BY <1>2, <1>3

\* Both together.
LEMMA WorkersStep ==
    ASSUME WorkersInv, IndInv', NEW S, S \subseteq usage', Settles(S), Wakeful,
           usage \subseteq usage', usage' \subseteq leases',
           wk' \in [Workers -> WorkerRecord],
           \A x \in Workers : wk'[x] = wk[x] \/ (Arrives(wk'[x]) /\ Parts(wk'[x]))
    PROVE  WorkersInv'
<1>1. DOMAIN outbox \subseteq DOMAIN outbox'
  BY DEF Settles
<1>2. WorkersTypeOK' /\ EventsKnown' /\ ReturnedAccounted' /\ UsageBeforeOutcome'
  BY AccountsStep
<1>3. Wakes'
  BY <1>1, WakesStep
<1>. QED BY <1>2, <1>3 DEF WorkersInv

\* Records that the steps of a worker leave.
LEMMA WorkerRecords ==
    ASSUME WorkersInv, NEW w \in Workers
    PROVE  /\ wk \in [Workers -> WorkerRecord] /\ wk[w] \in WorkerRecord
           /\ Idle \in WorkerRecord /\ Idle.pc = "idle"
           /\ wk[w].pc # "idle" => wk[w].event \in DOMAIN outbox /\ wk[w].event.job \in Jobs
           /\ Lease(w) = LeaseOf(wk[w])
           /\ usage \subseteq leases
<1>1. wk \in [Workers -> WorkerRecord] /\ usage \subseteq leases
  BY DEF WorkersInv, WorkersTypeOK, WorkerRecord
<1>2. Idle \in WorkerRecord /\ Idle.pc = "idle"
  BY DEF Idle, WorkerRecord
<1>3. wk[w].pc # "idle" => wk[w].event \in DOMAIN outbox /\ wk[w].event.job \in Jobs
  BY DEF WorkersInv, EventsKnown, IndInv, TypeOK, EventId
<1>. QED BY <1>1, <1>2, <1>3 DEF Lease, LeaseOf

\* A worker that goes on with the same event and lease.
LEMMA GotoFacts ==
    ASSUME WorkersInv, NEW w \in Workers, NEW pc, Goto(w, pc),
           pc \in {"idle", "picked", "refused", "leased", "working", "returned", "ack"}
    PROVE  /\ wk' \in [Workers -> WorkerRecord]
           /\ wk'[w].pc = pc /\ wk'[w].event = wk[w].event /\ LeaseOf(wk'[w]) = LeaseOf(wk[w])
           /\ \A x \in Workers : x # w => wk'[x] = wk[x]
<1>1. wk \in [Workers -> WorkerRecord] /\ wk' = [wk EXCEPT ![w].pc = pc]
  BY WorkerRecords DEF Goto
<1>2. wk'[w] = [wk[w] EXCEPT !.pc = pc] /\ \A x \in Workers : x # w => wk'[x] = wk[x]
  BY <1>1
<1>3. /\ wk'[w] \in WorkerRecord /\ wk'[w].pc = pc /\ wk'[w].event = wk[w].event
      /\ wk'[w].token = wk[w].token
  BY <1>1, <1>2 DEF WorkerRecord
<1>4. wk' \in [Workers -> WorkerRecord]
  BY <1>1, <1>2, <1>3
<1>. QED BY <1>2, <1>3, <1>4 DEF LeaseOf

\* A worker that is done with its event.
LEMMA IdleFacts ==
    ASSUME WorkersInv, NEW w \in Workers, GoIdle(w)
    PROVE  /\ wk' \in [Workers -> WorkerRecord]
           /\ \A x \in Workers : wk'[x] = wk[x] \/ (Arrives(wk'[x]) /\ Parts(wk'[x]))
           /\ wk'[w].pc = "idle"
<1>1. wk \in [Workers -> WorkerRecord] /\ wk' = [wk EXCEPT ![w] = Idle]
      /\ Idle \in WorkerRecord /\ Idle.pc = "idle"
  BY WorkerRecords DEF GoIdle
<1>2. Arrives(Idle) /\ Parts(Idle)
  BY <1>1 DEF Arrives, Parts
<1>. QED BY <1>1, <1>2

\* A lease a worker holds was recorded by its claim.
LEMMA HeldLease ==
    ASSUME WorkersInv, NEW w \in Workers, wk[w].pc \in {"leased", "working", "returned"}
    PROVE  Lease(w) \in leases
BY DEF WorkersInv, WorkersTypeOK

\* Every step of a worker is one transaction of the store, or none.
LEMMA StoreStep == WorkersInv /\ [WNext]_wvars => [Next]_vars
<1>. SUFFICES ASSUME WorkersInv, [WNext]_wvars PROVE [Next]_vars
  OBVIOUS
<1>1. ASSUME NEW w \in Workers, Claim(w) PROVE Next
  BY <1>1, WorkerRecords DEF Claim, At, Next, WorkerStep
<1>2. ASSUME NEW w \in Workers, Renew(w) PROVE Next
  BY <1>2, HeldLease DEF Renew, At, Next, WorkerStep
<1>3. ASSUME NEW w \in Workers, PublishOne(w) PROVE Next
  BY <1>3, HeldLease DEF PublishOne, At, Next, WorkerStep
<1>4. ASSUME NEW w \in Workers, Commit(w) PROVE Next
  <2>1. Lease(w) \in leases
    BY <1>4, HeldLease DEF Commit, At
  <2>2. CASE CommitParse(Lease(w)) \/ CommitExtract(Lease(w))
    BY <2>1, <2>2 DEF Next, WorkerStep
  <2>3. CASE CommitTag(Lease(w), wk[w].event, wk[w].seen)
    <3>1. wk[w].event \in DOMAIN outbox /\ wk[w].seen = outbox[wk[w].event].attempts
      BY <2>3 DEF CommitTag, EventFence
    <3>. QED BY <2>1, <2>3, <3>1 DEF Next, WorkerStep
  <2>. QED BY <1>4, <2>2, <2>3 DEF Commit, CommitStep
<1>5. ASSUME NEW w \in Workers, Fail(w) PROVE Next
  <2>1. Lease(w) \in leases
    BY <1>5, HeldLease DEF Fail, At
  <2>2. PICK delay \in Delays : FailJob(Lease(w), wk[w].outcome = "transient", delay)
    BY <1>5 DEF Fail
  <2>3. (wk[w].outcome = "transient") \in BOOLEAN
    OBVIOUS
  <2>. QED BY <2>1, <2>2, <2>3 DEF Next, WorkerStep
<1>6. ASSUME NEW w \in Workers, Ack(w) PROVE Next \/ UNCHANGED vars
  <2>1. CASE EventFence(wk[w].event, wk[w].seen)
    <3>1. PICK delay \in Delays : MarkOutbox(wk[w].event, TRUE, wk[w].seen, delay)
      BY <1>6, <2>1 DEF Ack
    <3>2. wk[w].event \in DOMAIN outbox /\ wk[w].event.job \in Jobs
      BY <1>6, <2>1, WorkerRecords DEF EventFence, Ack, At
    <3>3. wk[w].seen \in Nat /\ wk[w].seen < MaxMarks[wk[w].event.job]
      BY <3>1, WorkerRecords DEF MarkOutbox, WorkerRecord
    <3>4. wk[w].seen \in 0 .. MaxMarks[wk[w].event.job]
      BY <3>2, <3>3, BoundsAssumption
    <3>. QED BY <3>1, <3>2, <3>4 DEF Next, RelayStep
  <2>2. CASE ~EventFence(wk[w].event, wk[w].seen)
    BY <1>6, <2>2 DEF Ack
  <2>. QED BY <2>1, <2>2
<1>7. ASSUME NEW w \in Workers,
             \/ \E e \in DOMAIN outbox : Pick(w, e)
             \/ Refuse(w) \/ DeliveryStatus(w) \/ Start(w)
             \/ \E outcome \in Outcomes : Finish(w, outcome)
             \/ Discard(w) \/ Crash(w)
      PROVE  UNCHANGED vars
  BY <1>7 DEF Pick, Refuse, DeliveryStatus, Start, Finish, Discard, Crash
<1>8. CASE Operator \/ Time
  BY <1>8 DEF Operator, Time, Next
<1>9. CASE UNCHANGED wvars
  BY <1>9 DEF wvars, vars
<1>. QED BY <1>1, <1>2, <1>3, <1>4, <1>5, <1>6, <1>7, <1>8, <1>9 DEF WNext, Deliver

\* The store's own invariant beside the workers.
LEMMA StoreInvStep == WorkersInv /\ [WNext]_wvars => IndInv'
<1>1. IndInv /\ [Next]_vars => IndInv'
  <2>1. IndInv /\ [Next]_vars => TypeOK'
    BY TypeStep DEF IndInv
  <2>. QED BY <2>1, CheckpointStep, CancelledStep, EventsStep, TaggingStep DEF IndInv
<1>. QED BY <1>1, StoreStep DEF WorkersInv

\* Steps outside the store: nothing is settled.
LEMMA LocalStep ==
    ASSUME WorkersInv, IndInv', UNCHANGED vars, usage \subseteq usage', usage' \subseteq leases,
           wk' \in [Workers -> WorkerRecord],
           \A x \in Workers : wk'[x] = wk[x] \/ (Arrives(wk'[x]) /\ Parts(wk'[x]))
    PROVE  WorkersInv'
<1>1. Settles({}) /\ Wakeful
  BY OtherMoves DEF WorkersInv
<1>2. usage' \subseteq leases'
  BY DEF vars
<1>. QED BY <1>1, <1>2, WorkersStep

\* Taking an event keeps the invariant: it touches one worker and no table.
LEMMA PickKeeps ==
    ASSUME WorkersInv, IndInv', NEW w \in Workers, NEW e \in DOMAIN outbox, Pick(w, e)
    PROVE  WorkersInv'
<1>. DEFINE r == [Idle EXCEPT !.pc = "picked", !.event = e, !.seen = outbox[e].attempts]
<1>1. e \in EventId /\ outbox[e].attempts \in Nat
  BY DEF WorkersInv, IndInv, TypeOK, EventRecord
<1>2. wk \in [Workers -> WorkerRecord] /\ Idle \in WorkerRecord /\ usage \subseteq leases
  BY WorkerRecords
<1>3. r \in WorkerRecord /\ r.pc = "picked" /\ r.event = e
  BY <1>1, <1>2 DEF WorkerRecord
<1>4. wk' = [wk EXCEPT ![w] = r] /\ UNCHANGED vars /\ usage' = usage
  BY DEF Pick
<1>. HIDE DEF r
<1>5. Arrives(r) /\ Parts(r)
  BY <1>3 DEF Arrives, Parts
<1>6. /\ wk' \in [Workers -> WorkerRecord]
      /\ \A x \in Workers : wk'[x] = wk[x] \/ (Arrives(wk'[x]) /\ Parts(wk'[x]))
  BY <1>2, <1>3, <1>4, <1>5
<1>. QED BY <1>2, <1>4, <1>6, LocalStep

\* A claim keeps the invariant: the worker has the lease it was given.
LEMMA ClaimKeeps ==
    ASSUME WorkersInv, IndInv', NEW w \in Workers, Claim(w)
    PROVE  WorkersInv'
<1>. DEFINE j == wk[w].event.job
            t == job[j].token + 1
<1>0. /\ wk \in [Workers -> WorkerRecord] /\ wk[w] \in WorkerRecord /\ usage \subseteq leases
      /\ j \in Jobs /\ wk[w].event \in DOMAIN outbox
  BY WorkerRecords DEF Claim, At
<1>1. ClaimJob(j) /\ usage' = usage /\ wk' = [wk EXCEPT ![w].pc = "leased", ![w].token = t]
  BY DEF Claim
<1>2. t \in Nat
  BY <1>0 DEF WorkersInv, IndInv, TypeOK, JobRecord
<1>3. Settles({}) /\ Wakeful /\ [job |-> j, token |-> t] \in leases'
  BY <1>0, <1>1, ClaimMoves DEF WorkersInv
<1>. HIDE DEF t
<1>4. /\ wk'[w].pc = "leased" /\ wk'[w].event = wk[w].event /\ wk'[w].token = t
      /\ wk'[w] \in WorkerRecord
      /\ \A x \in Workers : x # w => wk'[x] = wk[x]
  BY <1>0, <1>1, <1>2 DEF WorkerRecord
<1>5. wk' \in [Workers -> WorkerRecord]
  BY <1>0, <1>1, <1>4
<1>6. Arrives(wk'[w]) /\ Parts(wk'[w])
  BY <1>0, <1>3, <1>4 DEF Arrives, Parts, LeaseOf
<1>7. usage' \subseteq leases'
  BY <1>0, <1>1, <1>3 DEF Settles
<1>. QED BY <1>1, <1>3, <1>4, <1>5, <1>6, <1>7, WorkersStep

\* delivery_status: an event is acknowledged as ignored only for a job that is not open.
LEMMA DeliveryKeeps ==
    ASSUME WorkersInv, IndInv', NEW w \in Workers,
           Refuse(w) \/ DeliveryStatus(w) \/ Start(w) \/ Discard(w) \/ Crash(w)
    PROVE  WorkersInv'
<1>0. wk[w].pc # "idle" /\ UNCHANGED vars /\ usage' = usage
  BY DEF Refuse, DeliveryStatus, Start, Discard, Crash, At
<1>1. /\ usage \subseteq leases /\ wk[w].event \in DOMAIN outbox
      /\ Lease(w) = LeaseOf(wk[w]) /\ job' = job /\ leases' = leases
  BY <1>0, WorkerRecords DEF vars
<1>2. CASE GoIdle(w)
  BY <1>0, <1>1, <1>2, IdleFacts, LocalStep
<1>3. ASSUME NEW pc, Goto(w, pc),
             \/ pc = "refused"
             \/ pc = "working" /\ wk[w].pc = "leased"
             \/ pc = "ack" /\ job[wk[w].event.job].status \notin Open
      PROVE  WorkersInv'
  <2>1. /\ wk' \in [Workers -> WorkerRecord]
        /\ wk'[w].pc = pc /\ wk'[w].event = wk[w].event /\ LeaseOf(wk'[w]) = LeaseOf(wk[w])
        /\ \A x \in Workers : x # w => wk'[x] = wk[x]
    BY <1>3, GotoFacts
  <2>2. pc = "working" => LeaseOf(wk[w]) \in leases
    BY <1>1, <1>3, HeldLease
  <2>3. Arrives(wk'[w]) /\ Parts(wk'[w])
    BY <1>1, <1>3, <2>1, <2>2 DEF Arrives, Parts
  <2>. QED BY <1>0, <1>1, <2>1, <2>3, LocalStep
<1>. QED BY <1>2, <1>3 DEF Refuse, DeliveryStatus, Start, Discard, Crash, At

\* record_usage, before anything is committed or failed.
LEMMA FinishKeeps ==
    ASSUME WorkersInv, IndInv', NEW w \in Workers, NEW outcome \in Outcomes, Finish(w, outcome)
    PROVE  WorkersInv'
<1>0. /\ wk \in [Workers -> WorkerRecord] /\ wk[w] \in WorkerRecord /\ usage \subseteq leases
      /\ wk[w].event \in DOMAIN outbox /\ Lease(w) = LeaseOf(wk[w]) /\ Lease(w) \in leases
  BY WorkerRecords, HeldLease DEF Finish, At
<1>1. /\ usage' = usage \cup {Lease(w)} /\ UNCHANGED vars
      /\ wk' = [wk EXCEPT ![w].pc = "returned", ![w].outcome = outcome]
  BY DEF Finish
<1>2. /\ wk'[w].pc = "returned" /\ wk'[w].event = wk[w].event /\ wk'[w].token = wk[w].token
      /\ wk'[w] \in WorkerRecord
      /\ \A x \in Workers : x # w => wk'[x] = wk[x]
  BY <1>0, <1>1 DEF WorkerRecord
<1>3. wk' \in [Workers -> WorkerRecord]
  BY <1>0, <1>1, <1>2
<1>4. LeaseOf(wk'[w]) = Lease(w) /\ leases' = leases
  BY <1>0, <1>1, <1>2 DEF LeaseOf, vars
<1>5. Arrives(wk'[w]) /\ Parts(wk'[w])
  BY <1>0, <1>1, <1>2, <1>4 DEF Arrives, Parts
<1>6. usage \subseteq usage' /\ usage' \subseteq leases
  BY <1>0, <1>1
<1>. QED BY <1>1, <1>2, <1>3, <1>5, <1>6, LocalStep

\* commit_job or fail_job of a lease that has been accounted for.
LEMMA OutcomeKeeps ==
    ASSUME WorkersInv, IndInv', NEW w \in Workers, Commit(w) \/ Fail(w)
    PROVE  WorkersInv'
<1>. DEFINE l == Lease(w)
<1>0. /\ wk[w].pc = "returned" /\ usage' = usage
      /\ usage \subseteq leases /\ wk[w].event \in DOMAIN outbox /\ l = LeaseOf(wk[w])
      /\ l \in leases /\ l.job = wk[w].event.job
  BY WorkerRecords, HeldLease DEF Commit, Fail, At, LeaseOf
<1>1. l \in usage
  BY <1>0 DEF WorkersInv, ReturnedAccounted
<1>2. ASSUME Settles({l}), Wakeful, GoIdle(w) PROVE WorkersInv'
  <2>1. usage' \subseteq leases' /\ {l} \subseteq usage' /\ usage \subseteq usage'
    BY <1>0, <1>1, <1>2 DEF Settles
  <2>. QED BY <1>2, <2>1, IdleFacts, WorkersStep
<1>3. ASSUME Settles({l}), Wakeful, Goto(w, "ack"),
             job'[l.job].status \notin Open \/ NewEvent(l.job)
      PROVE  WorkersInv'
  <2>1. usage' \subseteq leases' /\ {l} \subseteq usage' /\ usage \subseteq usage'
    BY <1>0, <1>1, <1>3 DEF Settles
  <2>2. /\ wk' \in [Workers -> WorkerRecord]
        /\ wk'[w].pc = "ack" /\ wk'[w].event = wk[w].event
        /\ \A x \in Workers : x # w => wk'[x] = wk[x]
    BY <1>3, GotoFacts
  <2>3. Arrives(wk'[w]) /\ Parts(wk'[w])
    BY <1>0, <1>3, <2>2 DEF Arrives, Parts
  <2>. QED BY <1>3, <2>1, <2>2, <2>3, WorkersStep
<1>. HIDE DEF l
<1>4. CASE Commit(w)
  <2>1. CASE CommitParse(l) /\ Goto(w, "ack")
    BY <1>0, <1>3, <2>1, CommitParseMoves DEF WorkersInv
  <2>2. CASE CommitExtract(l) /\ Goto(w, "ack")
    BY <1>0, <1>3, <2>2, CommitExtractMoves DEF WorkersInv
  <2>3. CASE CommitTag(l, wk[w].event, wk[w].seen) /\ GoIdle(w)
    <3>1. wk[w].seen = outbox[wk[w].event].attempts
      BY <2>3 DEF CommitTag, EventFence
    <3>. QED BY <1>0, <1>2, <2>3, <3>1, CommitTagMoves DEF WorkersInv
  <2>. QED BY <1>4, <2>1, <2>2, <2>3 DEF Commit, CommitStep, l
<1>5. CASE Fail(w)
  <2>1. PICK delay \in Delays : FailJob(l, wk[w].outcome = "transient", delay)
    BY <1>5 DEF Fail, l
  <2>2. (wk[w].outcome = "transient") \in BOOLEAN
    OBVIOUS
  <2>3. Settles({l}) /\ Wakeful /\ (job'[l.job].status \notin Open \/ NewEvent(l.job))
    BY <1>0, <2>1, <2>2, FailMoves DEF WorkersInv
  <2>. QED BY <1>3, <1>5, <2>3 DEF Fail
<1>. QED BY <1>4, <1>5

\* mark_outbox: the event that is acknowledged is not the one that will wake its job.
LEMMA AckKeeps ==
    ASSUME WorkersInv, IndInv', NEW w \in Workers, Ack(w)
    PROVE  WorkersInv'
<1>. DEFINE e == wk[w].event
<1>0. GoIdle(w) /\ usage' = usage /\ wk[w].pc = "ack" /\ usage \subseteq leases /\ e \in DOMAIN outbox
  BY WorkerRecords DEF Ack, At
<1>1. CASE UNCHANGED vars
  BY <1>0, <1>1, IdleFacts, LocalStep
<1>2. ASSUME NEW delay \in Delays, MarkOutbox(e, TRUE, wk[w].seen, delay) PROVE WorkersInv'
  <2>1. /\ UNCHANGED <<run, job, leases, artifacts, plan, basis, actions>>
        /\ DOMAIN outbox' = DOMAIN outbox
        /\ \A x \in DOMAIN outbox : x # e => outbox'[x] = outbox[x]
    BY <1>2 DEF MarkOutbox
  <2>2. Settles({})
    BY <2>1 DEF Settles
  <2>3. usage' \subseteq leases' /\ {} \subseteq usage' /\ usage \subseteq usage'
    BY <1>0, <2>1
  <2>4. /\ wk' \in [Workers -> WorkerRecord]
        /\ \A x \in Workers : wk'[x] = wk[x] \/ (Arrives(wk'[x]) /\ Parts(wk'[x]))
    BY <1>0, IdleFacts
  <2>5. WorkersTypeOK' /\ EventsKnown' /\ ReturnedAccounted' /\ UsageBeforeOutcome'
    BY <2>2, <2>3, <2>4, AccountsStep
  <2>6. Wakes'
    <3>. SUFFICES ASSUME NEW k \in Jobs, job'[k].status \in Open
                  PROVE  \E i \in DOMAIN outbox' :
                            /\ i.job = k /\ outbox'[i].status = "pending"
                            /\ \A x \in Workers : wk'[x].pc = "ack" => wk'[x].event # i
      BY DEF Wakes
    <3>1. PICK i \in DOMAIN outbox : /\ i.job = k /\ outbox[i].status = "pending"
                                     /\ \A x \in Workers : wk[x].pc = "ack" => wk[x].event # i
      BY <2>1 DEF WorkersInv, Wakes
    <3>2. i # e
      BY <1>0, <3>1
    <3>3. \A x \in Workers : wk'[x] = wk[x] \/ wk'[x].pc = "idle"
      BY <1>0, WorkerRecords DEF GoIdle
    <3>. QED BY <2>1, <3>1, <3>2, <3>3
  <2>. QED BY <2>5, <2>6 DEF WorkersInv
<1>. QED BY <1>1, <1>2 DEF Ack

\* The invariant of the workers is kept by every step.
LEMMA WorkersInvStep == WorkersInv /\ [WNext]_wvars => WorkersInv'
<1>. SUFFICES ASSUME WorkersInv, [WNext]_wvars PROVE WorkersInv'
  OBVIOUS
<1>0. IndInv' /\ wk \in [Workers -> WorkerRecord] /\ usage \subseteq leases
  BY StoreInvStep DEF WorkersInv, WorkersTypeOK, WorkerRecord
<1>1. ASSUME Settles({}), Wakeful, wk' = wk, usage' = usage PROVE WorkersInv'
  <2>1. usage' \subseteq leases' /\ {} \subseteq usage' /\ usage \subseteq usage'
    BY <1>0, <1>1 DEF Settles
  <2>. QED BY <1>0, <1>1, <2>1, WorkersStep
<1>2. ASSUME NEW w \in Workers, Renew(w) \/ PublishOne(w) PROVE WorkersInv'
  <2>1. Lease(w) \in leases /\ wk' = wk /\ usage' = usage
    BY <1>2, HeldLease DEF Renew, PublishOne, At
  <2>2. Settles({}) /\ Wakeful
    BY <1>2, <2>1, OtherMoves DEF Renew, PublishOne, WorkersInv
  <2>. QED BY <1>1, <2>1, <2>2
<1>3. CASE Operator
  BY <1>1, <1>3, OperatorMoves DEF Operator, WorkersInv
<1>4. CASE Time
  BY <1>1, <1>4, OtherMoves DEF Time, WorkersInv
<1>5. CASE UNCHANGED wvars
  <2>1. UNCHANGED vars /\ wk' = wk /\ usage' = usage
    BY <1>5 DEF wvars, vars
  <2>. QED BY <1>1, <2>1, OtherMoves DEF WorkersInv
<1>. QED BY <1>0, <1>2, <1>3, <1>4, <1>5, PickKeeps, ClaimKeeps, DeliveryKeeps, FinishKeeps,
             OutcomeKeeps, AckKeeps DEF WNext, Deliver

\* The invariant of consume_job and the runners beside the store holds in every reachable state.
THEOREM WorkersInductive == WSpec => []WorkersInv
<1>1. WInit => WorkersInv
  <2>. SUFFICES ASSUME WInit PROVE WorkersInv
    OBVIOUS
  <2>1. Init /\ IndInv
    BY StoreInvInit DEF WInit
  <2>2. Idle \in WorkerRecord /\ Idle.pc = "idle"
    BY DEF Idle, WorkerRecord
  <2>3. WorkersTypeOK /\ EventsKnown /\ ReturnedAccounted
    BY <2>2 DEF WInit, WorkersTypeOK, EventsKnown, ReturnedAccounted, WorkerRecord
  <2>4. UsageBeforeOutcome
    BY <2>1 DEF Init, UsageBeforeOutcome, Event, FreshJob, AbsentJob
  <2>5. Wakes
    <3>. SUFFICES ASSUME NEW k \in Jobs, job[k].status \in Open
                  PROVE  \E e \in DOMAIN outbox :
                            /\ e.job = k /\ outbox[e].status = "pending"
                            /\ \A w \in Workers : wk[w].pc = "ack" => wk[w].event # e
      BY DEF Wakes
    <3>1. k = FirstJob
      BY <2>1 DEF Init, AbsentJob, Open
    <3>. DEFINE i == Event(FirstJob, "initial", 0)
    <3>2. i \in DOMAIN outbox /\ i.job = FirstJob /\ outbox[i].status = "pending"
      BY <2>1 DEF Init, Event, Pending
    <3>3. \A w \in Workers : wk[w].pc # "ack"
      BY <2>2 DEF WInit
    <3>. HIDE DEF i
    <3>. QED BY <3>1, <3>2, <3>3
  <2>. QED BY <2>1, <2>3, <2>4, <2>5 DEF WorkersInv
<1>. QED BY <1>1, WorkersInvStep, PTL DEF WSpec

\* consume_job records usage first: no attempt is settled that was not accounted for.
THEOREM AttemptsAreAccounted == WSpec => []AttemptsAccounted
<1>1. WorkersInv => AttemptsAccounted
  BY DEF WorkersInv, AttemptsAccounted
<1>. QED BY <1>1, WorkersInductive, PTL

\* claim_job, fail_job, commit_job, delivery_status and mark_outbox together never leave a job
\* that can be claimed without an event that delivers it.
THEOREM WakeupsAreKept == WSpec => []NoLostWakeup
<1>1. WorkersInv => NoLostWakeup
  BY DEF WorkersInv, Wakes, NoLostWakeup
<1>. QED BY <1>1, WorkersInductive, PTL

\* Every behaviour of the workers is one of the store: what is proved of job_store.py holds
\* beside any number of workers that die between any two of its transactions.
THEOREM WorkersImplementStore == WSpec => StoreSpec
<1>1. WInit => Init
  BY DEF WInit
<1>. QED BY <1>1, StoreStep, WorkersInductive, PTL DEF WSpec, StoreSpec, Spec
=============================================================================
