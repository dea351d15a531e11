# TLA+ specifications of ESG ProofOps

ESG ProofOps takes a PDF report through page selection, parsing, claim extraction by a
language model, a source check, three-replica tagging, consensus and a rule engine, and
publishes graded claims that people review, rescore and export.  The stages themselves are
sequential Python and mostly I/O.  What is hard is around them: paid calls that must not be
made twice, workers that die in the middle, leases that run out while their holder still
works, people who cancel, delete, review or retry while that happens, and money that must
be accounted for whatever fails.  These modules specify that part, model-check it and prove
what matters most of it.

## Inventory

| part | source | state it keeps | operations | what is hard | what makes it correct |
|---|---|---|---|---|---|
| job store | `packages/proofops/adapters/local/job_store.py` | run record, jobs with lease and fencing token, outbox events, immutable lease, checkpoint, usage and action rows (SQLite) | create, enqueue, claim, heartbeat, commit, fail, record usage, cancel, retry, mark outbox | expired leases whose holder still runs, retries, cancellation against a running worker, event ids that must be unique | only the newest claim publishes; nothing runs after a cancellation; no wake-up is lost; retries are bounded |
| extraction continuation | `adapters/local/claim_store.py` (guard), `apps/worker/.../extract_runner.py` | `extract_job`, claim heads | `continue_extraction`, `guard_extract_continuation` | extraction is replaced while tag jobs exist | what is tagged belongs to the current extraction |
| tag recovery, reprocess | `apps/worker/.../tag_recovery.py`, `tag_reprocess.py`, `adapters/local/classification_reprocess.py` | plans pinned to a published tag job | authorize, load, verify publication | two callbacks for one published lineage | at most one of them is open |
| workers | `apps/worker/.../consumer.py`, `local_runner.py`, `extract_runner.py`, `tag_runner.py`, `relay.py` | in-memory lease, event and attempt count | one delivery: claim, operate with a keepalive thread, record usage, commit or fail, acknowledge | a process dies between two transactions; duplicates of an event | usage before outcome; every job settles |
| hosted control plane | `apps/api/src/proofops_api/hosted_store.py`, `hosted_analysis.py`, `scripts/hosted_control.py` | control database (runs with lease and fence, documents, result snapshots), ledger (spend envelopes, cost rows, event totals, tombstones), payload directories and their lock files | create, claim, renew, dispatch (reserve, send, settle), publish, fail, cancel, delete, purge, expire, archive, drain, reconcile, start-up | money reserved, sent, lost or settled late; restart with runs in flight; deletion against a running run | spend never exceeds the caps; no reservation is leaked or released twice; a lost call is never counted as free |
| spend guard, call ledger | `adapters/local/spend_guard.py`, `openai.py` | two SQLite files: charges per scope; calls with their transport attempts | guarded call: reserve, connect, send, ask again, settle or leave uncertain | a crash or a lost answer between two files; several attempts of one request | what the provider charged is covered by both; every scope keeps its cap |
| response cache | `adapters/local/model_response_cache.py` | pending and published responses by key | claim, reuse, publish, release | two threads with one key | one flight per key; only settled responses are reused |
| provider scheduler | `adapters/local/provider_scheduler.py`, `provider_concurrency.py` | role queues, slots, adaptive limit, circuit, one event file per outcome | queue, admit, reject, pace, throttle, observe, release, replay | priority against fairness, a slot lost on an exception, an outcome that cannot be written | bounded bypass, balanced slots, everyone is served or turned away |
| uploads | `application/uploads.py`, `uploads_security.py` | documents, uploads with tickets and validation jobs, versions, two directories | create, initiate, receive, validate, promote, accept, reject | two runners with two verdicts, order of acceptance, expiry in the middle | an accepted upload is whole, decided once, and the latest is the newest |
| retention and deletion | `application/retention.py`, `adapters/local/retention_store.py` | tombstones with manifests | request | an upload completed around the request | the manifest misses nothing |
| reviews | `application/reviews.py`, `adapters/local/review_store.py` | claim, review and decision heads with revisions | publish, look, resolve, reopen | decisions on old views, attestations that are carried over | no lost update, honest authors |
| rescores, rule packs | `application/rescores.py`, `rulepacks.py`, `adapters/local/rescore_store.py`, `rulepack_store.py` | artifacts, active pack | capture, commit, replay, activate | evaluation between two transactions | lineage, decided under the active pack |
| exports, audit chain | `adapters/local/export_store.py`, `application/exports.py`, `reporting.py`, `adapters/local/audit_store.py` | export state, snapshot, artifact; one audit chain per run | reserve, capture, freeze, complete, defer; append | several builders while the run changes | what is frozen is one moment; what is audited is everything, once |
| token budget | `application/budget.py`, `adapters/aws/usage.py` | tokens per attempt | reserve, dispatch, settle, release | as the spend guard | as the spend guard; not modelled yet |
| consensus and rules | `application/tagging/consensus.py`, `domain/rules/engine.py` | none (pure) | merge three tag runs, evaluate rules | ties, abstentions | not modelled |
| parsers, OCR, model adapters, evaluation, web | many | none of their own, or files | I/O | outside a model checker's reach | not modelled |

How the parts meet.  The API creates a run and its first job in one transaction of the
job store; workers and relays never call each other, they meet in the store's outbox and
in the leases.  The stage runners add their writes (claim heads, tag revisions, audit
entries, review heads) inside the job store's commit transaction through its publish hook.
A stage pays for a model call through the guard, which wraps the cache, which wraps the
call ledger, which asks the scheduler before each transport attempt; each of them keeps a
file of its own.  Reviews, rescores and exports meet in the revision heads and in the
mutation epoch of the run.  The hosted deployment replaces this pipeline by one process
with slots: a slot claims a run, prepares its files, starts a child process that analyses
under a lock on the document, and the child pays for provider calls only through the broker
of `hosted_store.py`, which books every call in the ledger before it is sent.

The hazards, each at its line and with the properties that would show it going wrong, are
listed under `hazards` in `PROJECT.json`.

## Plan

Done: the job store and its workers; the hosted control plane; one abstract ledger with
three implementations; the paid call, the scheduler, uploads with deletion requests, reviews
with rescores, and exports.  Every invariant, action property and refinement that a passing
run checks is also proved; only liveness is left to the model checker.

Left, in this order:

1. The token budget (`LocalSQLiteUsageStore`) as a fourth implementation of `Ledger`.
2. The consensus of three tag runs as an operator against the majority definition.

## Modules

| module | what it is |
|---|---|
| `JobStore` | one action per transaction of the job store |
| `JobWorkers` | extends `JobStore` with worker processes; implements it |
| `Sums` | the sum over a finite set, as the ledgers' SQL statements use it |
| `Ledger` | abstract: what every money ledger of the system promises |
| `HostedStore` | the hosted control plane, its slots, children, broker, users and operator; implements `Ledger` |
| `PaidCalls` | a guarded, cached, booked call of the local deployment; implements `Ledger` twice |
| `ProviderScheduler` | role queues, slots and circuit in front of the provider |
| `Uploads` | documents, uploads, versions and deletion requests |
| `Reviews` | published claims, reviews, rescores and rule packs |
| `Exports` | extends `Reviews` with the builders of an export |
| `JobStoreProofs` | theorems about `JobStore` and `JobWorkers` |
| `HostedStoreProofs`, `PaidCallsProofs`, `ProviderSchedulerProofs`, `UploadsProofs`, `LedgerProofs` | theorems about the module of that name |
| `ReviewsProofs` | theorems about `Reviews` and `Exports` |
| `SumsProofs` | lemmas about sums that the proofs about money and about the audit chain use |
| `MC...` | instances for TLC |

A definition named `...Mutant` is the definition it precedes with one plausible bug.  No
specification uses it; it is there so that every property can be shown to fail on a wrong
version of the code.

### JobStore

State.  `run` is the META record: status, revision, cancellation flag, `extract_job` and
`tag_job` (the jobs whose results are published) and `heads` (the extraction that the
published claims belong to).  `job[j]` is a job row: status, fencing token, retry count,
and the ticks left of its lease and of its back-off.  `outbox` maps the ids of the events
inserted so far to their state; an id is the job with the cause, as in `_event`.  `leases`
and `artifacts` are the immutable lease and checkpoint rows, `plan[j]` the lineage an
authorized recovery or reprocess is pinned to, `basis[j]` the extraction a tag job read
when it was claimed.

Actions.  `ClaimJob`, `Heartbeat`, `FailJob`, `CommitParse`, `CommitExtract`, `CommitTag`,
`CancelRun`, `RetryRun` and `MarkOutbox` are the methods of `job_store.py` with what the
stage runners do inside them: `CommitExtract` supersedes the tag jobs of an earlier
extraction and enqueues a new one, `CommitTag` acknowledges its event in the same
transaction and publishes the run.  `PublishClaim` writes one claim head during tagging.
`EnqueueBatch` is the enqueue of `run_batch`; that function checks
`guard_extract_continuation` in an earlier transaction, so the action does not repeat the
guard, which is enforced again by the claim and the commit.  `AuthorizeRecovery` and
`AuthorizeReprocess` are the two callbacks after publication.  `Tick` is time.

Abstractions.  Time is relative: a deadline is the number of ticks left.  An owner is a
fresh UUID for each delivery, so job and token stand for the lease.  What a stage computes
is not modelled; `PublishedStatus` chooses whether the tag commit leaves the run partial or
completed.  The environment is the most general one: whoever was ever given a lease may
present it again at any later time, so lost workers, duplicated messages and paused
processes need no action of their own.

### JobWorkers

`wk[w]` is one worker: program counter, the event it delivers with the attempt count it
saw, its fencing token and the outcome of its operation.  A delivery is `Pick`, `Claim` or
`Refuse`, `DeliveryStatus` (what a refused delivery reads before it decides whether to
acknowledge), `Start`, `Finish`, then `Commit`, `Discard` or `Fail`, then `Ack`, each a
transaction or a local step of `consume_job`, `run_once` and the relay.  `Renew` is the
keepalive thread.  `PublishOne` publishes a claim head while tagging.  `Crash` forgets a
worker between any two steps.  `usage` holds the attempts whose usage record is stored.

### HostedStore

`run[r]` is the row of the control database with fence and lease, `worker[r]` the slot
that executes it together with its child process, `spend[r]` the envelope and `cost[r][c]`
the call rows of the ledger, `flight[r][c]` how far the broker has come with a call,
`charged[r][c]` what the provider takes for it, `archived` the event total, `results`
the result snapshots, `doc[d]` the document's row and tombstone, `files` the payload
directories.  A slot thread goes through `Claim`, `PrepareStart`, `PrepareEnd`,
`AnalysisOpen` (the lock file is opened), `AnalysisLock` (it is locked), `AnalysisStart`,
`AnalysisEnd`, `PublishAnalysis`; `Abort` and `Handle` are its error paths; `Crash`
kills the process and leaves the child an orphan that keeps the lock until `OrphanEnds`.
A call is `Reserve`, `Transport`, then `Settle`, `NotSent` or `DispatchFails`.  Users and
operator are `Cancel`, `DeleteDocument`, `Drain`, `Reconcile`; the maintenance loop is
`Maintain`, `PurgeFiles`, `PurgeRows`; claim, maintenance and the read of the control state
(`ControlState`) expire leases first, as the code does.  `LoseControl` is the loss of the
control database, followed by the start-up in `HostedStore.__init__`, which suspends the
reservations that have no run.

Abstractions.  A lease is a Boolean that may become false at any time, and a renewal,
possible only while it is true, leaves it so.  The fence counter saturates at `MaxFence`;
this is sound because a run is claimed once, so two fences that matter are below the
bound.  Money is in whole units.  `Transport` assumes that the provider charges at most
the bound that was reserved; the code computes the bound from the request's token limits
and cannot enforce it either.

### Ledger

`held` is what the books count for an entry, `real` what the provider has charged for it,
`open` the entries that may still be charged, `total` the sum that the cap is compared
with.  `Hold` counts an entry in full before anything can be charged, `Charge` is the
provider, `Settle` lowers the entries of a set to amounts that cover their charges and
closes them: one maintenance step of the hosted service settles every expired run in one
transaction.  A closed entry is never opened again.

### PaidCalls

`charge[q]` is the row of the guard (`spend_guard.py`), `probe[q]` and `tries[q]` the call
row and the states of its transport attempts (`openai.py`), `cache[k]` the entry of the
response cache, `real[q]` what the provider has charged, `th[t]` a thread with its program
counter.  A call is `GuardReserve`, then `Claim`, `Reuse` or `ClaimRefused` at the cache,
`Reserve` in the call ledger, and transport: `ConnectAgain` after a refused connection,
`NotSent` when it is proven that nothing was sent, `PricesExpired`, `Send`, `Unsettled`
(no answer), `AskAgain` (an answer that fails its schema), `Settle`; then `Publish`,
`PublishRaises` or `Release` of the cache marker and `GuardSettle` in the `finally` of the
guard.  `Crash` ends a thread between any two of these.  Modelled with the transport,
scheduler and response policies on; prices are small numbers, and a response is valid or
not.

### ProviderScheduler

`queue` holds the tickets of all roles with the number of times each was passed, `active`
and `limit` count slots, `cooling` says that the clock is before `not_before`, `seen` is the
circuit in memory and `disk` the circuit that the event files would rebuild; `file` is what
a failed write leaves behind.  `Enqueue`, `Admit` and `Reject` are the loop under the
condition variable, `Pace`, `Throttle` and `Ends` the exchange, `Observe` and `ObserveFails`
the recording of its outcome, `Release` the `finally`, `Restart` the next process.  Time is
a flag that `ClockMoves` clears.

### Uploads

`doc`, `upload`, `version` are the three kinds of records, `quarantine` and `original` the
two directories, `tombstone[d]` the versions a deletion's manifest lists, `audit[d]` the
chain, `runner[r]` a request between two transactions.  An upload is `ReadDocument`,
`InitiateUpload`, `ReceiveContent`, `EnqueueValidation`, `StartValidation`,
`VerifyAndPromote` (outside a transaction), `Accept` or `Reject`.  `RequestDeletion` writes
the tombstone with its manifest; `Tick` is the clock against which a ticket expires;
`Crash` forgets a request.  What the verification looks at is a choice of verdict, so two
runners may disagree.

### Reviews

`status`, `lineage` (`tag_job` of the run: the tag job that committed last) and `epoch` (the
mutation epoch) are the run record, `tagJob[j]` the record of a tag job with the plan it was
authorized for, `actions` the number of operator actions.  `tags[c]` and `decs[c]` are the
append-only revisions of a claim, `head[c]` the current pair, `review[c]` the review head,
`counted` the number of decided claims on the run, `view[v]` what a reviewer saw when he
wrote his decision, `flight[f]` what a rescore captured, `artifacts` the stored rescores,
`audited` the length of the audit chain.

The tag stage commits more than once.  The first job and a recovery publish claims while
they run (`PublishClaim`; a recovery that is delivered again repeats it, `PublishAgain`)
and neither refreshes the counts; `CommitTags` does, makes the job the current lineage and
appends one audit event.  A reprocess publishes its claim inside its commit
(`CommitReprocess`), where it alone verifies that its lineage is still current.
`AuthorizeTags` enqueues recoveries and reprocesses of claims the current commit left
unpublished; `ClaimTags` and `FailTags` are lease and failure; `CancelRun` and `RetryRun`
the operator, with an audit event each.  Which lease of a tag job is the valid one is
`JobStore`'s subject: here only its holder acts, and it may be claimed again at any time.

`Look`, `Resolve` and `Stale` are a review, `RescoreCapture`, `RescoreCommit` and
`RescoreEnds` a rescore, `ActivateRulePack` an activation.  Two ghost fields of a tag record
the revision its author had seen and the revision that first supplied an attestation; no
guard reads them.

### Exports

`export` is the state row with its frozen snapshot and its artifact, `builder[b]` a request
that builds it: `LookFrozen`, `ReadEvidence` (one claim at a time, outside the capture),
`Capture`, `Freeze`, `FreezeAgain` or `FreezeRefused`, `Complete`, `Defer`; `BuilderLost`
ends it anywhere.  The run goes on through the actions of `Reviews`.

## Refinement

- `JobWorkers => JobStore` (`StoreSpec`): every step of a worker that touches the store is
  one transaction of the store, the rest stutters.  What is proved of `JobStore` therefore
  holds of the workers.
- `PaidCalls => Ledger`, twice (`ImplementsLedgers`): with the rows of the call ledger, and
  with the rows of the guard, as entries.  The guard's `open` are the charges that are
  reserved or uncertain; those of the call ledger are the rows without a receipt.
- `HostedStore => Ledger` (`HostedImplementsLedger`): entries are runs, `held` the spend
  envelope, `total` the open and settled envelopes with the archived total.  The money of an
  archived run stays in `total` as what was charged for it.

All of them are checked by TLC on the instances below and proved for every value of the
constants (`WorkersImplementStore`, `PaidLedgersImplement`, `SpendImplementsLedger`).
`LedgerSafe` then says once what all three promise: nothing that was charged is missing in
the books.

## Runs

All runs set `CHECK_DEADLOCK FALSE`: a run, an upload or a request that is finished has
nothing left to do, and the bounds end the rest.

| run | instance | distinct states | what it shows |
|---|---|---|---|
| `job_store` | parse, extract, tag, a continuation with its tag job, a recovery and a reprocess; five claims in all, two operator actions | 332,955 | only the newest claim publishes (`CheckpointFenced`), a cancelled run has no open job (`CancelledRunIsClosed`), no event id is inserted twice (`EventIdsFresh`), automatic retries stay within their limit (`RetryBudget`), what is tagged belongs to the current extraction (`TaggedFromCurrentExtraction`), settled jobs do not change (`SettledForGood`) |
| `job_store_race` | see Findings | | expected violation |
| `job_workers` | two workers, any lease expiry, one operator action | 1,004,464 | usage is recorded before the outcome (`AttemptsAccounted`), an open job always has an event or a lease that will wake someone (`NoLostWakeup`), every step is a `JobStore` step (`StoreSpec`) |
| `job_workers_live` | one worker that may die once and is restarted, transient failures, one operator action | 179,519 | `WorkSettles`: the job of the dead worker is taken over after its lease ran out, the run leaves the active states and every job settles |
| `hosted_shared` | two runs of one document, a paid call each, two days, every failure and every request but drain | 384,712 | no charge escapes the books (`MoneyAccounted`), no reservation loses its owner (`ReservationsSound`), the caps hold in every state, archived money included (`CapsHold`), a run is executed once (`EndedForGood`); slots and the document lock exclude and the bytes stay while they are analysed (`AnalysisUndisturbed`); a deleted document leaves nothing (`DeletedLeavesNothing`); `HostedImplementsLedger` |
| `hosted_queue` | two runs of two documents in one queue, one slot, expiring documents, dying workers, drain | 75,554 | under fairness every run ends, also the one that is queued behind a run whose document has a tombstone (`RunsEnd`), and a deletion completes (`DeletionCompletes`) |
| `paid_calls` | three requests, two with one cache key, two threads, one crash | 333,888 | every charge is in both books (`ChargesCovered`, `ImplementsLedgers`), scopes keep their caps (`ScopeCapsHold`), a response is asked for once (`SingleFlight`) and reused only when settled and valid (`ReusedResponseSettled`) |
| `provider_scheduler` | three threads, two roles, two slots, one restart | 278,400 | `BoundedBypass`, `SlotsBalance`, `CircuitForGood`, and under fairness `NobodyStarves` |
| `uploads` | two uploads of a document, two keys, two runners, three clock readings | 633,856 | `AcceptedIsWhole`, `LatestIsNewest`, `ManifestIsComplete`, `VerdictFinal` |
| `uploads_tombstone` | see Findings | | expected violation |
| `reviews` | two claims, a first tag job, a recovery and a reprocess, two reviewers, two rescores with two keys, three packs, six mutations | 964,273 | `NoUpdateLost`, `RescoresAccounted`, `AuthorsHonest`, `CountsMatchHeads`, `DecidedUnderActivePack` |
| `exports` | two builders against three tag jobs, operator actions, a review and a rescore, four mutations | 1,493,503 | what is frozen is the run at one moment and stays (`FrozenForGood`), what is ready is what was frozen (`ExportsSound`), the audit chain misses and repeats nothing (`AuditTellsAll`) |

Bounds. `job_store` has five claims, so that a job can have an old lease next to the
current one and the retry limit (`RetryLimit = 2`; the code's 3 only adds a round) is
crossed; two operator actions allow retry after failure and cancel after retry.
`LeaseSeconds = 1` lets a lease expire in one tick; the liveness run uses 2, so that a
keepalive can act in time, and 20 claims, more than it can use. In `hosted_shared` an
envelope is 1, the day's cap 1 and the event's 2, of which 0 or 1 is spent before: a
second run is admitted on another day, or after the first was settled to nothing, and
refused otherwise, and a call that asks for 2 is refused by the envelope, so both sides of
every comparison occur. Several calls that share one envelope are left to the proofs. In
`hosted_queue` the documents get their tombstones by expiry, which leaves their runs
queued or running, while a deletion by a user cancels them; there are no calls, because no
step of a slot that fairness speaks of waits for one (`Abort` is always possible). In
`paid_calls` the event's cap admits two and a half reservations and the run's one and a
half; one crash reaches every pair of points at which thread and tables disagree.
`MaxBypass = 1` with two slots lets the bound be reached and the limit be halved to one.
`Ttl = 2` of three clock readings lets a ticket expire before, during and after a
verification. Six mutations of the run are enough for the first job to be claimed, to
publish and to commit and for a recovery to be claimed, to publish and to commit after it,
or for publication, a review, a rescore and a second review; three packs let a second
activation retire the pack a rescore has captured. Every claim is published with a
decision, and reviews hold or decide it; claims published without one are left to the
proofs. `exports`, where the same steps meet two builders, has four mutations, enough for
a commit and a second commit by a reprocess. `Attempts = 2` of the code's four lets the
capture fail once and for good. Symmetry is used in runs without liveness only, over
threads, runs, claims and requests that the code treats alike.

Fairness.  `JobWorkers`: weak fairness of a worker's next step (runners poll in a loop and
every provider call has a timeout), of the keepalive thread and of time.  `Punctual` says
that time does not run past a lease whose keepalive is alive, which is what its interval,
a fraction of the lease, is for; the safety run does not assume it.  `HostedStore`: weak
fairness of the slot thread's next step (preparation, lock and analysis have time limits),
of the end of an orphan (hard deadline in its environment), of the expiry of a lease that
nobody renews, and of tick and maintenance, which run in a loop.  `ProviderScheduler`: weak
fairness of each waiting thread's admission or rejection (it looks again every 50 ms, and
the queue makes it next in the end, so strong fairness is not needed), of the next step of
an admitted one (HTTP exchanges have time limits) and of the clock (cool-downs are bounded).
Nothing is assumed of users, operators, arrivals or the provider's answers.  `RunsEnd`
assumes that the service is not drained for ever, because a drained service claims nothing.

Limits of the liveness run of the workers.  `WorkSettles` is checked with
`PublishedStatus = "completed"` and without continuation; see the first two items under
Observations.

## Proofs

| module | theorem | statement |
|---|---|---|
| `JobStoreProofs` | `TypeCorrect`, `Inductive` | `Spec => []TypeOK`, `Spec => []IndInv` |
| | `Fencing`, `Cancellation`, `FreshEvents`, `CurrentTagging` | `CheckpointFenced`, `CancelledRunIsClosed`, `EventIdsFresh`, `TaggedFromCurrentExtraction` |
| | `Settled`, `RetriesAreBounded` | `SettledForGood`, `RetryBudget` |
| | `WorkersInductive` | `WSpec => []WorkersInv` |
| | `AttemptsAreAccounted`, `WakeupsAreKept`, `WorkersImplementStore` | `AttemptsAccounted`, `NoLostWakeup`, `StoreSpec` |
| `LedgerProofs` | `LedgerSafe` | `Spec => []LedgerInv`: every charge is covered by what is held, the cap is kept |
| `HostedStoreProofs` | `HostedInductive` | `Spec => []HostedInv` |
| | `CapsAreKept`, `MoneyIsAccounted`, `ReservationsHaveOwners` | `CapsHold`, `MoneyAccounted`, `ReservationsSound` |
| | `NoRedelivery`, `AnalysesAreUndisturbed`, `DeletionIsComplete` | `EndedForGood`, `AnalysisUndisturbed`, `DeletedLeavesNothing` |
| | `SpendImplementsLedger` | `HostedImplementsLedger` |
| `PaidCallsProofs` | `PaidInductive`, `PaidTypeCorrect` | `Spec => []PaidInv`, `[]PaidTypeOK` |
| | `NoChargeEscapes`, `OneFlight`, `ReuseIsSound`, `ScopeCaps` | `ChargesCovered`, `SingleFlight`, `ReusedResponseSettled`, `ScopeCapsHold` |
| | `PaidLedgersImplement` | `ImplementsLedgers` |
| `ProviderSchedulerProofs` | `SchedulerInductive` | `Spec => []SchedulerInv` |
| | `BypassIsBounded`, `SlotsAreBalanced`, `CircuitStaysOpen` | `BoundedBypass`, `SlotsBalance`, `CircuitForGood` |
| `UploadsProofs` | `UploadsInductive` | `Spec => []UploadsInv` |
| | `AcceptedWhole`, `LatestNewest`, `ManifestComplete`, `KeysAreExact`, `VerdictsAreFinal` | `AcceptedIsWhole`, `LatestIsNewest`, `ManifestIsComplete`, `OneUploadPerKey`, `VerdictFinal` |
| `ReviewsProofs` | `ReviewsInductive`, `ReviewsTypeCorrect` | `ReviewSpec => []ReviewsInv`, `[]ReviewsTypeOK` |
| | `UpdatesAreKept`, `RescoresTraceable`, `AuthorsStayHonest`, `CountsStayTrue`, `DecisionsFollowPacks` | `NoUpdateLost`, `RescoresAccounted`, `AuthorsHonest`, `CountsMatchHeads`, `DecidedUnderActivePack` |
| | `ExportsInductive` | `Spec => []ExportsInv` |
| | `ExportsAreSound`, `ExportsAreFrozen`, `AuditIsComplete` | `ExportsSound`, `FrozenForGood`, `AuditTellsAll` |

All of them hold for every value of the constants that satisfies the `ASSUME` of the module
(`LedgerSafe` needs only that the cap is a natural number and the entries are finite): any
sets of jobs, workers, runs, threads, requests, uploads, claims, builders and packs.  Where a
property counts or adds up, the sets that are counted are assumed to be finite.
`HostedAssumption` says that what the event spent before the first modelled run (`Earlier`)
is within its cap, which is what earlier admissions have left behind; with more than that
`CapsHold` would be false before the first step.

Why the invariants had to be strengthened:

- `IndInv` (job store).  That no transaction inserts an existing event id cannot be seen
  from one step: `EventsOfThePast` says that a retry event carries a token its job has
  already left behind, a manual event a revision the run has left behind, and that a job
  which is not enqueued has no events.  That tagging is current speaks of leases recorded
  at any time; `LiveTagsCurrent` says it of the job rows, where an extraction commit can be
  seen to preserve it.
- `BudgetInv` (job store).  `RetryBudget` compares two counts of events and no single failure
  shows that they stay apart.  `BudgetInv` ties them to the retry count of the job row, which
  counts claims and is reset by an operator: the retry events are at most a full budget for
  each operator retry and one for each claim counted since, without the current one, which
  has not failed yet.
- `WorkersInv` (workers).  A worker acknowledges an event in a transaction of its own, after
  it looked.  `Wakes` therefore says more than `NoLostWakeup`: an open job has a pending
  event that no worker is about to acknowledge.  `ReturnedAccounted` says that a worker whose
  operation has returned has its usage stored, which is what its later outcome relies on, and
  `EventsKnown` that a worker delivers an event that exists.
- `HostedInv`.  `Control(r)` says how a run, its worker, its document and its envelope depend
  on each other: an envelope is open while its run is active or uncertain, a call is under way
  only in the hands of a live child, a run that can still start has its bytes.  `Money(r)`
  says what each cost row means: nothing was charged for a call that is proven unsent, a
  settled one has exactly its charge, an open one holds enough, and the rows of an open
  envelope fit into it.  `CapsHold` and the refinement then follow from one lemma about what a
  step can do to an envelope (`SpendStep`: opened, kept or settled, archived) and from sums.
- `PaidInv` (paid calls).  `RequestInv` says what the three tables may say of a request
  together; above all, a call row without a receipt is fenced by a pending marker of its own
  request, which is why nobody else asks for the response.  `ThreadInv` says what a thread
  may rely on at each point: that its guard row is reserved, how much it has been charged,
  and that a second attempt has an answer behind it, so it can never be taken for unsent.
- `SchedulerInv`.  `BoundedBypass` alone is not preserved by an admission of a younger
  ticket.  `OlderPassedMore` (whatever passes a younger ticket passes the older one too) and
  `OneTicket` (the queue is no longer than there are threads) make it so.  `CircuitOnFile`
  says that an open circuit is always on file, which a restart needs.
- `UploadsInv`.  `VerdictsKept` ties records, versions and directories; `RunnersSound` says
  that a runner about to accept has promoted its original; `AuditOnce` that the chain names
  each version once.
- `ReviewsInv`.  `ClaimsFit` says that the revisions of a claim are numbered without gaps,
  each written by someone who had seen the one before, that labels and attestations agree with
  them, and that head and review name the last of them: the compare-and-set of a review and
  the unchanged heads of a rescore then leave nothing to overwrite.  `CountsMatchHeads` is a
  part of it as it stands: whoever publishes without refreshing the counts is a tag job that
  has not committed, so its claim about the counts is empty until a commit refreshes them.
- `ExportsInv`.  `BuilderSound` says what a builder knows: if the epoch it read is still the
  run's, the evidence it collected is the run's present evidence.  Every change of a head
  raises the epoch, so the comparison in `Freeze` is enough although the evidence is read in
  many transactions.

The proofs have two layers.  Lemmas say what an action does to the few fields an invariant
speaks of, or that a group of actions leaves them alone; each conjunct has a step lemma
with one case per action, which does not expand an action again where a lemma says enough.

Sums.  `Total` is the library's `MapThenSumSet`, which chooses a function that is defined by
itself on the subsets of a set.  `SumsProofs` shows that this function exists and that the sum
does not depend on the order.  The library's induction rules take a predicate as a parameter,
which the provers here cannot instantiate; `SubsetInduction` states induction over subsets
with a set instead and is proved from the minimal element of a well-founded relation.

Only model-checked: liveness (`WorkSettles`, `RunsEnd`, `DeletionCompletes`,
`NobodyStarves`), because the prover has no fairness or `ENABLED`.
The type invariants of the modules with proofs are proved and not checked again.

## Findings

1. `job_store_race`.  `classification_reprocess.py` says that "two reprocess/recovery
   callbacks can never race the same lineage".  It refuses when a tag job is open, but
   `authorize_recovery` only looks for open recoveries, so a recovery can be authorized
   after a reprocess.  The commit verifies the lineage only of a reprocess
   (`tag_runner.py:1490`): a reprocess that finishes second is refused after its calls were
   paid; a recovery that finishes second is committed and replaces `tag_job`
   (`job_store.py:821`).
2. `uploads_tombstone`.  `retention.py` says that after the tombstone "writes and reads are
   fenced".  An upload record has no `document_id` of its own, so `_get` does not see the
   tombstone and a client with an open ticket still delivers its file.  The file is refused
   later, when the document itself is read.

## Observations

Behaviour that was met while modelling, that no document contradicts and that no property
here forbids:

- `retry_run` accepts a published partial run without a failed job and sets it running
  again with nothing left to run (`job_store.py:1052`).
- A tag job that has published claims and then fails for good or is cancelled leaves the
  counts of the run behind its heads until the next review, rescore or tag commit
  (`tag_runner.py:245`); an export in between is rejected by the count check.  This is why
  `CountsMatchHeads` speaks of runs whose tag jobs have all committed.
- A batch job that was enqueued before the tag stage published can no longer be claimed and
  stays pending (`claim_store.py:410`).
- `run_once` resolves the first due tag event before it claims; a stale authorization raises
  there and the events behind it wait (`tag_runner.py:1324`).
- A call proven not sent is settled to zero without settling the envelope of a run that has
  ended (`hosted_store.py:1699`); a cost that is still unknown when its document is purged
  can no longer be reconciled (`hosted_control.py:128`); the replay of deletions at the
  start stops at the first document that cannot be purged (`hosted_store.py:2195`).
- When a call dies without a receipt, its pending cache marker stays and refuses later
  requests with the same key (`openai.py:924`).  `PaidCalls` has this: it is what makes
  `SingleFlight` hold after a crash.
- The validation job of an upload whose ticket has expired can neither be completed nor
  ended (`uploads.py:479`).
- A review that follows a rescore is decided under the run's own pack again
  (`reviews.py:1292`).
- A builder that gave up busy after another failed the export puts it back in the queue
  (`export_store.py:603`); an export frozen while the tag stage is running is rejected by
  the count check and has failed for good (`reporting.py:666`).

## Not modelled

Of the hosted service: the contents of backups and the expiry of tombstones, reuse of an
earlier publication, guest quotas, sessions, invitations, rate limits and review revisions.
Of the job store: the order in which a relay reads due events, the tenants' limit of two
active runs at creation (one run is modelled), the parser's write-once bindings.  Of paid
calls: prices and token arithmetic, the OpenRouter and Upstage clients.  Of retention: legal
holds and the executor, which no runtime of the repository starts.  Of reviews: the inputs
a decision is evaluated from, context reviews, source conditions and submitted reviews; the
audit events of the latter two (`review_store.py:138`, `review_store.py:329`,
`submitted_review.py:146`) and of the creation of the run (`run_store.py:274`) are not
counted by `AuditTellsAll`; the profile that leaves the run completed after tagging; the
tag jobs that a continued extraction supersedes, which are in `JobStore` only.

The larger part of the repository's lines is the body of the stages: parsers, geometry, OCR,
source verification, model adapters and prompts, rule packs, offline evaluation, readiness
scripts and the web client.  They are functions of file contents or I/O without shared
state; a model small enough to check would leave out everything they do.  The share of the
source lines that the map names is small for this reason.
