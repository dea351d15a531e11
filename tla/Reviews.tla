------------------------------ MODULE Reviews ------------------------------
(***************************************************************************)
(* What a run publishes and who may change it: the claims the tag stage    *)
(* publishes, their reviews (adapters/local/review_store.py,               *)
(* application/reviews.py), rescoring under another rule pack              *)
(* (adapters/local/rescore_store.py, application/rescores.py) and the      *)
(* activation of rule packs (adapters/local/rulepack_store.py).            *)
(*                                                                         *)
(* A run is tagged by a first job and, after its commit, by recoveries and *)
(* reprocesses of what that job could not settle.  The first job and the   *)
(* recoveries publish claims one by one while they run, a reprocess        *)
(* publishes its claim inside its commit.  JobStore has the delivery of    *)
(* these jobs; here a lease may run out at any time and be claimed again.  *)
(*                                                                         *)
(* Tag and decision revisions are append-only; claim_head names the        *)
(* current pair.  A reviewer decides on a view that may be old by the time *)
(* it arrives, and a rescore reads everything in one transaction, computes *)
(* outside and writes in another.  Every transaction is one step.          *)
(*                                                                         *)
(* What a tag or a decision says is abstracted to whether it is confirmed  *)
(* or decided.  The same request sent again under its key is answered from *)
(* the first result and changes nothing.                                   *)
(***************************************************************************)
EXTENDS Integers, Sequences, FiniteSets

CONSTANTS
    Claims,
    TagJobs,       \* identities of the tag jobs the run may ever have
    Origin,        \* who enqueues j: "pipeline", "recovery" or "reprocess"
    Publications,  \* what a tag job may find for a claim
    Reviewers,     \* review requests on their way
    Resolutions,   \* what a review may say
    Flights,       \* rescore requests on their way
    RescoreKeys,   \* idempotency keys of rescores
    Packs,
    Frozen,        \* the rule pack of the run's snapshot
    None,
    MaxEpoch       \* bound: mutations of the run

Origins == {"consensus", "human", "ai_delegated"}

ASSUME ReviewsAssumption ==
    /\ IsFiniteSet(Claims) /\ IsFiniteSet(TagJobs)
    /\ Origin \in [TagJobs -> {"pipeline", "recovery", "reprocess"}]
    /\ Publications \subseteq [confirmed : BOOLEAN, decision : {"none", "held", "decided"}]
    /\ \A p \in Publications : p.decision # "none" => p.confirmed
    /\ Resolutions \subseteq
           [origin : Origins \ {"consensus"}, attest : BOOLEAN, decided : BOOLEAN]
    /\ Frozen \in Packs
    /\ None \notin Packs \union RescoreKeys \union Claims \union TagJobs
    /\ None \notin Origins
    /\ MaxEpoch \in Nat

VARIABLES
    status,     \* status of the run
    lineage,    \* tag_job of the run: the one that committed last
    tagJob,     \* job records of the tag jobs, with the plan they were authorized for
    actions,    \* number of action records: cancellations and retries by an operator
    epoch,      \* mutation_epoch of the run
    head,       \* claim_head
    tags,       \* tag_revision records of a claim, by revision
    decs,       \* decision_revision records of a claim, by revision
    review,     \* review_head
    counted,    \* coverage.claims_decided of the run
    view,       \* what a reviewer has seen and sends
    flight,     \* what a rescore has captured
    artifacts,  \* rescore_artifact records
    pack,       \* status of the rule packs
    active,     \* rulepack_active_pointers
    audited     \* number of audit_events of the run

stageVars == <<status, lineage, tagJob, actions>>
reviewVars == <<stageVars, epoch, head, tags, decs, review, counted, view, flight, artifacts,
                pack, active, audited>>

-----------------------------------------------------------------------------
(* Records *)

HeadRecord == [tag : Nat, dec : Nat]          \* zero: nothing published yet

Attestation == [carried : Origins \union {None},  \* carried_from of the receipt
                given : Nat]                      \* ghost: the revision that supplied it

Tag == [origin : Origins, confirmed : BOOLEAN,
        seen : Nat,                               \* ghost: the revision its author had seen
        attest : Attestation \union {None}]

Decision == [tag : Nat, pack : Packs, decided : BOOLEAN, label : Origins]

Review == [status : {"none", "open", "resolved"}, revision : Nat, base : Nat]

View == [sent : BOOLEAN, claim : Claims \union {None}, revision : Nat, base : Nat,
         reopen : BOOLEAN]

Flight == [sent : BOOLEAN, key : RescoreKeys \union {None}, pack : Packs \union {None},
           epoch : Nat, heads : [Claims -> HeadRecord]]

Artifact == [key : RescoreKeys, pack : Packs, heads : [Claims -> HeadRecord]]

TagJob == [status : {"absent", "pending", "leased", "succeeded", "failed", "cancelled"},
           plan : TagJobs \union {None},        \* the commit it continues
           claims : SUBSET Claims]              \* the claims it is to tag

NoHead == [tag |-> 0, dec |-> 0]

NoView == [sent |-> FALSE, claim |-> None, revision |-> 0, base |-> 0, reopen |-> FALSE]

NoFlight == [sent |-> FALSE, key |-> None, pack |-> None, epoch |-> 0,
             heads |-> [c \in Claims |-> NoHead]]

ReviewInit ==
    /\ status = "running" /\ lineage = None /\ actions = 0
    /\ tagJob = [j \in TagJobs |->
           IF Origin[j] = "pipeline"
             THEN [status |-> "pending", plan |-> None, claims |-> Claims]
             ELSE [status |-> "absent", plan |-> None, claims |-> {}]]
    /\ epoch = 0 /\ counted = 0 /\ audited = 0
    /\ head = [c \in Claims |-> NoHead]
    /\ tags = [c \in Claims |-> << >>]
    /\ decs = [c \in Claims |-> << >>]
    /\ review = [c \in Claims |-> [status |-> "none", revision |-> 0, base |-> 0]]
    /\ view = [v \in Reviewers |-> NoView]
    /\ flight = [f \in Flights |-> NoFlight]
    /\ artifacts = {}
    /\ pack = [p \in Packs |-> IF p = Frozen THEN "active" ELSE "validated"]
    /\ active = Frozen

-----------------------------------------------------------------------------
(* The run record *)

\* _bump_run
Bump == epoch < MaxEpoch /\ epoch' = epoch + 1

\* _bump_run with refresh_claim_counts: the heads whose decision is decided.
Decided(h, d) == Cardinality({c \in Claims : h[c].dec > 0 /\ d[c][h[c].dec].decided})

RefreshMutant == counted' = counted

Refresh == counted' = Decided(head', decs')

Published == {c \in Claims : head[c].tag > 0}

-----------------------------------------------------------------------------
(* The tag stage *)

OpenJobs == {j \in TagJobs : tagJob[j].status \in {"pending", "leased"}}

\* authorize_recovery and authorize_reprocess: unpublished claims of the commit that is current.
\* A recovery is refused by an open one of the same commit, a reprocess by any open tag job.
AuthorizeTags(j, cs) ==
    /\ Origin[j] # "pipeline"
    /\ tagJob[j].status = "absent"
    /\ lineage # None /\ status # "cancelled"
    /\ cs # {} /\ cs \subseteq Claims \ Published
    /\ \/ /\ Origin[j] = "recovery"
          /\ \A k \in OpenJobs : Origin[k] = "recovery" => tagJob[k].plan # lineage
       \/ /\ Origin[j] = "reprocess"
          /\ OpenJobs = {} /\ \E c \in Claims : cs = {c}
    /\ tagJob' = [tagJob EXCEPT ![j] = [status |-> "pending", plan |-> lineage, claims |-> cs]]
    /\ UNCHANGED <<status, lineage, actions, epoch, head, tags, decs, review, counted, view,
                   flight, artifacts, pack, active, audited>>

\* claim_job: a job that waits, or one whose lease has run out.
ClaimTags(j) ==
    /\ j \in OpenJobs
    /\ status # "cancelled"
    /\ tagJob' = [tagJob EXCEPT ![j].status = "leased"]
    /\ status' = "running"
    /\ Bump
    /\ UNCHANGED <<lineage, actions, head, tags, decs, review, counted, view, flight,
                   artifacts, pack, active, audited>>

\* publish_transaction of a claim without a head: the first revisions, and its review opened.
FirstRevision(c, p) ==
    /\ head[c] = NoHead
    /\ tags' = [tags EXCEPT ![c] = <<[origin |-> "consensus", confirmed |-> p.confirmed,
                                      seen |-> 0, attest |-> None]>>]
    /\ decs' = [decs EXCEPT ![c] =
           IF p.decision = "none" THEN << >>
           ELSE <<[tag |-> 1, pack |-> Frozen, decided |-> p.decision = "decided",
                   label |-> "consensus"]>>]
    /\ head' = [head EXCEPT ![c] = [tag |-> 1, dec |-> IF p.decision = "none" THEN 0 ELSE 1]]
    /\ review' = [review EXCEPT ![c] = [status |-> "open", revision |-> 1, base |-> 1]]

\* _publish_claim, while the job is running; the counts of the run are not refreshed.
PublishClaim(j, c, p) ==
    /\ tagJob[j].status = "leased" /\ Origin[j] # "reprocess"
    /\ c \in tagJob[j].claims
    /\ FirstRevision(c, p)
    /\ Bump
    /\ audited' = audited + 1
    /\ UNCHANGED <<stageVars, counted, view, flight, artifacts, pack, active>>

\* A recovery that is delivered again publishes its claim again: the review is there, only the
\* run moves on.  The first job passes over the claims it has published.
PublishAgain(j, c) ==
    /\ tagJob[j].status = "leased" /\ Origin[j] = "recovery"
    /\ c \in tagJob[j].claims \intersect Published
    /\ Bump
    /\ UNCHANGED <<stageVars, head, tags, decs, review, counted, view, flight, artifacts,
                   pack, active, audited>>

\* commit_job of a tag job.  Only a reprocess verifies that the commit it continues is still
\* the current one and its claim still unpublished (verify_publication).
CommitStage(j) ==
    /\ tagJob[j].status = "leased"
    /\ Origin[j] = "reprocess" =>
          tagJob[j].plan = lineage /\ tagJob[j].claims \intersect Published = {}
    /\ tagJob' = [tagJob EXCEPT ![j].status = "succeeded"]
    /\ status' = "partial" /\ lineage' = j
    /\ Bump
    /\ UNCHANGED <<actions, view, flight, artifacts, pack, active>>

\* The commit of what is published already, or of a reprocess that settled nothing.
CommitTags(j) ==
    /\ CommitStage(j)
    /\ UNCHANGED <<head, tags, decs, review>>
    /\ audited' = audited + 1
    /\ Refresh

\* The commit of a reprocess publishes its claim.
CommitReprocess(j, c, p) ==
    /\ Origin[j] = "reprocess" /\ c \in tagJob[j].claims
    /\ CommitStage(j)
    /\ FirstRevision(c, p)
    /\ audited' = audited + 2
    /\ Refresh

\* fail_job: the run is partial, since the extraction before it has succeeded.
FailTags(j, retry) ==
    /\ tagJob[j].status = "leased"
    /\ tagJob' = [tagJob EXCEPT ![j].status = IF retry THEN "pending" ELSE "failed"]
    /\ status' = IF retry THEN "running" ELSE "partial"
    /\ Bump
    /\ UNCHANGED <<lineage, actions, head, tags, decs, review, counted, view, flight,
                   artifacts, pack, active, audited>>

\* The operator actions of _action, each with an audit event.
Act(from, to) ==
    /\ tagJob' = [j \in TagJobs |->
           IF tagJob[j].status \in from THEN [tagJob[j] EXCEPT !.status = to] ELSE tagJob[j]]
    /\ actions' = actions + 1
    /\ Bump
    /\ audited' = audited + 1
    /\ UNCHANGED <<lineage, head, tags, decs, review, counted, view, flight, artifacts, pack,
                   active>>

CancelRun == status' = "cancelled" /\ Act({"pending", "leased", "failed"}, "cancelled")

RetryRun == status = "partial" /\ status' = "running" /\ Act({"failed"}, "pending")

-----------------------------------------------------------------------------
(* Reviews *)

\* A reviewer, or a delegated model, looks at what the run shows now and decides on that; an
\* open review is resolved, a resolved one reopened.
Look(v, c) ==
    /\ ~view[v].sent
    /\ c \in Published
    /\ view' = [view EXCEPT ![v] =
           [sent |-> TRUE, claim |-> c, revision |-> review[c].revision,
            base |-> IF review[c].status = "open" THEN review[c].base ELSE head[c].tag,
            reopen |-> review[c].status = "resolved"]]
    /\ UNCHANGED <<stageVars, epoch, head, tags, decs, review, counted, flight, artifacts, pack,
                   active, audited>>

\* The compare-and-set of resolve.
Current(w) ==
    LET c == w.claim IN
    /\ review[c].revision = w.revision
    /\ w.base = head[c].tag
    /\ IF w.reopen THEN review[c].status = "resolved"
                   ELSE review[c].status = "open" /\ w.base = review[c].base

AncestryMutant(t) == t.origin

\* Who a carried attestation is said to come from: the first to supply it.
Ancestry(t) == IF t.attest.carried # None THEN t.attest.carried ELSE t.origin

\* The receipt of the new revision: supplied now, or carried over by a re-review.
Receipt(w, attest, t) ==
    CASE attest -> [carried |-> None, given |-> w.base + 1]
      [] ~attest /\ w.reopen /\ t.attest # None ->
             [carried |-> Ancestry(t), given |-> t.attest.given]
      [] OTHER -> None

\* resolve: a new tag, a decision under the pack of the run, the review and both heads.  The
\* request may supply an attestation of its own.
Resolve(v, r) ==
    LET w == view[v]  c == w.claim IN
    /\ w.sent
    /\ Current(w)
    /\ view' = [view EXCEPT ![v] = NoView]
    /\ tags' = [tags EXCEPT ![c] = Append(@,
           [origin |-> r.origin, confirmed |-> TRUE, seen |-> w.base,
            attest |-> Receipt(w, r.attest, tags[c][head[c].tag])])]
    /\ decs' = [decs EXCEPT ![c] = Append(@,
           [tag |-> w.base + 1, pack |-> Frozen, decided |-> r.decided, label |-> r.origin])]
    /\ head' = [head EXCEPT ![c] = [tag |-> w.base + 1, dec |-> head[c].dec + 1]]
    /\ review' = [review EXCEPT ![c].status = "resolved", ![c].revision = w.revision + 1]
    /\ Bump
    /\ Refresh
    /\ audited' = audited + 1
    /\ UNCHANGED <<stageVars, flight, artifacts, pack, active>>

\* STALE_REVIEW_REVISION; the reviewer has to look again.
Stale(v) ==
    /\ view[v].sent
    /\ ~Current(view[v])
    /\ view' = [view EXCEPT ![v] = NoView]
    /\ UNCHANGED <<stageVars, epoch, head, tags, decs, review, counted, flight, artifacts, pack,
                   active, audited>>

-----------------------------------------------------------------------------
(* Rescores *)

Replay(k) == \E a \in artifacts : a.key = k

TargetMutant(p) == pack[p] # "validated"

\* _target: the requested pack is the active one of its mode.
Target(p) == active = p /\ pack[p] = "active"

\* capture: refused while the run is running or cancelled, without claims, and when a claim
\* has no confirmed tags.
RescoreCapture(f, k, p) ==
    /\ ~flight[f].sent
    /\ ~Replay(k)
    /\ status = "partial"
    /\ Published # {}
    /\ \A c \in Published : tags[c][head[c].tag].confirmed
    /\ Target(p)
    /\ flight' = [flight EXCEPT ![f] =
           [sent |-> TRUE, key |-> k, pack |-> p, epoch |-> epoch, heads |-> head]]
    /\ UNCHANGED <<stageVars, epoch, head, tags, decs, review, counted, view, artifacts, pack,
                   active, audited>>

UnchangedMutant(x) == TRUE

\* What commit reads again: the run and its heads, and the target pack.
Unchanged(x) == epoch = x.epoch /\ head = x.heads

\* The label of a decision is that of the tag it was made from.
RescoreLabel(t) == t.origin

ReceiptOfMutant(x) ==
    [key |-> x.key, pack |-> x.pack,
     heads |-> [c \in Claims |-> [x.heads[c] EXCEPT !.dec = @ + 1]]]

\* The rescore_artifact: the heads the decisions were made from.
ReceiptOf(x) == [key |-> x.key, pack |-> x.pack, heads |-> x.heads]

\* commit: one more decision for every captured claim.
RescoreCommit(f, decided) ==
    LET x == flight[f]  captured == {c \in Claims : x.heads[c].tag > 0} IN
    /\ x.sent
    /\ ~Replay(x.key)
    /\ Unchanged(x)
    /\ Target(x.pack)
    /\ flight' = [flight EXCEPT ![f] = NoFlight]
    /\ decs' = [c \in Claims |->
           IF c \in captured
             THEN Append(decs[c], [tag |-> x.heads[c].tag, pack |-> x.pack,
                                   decided |-> c \in decided,
                                   label |-> RescoreLabel(tags[c][x.heads[c].tag])])
             ELSE decs[c]]
    /\ head' = [c \in Claims |->
           IF c \in captured THEN [tag |-> x.heads[c].tag, dec |-> x.heads[c].dec + 1]
                             ELSE head[c]]
    /\ artifacts' = artifacts \union {ReceiptOf(x)}
    /\ Bump
    /\ Refresh
    /\ audited' = audited + 1
    /\ UNCHANGED <<stageVars, tags, review, view, pack, active>>

\* Replayed, STALE_RUN_REVISION or RULE_PACK_CHANGED; or the request is lost.
RescoreEnds(f) ==
    /\ flight[f].sent
    /\ flight' = [flight EXCEPT ![f] = NoFlight]
    /\ UNCHANGED <<stageVars, epoch, head, tags, decs, review, counted, view, artifacts, pack,
                   active, audited>>

-----------------------------------------------------------------------------
(* Rule packs *)

\* activate_rulepack: the pack before it is retired for good.
ActivateRulePack(p) ==
    /\ pack[p] = "validated"
    /\ pack' = [pack EXCEPT ![p] = "active", ![active] = "retired"]
    /\ active' = p
    /\ UNCHANGED <<stageVars, epoch, head, tags, decs, review, counted, view, flight, artifacts,
                   audited>>

ReviewNext ==
    \/ \E j \in TagJobs, cs \in SUBSET Claims : AuthorizeTags(j, cs)
    \/ \E j \in TagJobs : ClaimTags(j) \/ CommitTags(j)
    \/ \E j \in TagJobs, c \in Claims, p \in Publications :
          PublishClaim(j, c, p) \/ CommitReprocess(j, c, p)
    \/ \E j \in TagJobs, c \in Claims : PublishAgain(j, c)
    \/ \E j \in TagJobs, retry \in BOOLEAN : FailTags(j, retry)
    \/ CancelRun
    \/ RetryRun
    \/ \E v \in Reviewers, c \in Claims : Look(v, c)
    \/ \E v \in Reviewers, r \in Resolutions : Resolve(v, r)
    \/ \E v \in Reviewers : Stale(v)
    \/ \E f \in Flights, k \in RescoreKeys, p \in Packs : RescoreCapture(f, k, p)
    \/ \E f \in Flights, decided \in SUBSET Claims : RescoreCommit(f, decided)
    \/ \E f \in Flights : RescoreEnds(f)
    \/ \E p \in Packs : ActivateRulePack(p)

ReviewSpec == ReviewInit /\ [][ReviewNext]_reviewVars

-----------------------------------------------------------------------------
(* Properties *)

\* The records have the fields and the values the stores give them; the counts of a run are
\* never negative.
ReviewsTypeOK ==
    /\ status \in {"running", "partial", "cancelled"}
    /\ lineage \in TagJobs \union {None}
    /\ tagJob \in [TagJobs -> TagJob]
    /\ actions \in Nat
    /\ epoch \in 0 .. MaxEpoch
    /\ head \in [Claims -> HeadRecord]
    /\ tags \in [Claims -> Seq(Tag)]
    /\ decs \in [Claims -> Seq(Decision)]
    /\ review \in [Claims -> Review]
    /\ counted \in Nat
    /\ view \in [Reviewers -> View]
    /\ flight \in [Flights -> Flight]
    /\ artifacts \subseteq Artifact
    /\ pack \in [Packs -> {"validated", "active", "retired"}]
    /\ active \in Packs
    /\ audited \in Nat

\* Reviews and rescores that overlap never lose one another's work: the head of a claim names
\* the last revision of each kind, the decision it names was made from the tag it names, and
\* the revision of the review counts the tags.
HeadsAreLast ==
    \A c \in Claims :
        /\ head[c].tag = Len(tags[c])
        /\ head[c].dec = Len(decs[c])
        /\ head[c].dec > 0 => decs[c][head[c].dec].tag = head[c].tag
        /\ review[c].revision = head[c].tag

\* Nobody's review is overwritten unseen: each tag was written by someone who had seen the
\* one before it.
NoReviewLost ==
    \A c \in Claims : \A i \in DOMAIN tags[c] : tags[c][i].seen = i - 1

\* Reviews and rescores that overlap lose nothing of one another.
NoUpdateLost == HeadsAreLast /\ NoReviewLost

\* The head decision of every claim passes _decision_has_valid_lineage, so summary and export
\* never find an unreadable run: it was made under the run's own pack, or an artifact accounts
\* for it.
LineageHolds ==
    \A c \in Published :
        LET n == head[c].dec IN
        n > 0 /\ decs[c][n].pack # Frozen =>
            \E a \in artifacts : /\ a.pack = decs[c][n].pack
                                 /\ a.heads[c] = [tag |-> head[c].tag, dec |-> n - 1]

\* A decision is labelled by who made the tag it rests on; a rescore never turns the work of
\* a delegated model into a human confirmation.
LabelsHonest ==
    \A c \in Claims : \A i \in DOMAIN decs[c] :
        decs[c][i].label = tags[c][decs[c][i].tag].origin

\* However often an attestation is carried over by later reviews, it names whoever supplied it.
AncestryKept ==
    \A c \in Claims : \A i \in DOMAIN tags[c] :
        LET a == tags[c][i].attest IN
        a # None => a.carried = (IF a.given = i THEN None ELSE tags[c][a.given].origin)

\* What is published says truly who stands behind it.
AuthorsHonest == LabelsHonest /\ AncestryKept

\* Once every tag job the run was given has committed, the counts of the run are those of its
\* heads: whatever a recovery published without refreshing them, its own commit or a later one
\* counts, also when claims are reviewed or rescored and other tag jobs commit meanwhile.
CountsMatchHeads ==
    (\A j \in TagJobs : tagJob[j].status \in {"absent", "succeeded"}) =>
        counted = Decided(head, decs)

\* A rescore sent again under its key is carried out once.
OneRescorePerKey ==
    \A a, b \in artifacts : a.key = b.key => a = b

\* Every decision of a rescore can be traced to the one request that made it.
RescoresAccounted == LineageHolds /\ OneRescorePerKey

\* A new decision is made under the run's own pack or under the pack that is active at that
\* moment: an activation between capture and commit is noticed.
DecidedUnderActivePack ==
    [][\A c \in Claims :
          Len(decs'[c]) > Len(decs[c]) => decs'[c][Len(decs'[c])].pack \in {Frozen, active}
      ]_reviewVars
=============================================================================
