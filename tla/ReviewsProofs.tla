--------------------------- MODULE ReviewsProofs ---------------------------
(***************************************************************************)
(* Proofs about Reviews and Exports, for any set of claims, reviewers,     *)
(* rescores, rule packs and builders and any number of mutations.          *)
(*                                                                         *)
(* What is promised of the heads is not inductive by itself: a decision    *)
(* must point at a tag that exists, an attestation at a revision before    *)
(* it, and a request on its way at a claim, a key and a pack.  Of exports  *)
(* it has to be known what a builder has seen when the epoch it read is    *)
(* still the run's.                                                        *)
(***************************************************************************)
EXTENDS Exports, SumsProofs

\* The variables of the tag stage are only named together.
USE DEF stageVars

\* The revisions ts and ds of one claim, its head h and its review rv fit together.
RevisionsFit(h, ts, ds, rv) ==
    /\ h.tag = Len(ts) /\ h.dec = Len(ds) /\ rv.revision = h.tag
    /\ h.dec > 0 => ds[h.dec].tag = h.tag
    /\ \A i \in 1 .. Len(ts) : ts[i].seen = i - 1
    /\ \A i \in 1 .. Len(ds) : /\ ds[i].tag \in 1 .. Len(ts)
                               /\ ds[i].label = ts[ds[i].tag].origin

\* Every attestation among the tags ts names the one who supplied it.
AttestationsFit(ts) ==
    \A i \in 1 .. Len(ts) :
        ts[i].attest # None =>
            /\ ts[i].attest.given \in 1 .. i
            /\ ts[i].attest.carried = (IF ts[i].attest.given = i THEN None
                                       ELSE ts[ts[i].attest.given].origin)

ClaimsFit ==
    \A c \in Claims : /\ RevisionsFit(head[c], tags[c], decs[c], review[c])
                      /\ AttestationsFit(tags[c])

\* What a request on its way says.
RequestsSound ==
    /\ \A v \in Reviewers : view[v].sent => view[v].claim \in Published
    /\ \A f \in Flights :
          flight[f].sent => flight[f].key \in RescoreKeys /\ flight[f].pack \in Packs

ReviewsInv ==
    /\ ReviewsTypeOK
    /\ RequestsSound
    /\ ClaimsFit
    /\ LineageHolds
    /\ CountsMatchHeads
    /\ OneRescorePerKey

-----------------------------------------------------------------------------
\* The number of decided heads is a natural number.
LEMMA DecidedType ==
    ASSUME NEW h, NEW d
    PROVE  Decided(h, d) \in Nat
<1>. DEFINE S == {c \in Claims : h[c].dec > 0 /\ d[c][h[c].dec].decided}
<1>1. IsFiniteSet(S)
  BY FS_Subset, ReviewsAssumption
<1>2. Cardinality(S) \in Nat
  BY <1>1, FS_CardinalityType
<1>. QED BY <1>2 DEF Decided

\* Revisions that fit still do when a tag, made by someone who has seen the last one, and a
\* decision made from it are appended.
LEMMA AppendBoth ==
    ASSUME NEW h \in HeadRecord, NEW ts \in Seq(Tag), NEW ds \in Seq(Decision), NEW rv \in Review,
           NEW t \in Tag, NEW d \in Decision, NEW rw \in Review,
           RevisionsFit(h, ts, ds, rv),
           t.seen = h.tag, d.tag = h.tag + 1, d.label = t.origin, rw.revision = h.tag + 1
    PROVE  RevisionsFit([tag |-> h.tag + 1, dec |-> h.dec + 1], Append(ts, t), Append(ds, d), rw)
<1>. DEFINE n == Len(ts)  m == Len(ds)  us == Append(ts, t)  es == Append(ds, d)
<1>1. n \in Nat /\ m \in Nat /\ h.tag = n /\ h.dec = m
  BY DEF RevisionsFit
<1>2. Len(us) = n + 1 /\ us[n + 1] = t /\ \A i \in 1 .. n : us[i] = ts[i]
  OBVIOUS
<1>3. Len(es) = m + 1 /\ es[m + 1] = d /\ \A i \in 1 .. m : es[i] = ds[i]
  OBVIOUS
<1>4. \A i \in 1 .. n : ts[i].seen = i - 1
  BY DEF RevisionsFit
<1>5. \A i \in 1 .. m : ds[i].tag \in 1 .. n /\ ds[i].label = ts[ds[i].tag].origin
  BY DEF RevisionsFit
<1>. HIDE DEF n, m, us, es
<1>6. \A i \in 1 .. n + 1 : us[i].seen = i - 1
  BY <1>1, <1>2, <1>4
<1>7. \A i \in 1 .. m + 1 : es[i].tag \in 1 .. n + 1 /\ es[i].label = us[es[i].tag].origin
  <2>1. ASSUME NEW i \in 1 .. m
        PROVE  es[i].tag \in 1 .. n + 1 /\ es[i].label = us[es[i].tag].origin
    <3>1. es[i] = ds[i] /\ ds[i].tag \in 1 .. n /\ ds[i].label = ts[ds[i].tag].origin
      BY <1>3, <1>5
    <3>2. us[ds[i].tag] = ts[ds[i].tag]
      BY <1>2, <3>1
    <3>. QED BY <1>1, <3>1, <3>2
  <2>2. es[m + 1].tag \in 1 .. n + 1 /\ es[m + 1].label = us[es[m + 1].tag].origin
    <3>1. es[m + 1] = d /\ d.tag = n + 1 /\ us[d.tag] = t
      BY <1>1, <1>2, <1>3
    <3>. QED BY <1>1, <3>1
  <2>3. \A i \in 1 .. m + 1 : i \in 1 .. m \/ i = m + 1
    BY <1>1
  <2>. QED BY <2>1, <2>2, <2>3
<1>. QED BY <1>1, <1>2, <1>3, <1>6, <1>7 DEF RevisionsFit, us, es

\* And when a decision made from the last tag is appended.
LEMMA AppendDecision ==
    ASSUME NEW h \in HeadRecord, NEW ts \in Seq(Tag), NEW ds \in Seq(Decision), NEW rv \in Review,
           NEW d \in Decision, h.tag > 0,
           RevisionsFit(h, ts, ds, rv), d.tag = h.tag, d.label = ts[h.tag].origin
    PROVE  RevisionsFit([tag |-> h.tag, dec |-> h.dec + 1], ts, Append(ds, d), rv)
<1>. DEFINE n == Len(ts)  m == Len(ds)  es == Append(ds, d)
<1>1. n \in Nat /\ m \in Nat /\ h.tag = n /\ h.dec = m /\ rv.revision = n
  BY DEF RevisionsFit
<1>2. Len(es) = m + 1 /\ es[m + 1] = d /\ \A i \in 1 .. m : es[i] = ds[i]
  OBVIOUS
<1>3. \A i \in 1 .. n : ts[i].seen = i - 1
  BY DEF RevisionsFit
<1>4. \A i \in 1 .. m : ds[i].tag \in 1 .. n /\ ds[i].label = ts[ds[i].tag].origin
  BY DEF RevisionsFit
<1>. HIDE DEF m, es
<1>5. \A i \in 1 .. m + 1 : es[i].tag \in 1 .. n /\ es[i].label = ts[es[i].tag].origin
  <2>1. ASSUME NEW i \in 1 .. m
        PROVE  es[i].tag \in 1 .. n /\ es[i].label = ts[es[i].tag].origin
    BY <1>2, <1>4
  <2>2. es[m + 1].tag \in 1 .. n /\ es[m + 1].label = ts[es[m + 1].tag].origin
    BY <1>1, <1>2
  <2>3. \A i \in 1 .. m + 1 : i \in 1 .. m \/ i = m + 1
    BY <1>1
  <2>. QED BY <2>1, <2>2, <2>3
<1>. QED BY <1>1, <1>2, <1>3, <1>5 DEF RevisionsFit, es

\* Every tag says who made it.
LEMMA OriginOfTag ==
    ASSUME NEW t \in Tag
    PROVE  t.origin # None
<1>1. t.origin \in Origins
  BY DEF Tag
<1>2. None \notin Origins
  BY ReviewsAssumption
<1>. QED BY <1>1, <1>2

\* The receipt of a new revision keeps the ancestry of the attestation it carries.
LEMMA AppendReceipt ==
    ASSUME NEW ts \in Seq(Tag), NEW w \in View, NEW attest \in BOOLEAN, NEW t \in Tag,
           Len(ts) > 0, w.base = Len(ts), AttestationsFit(ts),
           t.attest = Receipt(w, attest, ts[Len(ts)])
    PROVE  AttestationsFit(Append(ts, t))
<1>. DEFINE n == Len(ts)  a == ts[n].attest
<1>1. n \in Nat /\ n > 0 /\ ts[n] \in Tag
  OBVIOUS
<1>2. ASSUME t.attest # None
      PROVE  /\ t.attest.given \in 1 .. n + 1
             /\ t.attest.carried = (IF t.attest.given = n + 1 THEN None
                                    ELSE ts[t.attest.given].origin)
  <2>1. CASE attest
    BY <2>1, <1>1 DEF Receipt, View
  <2>2. CASE ~attest
    <3>1. a # None /\ t.attest = [carried |-> Ancestry(ts[n]), given |-> a.given]
      BY <2>2, <1>2 DEF Receipt
    <3>2. a.given \in 1 .. n /\ a.carried = (IF a.given = n THEN None ELSE ts[a.given].origin)
      BY <3>1, <1>1 DEF AttestationsFit
    <3>3. ts[a.given] \in Tag /\ ts[a.given].origin # None
      BY <3>2, <1>1, OriginOfTag
    <3>4. Ancestry(ts[n]) = ts[a.given].origin
      BY <3>2, <3>3 DEF Ancestry
    <3>. QED BY <3>1, <3>2, <3>4, <1>1
  <2>. QED BY <2>1, <2>2
<1>3. \A i \in 1 .. n : Append(ts, t)[i] = ts[i]
  OBVIOUS
<1>4. Append(ts, t)[n + 1] = t /\ Len(Append(ts, t)) = n + 1
  OBVIOUS
<1>. HIDE DEF n
<1>. SUFFICES ASSUME NEW i \in 1 .. n + 1, Append(ts, t)[i].attest # None
              PROVE  /\ Append(ts, t)[i].attest.given \in 1 .. i
                     /\ Append(ts, t)[i].attest.carried =
                          (IF Append(ts, t)[i].attest.given = i THEN None
                           ELSE Append(ts, t)[Append(ts, t)[i].attest.given].origin)
  BY <1>4 DEF AttestationsFit
<1>5. CASE i = n + 1
  BY <1>5, <1>1, <1>2, <1>3, <1>4
<1>6. CASE i \in 1 .. n
  <2>1. /\ ts[i].attest # None => ts[i].attest.given \in 1 .. i
        /\ ts[i].attest # None => ts[i].attest.carried =
              (IF ts[i].attest.given = i THEN None ELSE ts[ts[i].attest.given].origin)
    BY <1>6 DEF AttestationsFit, n
  <2>2. Append(ts, t)[i] = ts[i] /\ ts[i].attest # None
    BY <1>3, <1>6
  <2>3. ts[i].attest.given \in 1 .. n
    BY <2>1, <2>2, <1>1, <1>6
  <2>4. Append(ts, t)[ts[i].attest.given] = ts[ts[i].attest.given]
    BY <2>3, <1>3
  <2>. QED BY <2>1, <2>2, <2>4
<1>7. i = n + 1 \/ i \in 1 .. n
  BY <1>1
<1>. QED BY <1>5, <1>6, <1>7

-----------------------------------------------------------------------------
\* The initial state satisfies the invariant.
LEMMA InitReviews == ReviewInit => ReviewsInv
<1>. SUFFICES ASSUME ReviewInit PROVE ReviewsInv
  OBVIOUS
<1>1. ReviewsTypeOK
  <2>1. NoHead \in HeadRecord /\ NoView \in View
    BY DEF NoHead, HeadRecord, NoView, View
  <2>2. NoFlight \in Flight
    BY <2>1 DEF NoFlight, Flight
  <2>3. pack \in [Packs -> {"validated", "active", "retired"}] /\ active \in Packs
    BY ReviewsAssumption DEF ReviewInit
  <2>4. review \in [Claims -> Review]
    BY DEF ReviewInit, Review
  <2>5. tags \in [Claims -> Seq(Tag)] /\ decs \in [Claims -> Seq(Decision)]
    BY DEF ReviewInit
  <2>6. /\ head \in [Claims -> HeadRecord] /\ view \in [Reviewers -> View]
        /\ flight \in [Flights -> Flight]
    BY <2>1, <2>2 DEF ReviewInit
  <2>7. epoch \in 0 .. MaxEpoch /\ counted \in Nat /\ audited \in Nat
    BY ReviewsAssumption DEF ReviewInit
  <2>8. artifacts \subseteq Artifact
    BY DEF ReviewInit
  <2>9. /\ status \in {"running", "partial", "cancelled"} /\ lineage \in TagJobs \union {None}
        /\ actions \in Nat
    BY DEF ReviewInit
  <2>10. tagJob \in [TagJobs -> TagJob]
    BY DEF ReviewInit, TagJob
  <2>. QED BY <2>3, <2>4, <2>5, <2>6, <2>7, <2>8, <2>9, <2>10 DEF ReviewsTypeOK
<1>2. RequestsSound
  BY DEF ReviewInit, RequestsSound, NoView, NoFlight
<1>3. ClaimsFit
  BY DEF ReviewInit, ClaimsFit, RevisionsFit, AttestationsFit, NoHead
<1>4. LineageHolds
  BY DEF ReviewInit, LineageHolds, Published, NoHead
<1>5. CountsMatchHeads
  <2>1. {c \in Claims : head[c].dec > 0 /\ decs[c][head[c].dec].decided} = {}
    BY DEF ReviewInit, NoHead
  <2>2. counted = Decided(head, decs)
    BY <2>1, FS_EmptySet DEF Decided, ReviewInit
  <2>. QED BY <2>2 DEF CountsMatchHeads
<1>6. OneRescorePerKey
  BY DEF ReviewInit, OneRescorePerKey
<1>. QED BY <1>1, <1>2, <1>3, <1>4, <1>5, <1>6 DEF ReviewsInv

\* A step that leaves the revisions and the artifacts alone keeps what is said of them.
LEMMA RevisionsUntouched ==
    ASSUME ReviewsInv, UNCHANGED <<head, tags, decs, review, artifacts>>
    PROVE  ClaimsFit' /\ LineageHolds' /\ OneRescorePerKey'
<1>1. ClaimsFit'
  BY DEF ReviewsInv, ClaimsFit
<1>2. LineageHolds'
  BY DEF ReviewsInv, LineageHolds, Published
<1>3. OneRescorePerKey'
  BY DEF ReviewsInv, OneRescorePerKey
<1>. QED BY <1>1, <1>2, <1>3

\* The first revisions of a claim, published by a running job or by the commit of a reprocess.
LEMMA FirstRevisionKeeps ==
    ASSUME ReviewsInv, NEW c \in Claims, NEW p \in Publications, FirstRevision(c, p),
           UNCHANGED <<view, flight, artifacts>>
    PROVE  /\ tags' \in [Claims -> Seq(Tag)] /\ decs' \in [Claims -> Seq(Decision)]
           /\ head' \in [Claims -> HeadRecord] /\ review' \in [Claims -> Review]
           /\ RequestsSound' /\ ClaimsFit' /\ LineageHolds' /\ OneRescorePerKey'
<1>. USE ReviewsAssumption DEF ReviewsInv
<1>. DEFINE t == [origin |-> "consensus", confirmed |-> p.confirmed, seen |-> 0, attest |-> None]
            d == [tag |-> 1, pack |-> Frozen, decided |-> p.decision = "decided",
                  label |-> "consensus"]
<1>1. t \in Tag /\ d \in Decision
  BY DEF Tag, Decision, Origins
<1>2. tags'[c] = <<t>> /\ decs'[c] = (IF p.decision = "none" THEN << >> ELSE <<d>>)
  BY DEF FirstRevision, ReviewsTypeOK
<1>3. \A x \in Claims \ {c} : tags'[x] = tags[x] /\ decs'[x] = decs[x] /\ head'[x] = head[x]
                              /\ review'[x] = review[x]
  BY DEF FirstRevision, ReviewsTypeOK
<1>4. head'[c] = [tag |-> 1, dec |-> IF p.decision = "none" THEN 0 ELSE 1]
      /\ review'[c] = [status |-> "open", revision |-> 1, base |-> 1]
  BY DEF FirstRevision, ReviewsTypeOK
<1>5. tags' \in [Claims -> Seq(Tag)] /\ decs' \in [Claims -> Seq(Decision)]
  BY <1>1 DEF FirstRevision, ReviewsTypeOK
<1>6. head' \in [Claims -> HeadRecord] /\ review' \in [Claims -> Review]
  BY DEF FirstRevision, ReviewsTypeOK, HeadRecord, Review
<1>7. RequestsSound'
  <2>1. Published \subseteq Published'
    BY <1>3, <1>4 DEF Published
  <2>. QED BY <2>1 DEF RequestsSound
<1>8. RevisionsFit(head'[c], tags'[c], decs'[c], review'[c]) /\ AttestationsFit(tags'[c])
  BY <1>2, <1>4 DEF RevisionsFit, AttestationsFit
<1>9. ClaimsFit'
  BY <1>3, <1>8 DEF ClaimsFit
<1>10. LineageHolds'
  <2>1. head'[c].dec > 0 => decs'[c][head'[c].dec].pack = Frozen
    BY <1>2, <1>4
  <2>. SUFFICES ASSUME NEW x \in Published', head'[x].dec > 0, decs'[x][head'[x].dec].pack # Frozen
                PROVE  \E a \in artifacts :
                          /\ a.pack = decs'[x][head'[x].dec].pack
                          /\ a.heads[x] = [tag |-> head'[x].tag, dec |-> head'[x].dec - 1]
    BY DEF LineageHolds
  <2>2. x \in Claims \ {c}
    BY <2>1 DEF Published
  <2>3. x \in Published /\ head'[x] = head[x] /\ decs'[x] = decs[x]
    BY <1>3, <2>2 DEF Published
  <2>. QED BY <2>3 DEF LineageHolds
<1>11. OneRescorePerKey'
  BY DEF OneRescorePerKey
<1>. QED BY <1>5, <1>6, <1>7, <1>9, <1>10, <1>11

\* A running job publishes a claim: the counts are not refreshed, but the job is still open.
LEMMA PublishKeeps ==
    ASSUME ReviewsInv, NEW j \in TagJobs, NEW c \in Claims, NEW p \in Publications,
           PublishClaim(j, c, p)
    PROVE  ReviewsInv'
<1>1. FirstRevision(c, p) /\ UNCHANGED <<stageVars, counted, view, flight, artifacts, pack, active>>
  BY DEF PublishClaim
<1>2. /\ tags' \in [Claims -> Seq(Tag)] /\ decs' \in [Claims -> Seq(Decision)]
      /\ head' \in [Claims -> HeadRecord] /\ review' \in [Claims -> Review]
      /\ RequestsSound' /\ ClaimsFit' /\ LineageHolds' /\ OneRescorePerKey'
  BY <1>1, FirstRevisionKeeps
<1>3. ReviewsTypeOK'
  <2>1. epoch' \in 0 .. MaxEpoch /\ audited' \in Nat
    BY ReviewsAssumption DEF ReviewsInv, ReviewsTypeOK, PublishClaim, Bump
  <2>. QED BY <1>1, <1>2, <2>1 DEF ReviewsInv, ReviewsTypeOK
<1>4. CountsMatchHeads'
  BY <1>1 DEF PublishClaim, CountsMatchHeads
<1>. QED BY <1>2, <1>3, <1>4 DEF ReviewsInv

\* A reprocess publishes its claim and counts it in one transaction.
LEMMA ReprocessKeeps ==
    ASSUME ReviewsInv, NEW j \in TagJobs, NEW c \in Claims, NEW p \in Publications,
           CommitReprocess(j, c, p)
    PROVE  ReviewsInv'
<1>1. FirstRevision(c, p) /\ UNCHANGED <<actions, view, flight, artifacts, pack, active>>
  BY DEF CommitReprocess, CommitStage
<1>2. /\ tags' \in [Claims -> Seq(Tag)] /\ decs' \in [Claims -> Seq(Decision)]
      /\ head' \in [Claims -> HeadRecord] /\ review' \in [Claims -> Review]
      /\ RequestsSound' /\ ClaimsFit' /\ LineageHolds' /\ OneRescorePerKey'
  BY <1>1, FirstRevisionKeeps
<1>3. counted' = Decided(head', decs')
  BY DEF CommitReprocess, Refresh
<1>4. ReviewsTypeOK'
  <2>1. epoch' \in 0 .. MaxEpoch /\ audited' \in Nat
    BY ReviewsAssumption DEF ReviewsInv, ReviewsTypeOK, CommitReprocess, CommitStage, Bump
  <2>2. counted' \in Nat
    BY <1>3, DecidedType
  <2>3. /\ status' \in {"running", "partial", "cancelled"}
        /\ lineage' \in TagJobs \union {None} /\ tagJob' \in [TagJobs -> TagJob]
    BY DEF ReviewsInv, ReviewsTypeOK, CommitReprocess, CommitStage, TagJob
  <2>. QED BY <1>1, <1>2, <2>1, <2>2, <2>3 DEF ReviewsInv, ReviewsTypeOK
<1>5. CountsMatchHeads'
  BY <1>3 DEF CountsMatchHeads
<1>. QED BY <1>2, <1>4, <1>5 DEF ReviewsInv

\* The steps of tag jobs and operators that publish nothing new.
StageStep ==
    \/ \E j \in TagJobs, cs \in SUBSET Claims : AuthorizeTags(j, cs)
    \/ \E j \in TagJobs : ClaimTags(j) \/ CommitTags(j)
    \/ \E j \in TagJobs, c \in Claims : PublishAgain(j, c)
    \/ \E j \in TagJobs, retry \in BOOLEAN : FailTags(j, retry)
    \/ CancelRun
    \/ RetryRun

\* They leave the claims alone, keep the shape of the jobs, and either refresh the counts or
\* settle no job.
LEMMA StageShape ==
    ASSUME ReviewsInv, StageStep
    PROVE  /\ UNCHANGED <<head, tags, decs, review, artifacts, view, flight, pack, active>>
           /\ status' \in {"running", "partial", "cancelled"}
           /\ lineage' \in TagJobs \union {None} /\ actions' \in Nat
           /\ tagJob' \in [TagJobs -> TagJob]
           /\ epoch' \in 0 .. MaxEpoch /\ audited' \in Nat
           /\ \/ counted' = Decided(head', decs')
              \/ /\ counted' = counted
                 /\ \A j \in TagJobs : tagJob'[j].status \in {"absent", "succeeded"}
                                          => tagJob[j].status \in {"absent", "succeeded"}
<1>. DEFINE Goal ==
           /\ UNCHANGED <<head, tags, decs, review, artifacts, view, flight, pack, active>>
           /\ status' \in {"running", "partial", "cancelled"}
           /\ lineage' \in TagJobs \union {None} /\ actions' \in Nat
           /\ tagJob' \in [TagJobs -> TagJob]
           /\ epoch' \in 0 .. MaxEpoch /\ audited' \in Nat
           /\ \/ counted' = Decided(head', decs')
              \/ /\ counted' = counted
                 /\ \A j \in TagJobs : tagJob'[j].status \in {"absent", "succeeded"}
                                          => tagJob[j].status \in {"absent", "succeeded"}
<1>0. /\ status \in {"running", "partial", "cancelled"} /\ lineage \in TagJobs \union {None}
      /\ tagJob \in [TagJobs -> TagJob] /\ actions \in Nat /\ epoch \in 0 .. MaxEpoch
      /\ audited \in Nat /\ MaxEpoch \in Nat
  BY ReviewsAssumption DEF ReviewsInv, ReviewsTypeOK
<1>1. ASSUME NEW j \in TagJobs, NEW cs \in SUBSET Claims, AuthorizeTags(j, cs) PROVE Goal
  <2>. DEFINE r == [status |-> "pending", plan |-> lineage, claims |-> cs]
  <2>1. r \in TagJob /\ r.status = "pending"
    BY <1>0 DEF TagJob
  <2>2. tagJob' = [tagJob EXCEPT ![j] = r]
    BY <1>1 DEF AuthorizeTags
  <2>. HIDE DEF r
  <2>3. /\ tagJob' \in [TagJobs -> TagJob]
        /\ \A i \in TagJobs : tagJob'[i].status \in {"absent", "succeeded"}
                                 => tagJob[i].status \in {"absent", "succeeded"}
    BY <1>0, <2>1, <2>2
  <2>. QED BY <1>0, <1>1, <2>3 DEF AuthorizeTags
<1>2. ASSUME NEW j \in TagJobs, ClaimTags(j) PROVE Goal
  <2>1. /\ tagJob' \in [TagJobs -> TagJob]
        /\ \A i \in TagJobs : tagJob'[i].status \in {"absent", "succeeded"}
                                 => tagJob[i].status \in {"absent", "succeeded"}
    BY <1>0, <1>2 DEF ClaimTags, TagJob
  <2>. QED BY <1>0, <1>2, <2>1 DEF ClaimTags, Bump
<1>3. ASSUME NEW j \in TagJobs, CommitTags(j) PROVE Goal
  <2>1. tagJob' \in [TagJobs -> TagJob]
    BY <1>0, <1>3 DEF CommitTags, CommitStage, TagJob
  <2>. QED BY <1>0, <1>3, <2>1 DEF CommitTags, CommitStage, Bump, Refresh
<1>4. ASSUME NEW j \in TagJobs, NEW c \in Claims, PublishAgain(j, c) PROVE Goal
  BY <1>0, <1>4 DEF PublishAgain, Bump
<1>5. ASSUME NEW j \in TagJobs, NEW retry \in BOOLEAN, FailTags(j, retry) PROVE Goal
  <2>1. /\ tagJob' \in [TagJobs -> TagJob]
        /\ \A i \in TagJobs : tagJob'[i].status \in {"absent", "succeeded"}
                                 => tagJob[i].status \in {"absent", "succeeded"}
    BY <1>0, <1>5 DEF FailTags, TagJob
  <2>. QED BY <1>0, <1>5, <2>1 DEF FailTags, Bump
<1>6. ASSUME NEW from, NEW to \in {"pending", "cancelled"}, Act(from, to),
             status' \in {"running", "cancelled"}
      PROVE  Goal
  <2>1. /\ tagJob' \in [TagJobs -> TagJob]
        /\ \A i \in TagJobs : tagJob'[i].status \in {"absent", "succeeded"}
                                 => tagJob[i].status \in {"absent", "succeeded"}
    BY <1>0, <1>6 DEF Act, TagJob
  <2>. QED BY <1>0, <1>6, <2>1 DEF Act, Bump
<1>7. CASE CancelRun
  BY <1>6, <1>7 DEF CancelRun
<1>8. CASE RetryRun
  BY <1>6, <1>8 DEF RetryRun
<1>. QED BY <1>1, <1>2, <1>3, <1>4, <1>5, <1>7, <1>8 DEF StageStep

\* So they keep the invariant.
LEMMA StageKeeps ==
    ASSUME ReviewsInv, StageStep
    PROVE  ReviewsInv'
<1>1. /\ UNCHANGED <<head, tags, decs, review, artifacts, view, flight, pack, active>>
      /\ status' \in {"running", "partial", "cancelled"}
      /\ lineage' \in TagJobs \union {None} /\ actions' \in Nat
      /\ tagJob' \in [TagJobs -> TagJob]
      /\ epoch' \in 0 .. MaxEpoch /\ audited' \in Nat
      /\ \/ counted' = Decided(head', decs')
         \/ /\ counted' = counted
            /\ \A j \in TagJobs : tagJob'[j].status \in {"absent", "succeeded"}
                                     => tagJob[j].status \in {"absent", "succeeded"}
  BY StageShape
<1>2. ClaimsFit' /\ LineageHolds' /\ OneRescorePerKey'
  BY <1>1, RevisionsUntouched
<1>3. counted' \in Nat
  <2>1. counted \in Nat
    BY DEF ReviewsInv, ReviewsTypeOK
  <2>. QED BY <1>1, <2>1, DecidedType
<1>4. ReviewsTypeOK'
  BY <1>1, <1>3 DEF ReviewsInv, ReviewsTypeOK
<1>5. RequestsSound'
  BY <1>1 DEF ReviewsInv, RequestsSound, Published
<1>6. CountsMatchHeads'
  <2>1. CASE counted' = Decided(head', decs')
    BY <2>1 DEF CountsMatchHeads
  <2>2. CASE counted' = counted
             /\ \A j \in TagJobs : tagJob'[j].status \in {"absent", "succeeded"}
                                     => tagJob[j].status \in {"absent", "succeeded"}
    BY <1>1, <2>2 DEF ReviewsInv, CountsMatchHeads
  <2>. QED BY <1>1, <2>1, <2>2
<1>. QED BY <1>2, <1>4, <1>5, <1>6 DEF ReviewsInv

\* The steps of a request that change nothing but the request: looking, giving up, capturing.
LEMMA RequestKeeps ==
    ASSUME ReviewsInv,
           \/ \E v \in Reviewers, c \in Claims : Look(v, c)
           \/ \E v \in Reviewers : Stale(v)
           \/ \E f \in Flights, k \in RescoreKeys, p \in Packs : RescoreCapture(f, k, p)
           \/ \E f \in Flights : RescoreEnds(f)
    PROVE  ReviewsInv'
<1>. USE DEF ReviewsInv
<1>1. UNCHANGED <<stageVars, epoch, head, tags, decs, review, counted, artifacts, pack, active, audited>>
  BY DEF Look, Stale, RescoreCapture, RescoreEnds
<1>2. ClaimsFit' /\ LineageHolds' /\ OneRescorePerKey'
  BY <1>1, RevisionsUntouched
<1>3. CountsMatchHeads'
  BY <1>1 DEF CountsMatchHeads
<1>4. NoView \in View /\ NoFlight \in Flight
  BY DEF NoView, View, NoFlight, Flight, NoHead, HeadRecord
<1>5. /\ view' \in [Reviewers -> View]
      /\ flight' \in [Flights -> Flight]
      /\ RequestsSound'
  <2>. USE <1>1
  <2>. DEFINE Good == /\ view' \in [Reviewers -> View]
                      /\ flight' \in [Flights -> Flight]
                      /\ RequestsSound'
  <2>1. ASSUME NEW v \in Reviewers, NEW c \in Claims, Look(v, c)
        PROVE  Good
    <3>. DEFINE w == [sent |-> TRUE, claim |-> c, revision |-> review[c].revision,
                      base |-> IF review[c].status = "open" THEN review[c].base ELSE head[c].tag,
                      reopen |-> review[c].status = "resolved"]
    <3>1. w \in View
      BY DEF ReviewsTypeOK, HeadRecord, Review, View
    <3>2. view' = [view EXCEPT ![v] = w] /\ flight' = flight /\ c \in Published
      BY <2>1 DEF Look
    <3>3. w.claim = c
      OBVIOUS
    <3>. HIDE DEF w
    <3>. QED BY <3>1, <3>2, <3>3 DEF ReviewsTypeOK, RequestsSound, Published
  <2>2. ASSUME NEW v \in Reviewers, Stale(v)
        PROVE  Good
    BY <2>2, <1>4 DEF Stale, ReviewsTypeOK, RequestsSound, NoView, Published
  <2>3. ASSUME NEW f \in Flights, NEW k \in RescoreKeys, NEW p \in Packs, RescoreCapture(f, k, p)
        PROVE  Good
    <3>. DEFINE x == [sent |-> TRUE, key |-> k, pack |-> p, epoch |-> epoch, heads |-> head]
    <3>1. x \in Flight
      BY ReviewsAssumption DEF ReviewsTypeOK, Flight
    <3>2. flight' = [flight EXCEPT ![f] = x] /\ view' = view
      BY <2>3 DEF RescoreCapture
    <3>3. x.key = k /\ x.pack = p
      OBVIOUS
    <3>. HIDE DEF x
    <3>. QED BY <3>1, <3>2, <3>3 DEF ReviewsTypeOK, RequestsSound, Published
  <2>4. ASSUME NEW f \in Flights, RescoreEnds(f)
        PROVE  Good
    BY <2>4, <1>4 DEF RescoreEnds, ReviewsTypeOK, RequestsSound, NoFlight, Published
  <2>. QED BY <2>1, <2>2, <2>3, <2>4
<1>6. ReviewsTypeOK'
  BY <1>1, <1>5 DEF ReviewsTypeOK
<1>. QED BY <1>2, <1>3, <1>5, <1>6

\* The activation of a rule pack touches no run.
LEMMA ActivateKeeps ==
    ASSUME ReviewsInv, NEW p \in Packs, ActivateRulePack(p)
    PROVE  ReviewsInv'
<1>. USE DEF ReviewsInv
<1>1. UNCHANGED <<stageVars, epoch, head, tags, decs, review, counted, artifacts, view, flight, audited>>
  BY DEF ActivateRulePack
<1>2. ClaimsFit' /\ LineageHolds' /\ OneRescorePerKey'
  BY <1>1, RevisionsUntouched
<1>3. CountsMatchHeads' /\ RequestsSound'
  BY <1>1 DEF CountsMatchHeads, RequestsSound, Published
<1>4. pack' \in [Packs -> {"validated", "active", "retired"}] /\ active' \in Packs
  BY DEF ActivateRulePack, ReviewsTypeOK
<1>5. ReviewsTypeOK'
  BY <1>1, <1>4 DEF ReviewsTypeOK
<1>. QED BY <1>2, <1>3, <1>5

\* What a resolved review looks like.
LEMMA ReviewAdvanced ==
    ASSUME NEW q \in Review, NEW n \in Nat
    PROVE  LET z == [q EXCEPT !.status = "resolved", !.revision = n]
           IN  z \in Review /\ z.revision = n
BY DEF Review

\* A review that passed the compare-and-set.
LEMMA ResolveKeeps ==
    ASSUME ReviewsInv, NEW v \in Reviewers, NEW r \in Resolutions, Resolve(v, r)
    PROVE  ReviewsInv'
<1>. USE DEF ReviewsInv
<1>. DEFINE w == view[v]
            c == w.claim
            t == [origin |-> r.origin, confirmed |-> TRUE, seen |-> w.base,
                  attest |-> Receipt(w, r.attest, tags[c][head[c].tag])]
            d == [tag |-> w.base + 1, pack |-> Frozen, decided |-> r.decided, label |-> r.origin]
            h == [tag |-> w.base + 1, dec |-> head[c].dec + 1]
            rw == [review[c] EXCEPT !.status = "resolved", !.revision = w.revision + 1]
<1>1. w \in View /\ c \in Claims /\ head[c] \in HeadRecord /\ head[c].tag > 0
  BY DEF Resolve, ReviewsTypeOK, RequestsSound, Published
<1>2. /\ tags[c] \in Seq(Tag) /\ decs[c] \in Seq(Decision) /\ review[c] \in Review
      /\ RevisionsFit(head[c], tags[c], decs[c], review[c]) /\ AttestationsFit(tags[c])
  BY <1>1 DEF ReviewsTypeOK, ClaimsFit
<1>3. w.revision = review[c].revision /\ w.base = head[c].tag
  BY DEF Resolve, Current
<1>4. Len(tags[c]) \in Nat /\ Len(tags[c]) = head[c].tag /\ w.revision = head[c].tag
      /\ Len(decs[c]) \in Nat /\ Len(decs[c]) = head[c].dec
  BY <1>2, <1>3 DEF RevisionsFit
<1>5. /\ r.origin \in Origins /\ r.attest \in BOOLEAN /\ r.decided \in BOOLEAN
      /\ Frozen \in Packs
  BY ReviewsAssumption
<1>6. t.attest \in Attestation \union {None}
  <2>1. CASE r.attest
    BY <2>1, <1>1, <1>3, <1>4 DEF Receipt, Attestation
  <2>2. CASE ~r.attest
    <3>1. tags[c][head[c].tag] \in Tag
      BY <1>1, <1>2, <1>4
    <3>. DEFINE s == tags[c][head[c].tag]
    <3>2. s.attest # None => s.attest \in Attestation
      BY <3>1 DEF Tag
    <3>3. s.attest # None => Ancestry(s) \in Origins \union {None} /\ s.attest.given \in Nat
      BY <3>1, <3>2 DEF Tag, Attestation, Ancestry
    <3>. HIDE DEF s
    <3>4. \/ Receipt(w, r.attest, s) = None
          \/ s.attest # None
             /\ Receipt(w, r.attest, s) = [carried |-> Ancestry(s), given |-> s.attest.given]
      BY <2>2 DEF Receipt
    <3>5. Receipt(w, r.attest, s) \in Attestation \union {None}
      BY <3>3, <3>4 DEF Attestation
    <3>. QED BY <3>5 DEF s
  <2>. QED BY <1>5, <2>1, <2>2
<1>7. t \in Tag /\ d \in Decision
  BY <1>1, <1>5, <1>6 DEF Tag, Decision, View
<1>8. h \in HeadRecord /\ rw \in Review /\ rw.revision = head[c].tag + 1
  <2>1. w.base \in Nat /\ w.revision \in Nat /\ head[c].dec \in Nat /\ w.revision = head[c].tag
    BY <1>1, <1>3, <1>4 DEF View, HeadRecord
  <2>2. h \in HeadRecord
    BY <2>1 DEF HeadRecord
  <2>3. w.revision + 1 \in Nat
    BY <2>1
  <2>4. rw \in Review /\ rw.revision = w.revision + 1
    BY <2>3, <1>2, ReviewAdvanced
  <2>. QED BY <2>1, <2>2, <2>4
<1>9. /\ tags' = [tags EXCEPT ![c] = Append(tags[c], t)]
      /\ decs' = [decs EXCEPT ![c] = Append(decs[c], d)]
      /\ head' = [head EXCEPT ![c] = h]
      /\ view' = [view EXCEPT ![v] = NoView]
  BY DEF Resolve
<1>10. review' = [review EXCEPT ![c] = rw]
  BY <1>1 DEF Resolve, ReviewsTypeOK
<1>11. /\ t.seen = head[c].tag /\ d.tag = head[c].tag + 1 /\ d.label = t.origin /\ d.pack = Frozen
       /\ h = [tag |-> head[c].tag + 1, dec |-> head[c].dec + 1]
       /\ t.attest = Receipt(w, r.attest, tags[c][Len(tags[c])])
  BY <1>3, <1>4
<1>. HIDE DEF t, d, h, rw
<1>12. RevisionsFit(h, Append(tags[c], t), Append(decs[c], d), rw)
  BY <1>1, <1>2, <1>7, <1>8, <1>11, AppendBoth
<1>13. AttestationsFit(Append(tags[c], t))
  BY <1>1, <1>2, <1>3, <1>4, <1>5, <1>7, <1>11, AppendReceipt
<1>. HIDE DEF w, c
<1>14. /\ tags' \in [Claims -> Seq(Tag)] /\ decs' \in [Claims -> Seq(Decision)]
       /\ head' \in [Claims -> HeadRecord] /\ review' \in [Claims -> Review]
  BY <1>1, <1>2, <1>7, <1>8, <1>9, <1>10 DEF ReviewsTypeOK
<1>15. ClaimsFit'
  <2>. SUFFICES ASSUME NEW y \in Claims
                PROVE  /\ RevisionsFit(head'[y], tags'[y], decs'[y], review'[y])
                       /\ AttestationsFit(tags'[y])
    BY DEF ClaimsFit
  <2>1. CASE y = c
    BY <2>1, <1>1, <1>9, <1>10, <1>12, <1>13 DEF ReviewsTypeOK
  <2>2. CASE y # c
    BY <2>2, <1>1, <1>9, <1>10 DEF ReviewsTypeOK, ClaimsFit
  <2>. QED BY <2>1, <2>2
<1>16. Published' = Published
  BY <1>1, <1>9, <1>11 DEF Published, ReviewsTypeOK, HeadRecord
<1>17. RequestsSound'
  BY <1>9, <1>16 DEF RequestsSound, ReviewsTypeOK, NoView, Resolve
<1>18. LineageHolds'
  <2>1. decs'[c] = Append(decs[c], d) /\ head'[c].dec = Len(decs[c]) + 1
    BY <1>1, <1>4, <1>9, <1>11 DEF ReviewsTypeOK
  <2>2. decs'[c][head'[c].dec].pack = Frozen
    BY <2>1, <1>2, <1>7, <1>11
  <2>3. \A y \in Claims \ {c} : head'[y] = head[y] /\ decs'[y] = decs[y]
    BY <1>9 DEF ReviewsTypeOK
  <2>4. artifacts' = artifacts
    BY DEF Resolve
  <2>. QED BY <2>2, <2>3, <2>4, <1>16 DEF LineageHolds, Published
<1>19. CountsMatchHeads' /\ OneRescorePerKey'
  BY DEF Resolve, Refresh, CountsMatchHeads, OneRescorePerKey
<1>20. ReviewsTypeOK'
  <2>1. counted' \in Nat
    BY DecidedType DEF Resolve, Refresh
  <2>2. epoch' \in 0 .. MaxEpoch /\ audited' \in Nat
    BY ReviewsAssumption DEF Resolve, Bump, ReviewsTypeOK
  <2>3. NoView \in View
    BY DEF NoView, View
  <2>4. view' \in [Reviewers -> View]
    BY <2>3, <1>9 DEF ReviewsTypeOK
  <2>. QED BY <2>1, <2>2, <2>4, <1>14 DEF Resolve, ReviewsTypeOK
<1>. QED BY <1>15, <1>17, <1>18, <1>19, <1>20

\* A rescore whose capture still holds: one more decision for each captured claim.
LEMMA RescoreKeeps ==
    ASSUME ReviewsInv, NEW f \in Flights, NEW decided \in SUBSET Claims, RescoreCommit(f, decided)
    PROVE  ReviewsInv'
<1>. USE DEF ReviewsInv
<1>. DEFINE x == flight[f]
            d(c) == [tag |-> head[c].tag, pack |-> x.pack, decided |-> c \in decided,
                     label |-> tags[c][head[c].tag].origin]
<1>1. x \in Flight /\ x.key \in RescoreKeys /\ x.pack \in Packs /\ x.heads = head
  BY DEF RescoreCommit, Unchanged, ReviewsTypeOK, RequestsSound
<1>2. ASSUME NEW c \in Claims
      PROVE  /\ head[c] \in HeadRecord /\ tags[c] \in Seq(Tag) /\ decs[c] \in Seq(Decision)
             /\ review[c] \in Review /\ RevisionsFit(head[c], tags[c], decs[c], review[c])
             /\ AttestationsFit(tags[c])
  BY DEF ReviewsTypeOK, ClaimsFit
<1>3. ASSUME NEW c \in Claims
      PROVE  /\ c \in Published => /\ decs'[c] = Append(decs[c], d(c))
                                   /\ head'[c] = [tag |-> head[c].tag, dec |-> head[c].dec + 1]
             /\ c \notin Published => decs'[c] = decs[c] /\ head'[c] = head[c]
  BY <1>1 DEF RescoreCommit, RescoreLabel, Published
<1>4. ASSUME NEW c \in Published
      PROVE  /\ c \in Claims /\ head[c].tag > 0 /\ d(c) \in Decision
             /\ d(c).tag = head[c].tag /\ d(c).label = tags[c][head[c].tag].origin
             /\ d(c).pack = x.pack
  <2>1. c \in Claims /\ head[c].tag > 0
    BY DEF Published
  <2>2. head[c].tag \in Nat /\ tags[c][head[c].tag] \in Tag
    BY <2>1, <1>2 DEF RevisionsFit, HeadRecord
  <2>3. (c \in decided) \in BOOLEAN /\ tags[c][head[c].tag].origin \in Origins
    BY <2>2 DEF Tag
  <2>4. d(c) \in Decision
    BY <2>2, <2>3, <1>1 DEF Decision
  <2>. QED BY <2>1, <2>4
<1>. HIDE DEF x, d
<1>5. ASSUME NEW c \in Claims
      PROVE  /\ head'[c] \in HeadRecord /\ decs'[c] \in Seq(Decision)
             /\ RevisionsFit(head'[c], tags[c], decs'[c], review[c])
  <2>1. CASE c \in Published
    <3>1. RevisionsFit([tag |-> head[c].tag, dec |-> head[c].dec + 1], tags[c],
                       Append(decs[c], d(c)), review[c])
      BY <2>1, <1>2, <1>4, AppendDecision
    <3>2. Append(decs[c], d(c)) \in Seq(Decision)
      BY <2>1, <1>2, <1>4
    <3>3. [tag |-> head[c].tag, dec |-> head[c].dec + 1] \in HeadRecord
      BY <1>2 DEF HeadRecord
    <3>. QED BY <2>1, <3>1, <3>2, <3>3, <1>3
  <2>2. CASE c \notin Published
    BY <2>2, <1>2, <1>3
  <2>. QED BY <2>1, <2>2
<1>6. tags' = tags /\ review' = review /\ artifacts' = artifacts \union {ReceiptOf(x)}
  BY DEF RescoreCommit, x
<1>7. ClaimsFit'
  BY <1>2, <1>5, <1>6 DEF ClaimsFit
<1>8. Published' = Published
  <2>1. ASSUME NEW c \in Claims PROVE head'[c].tag = head[c].tag
    <3>1. CASE c \in Published
      <4>1. head'[c] = [tag |-> head[c].tag, dec |-> head[c].dec + 1]
        BY <3>1, <1>3
      <4>. QED BY <4>1
    <3>2. CASE c \notin Published
      BY <3>2, <1>3
    <3>. QED BY <3>1, <3>2
  <2>. QED BY <2>1 DEF Published
<1>9. NoFlight \in Flight
  BY DEF NoFlight, Flight, NoHead, HeadRecord
<1>10. view' = view /\ flight' = [flight EXCEPT ![f] = NoFlight]
  BY DEF RescoreCommit
<1>11. RequestsSound'
  BY <1>8, <1>10 DEF RequestsSound, ReviewsTypeOK, NoFlight
<1>12. LineageHolds'
  <2>. SUFFICES ASSUME NEW c \in Published
                PROVE  \E a \in artifacts' :
                          /\ a.pack = decs'[c][head'[c].dec].pack
                          /\ a.heads[c] = [tag |-> head'[c].tag, dec |-> head'[c].dec - 1]
    BY <1>8 DEF LineageHolds
  <2>1. c \in Claims /\ d(c) \in Decision /\ d(c).pack = x.pack
    BY <1>4
  <2>2. head[c] \in HeadRecord /\ decs[c] \in Seq(Decision) /\ Len(decs[c]) = head[c].dec
    BY <2>1, <1>2 DEF RevisionsFit
  <2>3. decs'[c] = Append(decs[c], d(c)) /\ head'[c] = [tag |-> head[c].tag, dec |-> head[c].dec + 1]
    BY <2>1, <1>3
  <2>4. decs'[c][head'[c].dec] = d(c)
    BY <2>1, <2>2, <2>3
  <2>5. head[c].dec \in Nat /\ head[c] = [tag |-> head[c].tag, dec |-> head[c].dec]
    BY <2>2 DEF HeadRecord
  <2>6. head[c] = [tag |-> head'[c].tag, dec |-> head'[c].dec - 1]
    BY <2>3, <2>5
  <2>7. ReceiptOf(x).pack = x.pack /\ ReceiptOf(x).heads = head
    BY <1>1 DEF ReceiptOf
  <2>8. ReceiptOf(x) \in artifacts'
    BY <1>6
  <2>. QED BY <2>1, <2>4, <2>6, <2>7, <2>8
<1>13. OneRescorePerKey'
  <2>1. \A a \in artifacts : a.key # ReceiptOf(x).key
    BY DEF RescoreCommit, Replay, ReceiptOf, x
  <2>. QED BY <2>1, <1>6 DEF OneRescorePerKey
<1>14. CountsMatchHeads'
  BY DEF RescoreCommit, Refresh, CountsMatchHeads
<1>15. ReviewsTypeOK'
  <2>1. counted' \in Nat
    BY DecidedType DEF RescoreCommit, Refresh
  <2>2. epoch' \in 0 .. MaxEpoch /\ audited' \in Nat
    BY ReviewsAssumption DEF RescoreCommit, Bump, ReviewsTypeOK
  <2>3. flight' \in [Flights -> Flight]
    BY <1>9, <1>10 DEF ReviewsTypeOK
  <2>4. ReceiptOf(x) \in Artifact
    BY <1>1 DEF ReceiptOf, Artifact, ReviewsTypeOK
  <2>5. artifacts' \subseteq Artifact
    BY <2>4, <1>6 DEF ReviewsTypeOK
  <2>6. DOMAIN decs' = Claims /\ DOMAIN head' = Claims
        /\ decs' = [c \in DOMAIN decs' |-> decs'[c]] /\ head' = [c \in DOMAIN head' |-> head'[c]]
    BY DEF RescoreCommit
  <2>7. decs' \in [Claims -> Seq(Decision)] /\ head' \in [Claims -> HeadRecord]
    BY <2>6, <1>5
  <2>8. UNCHANGED <<stageVars, tags, review, view, pack, active>>
    BY DEF RescoreCommit
  <2>. QED BY <2>1, <2>2, <2>3, <2>5, <2>7, <2>8 DEF ReviewsTypeOK
<1>. QED BY <1>7, <1>11, <1>12, <1>13, <1>14, <1>15

\* Every step, and stuttering.
LEMMA StepKeeps == ReviewsInv /\ [ReviewNext]_reviewVars => ReviewsInv'
<1>. SUFFICES ASSUME ReviewsInv, [ReviewNext]_reviewVars PROVE ReviewsInv'
  OBVIOUS
<1>1. CASE ReviewNext
  BY <1>1, PublishKeeps, ReprocessKeeps, StageKeeps, RequestKeeps, ResolveKeeps, RescoreKeeps,
     ActivateKeeps DEF ReviewNext, StageStep
<1>2. CASE UNCHANGED reviewVars
  <2>1. ClaimsFit' /\ LineageHolds' /\ OneRescorePerKey'
    BY <1>2, RevisionsUntouched DEF reviewVars
  <2>2. ReviewsTypeOK' /\ RequestsSound' /\ CountsMatchHeads'
    BY <1>2 DEF reviewVars, ReviewsInv, ReviewsTypeOK, RequestsSound, Published, CountsMatchHeads
  <2>. QED BY <2>1, <2>2 DEF ReviewsInv
<1>. QED BY <1>1, <1>2

-----------------------------------------------------------------------------
\* The invariant of tag publication, review_store, rescore_store and rulepack_store holds in
\* every reachable state.
THEOREM ReviewsInductive == ReviewSpec => []ReviewsInv
BY InitReviews, StepKeeps, PTL DEF ReviewSpec

\* The records keep the shape the stores give them, and the counts of a run stay natural.
THEOREM ReviewsTypeCorrect == ReviewSpec => []ReviewsTypeOK
<1>1. ReviewsInv => ReviewsTypeOK
  BY DEF ReviewsInv
<1>. QED BY <1>1, ReviewsInductive, PTL

\* resolve and the commit of a rescore lose nothing of one another: the head of a claim names
\* its last revisions, and no review overwrites one its author had not seen.
THEOREM UpdatesAreKept == ReviewSpec => []NoUpdateLost
<1>1. ReviewsInv => HeadsAreLast
  BY DEF ReviewsInv, ClaimsFit, RevisionsFit, HeadsAreLast
<1>2. ReviewsInv => NoReviewLost
  <2>1. ReviewsInv => \A c \in Claims : DOMAIN tags[c] = 1 .. Len(tags[c])
    BY DEF ReviewsInv, ReviewsTypeOK
  <2>. QED BY <2>1 DEF ReviewsInv, ClaimsFit, RevisionsFit, NoReviewLost
<1>3. ReviewsInv => NoUpdateLost
  BY <1>1, <1>2 DEF NoUpdateLost
<1>. QED BY <1>3, ReviewsInductive, PTL

\* _decision_has_valid_lineage accepts the head decision of every claim, and a rescore key has
\* at most one artifact.
THEOREM RescoresTraceable == ReviewSpec => []RescoresAccounted
<1>1. ReviewsInv => RescoresAccounted
  BY DEF ReviewsInv, RescoresAccounted
<1>. QED BY <1>1, ReviewsInductive, PTL

\* A decision of resolve or of a rescore is labelled by who made its tag, and an attestation
\* carried over by resolve names whoever supplied it.
THEOREM AuthorsStayHonest == ReviewSpec => []AuthorsHonest
<1>1. ReviewsInv => LabelsHonest
  <2>1. ReviewsInv => \A c \in Claims : DOMAIN decs[c] = 1 .. Len(decs[c])
    BY DEF ReviewsInv, ReviewsTypeOK
  <2>. QED BY <2>1 DEF ReviewsInv, ClaimsFit, RevisionsFit, LabelsHonest
<1>2. ReviewsInv => AncestryKept
  <2>1. ReviewsInv => \A c \in Claims : DOMAIN tags[c] = 1 .. Len(tags[c])
    BY DEF ReviewsInv, ReviewsTypeOK
  <2>. QED BY <2>1 DEF ReviewsInv, ClaimsFit, AttestationsFit, AncestryKept
<1>3. ReviewsInv => AuthorsHonest
  BY <1>1, <1>2 DEF AuthorsHonest
<1>. QED BY <1>3, ReviewsInductive, PTL

\* Once every tag job has committed, claims_decided counts the decided heads, also those a
\* recovery published without refreshing the counts.
THEOREM CountsStayTrue == ReviewSpec => []CountsMatchHeads
<1>1. ReviewsInv => CountsMatchHeads
  BY DEF ReviewsInv
<1>. QED BY <1>1, ReviewsInductive, PTL

\* A new decision is made under the run's own pack or the one active at that moment.
THEOREM DecisionsFollowPacks == ReviewSpec => DecidedUnderActivePack
<1>. DEFINE New(c) == Len(decs'[c]) > Len(decs[c])
                         => decs'[c][Len(decs'[c])].pack \in {Frozen, active}
<1>1. ASSUME ReviewsInv, ReviewNext, NEW c \in Claims
      PROVE  New(c)
  <2>. DEFINE S == decs[c]
  <2>1. S \in Seq(Decision) /\ Len(S) \in Nat
    BY <1>1 DEF ReviewsInv, ReviewsTypeOK
  <2>2. \A e : Len(Append(S, e)) = Len(S) + 1 /\ Append(S, e)[Len(S) + 1] = e
    BY <2>1
  <2>3. ASSUME NEW y \in Claims, NEW p \in Publications, FirstRevision(y, p)
        PROVE  New(c)
    <3>1. CASE y = c
      BY <2>3, <3>1, <1>1 DEF FirstRevision, ReviewsInv, ReviewsTypeOK
    <3>2. CASE y # c
      <4>1. decs'[c] = S
        BY <2>3, <3>2, <1>1 DEF FirstRevision, ReviewsInv, ReviewsTypeOK
      <4>. QED BY <4>1, <2>1
    <3>. QED BY <3>1, <3>2
  <2>4. ASSUME NEW v \in Reviewers, NEW r \in Resolutions, Resolve(v, r)
        PROVE  New(c)
    <3>. DEFINE e == [tag |-> view[v].base + 1, pack |-> Frozen, decided |-> r.decided,
                      label |-> r.origin]
    <3>1. e.pack = Frozen
      OBVIOUS
    <3>2. decs' = [decs EXCEPT ![view[v].claim] = Append(decs[view[v].claim], e)]
      BY <2>4 DEF Resolve
    <3>. HIDE DEF e
    <3>3. decs'[c] = S \/ decs'[c] = Append(S, e)
      BY <3>2, <1>1 DEF ReviewsInv, ReviewsTypeOK
    <3>. QED BY <3>1, <3>3, <2>1, <2>2
  <2>5. ASSUME NEW f \in Flights, NEW decided \in SUBSET Claims, RescoreCommit(f, decided)
        PROVE  New(c)
    <3>. DEFINE e == [tag |-> flight[f].heads[c].tag, pack |-> flight[f].pack,
                      decided |-> c \in decided,
                      label |-> RescoreLabel(tags[c][flight[f].heads[c].tag])]
    <3>1. e.pack = active
      BY <2>5 DEF RescoreCommit, Target
    <3>2. decs'[c] = S \/ decs'[c] = Append(S, e)
      BY <2>5 DEF RescoreCommit
    <3>. HIDE DEF e
    <3>. QED BY <3>1, <3>2, <2>1, <2>2
  <2>6. ASSUME decs' = decs
        PROVE  New(c)
    BY <2>1, <2>6
  <2>. QED BY <1>1, <2>3, <2>4, <2>5, <2>6
         DEF ReviewNext, AuthorizeTags, ClaimTags, PublishClaim, PublishAgain, CommitTags,
             CommitReprocess, FailTags, CancelRun, RetryRun, Act, Look, Stale, RescoreCapture,
             RescoreEnds, ActivateRulePack
<1>2. ReviewsInv /\ [ReviewNext]_reviewVars => [\A c \in Claims : New(c)]_reviewVars
  BY <1>1
<1>. QED BY <1>2, ReviewsInductive, PTL DEF ReviewSpec, DecidedUnderActivePack

-----------------------------------------------------------------------------
(* Exports *)

\* What the evidence ev of the claims in S was found for is what the run shows.
EvidenceHolds(ev, S) == \A c \in S : ev[c] = head[c].tag

\* A builder whose epoch is that of the run has seen the run as it is.
BuilderSound(w) ==
    /\ w.pc \in {"read", "freeze"} => w.tries < Attempts
    /\ w.pc = "read" => w.epoch <= epoch /\ (w.epoch = epoch => EvidenceHolds(w.evidence, w.read))
    /\ w.pc = "freeze" /\ w.got # None =>
          /\ w.got.epoch <= epoch
          /\ w.got.epoch = epoch => w.got.heads = head /\ EvidenceHolds(w.got.evidence, Claims)
    /\ w.pc = "render" => export.snap # None /\ w.got = export.snap

ExportsInv ==
    /\ ReviewsInv
    /\ ExportsTypeOK
    /\ export.state = "ready" => export.snap # None /\ export.artifact = export.snap
    /\ \A b \in Builders : BuilderSound(builder[b])
    /\ IsFiniteSet(artifacts)

\* The record of builder b after a step that sets it to w.
BuilderSet(b, w) ==
    /\ w \in Builder
    /\ builder' = [builder EXCEPT ![b] = w]

\* Capturing, reading, giving up: a builder's step that leaves the run and the export alone.
LEMMA BuilderStep ==
    ASSUME ExportsInv, UNCHANGED <<reviewVars, export>>, NEW b \in Builders, NEW w,
           BuilderSet(b, w), BuilderSound(w)
    PROVE  ExportsInv'
<1>. USE DEF ExportsInv
<1>1. UNCHANGED <<stageVars, epoch, head, tags, decs, review, counted, view, flight, artifacts, pack,
                  active, audited, export>>
  BY DEF reviewVars
<1>2. ReviewsInv'
  BY StepKeeps
<1>3. builder' \in [Builders -> Builder] /\ export' = export
  BY DEF BuilderSet, ExportsTypeOK, reviewVars
<1>4. ExportsTypeOK'
  BY <1>2, <1>3 DEF ExportsTypeOK, ReviewsInv
<1>5. ASSUME NEW x \in Builders PROVE BuilderSound(builder[x])'
  <2>1. builder'[x] = w \/ builder'[x] = builder[x]
    BY DEF BuilderSet, ExportsTypeOK
  <2>2. BuilderSound(builder'[x])
    BY <2>1
  <2>. QED BY <1>1, <2>2 DEF BuilderSound, EvidenceHolds
<1>. QED BY <1>1, <1>2, <1>3, <1>4, <1>5

\* A builder that has not begun has seen nothing that could be wrong.
LEMMA IdleSound == Idle \in Builder /\ BuilderSound(Idle)
<1>1. Idle \in Builder
  BY ExportsAssumption DEF Idle, Builder
<1>. QED BY <1>1 DEF Idle, BuilderSound

\* The records that the steps of a builder set up.
LEMMA BuilderRecords ==
    ASSUME NEW got \in Snapshot \union {None}, NEW n \in 0 .. Attempts
    PROVE  /\ [Idle EXCEPT !.pc = "look"] \in Builder
           /\ [Idle EXCEPT !.pc = "look", !.tries = n] \in Builder
           /\ [Idle EXCEPT !.pc = "defer", !.code = "busy"] \in Builder
           /\ [Idle EXCEPT !.pc = "defer", !.code = "rejected"] \in Builder
           /\ [Idle EXCEPT !.pc = "render", !.got = got] \in Builder
           /\ [Idle EXCEPT !.pc = "freeze", !.tries = n, !.got = got] \in Builder
           /\ \A e \in Nat : [Idle EXCEPT !.pc = "read", !.tries = n, !.epoch = e] \in Builder
BY IdleSound DEF Builder

\* A builder that begins keeps the invariant.
LEMMA BeginKeeps ==
    ASSUME ExportsInv, NEW b \in Builders, Begin(b) PROVE ExportsInv'
<1>1. [Idle EXCEPT !.pc = "look"] \in Builder
  BY IdleSound DEF Builder
<1>2. [Idle EXCEPT !.pc = "look"].pc = "look"
  BY DEF Idle
<1>. DEFINE w == [Idle EXCEPT !.pc = "look"]
<1>3. BuilderSet(b, w)
  BY <1>1 DEF Begin, BuilderSet
<1>. HIDE DEF w
<1>4. w.pc = "look"
  BY <1>2 DEF w
<1>5. BuilderSound(w)
  BY <1>4 DEF BuilderSound
<1>. QED BY <1>3, <1>5, BuilderStep DEF Begin

\* Looking for a frozen snapshot keeps the invariant.
LEMMA LookKeeps ==
    ASSUME ExportsInv, NEW b \in Builders, LookFrozen(b) PROVE ExportsInv'
<1>. DEFINE w == builder[b]
            busy == [Idle EXCEPT !.pc = "defer", !.code = "busy"]
            ren == [Idle EXCEPT !.pc = "render", !.got = export.snap]
            rd == [Idle EXCEPT !.pc = "read", !.tries = w.tries, !.epoch = epoch]
<1>1. /\ w \in Builder /\ w.tries \in 0 .. Attempts /\ export.snap \in Snapshot \union {None}
      /\ epoch \in Nat
  BY ReviewsAssumption DEF ExportsInv, ExportsTypeOK, ReviewsTypeOK, Builder, Export
<1>2. busy \in Builder /\ ren \in Builder /\ rd \in Builder
  BY <1>1, BuilderRecords
<1>3. /\ busy.pc = "defer" /\ ren.pc = "render" /\ ren.got = export.snap
      /\ rd.pc = "read" /\ rd.tries = w.tries /\ rd.epoch = epoch /\ rd.read = {}
  BY DEF Idle
<1>4. \/ BuilderSet(b, busy)
      \/ BuilderSet(b, ren) /\ export.snap # None
      \/ BuilderSet(b, rd) /\ w.tries < Attempts
  <2>. DEFINE z == CASE w.tries = Attempts -> busy
                    [] w.tries < Attempts /\ export.snap # None -> ren
                    [] OTHER -> rd
  <2>1. builder' = [builder EXCEPT ![b] = z]
    BY DEF LookFrozen
  <2>. HIDE DEF busy, ren, rd
  <2>z. /\ w.tries = Attempts => z = busy
        /\ w.tries < Attempts /\ export.snap # None => z = ren
        /\ w.tries < Attempts /\ export.snap = None => z = rd
    BY <1>1, ExportsAssumption
  <2>. HIDE DEF z
  <2>2. CASE w.tries = Attempts
    <3>1. builder' = [builder EXCEPT ![b] = busy]
      BY <2>1, <2>2, <2>z
    <3>. QED BY <1>2, <3>1 DEF BuilderSet
  <2>3. CASE w.tries < Attempts /\ export.snap # None
    <3>1. builder' = [builder EXCEPT ![b] = ren]
      BY <2>1, <2>3, <2>z
    <3>. QED BY <1>2, <2>3, <3>1 DEF BuilderSet
  <2>4. CASE w.tries < Attempts /\ export.snap = None
    <3>1. builder' = [builder EXCEPT ![b] = rd]
      BY <2>1, <2>4, <2>z
    <3>. QED BY <1>2, <2>4, <3>1 DEF BuilderSet
  <2>. QED BY <1>1, <2>2, <2>3, <2>4, ExportsAssumption
<1>. HIDE DEF busy, ren, rd
<1>5. BuilderSound(busy)
  BY <1>3 DEF BuilderSound
<1>6. export.snap # None => BuilderSound(ren)
  BY <1>3 DEF BuilderSound
<1>7. w.tries < Attempts => BuilderSound(rd)
  BY <1>1, <1>3 DEF BuilderSound, EvidenceHolds
<1>. QED BY <1>4, <1>5, <1>6, <1>7, BuilderStep DEF LookFrozen

\* Reading the evidence of one more claim keeps the invariant.
LEMMA ReadKeeps ==
    ASSUME ExportsInv, NEW b \in Builders, NEW c \in Claims, ReadEvidence(b, c) PROVE ExportsInv'
<1>. DEFINE v == builder[b]
            w == [v EXCEPT !.read = @ \union {c}, !.evidence = [@ EXCEPT ![c] = head[c].tag]]
<1>1. v \in Builder /\ v.pc = "read" /\ head[c].tag \in Nat /\ BuilderSound(v)
      /\ builder \in [Builders -> Builder]
  BY DEF ExportsInv, ExportsTypeOK, ReviewsTypeOK, ReadEvidence, HeadRecord
<1>2. builder' = [builder EXCEPT ![b] = w]
  BY <1>1 DEF ReadEvidence, Builder
<1>3. /\ w.pc = v.pc /\ w.tries = v.tries /\ w.epoch = v.epoch /\ w.got = v.got
      /\ w.read = v.read \union {c} /\ w.evidence = [v.evidence EXCEPT ![c] = head[c].tag]
      /\ w.code = v.code /\ v.evidence \in [Claims -> Nat] /\ v.read \subseteq Claims
  BY <1>1 DEF Builder
<1>4. w \in Builder
  BY <1>1 DEF Builder
<1>. HIDE DEF w
<1>5. \A x \in Claims : w.evidence[x] = IF x = c THEN head[c].tag ELSE v.evidence[x]
  BY <1>3
<1>6. BuilderSound(w)
  BY <1>1, <1>3, <1>5 DEF BuilderSound, EvidenceHolds
<1>7. BuilderSet(b, w)
  BY <1>2, <1>4 DEF BuilderSet
<1>. QED BY <1>6, <1>7, BuilderStep DEF ReadEvidence

\* Capture keeps the invariant.
LEMMA CaptureKeeps ==
    ASSUME ExportsInv, NEW b \in Builders, Capture(b) PROVE ExportsInv'
<1>. DEFINE w == builder[b]
            got == IF SameEpoch(w)
                     THEN [epoch |-> epoch, heads |-> head, evidence |-> w.evidence,
                           sound |-> counted = Decided(head, decs)]
                     ELSE None
            new == [Idle EXCEPT !.pc = "freeze", !.tries = w.tries, !.got = got]
<1>1. /\ w \in Builder /\ w.tries \in 0 .. Attempts /\ w.evidence \in [Claims -> Nat]
      /\ w.pc = "read" /\ w.read = Claims /\ BuilderSound(w)
      /\ epoch \in Nat /\ head \in [Claims -> HeadRecord]
  BY ReviewsAssumption DEF ExportsInv, ExportsTypeOK, ReviewsTypeOK, Builder, Capture
<1>2. got \in Snapshot \union {None}
  BY <1>1 DEF Snapshot
<1>3. got # None => /\ SameEpoch(w) /\ got.epoch = epoch /\ got.heads = head
                    /\ got.evidence = w.evidence
  OBVIOUS
<1>4. builder' = [builder EXCEPT ![b] = new] /\ UNCHANGED <<reviewVars, export>>
  BY DEF Capture
<1>. HIDE DEF got
<1>5. new \in Builder
  BY <1>1, <1>2, BuilderRecords
<1>6. new.pc = "freeze" /\ new.tries = w.tries /\ new.got = got
  BY DEF Idle
<1>. HIDE DEF new
<1>7. SameEpoch(w) => EvidenceHolds(w.evidence, Claims)
  BY <1>1 DEF SameEpoch, BuilderSound
<1>8. BuilderSound(new)
  BY <1>1, <1>3, <1>6, <1>7 DEF BuilderSound
<1>9. BuilderSet(b, new)
  BY <1>4, <1>5 DEF BuilderSet
<1>. QED BY <1>4, <1>8, <1>9, BuilderStep

\* FreezeAgain keeps the invariant.
LEMMA FreezeAgainKeeps ==
    ASSUME ExportsInv, NEW b \in Builders, FreezeAgain(b) PROVE ExportsInv'
<1>. DEFINE w == builder[b]
            new == [Idle EXCEPT !.pc = "look", !.tries = w.tries + 1]
<1>1. w \in Builder /\ w.tries \in 0 .. Attempts /\ w.tries < Attempts
  BY DEF ExportsInv, ExportsTypeOK, Builder, FreezeAgain, BuilderSound
<1>2. w.tries + 1 \in 0 .. Attempts
  BY <1>1, ExportsAssumption
<1>3. new \in Builder
  BY <1>2, BuilderRecords
<1>4. new.pc = "look"
  BY DEF Idle
<1>5. BuilderSet(b, new)
  BY <1>3 DEF FreezeAgain, BuilderSet
<1>. HIDE DEF new
<1>6. BuilderSound(new)
  BY <1>4 DEF BuilderSound
<1>. QED BY <1>5, <1>6, BuilderStep DEF FreezeAgain

\* FreezeRefused keeps the invariant.
LEMMA FreezeRefusedKeeps ==
    ASSUME ExportsInv, NEW b \in Builders, FreezeRefused(b) PROVE ExportsInv'
<1>. DEFINE new == [Idle EXCEPT !.pc = "defer", !.code = "rejected"]
<1>1. new \in Builder
  BY IdleSound DEF Builder
<1>2. new.pc = "defer"
  BY DEF Idle
<1>3. BuilderSet(b, new)
  BY <1>1 DEF FreezeRefused, BuilderSet
<1>. HIDE DEF new
<1>4. BuilderSound(new)
  BY <1>2 DEF BuilderSound
<1>. QED BY <1>3, <1>4, BuilderStep DEF FreezeRefused

\* A builder that is lost keeps the invariant.
LEMMA LostKeeps ==
    ASSUME ExportsInv, NEW b \in Builders, BuilderLost(b) PROVE ExportsInv'
<1>1. BuilderSet(b, Idle)
  BY IdleSound DEF BuilderLost, BuilderSet
<1>. QED BY <1>1, IdleSound, BuilderStep DEF BuilderLost

\* Whatever changes a head moves the epoch of the run on.
LEMMA EpochMoves ==
    ASSUME ReviewsInv, ReviewNext
    PROVE  /\ epoch \in Nat /\ epoch' \in Nat /\ epoch <= epoch'
           /\ epoch' = epoch => head' = head
<1>1. epoch \in Nat
  BY ReviewsAssumption DEF ReviewsInv, ReviewsTypeOK
<1>2. CASE Bump
  BY <1>1, <1>2 DEF Bump
<1>3. CASE UNCHANGED <<epoch, head>>
  BY <1>1, <1>3
<1>. QED BY <1>2, <1>3 DEF ReviewNext, AuthorizeTags, ClaimTags, PublishClaim, PublishAgain,
              CommitTags, CommitReprocess, CommitStage, FailTags, CancelRun, RetryRun, Act, Look,
              Resolve, Stale, RescoreCapture, RescoreCommit, RescoreEnds, ActivateRulePack

\* Every step of a run leaves finitely many rescore artifacts.
LEMMA ArtifactsStayFinite ==
    ASSUME ReviewNext, IsFiniteSet(artifacts) PROVE IsFiniteSet(artifacts')
<1>1. ASSUME NEW f \in Flights, NEW decided \in SUBSET Claims, RescoreCommit(f, decided)
      PROVE  IsFiniteSet(artifacts')
  <2>1. artifacts' = artifacts \union {ReceiptOf(flight[f])}
    BY <1>1 DEF RescoreCommit
  <2>. QED BY <2>1, FS_AddElement
<1>2. CASE UNCHANGED artifacts
  BY <1>2
<1>. QED BY <1>1, <1>2 DEF ReviewNext, AuthorizeTags, ClaimTags, PublishClaim, PublishAgain,
              CommitTags, CommitReprocess, CommitStage, FailTags, CancelRun, RetryRun, Act, Look,
              Resolve, Stale, RescoreCapture, RescoreEnds, ActivateRulePack

\* Reviews and rescores that go on while an export is built.
LEMMA RunKeeps ==
    ASSUME ExportsInv, ReviewNext, UNCHANGED exportVars PROVE ExportsInv'
<1>1. ReviewsInv'
  BY StepKeeps DEF ExportsInv
<1>2. export' = export /\ builder' = builder
  BY DEF exportVars
<1>3. ExportsTypeOK'
  BY <1>1, <1>2 DEF ExportsInv, ExportsTypeOK, ReviewsInv
<1>4. /\ epoch \in Nat /\ epoch' \in Nat /\ epoch <= epoch'
      /\ epoch' = epoch => head' = head
  BY EpochMoves DEF ExportsInv
<1>5. ASSUME NEW b \in Builders PROVE BuilderSound(builder[b])'
  <2>1. BuilderSound(builder[b]) /\ builder[b] \in Builder /\ builder'[b] = builder[b]
    BY <1>2 DEF ExportsInv, ExportsTypeOK
  <2>. DEFINE w == builder[b]
  <2>2. w.epoch \in Nat /\ w.got \in Snapshot \union {None}
    BY <2>1 DEF Builder
  <2>3. w.got # None => w.got.epoch \in Nat
    BY <2>2 DEF Snapshot
  <2>. QED BY <1>2, <1>4, <2>1, <2>2, <2>3 DEF BuilderSound, EvidenceHolds
<1>6. IsFiniteSet(artifacts')
  BY ArtifactsStayFinite DEF ExportsInv
<1>. QED BY <1>1, <1>2, <1>3, <1>5, <1>6 DEF ExportsInv

\* What a step of the export leaves alone.
LEMMA RunUntouched ==
    ASSUME ReviewsInv, audited' \in Nat,
           UNCHANGED <<stageVars, epoch, head, tags, decs, review, counted, view, flight, artifacts,
                       pack, active>>
    PROVE  ReviewsInv'
<1>1. ClaimsFit' /\ LineageHolds' /\ OneRescorePerKey'
  BY RevisionsUntouched
<1>2. ReviewsTypeOK' /\ RequestsSound' /\ CountsMatchHeads'
  BY DEF ReviewsInv, ReviewsTypeOK, RequestsSound, Published, CountsMatchHeads
<1>. QED BY <1>1, <1>2 DEF ReviewsInv

\* Reserve keeps the invariant.
LEMMA ReserveKeeps ==
    ASSUME ExportsInv, NEW allow \in BOOLEAN, Reserve(allow) PROVE ExportsInv'
<1>1. UNCHANGED reviewVars /\ builder' = builder
  BY DEF Reserve
<1>2. ReviewsInv'
  BY <1>1, StepKeeps DEF ExportsInv
<1>3. /\ export' \in Export /\ export'.state = "queued" /\ export'.snap = export.snap
  BY DEF ExportsInv, ExportsTypeOK, Reserve, Export
<1>4. ExportsTypeOK'
  BY <1>1, <1>2, <1>3 DEF ExportsInv, ExportsTypeOK, ReviewsInv
<1>5. \A b \in Builders : BuilderSound(builder[b])'
  BY <1>1, <1>3 DEF ExportsInv, BuilderSound, EvidenceHolds, reviewVars
<1>. QED BY <1>1, <1>2, <1>3, <1>4, <1>5 DEF ExportsInv, reviewVars

\* Freeze keeps the invariant.
LEMMA FreezeKeeps ==
    ASSUME ExportsInv, NEW b \in Builders, Freeze(b) PROVE ExportsInv'
<1>. DEFINE got == builder[b].got
            new == [Idle EXCEPT !.pc = "render", !.got = got]
<1>1. /\ UNCHANGED reviewVars /\ builder' = [builder EXCEPT ![b] = new]
      /\ export.snap = None /\ got # None
      /\ export' = [export EXCEPT !.state = "building", !.snap = got]
  BY DEF Freeze, Freezable
<1>2. ReviewsInv'
  BY <1>1, StepKeeps DEF ExportsInv
<1>3. got \in Snapshot \union {None} /\ builder \in [Builders -> Builder] /\ export \in Export
  BY DEF ExportsInv, ExportsTypeOK, Builder
<1>4. new \in Builder
  BY <1>3, IdleSound DEF Builder
<1>5. new.pc = "render" /\ new.got = got
  BY DEF Idle
<1>. HIDE DEF got
<1>6. export' \in Export /\ export'.state = "building" /\ export'.snap = got
  BY <1>1, <1>3 DEF Export
<1>. HIDE DEF new
<1>7. ExportsTypeOK'
  BY <1>1, <1>2, <1>3, <1>4, <1>6 DEF ExportsTypeOK, ReviewsInv
<1>8. ASSUME NEW x \in Builders PROVE BuilderSound(builder[x])'
  <2>1. CASE x = b
    BY <1>1, <1>3, <1>5, <1>6, <2>1 DEF BuilderSound
  <2>2. CASE x # b
    <3>1. builder'[x] = builder[x] /\ BuilderSound(builder[x])
      BY <1>1, <1>3, <2>2 DEF ExportsInv
    <3>2. builder[x].pc # "render"
      BY <1>1, <3>1 DEF BuilderSound
    <3>. QED BY <1>1, <3>1, <3>2 DEF BuilderSound, EvidenceHolds, reviewVars
  <2>. QED BY <2>1, <2>2
<1>. QED BY <1>1, <1>2, <1>6, <1>7, <1>8 DEF ExportsInv, reviewVars

\* Complete keeps the invariant.
LEMMA CompleteKeeps ==
    ASSUME ExportsInv, NEW b \in Builders, Complete(b) PROVE ExportsInv'
<1>. DEFINE got == builder[b].got
<1>1. /\ UNCHANGED <<stageVars, epoch, head, tags, decs, review, counted, view, flight, artifacts,
                     pack, active>>
      /\ builder' = [builder EXCEPT ![b] = Idle]
  BY DEF Complete
<1>2. audited' \in Nat
  BY DEF Complete, ExportsInv, ReviewsInv, ReviewsTypeOK
<1>3. ReviewsInv'
  BY <1>1, <1>2, RunUntouched DEF ExportsInv
<1>4. /\ got \in Snapshot \union {None} /\ builder \in [Builders -> Builder] /\ export \in Export
      /\ export.snap # None /\ got = export.snap
  BY DEF ExportsInv, ExportsTypeOK, Builder, Complete, BuilderSound
<1>5. \/ export' = export /\ export.state = "ready"
      \/ export' = [export EXCEPT !.state = "ready", !.artifact = got]
  BY DEF Complete
<1>. HIDE DEF got
<1>6. /\ export' \in Export /\ export'.state = "ready" /\ export'.snap = export.snap
      /\ export'.artifact = export'.snap
  BY <1>4, <1>5 DEF Export, ExportsInv
<1>7. ExportsTypeOK'
  BY <1>1, <1>3, <1>4, <1>6, IdleSound DEF ExportsTypeOK, ReviewsInv
<1>8. ASSUME NEW x \in Builders PROVE BuilderSound(builder[x])'
  <2>1. builder'[x] = Idle \/ builder'[x] = builder[x]
    BY <1>1, <1>4
  <2>2. BuilderSound(builder'[x])
    BY <2>1, IdleSound DEF ExportsInv
  <2>. QED BY <1>1, <1>6, <2>2 DEF BuilderSound, EvidenceHolds
<1>. QED BY <1>1, <1>3, <1>4, <1>6, <1>7, <1>8 DEF ExportsInv

\* Defer keeps the invariant.
LEMMA DeferKeeps ==
    ASSUME ExportsInv, NEW b \in Builders, Defer(b) PROVE ExportsInv'
<1>1. UNCHANGED reviewVars /\ builder' = [builder EXCEPT ![b] = Idle]
  BY DEF Defer
<1>2. ReviewsInv'
  BY <1>1, StepKeeps DEF ExportsInv
<1>3. builder \in [Builders -> Builder] /\ export \in Export
  BY DEF ExportsInv, ExportsTypeOK
<1>4. \/ export' = export
      \/ export' = [export EXCEPT !.state = "queued"]
      \/ export' = [export EXCEPT !.state = "failed"]
  BY DEF Defer
<1>5. /\ export' \in Export /\ export'.snap = export.snap
      /\ export' = export \/ export'.state \in {"queued", "failed"}
  BY <1>3, <1>4 DEF Export
<1>6. ExportsTypeOK'
  BY <1>1, <1>2, <1>3, <1>5, IdleSound DEF ExportsTypeOK, ReviewsInv
<1>7. ASSUME NEW x \in Builders PROVE BuilderSound(builder[x])'
  <2>1. builder'[x] = Idle \/ builder'[x] = builder[x]
    BY <1>1, <1>3
  <2>2. BuilderSound(builder'[x])
    BY <2>1, IdleSound DEF ExportsInv
  <2>. QED BY <1>1, <1>5, <2>2 DEF BuilderSound, EvidenceHolds, reviewVars
<1>. QED BY <1>1, <1>2, <1>5, <1>6, <1>7 DEF ExportsInv, reviewVars

\* Every step keeps the invariant of the exports.
LEMMA ExportsStep == ExportsInv /\ [Next]_vars => ExportsInv'
<1>. SUFFICES ASSUME ExportsInv, [Next]_vars PROVE ExportsInv'
  OBVIOUS
<1>1. CASE Next
  BY <1>1, RunKeeps, ReserveKeeps, BeginKeeps, LookKeeps, CaptureKeeps, FreezeKeeps,
     FreezeAgainKeeps, FreezeRefusedKeeps, CompleteKeeps, DeferKeeps, LostKeeps, ReadKeeps
     DEF Next
<1>2. CASE UNCHANGED vars
  <2>1. UNCHANGED reviewVars /\ export' = export /\ builder' = builder
    BY <1>2 DEF vars, exportVars
  <2>2. ReviewsInv'
    BY <2>1, StepKeeps DEF ExportsInv
  <2>. QED BY <2>1, <2>2 DEF ExportsInv, ExportsTypeOK, ReviewsInv, BuilderSound, EvidenceHolds,
                             reviewVars
<1>. QED BY <1>1, <1>2

\* The invariant holds before the first export.
LEMMA ExportsInit == Init => ExportsInv
<1>. SUFFICES ASSUME Init PROVE ExportsInv
  OBVIOUS
<1>1. ReviewsInv
  BY InitReviews DEF Init
<1>2. export \in Export /\ export.state = "none"
  BY DEF Init, NoExport, Export
<1>3. builder \in [Builders -> Builder] /\ \A b \in Builders : BuilderSound(builder[b])
  BY IdleSound DEF Init
<1>4. IsFiniteSet(artifacts)
  BY FS_EmptySet DEF Init, ReviewInit
<1>. QED BY <1>1, <1>2, <1>3, <1>4 DEF ExportsInv, ExportsTypeOK, ReviewsInv

\* The invariant of export_store beside the run it exports holds in every reachable state.
THEOREM ExportsInductive == Spec => []ExportsInv
BY ExportsInit, ExportsStep, PTL DEF Spec

\* freeze, complete and defer: what a reader downloads is the snapshot that was frozen.
THEOREM ExportsAreSound == Spec => []ExportsSound
<1>1. ExportsInv => ExportsSound
  BY DEF ExportsInv, ExportsSound, ReadyIsFrozen, BuilderSound
<1>. QED BY <1>1, ExportsInductive, PTL

\* capture and freeze: an export is the run at the moment it is frozen, and stays so.
THEOREM ExportsAreFrozen == Spec => FrozenForGood
<1>. DEFINE Present == export'.snap # export.snap =>
                          /\ export.snap = None
                          /\ export'.snap.heads = head
                          /\ \A c \in Claims : export'.snap.evidence[c] = head[c].tag
            Stays == export.state = "ready" => export' = export
<1>1. ASSUME ExportsInv, Next PROVE Present /\ Stays
  <2>0. export \in Export
    BY <1>1 DEF ExportsInv, ExportsTypeOK
  <2>1. CASE UNCHANGED export
    BY <2>1
  <2>2. ASSUME NEW allow \in BOOLEAN, Reserve(allow) PROVE Present /\ Stays
    BY <2>0, <2>2 DEF Reserve, Export
  <2>3. ASSUME NEW b \in Builders, Freeze(b) PROVE Present /\ Stays
    <3>1. export.state # "ready" /\ export.snap = None
      BY <1>1, <2>3 DEF Freeze, Freezable, ExportsInv
    <3>2. export'.snap = builder[b].got
      BY <2>0, <2>3 DEF Freeze, Export
    <3>3. builder[b].got.heads = head /\ EvidenceHolds(builder[b].got.evidence, Claims)
      BY <1>1, <2>3 DEF Freeze, Freezable, ExportsInv, BuilderSound
    <3>. QED BY <3>1, <3>2, <3>3 DEF EvidenceHolds
  <2>4. ASSUME NEW b \in Builders, Complete(b) PROVE Present /\ Stays
    BY <2>0, <2>4 DEF Complete, Export
  <2>5. ASSUME NEW b \in Builders, Defer(b) PROVE Present /\ Stays
    BY <2>0, <2>5 DEF Defer, Deferrable, Export
  <2>. QED BY <1>1, <2>1, <2>2, <2>3, <2>4, <2>5
              DEF Next, exportVars, Begin, LookFrozen, ReadEvidence, Capture, FreezeAgain,
                  FreezeRefused, BuilderLost
<1>2. ExportsInv /\ [Next]_vars => [Present]_vars /\ [Stays]_vars
  BY <1>1
<1>. QED BY <1>2, ExportsInductive, PTL DEF Spec, FrozenForGood, FreezesPresent, ReadyForGood

-----------------------------------------------------------------------------
(* The audit chain *)

\* The number of revisions in ts of all claims.
Revisions(ts) == Total([c \in Claims |-> Len(ts[c])], Claims)

\* One more revision of one claim is one more in all.
LEMMA OneMoreRevision ==
    ASSUME NEW ts \in [Claims -> Seq(Tag)], NEW us \in [Claims -> Seq(Tag)], NEW c \in Claims,
           \A x \in Claims : x # c => us[x] = ts[x],
           Len(us[c]) = Len(ts[c]) + 1
    PROVE  Revisions(us) = Revisions(ts) + 1
<1>. DEFINE f == [x \in Claims |-> Len(ts[x])]
            g == [x \in Claims |-> Len(us[x])]
<1>1. \A x \in Claims : f[x] \in Int /\ g[x] \in Int
  OBVIOUS
<1>2. \A x \in Claims : x # c => f[x] = g[x]
  OBVIOUS
<1>3. g[c] = f[c] + 1 /\ f[c] \in Int
  OBVIOUS
<1>4. IsFiniteSet(Claims) /\ Revisions(ts) = Total(f, Claims) /\ Revisions(us) = Total(g, Claims)
  BY ReviewsAssumption DEF Revisions
<1>. HIDE DEF f, g
<1>5. Total(f, Claims) \in Int
  BY <1>1, <1>4, TotalElement
<1>6. Total(g, Claims) = Total(f, Claims) - f[c] + g[c]
  BY <1>1, <1>2, <1>4, TotalUpdate
<1>. QED BY <1>3, <1>4, <1>5, <1>6

\* The number of revisions is an integer.
LEMMA RevisionsType == ASSUME NEW ts \in [Claims -> Seq(Tag)] PROVE Revisions(ts) \in Int
<1>. DEFINE f == [x \in Claims |-> Len(ts[x])]
<1>1. \A x \in Claims : f[x] \in Int
  OBVIOUS
<1>2. IsFiniteSet(Claims) /\ Revisions(ts) = Total(f, Claims)
  BY ReviewsAssumption DEF Revisions
<1>. HIDE DEF f
<1>. QED BY <1>1, <1>2, TotalElement

\* The tag jobs among js that have committed.
Succeeded(js) == {j \in TagJobs : js[j].status = "succeeded"}

\* What the audit chain should hold when ts are the revisions, as the rescores, js the tag
\* jobs, ac the operator actions and st is the state of the export.
Events(ts, as, js, ac, st) ==
    Revisions(ts) + Cardinality(as) + Cardinality(Succeeded(js)) + ac
    + (IF st = "ready" THEN 1 ELSE 0)

\* The number of committed jobs is a number, and a job that was leased and commits is one more.
LEMMA OneMoreCommit ==
    ASSUME NEW js \in [TagJobs -> TagJob]
    PROVE  /\ Cardinality(Succeeded(js)) \in Int
           /\ \A j \in TagJobs :
                 js[j].status = "leased" =>
                    Cardinality(Succeeded([js EXCEPT ![j].status = "succeeded"]))
                       = Cardinality(Succeeded(js)) + 1
<1>1. \A T \in SUBSET TagJobs : IsFiniteSet(T) /\ Cardinality(T) \in Int
  BY ReviewsAssumption, FS_Subset, FS_CardinalityType
<1>2. IsFiniteSet(Succeeded(js)) /\ Cardinality(Succeeded(js)) \in Int
  BY <1>1 DEF Succeeded
<1>3. ASSUME NEW j \in TagJobs, js[j].status = "leased"
      PROVE  Cardinality(Succeeded([js EXCEPT ![j].status = "succeeded"]))
                = Cardinality(Succeeded(js)) + 1
  <2>1. Succeeded([js EXCEPT ![j].status = "succeeded"]) = Succeeded(js) \union {j}
    BY <1>3 DEF Succeeded, TagJob
  <2>2. j \notin Succeeded(js)
    BY <1>3 DEF Succeeded
  <2>. QED BY <1>2, <2>1, <2>2, FS_AddElement
<1>. QED BY <1>2, <1>3

\* A step of tag jobs or operators tells of the job it commits or of the action it takes.
LEMMA StageTells ==
    ASSUME ExportsInv, StageStep, audited = Events(tags, artifacts, tagJob, actions, export.state)
    PROVE  audited' = Events(tags', artifacts', tagJob', actions', export.state)
<1>0. /\ tagJob \in [TagJobs -> TagJob] /\ actions \in Nat /\ audited \in Nat
      /\ tags \in [Claims -> Seq(Tag)] /\ IsFiniteSet(artifacts)
  BY DEF ExportsInv, ReviewsInv, ReviewsTypeOK
<1>1. Cardinality(artifacts) \in Int /\ Revisions(tags) \in Int
      /\ Cardinality(Succeeded(tagJob)) \in Int
  BY <1>0, FS_CardinalityType, RevisionsType, OneMoreCommit
<1>2. UNCHANGED <<tags, artifacts>>
  BY StageShape DEF ExportsInv
<1>3. ASSUME NEW j \in TagJobs, CommitTags(j)
      PROVE  audited' = Events(tags', artifacts', tagJob', actions', export.state)
  <2>1. /\ tagJob[j].status = "leased" /\ tagJob' = [tagJob EXCEPT ![j].status = "succeeded"]
        /\ audited' = audited + 1 /\ actions' = actions
    BY <1>3 DEF CommitTags, CommitStage
  <2>2. Cardinality(Succeeded(tagJob')) = Cardinality(Succeeded(tagJob)) + 1
    BY <1>0, <2>1, OneMoreCommit
  <2>. QED BY <1>0, <1>1, <1>2, <2>1, <2>2 DEF Events
<1>4. ASSUME Succeeded(tagJob') = Succeeded(tagJob), UNCHANGED <<actions, audited>>
      PROVE  audited' = Events(tags', artifacts', tagJob', actions', export.state)
  BY <1>2, <1>4 DEF Events
<1>5. ASSUME NEW j \in TagJobs, NEW cs \in SUBSET Claims, AuthorizeTags(j, cs)
      PROVE  audited' = Events(tags', artifacts', tagJob', actions', export.state)
  <2>1. Succeeded(tagJob') = Succeeded(tagJob)
    BY <1>0, <1>5 DEF AuthorizeTags, Succeeded, TagJob
  <2>. QED BY <1>4, <1>5, <2>1 DEF AuthorizeTags
<1>6. ASSUME NEW j \in TagJobs, ClaimTags(j)
      PROVE  audited' = Events(tags', artifacts', tagJob', actions', export.state)
  <2>1. Succeeded(tagJob') = Succeeded(tagJob)
    BY <1>0, <1>6 DEF ClaimTags, OpenJobs, Succeeded, TagJob
  <2>. QED BY <1>4, <1>6, <2>1 DEF ClaimTags
<1>7. ASSUME NEW j \in TagJobs, NEW c \in Claims, PublishAgain(j, c)
      PROVE  audited' = Events(tags', artifacts', tagJob', actions', export.state)
  BY <1>4, <1>7 DEF PublishAgain
<1>8. ASSUME NEW j \in TagJobs, NEW retry \in BOOLEAN, FailTags(j, retry)
      PROVE  audited' = Events(tags', artifacts', tagJob', actions', export.state)
  <2>1. Succeeded(tagJob') = Succeeded(tagJob)
    BY <1>0, <1>8 DEF FailTags, Succeeded, TagJob
  <2>. QED BY <1>4, <1>8, <2>1 DEF FailTags
<1>9. ASSUME NEW from, NEW to \in {"pending", "cancelled"}, "succeeded" \notin from, Act(from, to)
      PROVE  audited' = Events(tags', artifacts', tagJob', actions', export.state)
  <2>1. Succeeded(tagJob') = Succeeded(tagJob)
    BY <1>0, <1>9 DEF Act, Succeeded, TagJob
  <2>. QED BY <1>0, <1>1, <1>2, <1>9, <2>1 DEF Act, Events
<1>10. CASE CancelRun
  BY <1>9, <1>10 DEF CancelRun
<1>11. CASE RetryRun
  BY <1>9, <1>11 DEF RetryRun
<1>. QED BY <1>3, <1>5, <1>6, <1>7, <1>8, <1>10, <1>11 DEF StageStep

\* Each transaction of the run appends the event of what it changes.
LEMMA RunTells ==
    ASSUME ExportsInv, ReviewNext, audited = Events(tags, artifacts, tagJob, actions, export.state)
    PROVE  audited' = Events(tags', artifacts', tagJob', actions', export.state)
<1>. DEFINE Goal == audited' = Events(tags', artifacts', tagJob', actions', export.state)
<1>1. /\ tags \in [Claims -> Seq(Tag)] /\ audited \in Nat /\ tagJob \in [TagJobs -> TagJob]
      /\ IsFiniteSet(artifacts) /\ actions \in Nat
  BY DEF ExportsInv, ReviewsInv, ReviewsTypeOK
<1>2. tags' \in [Claims -> Seq(Tag)]
  BY StepKeeps DEF ExportsInv, ReviewsInv, ReviewsTypeOK
<1>3. Cardinality(artifacts) \in Int /\ Revisions(tags) \in Int
      /\ Cardinality(Succeeded(tagJob)) \in Int
  BY <1>1, FS_CardinalityType, RevisionsType, OneMoreCommit
<1>4. ASSUME NEW c \in Claims, \A x \in Claims : x # c => tags'[x] = tags[x],
             Len(tags'[c]) = Len(tags[c]) + 1
      PROVE  Revisions(tags') = Revisions(tags) + 1
  BY <1>1, <1>2, <1>4, OneMoreRevision
<1>5. ASSUME NEW c \in Claims, NEW p \in Publications, FirstRevision(c, p)
      PROVE  Revisions(tags') = Revisions(tags) + 1
  <2>. DEFINE t == [origin |-> "consensus", confirmed |-> p.confirmed, seen |-> 0,
                    attest |-> None]
  <2>1. head[c].tag = Len(tags[c]) /\ head[c] = NoHead
    BY <1>5 DEF FirstRevision, ExportsInv, ReviewsInv, ClaimsFit, RevisionsFit
  <2>2. Len(tags[c]) = 0
    BY <2>1 DEF NoHead
  <2>3. tags' = [tags EXCEPT ![c] = <<t>>]
    BY <1>5 DEF FirstRevision
  <2>. HIDE DEF t
  <2>4. Len(tags'[c]) = 1 /\ \A x \in Claims : x # c => tags'[x] = tags[x]
    BY <1>1, <2>3
  <2>5. Len(tags'[c]) = Len(tags[c]) + 1
    BY <2>2, <2>4
  <2>. QED BY <1>4, <2>4, <2>5
<1>6. ASSUME NEW j \in TagJobs, NEW c \in Claims, NEW p \in Publications, PublishClaim(j, c, p)
      PROVE  Goal
  <2>1. /\ FirstRevision(c, p) /\ audited' = audited + 1
        /\ UNCHANGED <<artifacts, tagJob, actions>>
    BY <1>6 DEF PublishClaim
  <2>2. Revisions(tags') = Revisions(tags) + 1
    BY <1>5, <2>1
  <2>. QED BY <1>1, <1>3, <2>1, <2>2 DEF Events
<1>7. ASSUME NEW j \in TagJobs, NEW c \in Claims, NEW p \in Publications, CommitReprocess(j, c, p)
      PROVE  Goal
  <2>1. /\ FirstRevision(c, p) /\ audited' = audited + 2 /\ UNCHANGED <<artifacts, actions>>
        /\ tagJob[j].status = "leased" /\ tagJob' = [tagJob EXCEPT ![j].status = "succeeded"]
    BY <1>7 DEF CommitReprocess, CommitStage
  <2>2. Revisions(tags') = Revisions(tags) + 1
    BY <1>5, <2>1
  <2>3. Cardinality(Succeeded(tagJob')) = Cardinality(Succeeded(tagJob)) + 1
    BY <1>1, <2>1, OneMoreCommit
  <2>. QED BY <1>1, <1>3, <2>1, <2>2, <2>3 DEF Events
<1>8. ASSUME NEW v \in Reviewers, NEW r \in Resolutions, Resolve(v, r)
      PROVE  Goal
  <2>. DEFINE c == view[v].claim
              t == [origin |-> r.origin, confirmed |-> TRUE, seen |-> view[v].base,
                    attest |-> Receipt(view[v], r.attest, tags[c][head[c].tag])]
  <2>1. c \in Claims
    BY <1>8 DEF Resolve, ExportsInv, ReviewsInv, RequestsSound, Published
  <2>2. /\ tags' = [tags EXCEPT ![c] = Append(tags[c], t)] /\ audited' = audited + 1
        /\ UNCHANGED <<artifacts, tagJob, actions>>
    BY <1>8 DEF Resolve
  <2>. HIDE DEF t, c
  <2>3. tags'[c] = Append(tags[c], t) /\ \A x \in Claims : x # c => tags'[x] = tags[x]
    BY <1>1, <2>1, <2>2
  <2>4. tags[c] \in Seq(Tag)
    BY <1>1, <2>1
  <2>5. Len(tags'[c]) = Len(tags[c]) + 1
    BY <2>3, <2>4
  <2>6. Revisions(tags') = Revisions(tags) + 1
    BY <1>4, <2>1, <2>3, <2>5
  <2>. QED BY <1>1, <1>3, <2>2, <2>6 DEF Events
<1>9. ASSUME NEW f \in Flights, NEW decided \in SUBSET Claims, RescoreCommit(f, decided)
      PROVE  Goal
  <2>. DEFINE a == ReceiptOf(flight[f])
  <2>1. /\ artifacts' = artifacts \union {a} /\ audited' = audited + 1
        /\ UNCHANGED <<tags, tagJob, actions>> /\ ~Replay(flight[f].key)
    BY <1>9 DEF RescoreCommit
  <2>2. a \notin artifacts
    BY <2>1 DEF Replay, ReceiptOf
  <2>3. Cardinality(artifacts') = Cardinality(artifacts) + 1
    BY <1>1, <2>1, <2>2, FS_AddElement
  <2>. QED BY <1>1, <1>3, <2>1, <2>3 DEF Events
<1>10. ASSUME UNCHANGED <<tags, artifacts, tagJob, actions, audited>>
       PROVE  Goal
  BY <1>10
<1>11. ASSUME StageStep PROVE Goal
  BY <1>11, StageTells
<1>. HIDE DEF Goal
<1>12. Goal
  BY <1>6, <1>7, <1>8, <1>9, <1>10, <1>11 DEF ReviewNext, StageStep, Look, Stale,
     RescoreCapture, RescoreEnds, ActivateRulePack
<1>. QED BY <1>12 DEF Goal

\* The export appends its event when it becomes ready, and only then.
LEMMA ExportTells ==
    ASSUME ExportsInv, Next, ~(ReviewNext /\ UNCHANGED exportVars)
    PROVE  /\ UNCHANGED <<tags, artifacts, tagJob, actions>>
           /\ \/ audited' = audited /\ (export'.state = "ready" <=> export.state = "ready")
              \/ audited' = audited + 1 /\ export'.state = "ready" /\ export.state # "ready"
<1>0. export \in Export
  BY DEF ExportsInv, ExportsTypeOK
<1>. DEFINE Goal ==
           /\ UNCHANGED <<tags, artifacts, tagJob, actions>>
           /\ \/ audited' = audited /\ (export'.state = "ready" <=> export.state = "ready")
              \/ audited' = audited + 1 /\ export'.state = "ready" /\ export.state # "ready"
<1>1. ASSUME NEW allow \in BOOLEAN, Reserve(allow) PROVE Goal
  BY <1>0, <1>1 DEF Reserve, Export, reviewVars
<1>2. ASSUME NEW b \in Builders, Freeze(b) PROVE Goal
  <2>1. export.state # "ready"
    BY <1>2 DEF Freeze, Freezable, ExportsInv
  <2>. QED BY <1>0, <1>2, <2>1 DEF Freeze, Export, reviewVars
<1>3. ASSUME NEW b \in Builders, Complete(b) PROVE Goal
  BY <1>0, <1>3 DEF Complete, Export
<1>4. ASSUME NEW b \in Builders, Defer(b) PROVE Goal
  BY <1>0, <1>4 DEF Defer, Deferrable, Export, reviewVars
<1>5. ASSUME UNCHANGED <<reviewVars, export>> PROVE Goal
  BY <1>5 DEF reviewVars
<1>. QED BY <1>1, <1>2, <1>3, <1>4, <1>5
       DEF Next, Begin, LookFrozen, ReadEvidence, Capture, FreezeAgain, FreezeRefused,
           BuilderLost

\* The audit events of publish_transaction, resolve, commit, commit_job, _action and complete: each mutation of the
\* run is told once, also when the request that made it is sent again.
THEOREM AuditIsComplete == Spec => []AuditTellsAll
<1>1. AuditTellsAll <=> audited = Events(tags, artifacts, tagJob, actions, export.state)
  BY DEF AuditTellsAll, Events, Revisions, Succeeded
<1>2. AuditTellsAll' <=> audited' = Events(tags', artifacts', tagJob', actions', export'.state)
  BY DEF AuditTellsAll, Events, Revisions, Succeeded
<1>3. Init => AuditTellsAll
  <2>. SUFFICES ASSUME Init PROVE audited = Events(tags, artifacts, tagJob, actions, export.state)
    BY <1>1
  <2>. DEFINE f == [c \in Claims |-> Len(tags[c])]
  <2>1. \A c \in Claims : f[c] = 0
    BY DEF Init, ReviewInit
  <2>2. Revisions(tags) = Total(f, Claims) /\ IsFiniteSet(Claims)
    BY ReviewsAssumption DEF Revisions
  <2>. HIDE DEF f
  <2>3. Revisions(tags) = 0
    BY <2>1, <2>2, TotalZero
  <2>4. Cardinality(artifacts) = 0
    BY FS_EmptySet DEF Init, ReviewInit
  <2>5. Succeeded(tagJob) = {}
    BY DEF Init, ReviewInit, Succeeded
  <2>6. Cardinality(Succeeded(tagJob)) = 0
    BY <2>5, FS_EmptySet
  <2>. QED BY <2>3, <2>4, <2>6 DEF Init, ReviewInit, NoExport, Events
<1>4. ExportsInv /\ AuditTellsAll /\ [Next]_vars => AuditTellsAll'
  <2>. SUFFICES ASSUME ExportsInv, AuditTellsAll, [Next]_vars
                PROVE  audited' = Events(tags', artifacts', tagJob', actions', export'.state)
    BY <1>2
  <2>1. CASE ReviewNext /\ UNCHANGED exportVars
    <3>1. export' = export
      BY <2>1 DEF exportVars
    <3>. QED BY <1>1, <2>1, <3>1, RunTells
  <2>2. CASE Next /\ ~(ReviewNext /\ UNCHANGED exportVars)
    <3>1. /\ UNCHANGED <<tags, artifacts, tagJob, actions>>
          /\ \/ audited' = audited /\ (export'.state = "ready" <=> export.state = "ready")
             \/ audited' = audited + 1 /\ export'.state = "ready" /\ export.state # "ready"
      BY <2>2, ExportTells
    <3>2. /\ tags \in [Claims -> Seq(Tag)] /\ IsFiniteSet(artifacts) /\ actions \in Nat
          /\ tagJob \in [TagJobs -> TagJob]
      BY DEF ExportsInv, ReviewsInv, ReviewsTypeOK
    <3>3. Cardinality(artifacts) \in Int /\ Revisions(tags) \in Int
          /\ Cardinality(Succeeded(tagJob)) \in Int
      BY <3>2, FS_CardinalityType, RevisionsType, OneMoreCommit
    <3>. QED BY <1>1, <3>1, <3>2, <3>3 DEF Events
  <2>3. CASE UNCHANGED vars
    BY <1>1, <2>3 DEF vars, reviewVars, exportVars
  <2>. QED BY <2>1, <2>2, <2>3
<1>. QED BY <1>3, <1>4, ExportsInductive, PTL DEF Spec
=============================================================================
