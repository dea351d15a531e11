--------------------------- MODULE UploadsProofs ---------------------------
(***************************************************************************)
(* Proofs about Uploads, for any number of documents, uploads and threads. *)
(*                                                                         *)
(* What is published is not inductive by itself: a thread that promoted a  *)
(* file must still find it in place when it commits, and the audit must    *)
(* name only versions, each once.                                          *)
(***************************************************************************)
EXTENDS Uploads, TLAPS

\* An upload belongs to a document and to a key from its first transaction on.
UploadsOwned ==
    \A u \in UploadIds :
        IF upload[u].status = "none"
          THEN upload[u] = NoUpload
          ELSE upload[u].doc \in Docs /\ upload[u].key \in Keys

\* What a request in progress may rely on.
RunnersSound ==
    \A r \in Runners :
        /\ runner[r].pc = "initiate" => runner[r].doc \in Docs /\ runner[r].key \in Keys
        /\ runner[r].pc \in {"start", "verify", "promoted", "refused"} =>
              /\ runner[r].up \in UploadIds
              /\ upload[runner[r].up].status # "none"
        /\ runner[r].pc = "promoted" => runner[r].up \in original

\* The verdict of an upload and what was published for it.
VerdictsKept ==
    \A u \in UploadIds :
        /\ u \in version <=> upload[u].status = "accepted"
        /\ u \in version => u \in original /\ upload[u].job = "ready"
        /\ upload[u].status = "rejected" => upload[u].job = "failed"

\* A document that does not exist has nothing.
FreshDocs == \A d \in Docs : ~doc[d].live => doc[d].latest = None /\ ~Deleted(d)

Accepted(u) == [action |-> "accepted", up |-> u]

\* The audit names versions only, each once, and all of them.
AuditOnce ==
    /\ \A d \in Docs : \A i \in DOMAIN audit[d] :
          audit[d][i].action = "accepted" => audit[d][i].up \in VersionsOf(d)
    /\ \A d \in Docs : \A i, j \in DOMAIN audit[d] :
          /\ audit[d][i].action = "accepted"
          /\ audit[d][j] = audit[d][i]
          => i = j
    /\ \A u \in version : \E i \in DOMAIN audit[upload[u].doc] :
          audit[upload[u].doc][i] = Accepted(u)

UploadsInv ==
    /\ UploadsTypeOK
    /\ UploadsOwned
    /\ RunnersSound
    /\ VerdictsKept
    /\ FreshDocs
    /\ AuditOnce
    /\ LatestIsNewest
    /\ ManifestIsComplete
    /\ OneUploadPerKey

-----------------------------------------------------------------------------
(* Steps that publish nothing *)

\* The records of uploads that a step may touch without touching what is published.
SameUploads ==
    \A u \in UploadIds : /\ upload'[u].doc = upload[u].doc
                         /\ upload'[u].key = upload[u].key
                         /\ upload'[u].created = upload[u].created

\* A step that leaves the versions and their documents alone keeps what is said of them.
LEMMA SameVersions ==
    ASSUME UploadsInv, version' = version,
           \A u \in version : /\ upload'[u].doc = upload[u].doc
                              /\ upload'[u].created = upload[u].created
    PROVE  /\ \A d \in Docs : VersionsOf(d)' = VersionsOf(d)
           /\ (\A d \in Docs : doc'[d].latest = doc[d].latest) => LatestIsNewest'
           /\ tombstone' = tombstone => ManifestIsComplete'
  <1>1. \A d \in Docs : VersionsOf(d)' = VersionsOf(d)
    BY DEF VersionsOf
  <1>2. ASSUME \A d \in Docs : doc'[d].latest = doc[d].latest
        PROVE  LatestIsNewest'
    <2>1. ASSUME NEW d \in Docs, NEW u \in VersionsOf(d)
          PROVE  upload'[u].created = upload[u].created
      BY DEF VersionsOf
    <2> QED
      BY <1>1, <1>2, <2>1 DEF UploadsInv, LatestIsNewest
  <1>3. tombstone' = tombstone => ManifestIsComplete'
    BY <1>1 DEF UploadsInv, ManifestIsComplete, Deleted
  <1> QED
    BY <1>1, <1>2, <1>3

\* An append adds one event at the end of one chain.
LEMMA Appended ==
    ASSUME UploadsTypeOK, NEW d \in Docs, NEW e \in Event,
           audit' = Append1(d, e.action, e.up)
    PROVE  /\ audit' \in [Docs -> Seq(Event)]
           /\ \A c \in Docs : c # d => audit'[c] = audit[c]
           /\ DOMAIN audit'[d] = 1 .. Len(audit[d]) + 1
           /\ DOMAIN audit[d] = 1 .. Len(audit[d])
           /\ Len(audit[d]) \in Nat
           /\ \A i \in DOMAIN audit[d] : audit'[d][i] = audit[d][i]
           /\ audit'[d][Len(audit[d]) + 1] = e
  <1>1. audit[d] \in Seq(Event)
    BY DEF UploadsTypeOK
  <1>2. e = [action |-> e.action, up |-> e.up]
    BY DEF Event
  <1>3. audit' = [audit EXCEPT ![d] = Append(audit[d], e)]
    BY <1>2 DEF Append1
  <1>4. audit'[d] = Append(audit[d], e) /\ \A c \in Docs : c # d => audit'[c] = audit[c]
    BY <1>3 DEF UploadsTypeOK
  <1> QED
    BY <1>1, <1>3, <1>4 DEF UploadsTypeOK

\* An entry about something else leaves the audit of versions as it was.
LEMMA AuditOther ==
    ASSUME UploadsInv, NEW d \in Docs, NEW e \in Event, e.action # "accepted",
           audit' = Append1(d, e.action, e.up), version' = version,
           \A u \in version : upload'[u].doc = upload[u].doc,
           \A c \in Docs : VersionsOf(c)' = VersionsOf(c)
    PROVE  AuditOnce' /\ audit' \in [Docs -> Seq(Event)]
  <1> USE Appended DEF UploadsInv
  <1>1. ASSUME NEW c \in Docs, NEW i \in DOMAIN audit'[c], audit'[c][i].action = "accepted"
        PROVE  i \in DOMAIN audit[c] /\ audit'[c][i] = audit[c][i]
    BY <1>1
  <1>2. \A c \in Docs : \A i \in DOMAIN audit'[c] :
           audit'[c][i].action = "accepted" => audit'[c][i].up \in VersionsOf(c)'
    BY <1>1 DEF AuditOnce
  <1>3. ASSUME NEW c \in Docs, NEW i \in DOMAIN audit'[c], NEW j \in DOMAIN audit'[c],
               audit'[c][i].action = "accepted", audit'[c][j] = audit'[c][i]
        PROVE  i = j
    BY <1>1, <1>3 DEF AuditOnce
  <1>4. ASSUME NEW u \in version
        PROVE  \E i \in DOMAIN audit'[upload'[u].doc] : audit'[upload'[u].doc][i] = Accepted(u)
    <2>1. upload[u].doc \in Docs
      BY DEF VerdictsKept, UploadsOwned, UploadsTypeOK
    <2>2. PICK i \in DOMAIN audit[upload[u].doc] : audit[upload[u].doc][i] = Accepted(u)
      BY DEF AuditOnce
    <2>3. i \in DOMAIN audit'[upload[u].doc] /\ audit'[upload[u].doc][i] = Accepted(u)
      BY <2>1, <2>2
    <2> QED
      BY <2>3
  <1> QED
    BY <1>2, <1>3, <1>4 DEF AuditOnce

\* A step that leaves chain and versions alone keeps them in agreement.
LEMMA AuditSame ==
    ASSUME UploadsInv, audit' = audit, version' = version,
           \A u \in version : upload'[u].doc = upload[u].doc,
           \A c \in Docs : VersionsOf(c)' = VersionsOf(c)
    PROVE  AuditOnce'
  BY DEF UploadsInv, AuditOnce, Accepted

-----------------------------------------------------------------------------
(* One lemma per action *)

\* The invariant holds before any document.
LEMMA InitSafe == Init => UploadsInv
  <1> SUFFICES ASSUME Init PROVE UploadsInv
    OBVIOUS
  <1>1. UploadsTypeOK
    BY UploadsAssumption
       DEF Init, UploadsTypeOK, DocRecord, UploadRecord, RunnerRecord, NoUpload, Idle
  <1>2. UploadsOwned /\ RunnersSound /\ VerdictsKept /\ FreshDocs
    BY DEF Init, UploadsOwned, RunnersSound, VerdictsKept, FreshDocs, NoUpload, Idle, Deleted
  <1>3. AuditOnce /\ LatestIsNewest /\ ManifestIsComplete /\ OneUploadPerKey
    BY DEF Init, AuditOnce, LatestIsNewest, ManifestIsComplete, OneUploadPerKey, VersionsOf,
           NoUpload, Deleted
  <1> QED
    BY <1>1, <1>2, <1>3 DEF UploadsInv

\* CreateDocument keeps the invariant.
LEMMA CreateDocumentSafe ==
    ASSUME UploadsInv, NEW d \in Docs, CreateDocument(d)
    PROVE  UploadsInv'
  <1> DEFINE e == [action |-> "created", up |-> None]
  <1> USE DEF UploadsInv
  <1>1. e \in Event /\ audit' = Append1(d, e.action, e.up)
    BY DEF CreateDocument, Event
  <1>2. doc'[d].latest = doc[d].latest /\ \A c \in Docs : c # d => doc'[c] = doc[c]
    BY DEF CreateDocument, FreshDocs, UploadsTypeOK
  <1>3. /\ \A c \in Docs : VersionsOf(c)' = VersionsOf(c)
        /\ LatestIsNewest' /\ ManifestIsComplete'
    BY <1>2, SameVersions DEF CreateDocument
  <1>4. AuditOnce' /\ audit' \in [Docs -> Seq(Event)]
    BY <1>1, <1>3, AuditOther DEF CreateDocument
  <1>5. UploadsTypeOK'
    BY <1>4 DEF UploadsTypeOK, CreateDocument, DocRecord
  <1>6. UploadsOwned' /\ RunnersSound' /\ VerdictsKept' /\ OneUploadPerKey'
    BY DEF CreateDocument, UploadsOwned, RunnersSound, VerdictsKept, OneUploadPerKey
  <1>7. FreshDocs'
    BY DEF CreateDocument, FreshDocs, Deleted, UploadsTypeOK
  <1> QED
    BY <1>3, <1>4, <1>5, <1>6, <1>7

\* RequestDeletion keeps the invariant.
LEMMA RequestDeletionSafe ==
    ASSUME UploadsInv, NEW d \in Docs, RequestDeletion(d)
    PROVE  UploadsInv'
  <1> DEFINE e == [action |-> "deletion_requested", up |-> None]
  <1> USE DEF UploadsInv
  <1>1. e \in Event /\ audit' = Append1(d, e.action, e.up)
    BY DEF RequestDeletion, Event
  <1>2. (\A c \in Docs : VersionsOf(c)' = VersionsOf(c)) /\ LatestIsNewest'
    BY SameVersions DEF RequestDeletion
  <1>3. AuditOnce' /\ audit' \in [Docs -> Seq(Event)]
    BY <1>1, <1>2, AuditOther DEF RequestDeletion
  <1>4. ManifestIsComplete'
    BY <1>2 DEF RequestDeletion, ManifestIsComplete, Deleted, UploadsTypeOK
  <1>5. UploadsTypeOK'
    BY <1>3 DEF UploadsTypeOK, RequestDeletion, VersionsOf
  <1>6. UploadsOwned' /\ RunnersSound' /\ VerdictsKept' /\ OneUploadPerKey'
    BY DEF RequestDeletion, UploadsOwned, RunnersSound, VerdictsKept, OneUploadPerKey
  <1>7. FreshDocs'
    BY DEF RequestDeletion, Readable, FreshDocs, Deleted, UploadsTypeOK
  <1> QED
    BY <1>2, <1>3, <1>4, <1>5, <1>6, <1>7

\* A step that touches requests in progress and unpublished fields of uploads only.
LEMMA QuietStep ==
    ASSUME UploadsInv, SameUploads, UNCHANGED <<doc, version, tombstone, audit>>,
           \A u \in UploadIds : upload[u].status = "none" => upload'[u] = upload[u],
           \A u \in UploadIds : upload[u].status # "none" => upload'[u].status # "none",
           UploadsTypeOK', RunnersSound', VerdictsKept'
    PROVE  UploadsInv'
  <1> USE DEF UploadsInv
  <1>1. /\ \A c \in Docs : VersionsOf(c)' = VersionsOf(c)
        /\ LatestIsNewest' /\ ManifestIsComplete'
    BY SameVersions DEF SameUploads, UploadsTypeOK
  <1>2. AuditOnce'
    BY <1>1, AuditSame DEF SameUploads, UploadsTypeOK
  <1>3. UploadsOwned'
    BY DEF UploadsOwned, SameUploads
  <1>4. OneUploadPerKey'
    BY DEF OneUploadPerKey, SameUploads
  <1>5. FreshDocs'
    BY DEF FreshDocs, Deleted
  <1> QED
    BY <1>1, <1>2, <1>3, <1>4, <1>5

\* Initiate keeps the invariant.
LEMMA InitiateSafe ==
    ASSUME UploadsInv, NEW r \in Runners, NEW u \in UploadIds, InitiateUpload(r, u)
    PROVE  UploadsInv'
  <1> DEFINE d == runner[r].doc
  <1> DEFINE k == runner[r].key
  <1> USE DEF UploadsInv
  <1>0. d \in Docs /\ k \in Keys
    BY DEF InitiateUpload, RunnersSound
  <1>1. CASE UNCHANGED <<upload, audit>>
    <2>1. UploadsTypeOK'
      BY <1>1, UploadsAssumption DEF InitiateUpload, UploadsTypeOK, RunnerRecord, Idle
    <2>2. RunnersSound'
      BY <1>1 DEF InitiateUpload, RunnersSound, Idle, UploadsTypeOK
    <2>3. VerdictsKept'
      BY <1>1 DEF InitiateUpload, VerdictsKept
    <2> QED
      BY <1>1, <2>1, <2>2, <2>3, QuietStep DEF InitiateUpload, SameUploads
  <1>2. CASE /\ Replayed(d, k) = {} /\ upload[u].status = "none"
             /\ upload' = [upload EXCEPT ![u] =
                   [NoUpload EXCEPT !.status = "pending", !.doc = d, !.key = k, !.created = clock]]
             /\ audit' = Append1(d, "initiated", u)
    <2> DEFINE e == [action |-> "initiated", up |-> u]
    <2>1. /\ upload'[u] = [NoUpload EXCEPT !.status = "pending", !.doc = d, !.key = k,
                                           !.created = clock]
          /\ \A v \in UploadIds : v # u => upload'[v] = upload[v]
      BY <1>2 DEF UploadsTypeOK
    <2>15. \A v \in UploadIds : v # u => upload'[v] = upload[v]
      BY <2>1
    <2>14. upload'[u] = [status |-> "pending", doc |-> d, key |-> k, created |-> clock,
                         received |-> FALSE, job |-> "none", attempt |-> 0]
      BY <2>1 DEF NoUpload
    <2>2. u \notin version
      BY <1>2 DEF VerdictsKept
    <2>3. \A v \in version : upload'[v] = upload[v]
      BY <2>1, <2>2 DEF UploadsTypeOK
    <2>4. /\ \A c \in Docs : VersionsOf(c)' = VersionsOf(c)
          /\ LatestIsNewest' /\ ManifestIsComplete'
      BY <2>3, SameVersions DEF InitiateUpload
    <2>5. e \in Event /\ audit' = Append1(d, e.action, e.up)
      BY <1>2 DEF Event
    <2>6. AuditOnce' /\ audit' \in [Docs -> Seq(Event)]
      BY <1>0, <2>3, <2>4, <2>5, AuditOther DEF InitiateUpload
    <2>7. upload'[u] \in UploadRecord
      BY <1>0, <2>14 DEF UploadRecord, UploadsTypeOK
    <2>8. UploadsTypeOK'
      BY <1>2, <2>6, <2>7, UploadsAssumption
         DEF InitiateUpload, UploadsTypeOK, RunnerRecord, Idle
    <2>9. UploadsOwned'
      BY <1>0, <2>1, <2>14 DEF UploadsOwned
    <2>10. RunnersSound'
      BY <2>1 DEF InitiateUpload, RunnersSound, Idle, UploadsTypeOK, NoUpload
    <2>11. VerdictsKept'
      BY <2>1, <2>2 DEF InitiateUpload, VerdictsKept, NoUpload
    <2>12. FreshDocs'
      BY DEF InitiateUpload, FreshDocs, Deleted
    <2>13. OneUploadPerKey'
      <3>1. \A v \in UploadIds : ~(upload[v].doc = d /\ upload[v].key = k)
        BY <1>2 DEF Replayed
      <3>2. upload'[u].doc = d /\ upload'[u].key = k
        BY <2>14
      <3>3. ASSUME NEW v \in UploadIds, NEW w \in UploadIds, upload'[v].status # "none",
                   upload'[v].doc = upload'[w].doc, upload'[v].key = upload'[w].key
            PROVE  v = w
        <4>1. CASE v = u
          BY <2>15, <3>1, <3>2, <3>3, <4>1
        <4>2. CASE w = u
          BY <2>15, <3>1, <3>2, <3>3, <4>2
        <4>3. CASE v # u /\ w # u
          BY <2>15, <3>3, <4>3 DEF OneUploadPerKey
        <4> QED
          BY <4>1, <4>2, <4>3
      <3> QED
        BY <3>3 DEF OneUploadPerKey
    <2> QED
      BY <2>4, <2>6, <2>8, <2>9, <2>10, <2>11, <2>12, <2>13
  <1> QED
    BY <1>1, <1>2 DEF InitiateUpload

\* A step of one request that leaves every upload alone.
LEMMA RunnerStep ==
    ASSUME UploadsInv, NEW r \in Runners, NEW x \in RunnerRecord,
           runner' = [runner EXCEPT ![r] = x],
           x.pc = "initiate" => x.doc \in Docs /\ x.key \in Keys,
           x.pc \in {"start", "verify", "promoted", "refused"} =>
               x.up \in UploadIds /\ upload[x.up].status # "none",
           x.pc = "promoted" => x.up \in original',
           original \subseteq original', original' \subseteq UploadIds,
           UNCHANGED <<doc, upload, version, quarantine, tombstone, audit, clock>>
    PROVE  UploadsInv'
  <1>1. UploadsTypeOK'
    BY DEF UploadsInv, UploadsTypeOK
  <1>2. RunnersSound'
    BY DEF UploadsInv, UploadsTypeOK, RunnersSound
  <1>3. VerdictsKept'
    BY DEF UploadsInv, VerdictsKept
  <1> QED
    BY <1>1, <1>2, <1>3, QuietStep DEF SameUploads

\* A runner without a request.
LEMMA IdleType == Idle \in RunnerRecord /\ Idle.pc = "idle"
  BY DEF Idle, RunnerRecord

\* A runner that moves on keeps its type and its upload.
LEMMA RunnerAt ==
    ASSUME UploadsInv, NEW r \in Runners
    PROVE  /\ runner[r] \in RunnerRecord
           /\ \A p \in {"verify", "promoted", "refused"} :
                /\ [runner[r] EXCEPT !.pc = p] \in RunnerRecord
                /\ [runner[r] EXCEPT !.pc = p].pc = p
                /\ [runner[r] EXCEPT !.pc = p].up = runner[r].up
  BY DEF UploadsInv, UploadsTypeOK, RunnerRecord

\* ReadDocument keeps the invariant.
LEMMA ReadDocumentSafe ==
    ASSUME UploadsInv, NEW r \in Runners, NEW d \in Docs, NEW k \in Keys, ReadDocument(r, d, k)
    PROVE  UploadsInv'
  <1> DEFINE x == [pc |-> "initiate", up |-> None, doc |-> d, key |-> k]
  <1>1. x \in RunnerRecord
    BY DEF RunnerRecord
  <1>2. original' = original /\ original \subseteq UploadIds
    BY DEF ReadDocument, UploadsInv, UploadsTypeOK
  <1> QED
    BY <1>1, <1>2, RunnerStep DEF ReadDocument

\* Crash keeps the invariant.
LEMMA CrashSafe ==
    ASSUME UploadsInv, NEW r \in Runners, Crash(r)
    PROVE  UploadsInv'
  <1>1. original' = original /\ original \subseteq UploadIds
    BY DEF Crash, UploadsInv, UploadsTypeOK
  <1> QED
    BY <1>1, IdleType, RunnerStep DEF Crash

\* Verify keeps the invariant.
LEMMA VerifySafe ==
    ASSUME UploadsInv, NEW r \in Runners, NEW verdict \in {"promoted", "refused"},
           VerifyAndPromote(r, verdict)
    PROVE  UploadsInv'
  <1> DEFINE x == [runner[r] EXCEPT !.pc = verdict]
  <1>1. x \in RunnerRecord /\ x.pc = verdict /\ x.up = runner[r].up
    BY RunnerAt
  <1>2. runner' = [runner EXCEPT ![r] = x]
    BY DEF VerifyAndPromote
  <1>3. runner[r].up \in UploadIds /\ upload[runner[r].up].status # "none"
    BY DEF VerifyAndPromote, UploadsInv, RunnersSound
  <1>4. /\ original \subseteq original' /\ original' \subseteq UploadIds
        /\ verdict = "promoted" => runner[r].up \in original'
    BY <1>3 DEF VerifyAndPromote, UploadsInv, UploadsTypeOK
  <1>5. UNCHANGED <<doc, upload, version, quarantine, tombstone, audit, clock>>
    BY DEF VerifyAndPromote
  <1> HIDE DEF x
  <1> QED
    BY <1>1, <1>2, <1>3, <1>4, <1>5, RunnerStep

\* Tick keeps the invariant.
LEMMA TickSafe ==
    ASSUME UploadsInv, Tick
    PROVE  UploadsInv'
  <1>1. UploadsTypeOK'
    BY UploadsAssumption DEF UploadsInv, UploadsTypeOK, Tick
  <1>2. RunnersSound' /\ VerdictsKept'
    BY DEF UploadsInv, RunnersSound, VerdictsKept, Tick
  <1> QED
    BY <1>1, <1>2, QuietStep DEF SameUploads, Tick

\* A step that changes one undecided upload, and a request.
LEMMA UploadStep ==
    ASSUME UploadsInv, NEW u \in UploadIds, NEW y \in UploadRecord,
           upload[u].status = "pending",
           upload' = [upload EXCEPT ![u] = y],
           y.status \in {"pending", "rejected"}, y.status = "rejected" => y.job = "failed",
           y.doc = upload[u].doc, y.key = upload[u].key, y.created = upload[u].created,
           quarantine' \subseteq UploadIds,
           runner' \in [Runners -> RunnerRecord],
           \A r \in Runners : runner'[r] = runner[r] \/
              (runner'[r].up = u /\ runner'[r].pc \in {"start", "verify"}) \/ runner'[r] = Idle,
           UNCHANGED <<doc, version, original, tombstone, audit, clock>>
    PROVE  UploadsInv'
  <1> USE DEF UploadsInv
  <1>1. upload'[u] = y /\ \A v \in UploadIds : v # u => upload'[v] = upload[v]
    BY DEF UploadsTypeOK
  <1>2. UploadsTypeOK'
    BY DEF UploadsTypeOK
  <1>3. RunnersSound'
    BY <1>1, IdleType DEF RunnersSound
  <1>4. VerdictsKept'
    BY <1>1 DEF VerdictsKept
  <1>5. SameUploads
    BY <1>1 DEF SameUploads
  <1> QED
    BY <1>1, <1>2, <1>3, <1>4, <1>5, QuietStep

\* Updating one field of an upload keeps its type and the other fields.
LEMMA UploadFields ==
    ASSUME UploadsInv, NEW u \in UploadIds
    PROVE  /\ upload[u] \in UploadRecord
           /\ \A b \in BOOLEAN : LET y == [upload[u] EXCEPT !.received = b] IN
                 /\ y \in UploadRecord /\ y.status = upload[u].status /\ y.doc = upload[u].doc
                 /\ y.key = upload[u].key /\ y.created = upload[u].created
           /\ LET y == [upload[u] EXCEPT !.job = "queued"] IN
                 /\ y \in UploadRecord /\ y.status = upload[u].status /\ y.doc = upload[u].doc
                 /\ y.key = upload[u].key /\ y.created = upload[u].created
           /\ LET y == [upload[u] EXCEPT !.job = "running", !.attempt = upload[u].attempt + 1] IN
                 /\ y \in UploadRecord /\ y.status = upload[u].status /\ y.doc = upload[u].doc
                 /\ y.key = upload[u].key /\ y.created = upload[u].created
           /\ LET y == [upload[u] EXCEPT !.status = "rejected", !.job = "failed"] IN
                 /\ y \in UploadRecord /\ y.status = "rejected" /\ y.job = "failed"
                 /\ y.doc = upload[u].doc /\ y.key = upload[u].key
                 /\ y.created = upload[u].created
  <1>1. upload[u] \in UploadRecord
    BY DEF UploadsInv, UploadsTypeOK
  <1>2. \A b \in BOOLEAN : LET y == [upload[u] EXCEPT !.received = b] IN
           /\ y \in UploadRecord /\ y.status = upload[u].status /\ y.doc = upload[u].doc
           /\ y.key = upload[u].key /\ y.created = upload[u].created
    BY <1>1 DEF UploadRecord
  <1>3. LET y == [upload[u] EXCEPT !.job = "queued"] IN
           /\ y \in UploadRecord /\ y.status = upload[u].status /\ y.doc = upload[u].doc
           /\ y.key = upload[u].key /\ y.created = upload[u].created
    BY <1>1 DEF UploadRecord
  <1>4. LET y == [upload[u] EXCEPT !.job = "running", !.attempt = upload[u].attempt + 1] IN
           /\ y \in UploadRecord /\ y.status = upload[u].status /\ y.doc = upload[u].doc
           /\ y.key = upload[u].key /\ y.created = upload[u].created
    <2>1. upload[u].attempt + 1 \in Nat
      BY <1>1 DEF UploadRecord
    <2> QED
      BY <1>1, <2>1, Zenon DEF UploadRecord
  <1>5. LET y == [upload[u] EXCEPT !.status = "rejected", !.job = "failed"] IN
           /\ y \in UploadRecord /\ y.status = "rejected" /\ y.job = "failed"
           /\ y.doc = upload[u].doc /\ y.key = upload[u].key
           /\ y.created = upload[u].created
    BY <1>1 DEF UploadRecord
  <1> QED
    BY <1>1, <1>2, <1>3, <1>4, <1>5

\* Receive keeps the invariant.
LEMMA ReceiveSafe ==
    ASSUME UploadsInv, NEW u \in UploadIds, NEW committed \in BOOLEAN,
           ReceiveContent(u, committed)
    PROVE  UploadsInv'
  <1> DEFINE y == [upload[u] EXCEPT !.received = committed]
  <1>1. /\ y \in UploadRecord /\ y.status = upload[u].status /\ y.doc = upload[u].doc
        /\ y.key = upload[u].key /\ y.created = upload[u].created
    BY UploadFields
  <1>2. upload' = [upload EXCEPT ![u] = y] /\ upload[u].status = "pending"
    BY DEF ReceiveContent, Pending
  <1>3. quarantine' \subseteq UploadIds /\ runner' = runner /\ runner \in [Runners -> RunnerRecord]
    BY DEF ReceiveContent, UploadsInv, UploadsTypeOK
  <1>4. UNCHANGED <<doc, version, original, tombstone, audit, clock>>
    BY DEF ReceiveContent
  <1> HIDE DEF y
  <1> QED
    BY <1>1, <1>2, <1>3, <1>4, UploadStep

\* Enqueue keeps the invariant.
LEMMA EnqueueSafe ==
    ASSUME UploadsInv, NEW r \in Runners, NEW u \in UploadIds, EnqueueValidation(r, u)
    PROVE  UploadsInv'
  <1> DEFINE x == [pc |-> "start", up |-> u, doc |-> None, key |-> None]
  <1>0. runner' = [runner EXCEPT ![r] = x] /\ x \in RunnerRecord
    BY DEF EnqueueValidation, Idle, RunnerRecord
  <1>1. CASE upload[u].job = "none"
    <2> DEFINE y == [upload[u] EXCEPT !.job = "queued"]
    <2>1. /\ y \in UploadRecord /\ y.status = upload[u].status /\ y.doc = upload[u].doc
          /\ y.key = upload[u].key /\ y.created = upload[u].created
      BY UploadFields
    <2>2. upload' = [upload EXCEPT ![u] = y]
      BY <1>1 DEF EnqueueValidation
    <2>3. upload[u].status = "pending"
      BY <1>1 DEF EnqueueValidation, Pending, UploadsInv, VerdictsKept
    <2>4. UNCHANGED <<doc, version, quarantine, original, tombstone, audit, clock>>
      BY DEF EnqueueValidation
    <2>5. /\ quarantine' \subseteq UploadIds /\ runner' \in [Runners -> RunnerRecord]
          /\ \A q \in Runners : runner'[q] = runner[q] \/ runner'[q] = x
      BY <1>0, <2>4 DEF UploadsInv, UploadsTypeOK
    <2>6. x.up = u /\ x.pc = "start"
      OBVIOUS
    <2> HIDE DEF y, x
    <2> QED
      BY <2>1, <2>2, <2>3, <2>4, <2>5, <2>6, UploadStep
  <1>2. CASE upload[u].job # "none"
    <2>1. upload[u].status # "none"
      BY <1>2 DEF EnqueueValidation, Pending
    <2>2. UNCHANGED <<doc, upload, version, quarantine, original, tombstone, audit, clock>>
      BY <1>2 DEF EnqueueValidation
    <2>3. original' = original /\ original \subseteq UploadIds
      BY <2>2 DEF UploadsInv, UploadsTypeOK
    <2> QED
      BY <1>0, <2>1, <2>2, <2>3, RunnerStep
  <1> QED
    BY <1>1, <1>2

\* Start keeps the invariant.
LEMMA StartSafe ==
    ASSUME UploadsInv, NEW r \in Runners, StartValidation(r)
    PROVE  UploadsInv'
  <1> DEFINE u == runner[r].up
  <1>0. u \in UploadIds
    BY DEF StartValidation, UploadsInv, RunnersSound
  <1>1. CASE runner' = [runner EXCEPT ![r] = Idle] /\ UNCHANGED upload
    <2>1. original' = original /\ original \subseteq UploadIds
      BY DEF StartValidation, UploadsInv, UploadsTypeOK
    <2> QED
      BY <1>1, <2>1, IdleType, RunnerStep DEF StartValidation
  <1>2. CASE /\ Pending(u)
             /\ upload' = [upload EXCEPT ![u].job = "running", ![u].attempt = @ + 1]
             /\ runner' = [runner EXCEPT ![r].pc = "verify"]
    <2> DEFINE y == [upload[u] EXCEPT !.job = "running", !.attempt = upload[u].attempt + 1]
    <2> DEFINE x == [runner[r] EXCEPT !.pc = "verify"]
    <2>1. /\ y \in UploadRecord /\ y.status = upload[u].status /\ y.doc = upload[u].doc
          /\ y.key = upload[u].key /\ y.created = upload[u].created
      BY <1>0, UploadFields
    <2>2. upload' = [upload EXCEPT ![u] = y]
      BY <1>0, <1>2 DEF UploadsInv, UploadsTypeOK
    <2>3. upload[u].status = "pending"
      BY <1>2 DEF Pending
    <2>4. UNCHANGED <<doc, version, quarantine, original, tombstone, audit, clock>>
      BY DEF StartValidation
    <2>5. runner' = [runner EXCEPT ![r] = x] /\ x \in RunnerRecord /\ x.pc = "verify" /\ x.up = u
      BY <1>2, RunnerAt
    <2>6. /\ quarantine' \subseteq UploadIds /\ runner' \in [Runners -> RunnerRecord]
          /\ \A q \in Runners : runner'[q] = runner[q] \/ runner'[q] = x
      BY <2>4, <2>5 DEF UploadsInv, UploadsTypeOK
    <2> HIDE DEF y, x, u
    <2> QED
      BY <1>0, <2>1, <2>2, <2>3, <2>4, <2>5, <2>6, UploadStep
  <1> QED
    BY <1>1, <1>2 DEF StartValidation

\* Reject keeps the invariant.
LEMMA RejectSafe ==
    ASSUME UploadsInv, NEW r \in Runners, Reject(r)
    PROVE  UploadsInv'
  <1> DEFINE u == runner[r].up
  <1>0. u \in UploadIds
    BY DEF Reject, UploadsInv, RunnersSound
  <1>1. CASE upload[u].status # "pending"
    <2>1. original' = original /\ original \subseteq UploadIds
      BY DEF Reject, UploadsInv, UploadsTypeOK
    <2>2. UNCHANGED <<doc, upload, version, quarantine, tombstone, audit, clock>>
      BY <1>1 DEF Reject
    <2> QED
      BY <2>1, <2>2, IdleType, RunnerStep DEF Reject
  <1>2. CASE upload[u].status = "pending"
    <2> DEFINE y == [upload[u] EXCEPT !.status = "rejected", !.job = "failed"]
    <2>1. /\ y \in UploadRecord /\ y.status = "rejected" /\ y.job = "failed"
          /\ y.doc = upload[u].doc /\ y.key = upload[u].key
          /\ y.created = upload[u].created
      BY <1>0, UploadFields
    <2>2. upload' = [upload EXCEPT ![u] = y]
      BY <1>0, <1>2 DEF Reject, UploadsInv, UploadsTypeOK
    <2>4. UNCHANGED <<doc, version, quarantine, original, tombstone, audit, clock>>
      BY DEF Reject
    <2>5. /\ quarantine' \subseteq UploadIds /\ runner' \in [Runners -> RunnerRecord]
          /\ \A q \in Runners : runner'[q] = runner[q] \/ runner'[q] = Idle
      BY <2>4, IdleType DEF Reject, UploadsInv, UploadsTypeOK
    <2> HIDE DEF y, u
    <2> QED
      BY <1>0, <1>2, <2>1, <2>2, <2>4, <2>5, UploadStep
  <1> QED
    BY <1>1, <1>2

\* The step that publishes: everything about the upload moves together.
LEMMA AcceptSafe ==
    ASSUME UploadsInv, NEW r \in Runners, Accept(r)
    PROVE  UploadsInv'
  <1> USE DEF UploadsInv
  <1>4. PICK u \in UploadIds : u = runner[r].up
    BY DEF Accept, RunnersSound
  <1>5. upload[u].doc \in Docs
    BY <1>4 DEF Accept, RunnersSound, UploadsOwned
  <1>6. PICK d \in Docs : d = upload[u].doc
    BY <1>5
  <1>0. u \in UploadIds /\ u \in original /\ upload[u].status # "none" /\ d \in Docs
    BY <1>4 DEF Accept, RunnersSound
  <1>3. d = upload[u].doc /\ upload[u] \in UploadRecord /\ upload[u].attempt \in Nat
    BY <1>0, <1>6 DEF UploadsTypeOK, UploadRecord
  <1>1. CASE UNCHANGED <<doc, upload, version, audit>>
    <2>1. original' = original /\ original \subseteq UploadIds
      BY DEF Accept, UploadsTypeOK
    <2> QED
      BY <1>1, <2>1, IdleType, RunnerStep DEF Accept
  <1>2. CASE /\ Pending(u) /\ Readable(d)
             /\ audit' = Append1(d, "accepted", u)
             /\ version' = version \union {u}
             /\ doc' = IF doc[d].latest = None \/ Newer(u, doc[d].latest)
                         THEN [doc EXCEPT ![d].latest = u, ![d].revision = @ + 1]
                         ELSE doc
             /\ upload' = [upload EXCEPT ![u].status = "accepted", ![u].job = "ready"]
    <2> DEFINE e == [action |-> "accepted", up |-> u]
    <2>0. UNCHANGED <<quarantine, original, tombstone, clock>>
      BY DEF Accept
    <2>1. /\ upload'[u] = [upload[u] EXCEPT !.status = "accepted", !.job = "ready"]
          /\ \A v \in UploadIds : v # u => upload'[v] = upload[v]
      BY <1>0, <1>2 DEF UploadsTypeOK
    <2>3. /\ upload'[u] \in UploadRecord
          /\ upload'[u].status = "accepted" /\ upload'[u].job = "ready"
          /\ SameUploads
      <3>1. upload'[u].status = "accepted" /\ upload'[u].job = "ready"
        BY <1>3, <2>1 DEF UploadRecord
      <3>2. /\ upload'[u].doc = upload[u].doc /\ upload'[u].key = upload[u].key
            /\ upload'[u].created = upload[u].created
        BY <1>3, <2>1 DEF UploadRecord
      <3>3. upload'[u] \in UploadRecord
        BY <1>3, <2>1 DEF UploadRecord
      <3> QED
        BY <2>1, <3>1, <3>2, <3>3 DEF SameUploads
    <2>4. u \notin version
      BY <1>0, <1>2 DEF Pending, VerdictsKept
    <2>5. VersionsOf(d)' = VersionsOf(d) \union {u}
      <3>1. \A v \in version' : v \in UploadIds /\ upload'[v].doc = upload[v].doc
        BY <1>0, <1>2, <2>3 DEF SameUploads, UploadsTypeOK
      <3> QED
        BY <1>2, <1>3, <3>1 DEF VersionsOf
    <2>6. \A c \in Docs : c # d => VersionsOf(c)' = VersionsOf(c)
      BY <1>0, <1>2, <1>3, <2>3 DEF VersionsOf, SameUploads, UploadsTypeOK
    <2>7. e \in Event /\ audit' = Append1(d, e.action, e.up)
      BY <1>0, <1>2 DEF Event
    <2>8. UploadsTypeOK'
      <3>1. audit' \in [Docs -> Seq(Event)]
        BY <1>0, <2>7, Appended
      <3>2. upload' \in [UploadIds -> UploadRecord]
        BY <1>0, <1>2, <2>3 DEF UploadsTypeOK
      <3>3. doc' \in [Docs -> DocRecord]
        <4>1. doc[d] \in DocRecord
          BY <1>0 DEF UploadsTypeOK
        <4>2. [doc[d] EXCEPT !.latest = u, !.revision = doc[d].revision + 1] \in DocRecord
          <5>1. doc[d].revision + 1 \in Nat
            BY <4>1 DEF DocRecord
          <5> QED
            BY <1>0, <4>1, <5>1, Zenon DEF DocRecord
        <4>3. doc' = doc \/ doc' = [doc EXCEPT ![d] =
                    [doc[d] EXCEPT !.latest = u, !.revision = doc[d].revision + 1]]
          BY <1>0, <1>2 DEF UploadsTypeOK
        <4> QED
          BY <1>0, <4>2, <4>3 DEF UploadsTypeOK
      <3>4. runner' \in [Runners -> RunnerRecord]
        BY IdleType DEF Accept, UploadsTypeOK
      <3> QED
        BY <1>0, <1>2, <2>0, <3>1, <3>2, <3>3, <3>4 DEF UploadsTypeOK
    <2>9. UploadsOwned'
      <3>1. upload'[u].doc \in Docs /\ upload'[u].key \in Keys /\ upload'[u].status # "none"
        BY <1>0, <2>3 DEF UploadsOwned, SameUploads
      <3> QED
        BY <2>1, <3>1 DEF UploadsOwned
    <2>10. RunnersSound'
      BY <2>0, <2>1, <2>3, IdleType DEF Accept, RunnersSound, UploadsTypeOK
    <2>11. VerdictsKept'
      BY <1>0, <1>2, <2>0, <2>1, <2>3 DEF VerdictsKept
    <2>12. FreshDocs'
      BY <1>0, <1>2, <2>0 DEF FreshDocs, Readable, Deleted, UploadsTypeOK, DocRecord
    <2>13. OneUploadPerKey'
      BY <2>1, <2>3, <1>0 DEF OneUploadPerKey, SameUploads
    <2>14. ManifestIsComplete'
      BY <1>2, <2>0, <2>6 DEF ManifestIsComplete, Readable, Deleted
    <2>15. AuditOnce'
      <3>1. /\ \A c \in Docs : c # d => audit'[c] = audit[c]
            /\ DOMAIN audit'[d] = 1 .. Len(audit[d]) + 1
            /\ DOMAIN audit[d] = 1 .. Len(audit[d])
            /\ Len(audit[d]) \in Nat
            /\ \A i \in DOMAIN audit[d] : audit'[d][i] = audit[d][i]
            /\ audit'[d][Len(audit[d]) + 1] = e
        BY <1>0, <2>7, Appended
      <3>2. \A i \in DOMAIN audit[d] : audit[d][i] # e
        BY <1>0, <2>4 DEF AuditOnce, VersionsOf
      <3>3. \A i \in DOMAIN audit'[d] : i \in DOMAIN audit[d] \/ i = Len(audit[d]) + 1
        BY <3>1
      <3>4. ASSUME NEW c \in Docs, NEW i \in DOMAIN audit'[c], audit'[c][i].action = "accepted"
            PROVE  audit'[c][i].up \in VersionsOf(c)'
        <4>1. CASE c # d
          BY <2>6, <3>1, <3>4, <4>1 DEF AuditOnce
        <4>2. CASE c = d /\ i \in DOMAIN audit[d]
          BY <2>5, <3>1, <3>4, <4>2 DEF AuditOnce
        <4>3. CASE c = d /\ i = Len(audit[d]) + 1
          BY <2>5, <3>1, <4>3
        <4> QED
          BY <3>3, <4>1, <4>2, <4>3
      <3>5. ASSUME NEW c \in Docs, NEW i \in DOMAIN audit'[c], NEW j \in DOMAIN audit'[c],
                   audit'[c][i].action = "accepted", audit'[c][j] = audit'[c][i]
            PROVE  i = j
        <4>1. CASE c # d
          BY <3>1, <3>5, <4>1 DEF AuditOnce
        <4>2. CASE c = d /\ i \in DOMAIN audit[d] /\ j \in DOMAIN audit[d]
          BY <3>1, <3>5, <4>2 DEF AuditOnce
        <4>3. CASE c = d /\ ~(i \in DOMAIN audit[d] /\ j \in DOMAIN audit[d])
          BY <3>1, <3>2, <3>3, <3>5, <4>3
        <4> QED
          BY <4>1, <4>2, <4>3
      <3>6. ASSUME NEW v \in version'
            PROVE  \E i \in DOMAIN audit'[upload'[v].doc] :
                      audit'[upload'[v].doc][i] = Accepted(v)
        <4>1. CASE v = u
          <5>1. upload'[v].doc = d
            BY <1>0, <1>3, <2>3, <4>1 DEF SameUploads
          <5>2. Len(audit[d]) + 1 \in DOMAIN audit'[d]
            BY <3>1
          <5> QED
            BY <3>1, <4>1, <5>1, <5>2 DEF Accepted
        <4>2. CASE v # u
          <5>1. v \in version /\ v \in UploadIds /\ upload'[v].doc = upload[v].doc
            BY <1>2, <2>3, <4>2 DEF SameUploads, UploadsTypeOK
          <5>2. upload[v].doc \in Docs
            BY <5>1 DEF VerdictsKept, UploadsOwned
          <5>3. PICK i \in DOMAIN audit[upload[v].doc] : audit[upload[v].doc][i] = Accepted(v)
            BY <5>1 DEF AuditOnce
          <5>4. i \in DOMAIN audit'[upload[v].doc] /\ audit'[upload[v].doc][i] = Accepted(v)
            BY <3>1, <5>2, <5>3
          <5> QED
            BY <5>1, <5>4
        <4> QED
          BY <4>1, <4>2
      <3> QED
        BY <3>4, <3>5, <3>6 DEF AuditOnce
    <2>16. LatestIsNewest'
      <3>1. ASSUME NEW c \in Docs, c # d
            PROVE  doc'[c] = doc[c] /\ VersionsOf(c)' = VersionsOf(c)
        BY <1>0, <1>2, <2>6, <3>1 DEF UploadsTypeOK
      <3>2. \A v \in UploadIds : upload'[v].created = upload[v].created /\ upload[v].created \in Nat
        BY <2>3 DEF SameUploads, UploadsTypeOK, UploadRecord
      <3>3. \A c \in Docs : VersionsOf(c) \subseteq UploadIds
        BY DEF VersionsOf, UploadsTypeOK
      <3>4. /\ doc[d].latest = None <=> VersionsOf(d) = {}
            /\ doc[d].latest # None =>
                  /\ doc[d].latest \in VersionsOf(d)
                  /\ \A v \in VersionsOf(d) :
                        \/ upload[v].created < upload[doc[d].latest].created
                        \/ upload[v].created = upload[doc[d].latest].created
                             /\ v <= doc[d].latest
        BY <1>0 DEF LatestIsNewest
      <3>5. CASE doc[d].latest = None \/ Newer(u, doc[d].latest)
        <4>1. doc'[d].latest = u
          BY <1>0, <1>2, <3>5 DEF UploadsTypeOK, DocRecord
        <4>2. \A v \in VersionsOf(d) \union {u} :
                 \/ upload[v].created < upload[u].created
                 \/ upload[v].created = upload[u].created /\ v <= u
          <5>1. \A v \in UploadIds : v \in Nat /\ upload[v].created \in Nat
            BY <3>2, UploadsAssumption
          <5>2. ASSUME NEW v \in VersionsOf(d)
                PROVE  \/ upload[v].created < upload[u].created
                       \/ upload[v].created = upload[u].created /\ v <= u
            <6>1. doc[d].latest # None
              BY <3>4
            <6>2. PICK l \in UploadIds : l = doc[d].latest
              BY <3>3, <3>4, <6>1
            <6>3. Newer(u, l)
              BY <3>5, <6>1, <6>2
            <6>4. \/ upload[v].created < upload[l].created
                  \/ upload[v].created = upload[l].created /\ v <= l
              BY <3>4, <6>1, <6>2
            <6>5. v \in UploadIds
              BY <3>3
            <6> QED
              BY <5>1, <6>2, <6>3, <6>4, <6>5 DEF Newer
          <5> QED
            BY <5>1, <5>2
        <4>3. u # None
          BY <1>0, UploadsAssumption
        <4> QED
          BY <1>0, <2>5, <3>1, <3>2, <3>3, <4>1, <4>2, <4>3 DEF LatestIsNewest
      <3>6. CASE ~(doc[d].latest = None \/ Newer(u, doc[d].latest))
        <4>1. doc' = doc
          BY <1>2, <3>6
        <4>2. \A v \in VersionsOf(d) \union {u} :
                 \/ upload[v].created < upload[doc[d].latest].created
                 \/ upload[v].created = upload[doc[d].latest].created /\ v <= doc[d].latest
          <5>1. \A v \in UploadIds : v \in Nat /\ upload[v].created \in Nat
            BY <3>2, UploadsAssumption
          <5>2. PICK l \in UploadIds : l = doc[d].latest
            BY <3>3, <3>4, <3>6
          <5>3. upload[u].created < upload[l].created \/ (upload[u].created = upload[l].created /\ u <= l)
            BY <3>6, <5>1, <5>2 DEF Newer
          <5> QED
            BY <3>4, <3>6, <5>2, <5>3
        <4> QED
          BY <1>0, <2>5, <3>1, <3>2, <3>3, <3>4, <3>6, <4>1, <4>2 DEF LatestIsNewest
      <3> QED
        BY <3>5, <3>6
    <2> QED
      BY <2>8, <2>9, <2>10, <2>11, <2>12, <2>13, <2>14, <2>15, <2>16
  <1> QED
    BY <1>1, <1>2, <1>4, <1>6 DEF Accept

\* Every step keeps the invariant.
LEMMA NextSafe ==
    ASSUME UploadsInv, [Next]_vars
    PROVE  UploadsInv'
  <1>1. CASE \E d \in Docs : CreateDocument(d) \/ RequestDeletion(d)
    BY <1>1, CreateDocumentSafe, RequestDeletionSafe
  <1>2. CASE \E r \in Runners, d \in Docs, k \in Keys : ReadDocument(r, d, k)
    BY <1>2, ReadDocumentSafe
  <1>3. CASE \E r \in Runners, u \in UploadIds : InitiateUpload(r, u) \/ EnqueueValidation(r, u)
    BY <1>3, InitiateSafe, EnqueueSafe
  <1>4. CASE \E u \in UploadIds, committed \in BOOLEAN : ReceiveContent(u, committed)
    BY <1>4, ReceiveSafe
  <1>5. CASE \E r \in Runners : StartValidation(r) \/ Accept(r) \/ Reject(r) \/ Crash(r)
    BY <1>5, StartSafe, AcceptSafe, RejectSafe, CrashSafe
  <1>6. CASE \E r \in Runners, verdict \in {"promoted", "refused"} : VerifyAndPromote(r, verdict)
    BY <1>6, VerifySafe
  <1>7. CASE Tick
    BY <1>7, TickSafe
  <1>8. CASE UNCHANGED vars
    <2>1. UploadsTypeOK' /\ RunnersSound' /\ VerdictsKept'
      BY <1>8 DEF UploadsInv, UploadsTypeOK, RunnersSound, VerdictsKept, vars
    <2> QED
      BY <1>8, <2>1, QuietStep DEF SameUploads, vars
  <1> QED
    BY <1>1, <1>2, <1>3, <1>4, <1>5, <1>6, <1>7, <1>8 DEF Next

-----------------------------------------------------------------------------
(* Theorems *)

\* The inductive invariant holds in every reachable state of the upload service.
THEOREM UploadsInductive == Spec => []UploadsInv
  <1>1. Init => UploadsInv
    BY InitSafe
  <1>2. UploadsInv /\ [Next]_vars => UploadsInv'
    BY NextSafe
  <1> QED
    BY <1>1, <1>2, PTL DEF Spec

\* An accepted upload is whole: version, bytes, job and exactly one audit entry, whatever
\* threads of complete_upload raced and wherever a process died.
THEOREM AcceptedWhole == Spec => []AcceptedIsWhole
  <1>1. ASSUME UploadsInv
        PROVE  AcceptedIsWhole
    <2>1. ASSUME NEW u \in version
          PROVE  \E i \in AcceptedAt(u) : AcceptedAt(u) = {i}
      <3>1. upload[u].doc \in Docs
        BY <1>1 DEF UploadsInv, UploadsTypeOK, VerdictsKept, UploadsOwned
      <3>2. PICK i \in DOMAIN audit[upload[u].doc] : audit[upload[u].doc][i] = Accepted(u)
        BY <1>1 DEF UploadsInv, AuditOnce
      <3>3. i \in AcceptedAt(u)
        BY <3>2 DEF AcceptedAt, Accepted
      <3>4. \A j \in AcceptedAt(u) : j = i
        BY <1>1, <3>1, <3>2 DEF UploadsInv, AuditOnce, AcceptedAt, Accepted
      <3> QED
        BY <3>3, <3>4
    <2> QED
      BY <1>1, <2>1 DEF UploadsInv, VerdictsKept, AcceptedIsWhole
  <1> QED
    BY <1>1, UploadsInductive, PTL

\* The latest version of a document is the newest accepted one, in whatever order uploads
\* complete.
THEOREM LatestNewest == Spec => []LatestIsNewest
  <1>1. UploadsInv => LatestIsNewest
    BY DEF UploadsInv
  <1> QED
    BY <1>1, UploadsInductive, PTL

\* The manifest of a deletion request lists every version the document will ever have.
THEOREM ManifestComplete == Spec => []ManifestIsComplete
  <1>1. UploadsInv => ManifestIsComplete
    BY DEF UploadsInv
  <1> QED
    BY <1>1, UploadsInductive, PTL

\* A key of initiate_upload starts at most one upload of a document.
THEOREM KeysAreExact == Spec => []OneUploadPerKey
  <1>1. UploadsInv => OneUploadPerKey
    BY DEF UploadsInv
  <1> QED
    BY <1>1, UploadsInductive, PTL

\* A verdict is given once: no later transaction of complete_upload changes it.
THEOREM VerdictsAreFinal == Spec => VerdictFinal
  <1> DEFINE Final == \A u \in UploadIds :
          upload[u].status \in {"accepted", "rejected"} =>
              /\ upload'[u].status = upload[u].status
              /\ upload'[u].job = upload[u].job
  <1>1. ASSUME UploadsInv, Next
        PROVE  Final
    <2> SUFFICES ASSUME NEW u \in UploadIds, upload[u].status \in {"accepted", "rejected"}
                 PROVE  /\ upload'[u].status = upload[u].status
                        /\ upload'[u].job = upload[u].job
      OBVIOUS
    <2>1. upload[u].job # "none" /\ ~Pending(u)
      BY <1>1 DEF UploadsInv, VerdictsKept, Pending
    <2>2. CASE upload' = upload
      BY <2>2
    <2>3. ASSUME NEW r \in Runners, NEW v \in UploadIds, InitiateUpload(r, v) PROVE upload'[u] = upload[u]
      BY <1>1, <2>3 DEF InitiateUpload, UploadsInv, UploadsTypeOK
    <2>4. ASSUME NEW r \in Runners, NEW v \in UploadIds, EnqueueValidation(r, v)
          PROVE  upload'[u] = upload[u]
      BY <1>1, <2>1, <2>4 DEF EnqueueValidation, UploadsInv, UploadsTypeOK
    <2>5. ASSUME NEW v \in UploadIds, NEW committed \in BOOLEAN, ReceiveContent(v, committed)
          PROVE  upload'[u] = upload[u]
      BY <1>1, <2>1, <2>5 DEF ReceiveContent, UploadsInv, UploadsTypeOK
    <2>6. ASSUME NEW r \in Runners, StartValidation(r) PROVE upload'[u] = upload[u]
      BY <1>1, <2>1, <2>6 DEF StartValidation, UploadsInv, UploadsTypeOK
    <2>7. ASSUME NEW r \in Runners, Accept(r) PROVE upload'[u] = upload[u]
      BY <1>1, <2>1, <2>7 DEF Accept, UploadsInv, UploadsTypeOK
    <2>8. ASSUME NEW r \in Runners, Reject(r) PROVE upload'[u] = upload[u]
      BY <1>1, <2>8 DEF Reject, UploadsInv, UploadsTypeOK
    <2>9. \/ upload' = upload
          \/ \E r \in Runners, v \in UploadIds : InitiateUpload(r, v) \/ EnqueueValidation(r, v)
          \/ \E v \in UploadIds, committed \in BOOLEAN : ReceiveContent(v, committed)
          \/ \E r \in Runners : StartValidation(r) \/ Accept(r) \/ Reject(r)
      BY <1>1 DEF Next, CreateDocument, RequestDeletion, ReadDocument, VerifyAndPromote, Crash, Tick
    <2> QED
      BY <2>2, <2>3, <2>4, <2>5, <2>6, <2>7, <2>8, <2>9
  <1>2. UploadsInv /\ [Next]_vars => [Final]_vars
    BY <1>1
  <1> QED
    BY <1>2, UploadsInductive, PTL DEF Spec, VerdictFinal
=============================================================================
