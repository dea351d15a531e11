------------------------------ MODULE Uploads ------------------------------
(***************************************************************************)
(* Documents, uploads and deletion requests: UploadService                 *)
(* (application/uploads.py), the vault that promotes verified bytes        *)
(* (application/uploads_security.py) and LocalRetentionStore               *)
(* (adapters/local/retention_store.py).                                    *)
(*                                                                         *)
(* Every transaction of the service holds one writer lock and is one step. *)
(* Between the transactions of one request other requests run: the         *)
(* document is read before the transaction that starts an upload, and a    *)
(* file is verified and promoted between two transactions.  Bytes live in  *)
(* two directories outside the database.  An upload fixes its version id   *)
(* and its declared hash, so every copy of its bytes is the same.          *)
(***************************************************************************)
EXTENDS Integers, Sequences

CONSTANTS
    Docs,
    UploadIds,     \* upload and version ids; numbers stand for the order of version ids
    Keys,          \* idempotency keys of initiate_upload (all live: horizon below 24 h)
    Runners,       \* threads that serve requests
    None,
    Ttl,           \* 600 s of a ticket
    MaxClock,      \* bound: clock readings
    MaxAttempts    \* bound: validation attempts of one upload

ASSUME UploadsAssumption ==
    /\ UploadIds \subseteq Nat
    /\ None \notin UploadIds /\ \A S \in SUBSET UploadIds : S # None
    /\ None \notin Docs /\ None \notin Keys
    /\ {Ttl, MaxClock, MaxAttempts} \subseteq Nat

VARIABLES
    doc,          \* upload_records of kind document
    upload,       \* upload_records of kind upload, with validation_job
    version,      \* upload_records of kind version (the id is that of its upload)
    quarantine,   \* files of the quarantine directory
    original,     \* files of the original directory
    tombstone,    \* retention_tombstones: the versions its manifest lists, or None
    audit,        \* upload_audit of each document
    clock,
    runner        \* local variables of a request in progress

vars == <<doc, upload, version, quarantine, original, tombstone, audit, clock, runner>>

-----------------------------------------------------------------------------
(* Records *)

DocRecord == [live : BOOLEAN, latest : UploadIds \union {None}, revision : Nat]

UploadRecord ==
    [status : {"none", "pending", "accepted", "rejected"},
     doc : Docs \union {None}, key : Keys \union {None}, created : Nat,
     received : BOOLEAN,
     job : {"none", "queued", "running", "ready", "failed"}, attempt : Nat]

RunnerRecord ==
    [pc : {"idle", "initiate", "start", "verify", "promoted", "refused"},
     up : UploadIds \union {None}, doc : Docs \union {None}, key : Keys \union {None}]

Event == [action : {"created", "initiated", "accepted", "deletion_requested"},
          up : UploadIds \union {None}]

NoUpload == [status |-> "none", doc |-> None, key |-> None, created |-> 0,
             received |-> FALSE, job |-> "none", attempt |-> 0]

Idle == [pc |-> "idle", up |-> None, doc |-> None, key |-> None]

Init ==
    /\ doc = [d \in Docs |-> [live |-> FALSE, latest |-> None, revision |-> 0]]
    /\ upload = [u \in UploadIds |-> NoUpload]
    /\ version = {} /\ quarantine = {} /\ original = {}
    /\ tombstone = [d \in Docs |-> None]
    /\ audit = [d \in Docs |-> << >>]
    /\ clock = 0
    /\ runner = [r \in Runners |-> Idle]

-----------------------------------------------------------------------------
(* Reads *)

Deleted(d) == tombstone[d] # None

ReadableMutant(d) == doc[d].live

\* _get and _put of a document or a version: both carry document_id and meet the tombstone.
\* The record of an upload carries no document_id, so neither looks for one there.
Readable(d) == doc[d].live /\ ~Deleted(d)

Pending(u) == upload[u].status = "pending" /\ clock < upload[u].created + Ttl

VersionsOf(d) == {u \in version : upload[u].doc = d}

NewerMutant(u, v) == upload[u].created >= upload[v].created

\* The order of versions: created_at, then version_id.
Newer(u, v) ==
    \/ upload[u].created > upload[v].created
    \/ upload[u].created = upload[v].created /\ u > v

Append1(d, action, u) == [audit EXCEPT ![d] = Append(@, [action |-> action, up |-> u])]

-----------------------------------------------------------------------------
(* Documents and tickets *)

CreateDocument(d) ==
    /\ ~doc[d].live
    /\ doc' = [doc EXCEPT ![d] = [live |-> TRUE, latest |-> None, revision |-> 1]]
    /\ audit' = Append1(d, "created", None)
    /\ UNCHANGED <<upload, version, quarantine, original, tombstone, clock, runner>>

\* initiate_upload reads the document before it opens its transaction.
ReadDocument(r, d, k) ==
    /\ runner[r].pc = "idle"
    /\ Readable(d)
    /\ runner' = [runner EXCEPT ![r] = [pc |-> "initiate", up |-> None, doc |-> d, key |-> k]]
    /\ UNCHANGED <<doc, upload, version, quarantine, original, tombstone, audit, clock>>

\* The uploads whose ticket answers the key already.
Replayed(d, k) == {u \in UploadIds : upload[u].doc = d /\ upload[u].key = k}

InitiateUpload(r, u) ==
    LET d == runner[r].doc  k == runner[r].key IN
    /\ runner[r].pc = "initiate"
    /\ runner' = [runner EXCEPT ![r] = Idle]
    /\ \/ /\ Replayed(d, k) # {}
          /\ UNCHANGED <<upload, audit>>
       \/ /\ Replayed(d, k) = {}
          /\ upload[u].status = "none"
          /\ upload' = [upload EXCEPT ![u] =
                 [NoUpload EXCEPT !.status = "pending", !.doc = d, !.key = k, !.created = clock]]
          /\ audit' = Append1(d, "initiated", u)
    /\ UNCHANGED <<doc, version, quarantine, original, tombstone, clock>>

\* receive_content links the file and commits; a failed commit leaves the file behind, and
\* the next delivery finds the same bytes there.
ReceiveContent(u, committed) ==
    /\ Pending(u)
    /\ ~upload[u].received
    /\ quarantine' = quarantine \union {u}
    /\ upload' = [upload EXCEPT ![u].received = committed]
    /\ UNCHANGED <<doc, version, original, tombstone, audit, clock, runner>>

-----------------------------------------------------------------------------
(* complete_upload *)

\* enqueue_validation, the first transaction.
EnqueueValidation(r, u) ==
    /\ runner[r].pc = "idle"
    /\ upload[u].status = "accepted" \/ (Pending(u) /\ upload[u].received)
    /\ upload' = IF upload[u].job = "none" THEN [upload EXCEPT ![u].job = "queued"] ELSE upload
    /\ runner' = [runner EXCEPT ![r] =
                     [pc |-> "start", up |-> u, doc |-> None, key |-> None]]
    /\ UNCHANGED <<doc, version, quarantine, original, tombstone, audit, clock>>

\* The second transaction: an accepted upload is answered from its version, one that was
\* rejected or ran out meanwhile is refused.
StartValidation(r) ==
    LET u == runner[r].up IN
    /\ runner[r].pc = "start"
    /\ \/ /\ ~Pending(u)
          /\ runner' = [runner EXCEPT ![r] = Idle]
          /\ UNCHANGED upload
       \/ /\ Pending(u)
          /\ upload[u].attempt < MaxAttempts
          /\ upload' = [upload EXCEPT ![u].job = "running", ![u].attempt = @ + 1]
          /\ runner' = [runner EXCEPT ![r].pc = "verify"]
    /\ UNCHANGED <<doc, version, quarantine, original, tombstone, audit, clock>>

\* verify_and_promote, outside any transaction.  The verdict depends on the child's time and
\* memory limits too.  A refusal may come after the original was linked (a different display
\* copy of an earlier attempt is in the way).
VerifyAndPromote(r, verdict) ==
    LET u == runner[r].up IN
    /\ runner[r].pc = "verify"
    /\ runner' = [runner EXCEPT ![r].pc = verdict]
    /\ \/ original' = original \union {u}
       \/ verdict = "refused" /\ original' = original
    /\ UNCHANGED <<doc, upload, version, quarantine, tombstone, audit, clock>>

AcceptMutant(r) ==
    LET u == runner[r].up  d == upload[u].doc IN
    /\ runner[r].pc = "promoted" /\ Readable(d)
    /\ runner' = [runner EXCEPT ![r] = Idle]
    /\ audit' = Append1(d, "accepted", u)
    /\ version' = version \union {u}
    /\ doc' = IF doc[d].latest = None \/ Newer(u, doc[d].latest)
                THEN [doc EXCEPT ![d].latest = u, ![d].revision = @ + 1] ELSE doc
    /\ upload' = [upload EXCEPT ![u].status = "accepted", ![u].job = "ready"]
    /\ UNCHANGED <<quarantine, original, tombstone, clock>>

\* The last transaction of a verified upload: audit, version, latest and upload together.
Accept(r) ==
    LET u == runner[r].up  d == upload[u].doc IN
    /\ runner[r].pc = "promoted"
    /\ runner' = [runner EXCEPT ![r] = Idle]
    /\ \/ /\ ~(Pending(u) /\ Readable(d))
          /\ UNCHANGED <<doc, upload, version, audit>>
       \/ /\ Pending(u) /\ Readable(d)
          /\ audit' = Append1(d, "accepted", u)
          /\ version' = version \union {u}
          /\ doc' = IF doc[d].latest = None \/ Newer(u, doc[d].latest)
                      THEN [doc EXCEPT ![d].latest = u, ![d].revision = @ + 1]
                      ELSE doc
          /\ upload' = [upload EXCEPT ![u].status = "accepted", ![u].job = "ready"]
    /\ UNCHANGED <<quarantine, original, tombstone, clock>>

RejectMutant(r) ==
    LET u == runner[r].up IN
    /\ runner[r].pc = "refused"
    /\ runner' = [runner EXCEPT ![r] = Idle]
    /\ upload' = [upload EXCEPT ![u].status = "rejected", ![u].job = "failed"]
    /\ UNCHANGED <<doc, version, quarantine, original, tombstone, audit, clock>>

\* The last transaction of a refused one: it counts only while the upload is undecided.
Reject(r) ==
    LET u == runner[r].up IN
    /\ runner[r].pc = "refused"
    /\ runner' = [runner EXCEPT ![r] = Idle]
    /\ upload' = IF upload[u].status = "pending"
                   THEN [upload EXCEPT ![u].status = "rejected", ![u].job = "failed"]
                   ELSE upload
    /\ UNCHANGED <<doc, version, quarantine, original, tombstone, audit, clock>>

\* The process dies, or the step raises something other than UploadRejected.
Crash(r) ==
    /\ runner[r].pc # "idle"
    /\ runner' = [runner EXCEPT ![r] = Idle]
    /\ UNCHANGED <<doc, upload, version, quarantine, original, tombstone, audit, clock>>

-----------------------------------------------------------------------------
(* Deletion and time *)

\* LocalRetentionStore.request: the manifest lists the versions, the tombstone is for good.
RequestDeletion(d) ==
    /\ Readable(d)
    /\ tombstone' = [tombstone EXCEPT ![d] = VersionsOf(d)]
    /\ audit' = Append1(d, "deletion_requested", None)
    /\ UNCHANGED <<doc, upload, version, quarantine, original, clock, runner>>

Tick ==
    /\ clock < MaxClock
    /\ clock' = clock + 1
    /\ UNCHANGED <<doc, upload, version, quarantine, original, tombstone, audit, runner>>

Next ==
    \/ \E d \in Docs : CreateDocument(d) \/ RequestDeletion(d)
    \/ \E r \in Runners, d \in Docs, k \in Keys : ReadDocument(r, d, k)
    \/ \E r \in Runners, u \in UploadIds : InitiateUpload(r, u) \/ EnqueueValidation(r, u)
    \/ \E u \in UploadIds, committed \in BOOLEAN : ReceiveContent(u, committed)
    \/ \E r \in Runners : StartValidation(r) \/ Accept(r) \/ Reject(r) \/ Crash(r)
    \/ \E r \in Runners, verdict \in {"promoted", "refused"} : VerifyAndPromote(r, verdict)
    \/ Tick

Spec == Init /\ [][Next]_vars

-----------------------------------------------------------------------------
(* Properties *)

\* Every record, file and audit event has its type.
UploadsTypeOK ==
    /\ doc \in [Docs -> DocRecord]
    /\ upload \in [UploadIds -> UploadRecord]
    /\ version \subseteq UploadIds
    /\ quarantine \subseteq UploadIds
    /\ original \subseteq UploadIds
    /\ tombstone \in [Docs -> (SUBSET UploadIds) \union {None}]
    /\ audit \in [Docs -> Seq(Event)]
    /\ clock \in Nat
    /\ runner \in [Runners -> RunnerRecord]

AcceptedAt(u) == {i \in DOMAIN audit[upload[u].doc] :
                    audit[upload[u].doc][i] = [action |-> "accepted", up |-> u]}

\* Whatever runners raced and wherever a process died, an accepted upload is whole: it has its
\* version, its bytes are in place, its job reports the result and its document's audit tells
\* of it exactly once (complete_upload, "only one accepted checkpoint commits").  No other
\* upload has a version, and a rejected one has a failed job.
AcceptedIsWhole ==
    \A u \in UploadIds :
        /\ u \in version <=> upload[u].status = "accepted"
        /\ u \in version => /\ u \in original
                            /\ upload[u].job = "ready"
                            /\ \E i \in AcceptedAt(u) : AcceptedAt(u) = {i}
        /\ upload[u].status = "rejected" => upload[u].job = "failed"

\* Uploads complete in any order, yet the latest version of a document is always the newest
\* of its accepted ones (complete_upload compares before it advances latest_version_id).
LatestIsNewest ==
    \A d \in Docs :
        /\ doc[d].latest = None <=> VersionsOf(d) = {}
        /\ doc[d].latest # None =>
              /\ doc[d].latest \in VersionsOf(d)
              /\ \A u \in VersionsOf(d) :
                    LET l == doc[d].latest IN
                    \/ upload[u].created < upload[l].created
                    \/ upload[u].created = upload[l].created /\ u <= l

\* A completion that was verifying when the deletion was requested publishes nothing: the
\* manifest of the tombstone lists every version the document has or will ever have.
ManifestIsComplete ==
    \A d \in Docs : Deleted(d) => tombstone[d] = VersionsOf(d)

\* One idempotency key starts at most one upload of a document, however often it is sent.
OneUploadPerKey ==
    \A u, v \in UploadIds :
        /\ upload[u].status # "none"
        /\ upload[u].doc = upload[v].doc
        /\ upload[u].key = upload[v].key
        => u = v

\* Two runners that disagree cannot overturn each other: a verdict is given once.
VerdictFinal ==
    [][\A u \in UploadIds :
          upload[u].status \in {"accepted", "rejected"} =>
              /\ upload'[u].status = upload[u].status
              /\ upload'[u].job = upload[u].job]_vars

\* What application/retention.py says of a tombstone: "writes and reads are fenced".  No file
\* is added for an upload of a document that has one.
TombstoneFencesBytes ==
    [][\A u \in UploadIds :
          upload[u].status # "none" /\ Deleted(upload[u].doc) =>
              (u \in quarantine' \union original' => u \in quarantine \union original)]_vars
=============================================================================
