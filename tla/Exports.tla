------------------------------ MODULE Exports ------------------------------
(***************************************************************************)
(* An export of a run that is still being reviewed and rescored            *)
(* (adapters/local/export_store.py, application/exports.py).               *)
(*                                                                         *)
(* Creating an export and every later poll of it may build it; several of  *)
(* them may do so at once.  A builder notes the epoch of the run, reads    *)
(* the evidence of each claim outside the transaction that captures the    *)
(* heads, freezes what it has captured and renders what is frozen.  It may *)
(* be gone between any two transactions.                                   *)
(*                                                                         *)
(* coverage.complete is never set by the local profile, so every report is *)
(* partial and an export that does not allow it is refused.  What is       *)
(* rendered is abstracted to the snapshot it was rendered from; the size   *)
(* limits are left out.                                                    *)
(***************************************************************************)
EXTENDS Reviews, Sums

CONSTANTS
    Builders,
    Attempts       \* range(4) of create_snapshot

ASSUME ExportsAssumption == Attempts \in Nat \ {0}

VARIABLES
    export,     \* export_state, export_snapshot and export_artifact
    builder     \* requests that build it

exportVars == <<export, builder>>
vars == <<reviewVars, exportVars>>

-----------------------------------------------------------------------------
Snapshot == [epoch : Nat, heads : [Claims -> HeadRecord],
             evidence : [Claims -> Nat],   \* the tag each claim's evidence was found for
             sound : BOOLEAN]              \* build_report_model accepts it

Export == [state : {"none", "queued", "building", "ready", "failed"}, allow : BOOLEAN,
           snap : Snapshot \union {None}, artifact : Snapshot \union {None}]

Builder == [pc : {"idle", "look", "read", "freeze", "render", "defer"},
            tries : 0 .. Attempts, epoch : Nat, read : SUBSET Claims,
            evidence : [Claims -> Nat], got : Snapshot \union {None},
            code : {"none", "busy", "rejected"}]

NoExport == [state |-> "none", allow |-> FALSE, snap |-> None, artifact |-> None]

Idle == [pc |-> "idle", tries |-> 0, epoch |-> 0, read |-> {},
         evidence |-> [c \in Claims |-> 0], got |-> None, code |-> "none"]

Init ==
    /\ ReviewInit
    /\ export = NoExport
    /\ builder = [b \in Builders |-> Idle]

-----------------------------------------------------------------------------
\* reserve; the same request again finds the export it made.
Reserve(allow) ==
    /\ export.state = "none"
    /\ export' = [export EXCEPT !.state = "queued", !.allow = allow]
    /\ UNCHANGED <<reviewVars, builder>>

\* get: an export that is ready or failed is left alone.
Begin(b) ==
    /\ builder[b].pc = "idle"
    /\ export.state \in {"queued", "building"}
    /\ builder' = [builder EXCEPT ![b] = [Idle EXCEPT !.pc = "look"]]
    /\ UNCHANGED <<reviewVars, export>>

\* The head of the loop of create_snapshot: take the snapshot that is frozen, or begin
\* capture by reading the run; after the last attempt the export is busy.
LookFrozen(b) ==
    LET w == builder[b] IN
    /\ w.pc = "look"
    /\ builder' = [builder EXCEPT ![b] =
           CASE w.tries = Attempts -> [Idle EXCEPT !.pc = "defer", !.code = "busy"]
             [] w.tries < Attempts /\ export.snap # None ->
                    [Idle EXCEPT !.pc = "render", !.got = export.snap]
             [] OTHER -> [Idle EXCEPT !.pc = "read", !.tries = w.tries, !.epoch = epoch]]
    /\ UNCHANGED <<reviewVars, export>>

\* current_tag of one claim, each in a transaction of its own.
ReadEvidence(b, c) ==
    /\ builder[b].pc = "read"
    /\ c \notin builder[b].read
    /\ builder' = [builder EXCEPT ![b].read = @ \union {c},
                                  ![b].evidence[c] = head[c].tag]
    /\ UNCHANGED <<reviewVars, export>>

SameEpochMutant(w) == TRUE

\* The transaction of capture sees the run it began with.
SameEpoch(w) == w.epoch = epoch

\* The transaction of capture; None when the run has moved since the first read.
Capture(b) ==
    LET w == builder[b] IN
    /\ w.pc = "read"
    /\ w.read = Claims
    /\ builder' = [builder EXCEPT ![b] = [Idle EXCEPT !.pc = "freeze", !.tries = w.tries, !.got =
           IF SameEpoch(w)
             THEN [epoch |-> epoch, heads |-> head, evidence |-> w.evidence,
                   sound |-> counted = Decided(head, decs)]
             ELSE None]]
    /\ UNCHANGED <<reviewVars, export>>

FreezableMutant(w) == w.got # None

\* Nobody has frozen the export and the capture is of the present run.
Freezable(w) == export.snap = None /\ w.got # None /\ w.got.epoch = epoch

\* freeze: the state that is frozen is the state the builder captured.
Freeze(b) ==
    LET w == builder[b] IN
    /\ w.pc = "freeze"
    /\ export.state # "failed"
    /\ Freezable(w)
    /\ w.got.sound /\ export.allow
    /\ export' = [export EXCEPT !.state = "building", !.snap = w.got]
    /\ builder' = [builder EXCEPT ![b] = [Idle EXCEPT !.pc = "render", !.got = w.got]]
    /\ UNCHANGED reviewVars

\* freeze answers False: the capture is repeated.
FreezeAgain(b) ==
    LET w == builder[b] IN
    /\ w.pc = "freeze"
    /\ export.state # "failed"
    /\ ~Freezable(w)
    /\ builder' = [builder EXCEPT ![b] = [Idle EXCEPT !.pc = "look", !.tries = w.tries + 1]]
    /\ UNCHANGED <<reviewVars, export>>

\* freeze raises: the export has failed, the report cannot be built or may not be partial.
FreezeRefused(b) ==
    LET w == builder[b] IN
    /\ w.pc = "freeze"
    /\ \/ export.state = "failed"
       \/ Freezable(w) /\ ~(w.got.sound /\ export.allow)
    /\ builder' = [builder EXCEPT ![b] = [Idle EXCEPT !.pc = "defer", !.code = "rejected"]]
    /\ UNCHANGED <<reviewVars, export>>

CompleteMutant(b) ==
    /\ builder[b].pc = "render"
    /\ export' = IF export.state = "ready" THEN export
                 ELSE [export EXCEPT !.state = "ready", !.artifact = builder[b].got]
    /\ audited' = audited + 1
    /\ builder' = [builder EXCEPT ![b] = Idle]
    /\ UNCHANGED <<stageVars, epoch, head, tags, decs, review, counted, view, flight, artifacts,
                   pack, active>>

\* build_export and complete; a builder that comes second finds the export ready.
Complete(b) ==
    /\ builder[b].pc = "render"
    /\ IF export.state = "ready" THEN UNCHANGED <<export, audited>>
       ELSE /\ export' = [export EXCEPT !.state = "ready", !.artifact = builder[b].got]
            /\ audited' = audited + 1
    /\ builder' = [builder EXCEPT ![b] = Idle]
    /\ UNCHANGED <<stageVars, epoch, head, tags, decs, review, counted, view, flight, artifacts,
                   pack, active>>

\* defer leaves a ready export alone.
Deferrable == export.state # "ready"

Defer(b) ==
    /\ builder[b].pc = "defer"
    /\ export' = IF ~Deferrable THEN export
                 ELSE [export EXCEPT !.state =
                          IF builder[b].code = "busy" THEN "queued" ELSE "failed"]
    /\ builder' = [builder EXCEPT ![b] = Idle]
    /\ UNCHANGED reviewVars

\* The process that serves the request dies.
BuilderLost(b) ==
    /\ builder[b].pc # "idle"
    /\ builder' = [builder EXCEPT ![b] = Idle]
    /\ UNCHANGED <<reviewVars, export>>

Next ==
    \/ ReviewNext /\ UNCHANGED exportVars
    \/ \E allow \in BOOLEAN : Reserve(allow)
    \/ \E b \in Builders :
          \/ Begin(b) \/ LookFrozen(b) \/ Capture(b)
          \/ Freeze(b) \/ FreezeAgain(b) \/ FreezeRefused(b)
          \/ Complete(b) \/ Defer(b) \/ BuilderLost(b)
    \/ \E b \in Builders, c \in Claims : ReadEvidence(b, c)

Spec == Init /\ [][Next]_vars

-----------------------------------------------------------------------------
(* Properties *)

\* A builder makes at most Attempts captures, and the records have the values the stores
\* give them.
ExportsTypeOK == ReviewsTypeOK /\ export \in Export /\ builder \in [Builders -> Builder]

\* What is frozen is the run at one moment, the moment it is frozen: the heads of all claims
\* and the evidence that was read for them one by one before belong to the same revisions,
\* although tag jobs, reviews and rescores go on meanwhile.  It is frozen once: no builder
\* replaces the snapshot of another.
FreezesPresent ==
    [][export'.snap # export.snap =>
          /\ export.snap = None
          /\ export'.snap.heads = head
          /\ \A c \in Claims : export'.snap.evidence[c] = head[c].tag]_vars

\* Whatever builders ran against each other, what a reader downloads, and what a builder is
\* still rendering, is the snapshot that was frozen.
ReadyIsFrozen ==
    /\ export.state = "ready" => export.snap # None /\ export.artifact = export.snap
    /\ \A b \in Builders : builder[b].pc = "render" => builder[b].got = export.snap

\* The records of an export agree with one another in every state.
ExportsSound == ExportsTypeOK /\ ReadyIsFrozen

\* A ready export stays as it is, also when a builder that lost the race gives up after it.
ReadyForGood == [][export.state = "ready" => export' = export]_vars

\* An export is one moment of the run, for good.
FrozenForGood == FreezesPresent /\ ReadyForGood

\* From the tag stage on, the audit chain of the run has one event for each revision published
\* or reviewed, each rescore, each tag job that has committed, each cancellation or retry by an
\* operator, and the export, whatever was delivered, sent or built again.  Source conditions
\* and submitted reviews, which append to the same chain, are not modelled.
AuditTellsAll ==
    audited = Total([c \in Claims |-> Len(tags[c])], Claims) + Cardinality(artifacts)
              + Cardinality({j \in TagJobs : tagJob[j].status = "succeeded"}) + actions
              + (IF export.state = "ready" THEN 1 ELSE 0)
=============================================================================
