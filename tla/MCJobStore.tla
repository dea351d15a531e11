----------------------------- MODULE MCJobStore -----------------------------
(* Instances of JobStore for TLC. *)
EXTENDS JobStore

CONSTANTS parse, extract, tag, batch, tagb, rec1, rep1

\* parse -> extract -> tag with one extraction continuation and the tag job its commit
\* enqueues, followed by an authorized tag recovery and a reprocess.
AllJobs == {parse, extract, tag, batch, tagb, rec1, rep1}
AllStage == [j \in AllJobs |->
    CASE j = parse -> "parse" [] j \in {extract, batch} -> "extract" [] OTHER -> "tag"]
AllOrigin == [j \in AllJobs |->
    CASE j = batch -> "batch" [] j = rec1 -> "recovery" [] j = rep1 -> "reprocess"
      [] OTHER -> "pipeline"]
AllNext == [j \in AllJobs |->
    CASE j = parse -> extract [] j = extract -> tag [] j = batch -> tagb [] OTHER -> None]

\* A relay delivers the first tag job's events only.
TagMarks == [j \in AllJobs |-> IF j = tag THEN 1 ELSE 0]

\* The stages alone, followed by an authorized tag recovery and a reprocess.
MixedJobs == {parse, extract, tag, rec1, rep1}
MixedStage == [j \in MixedJobs |->
    CASE j = parse -> "parse" [] j = extract -> "extract" [] OTHER -> "tag"]
MixedOrigin == [j \in MixedJobs |->
    CASE j = rec1 -> "recovery" [] j = rep1 -> "reprocess" [] OTHER -> "pipeline"]
MixedNext == [j \in MixedJobs |->
    CASE j = parse -> extract [] j = extract -> tag [] OTHER -> None]
MixedMarks == [j \in MixedJobs |-> 0]
=============================================================================
