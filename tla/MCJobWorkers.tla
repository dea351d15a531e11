---------------------------- MODULE MCJobWorkers ----------------------------
(* Instances of JobWorkers for TLC. *)
EXTENDS JobWorkers, TLC

CONSTANTS parse, extract, tag, w1, w2

StageJobs == {parse, extract, tag}
StageOf == [j \in StageJobs |->
    CASE j = parse -> "parse" [] j = extract -> "extract" [] OTHER -> "tag"]
StageOrigin == [j \in StageJobs |-> "pipeline"]
StageNext == [j \in StageJobs |->
    CASE j = parse -> extract [] j = extract -> tag [] OTHER -> None]
StageMarks == [j \in StageJobs |-> 1]

WorkerSymmetry == Permutations(Workers)
=============================================================================
