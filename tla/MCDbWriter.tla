----------------------------- MODULE MCDbWriter -----------------------------
(* Instances of DbWriter for TLC.  Processes differ only by their command. *)
EXTENDS DbWriter

CONSTANTS a, b
Two == {a, b}
MixedJobs == {"loan", "report", "renderAll", "renderScenarios", "listing", "query", "init", "readLatest"}
BypassJobs == {"loan", "query"}
=============================================================================
