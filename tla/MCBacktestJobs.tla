--------------------------- MODULE MCBacktestJobs ---------------------------
(* Instances of BacktestJobs for TLC. *)
EXTENDS BacktestJobs

CONSTANTS j1, j2   \* submissions
=============================================================================
