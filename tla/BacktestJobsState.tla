------------------------- MODULE BacktestJobsState --------------------------
(* The dashboard's jobs: what they are set up with, the state that threads, *)
(* service and database hold of them, and what must be true of it whatever  *)
(* steps BacktestJobs takes.                                                *)
EXTENDS Naturals

CONSTANTS
    Jobs,          \* job ids, one for each submission
    MaxRestarts,   \* bound: starts of the service
    Faults,        \* which faults the instance includes
    NoJob          \* no job

FaultNames ==
    {"store",     \* saving a job may raise
     "marker",    \* writing the completion marker may raise OSError
     "spawn",     \* building the command or starting the child may raise
     "threads",   \* a thread may fail to start
     "crash"}     \* the service may be killed

ASSUME JobsAssumption == NoJob \notin Jobs /\ MaxRestarts \in Nat
ASSUME FaultsAssumption == Faults \subseteq FaultNames

VARIABLES
    up, closed,    \* the service runs; close() was called
    active,        \* _active, the job that holds the slot
    process,       \* _process, the job whose child can be killed
    mem,           \* _jobs[id].status
    cancelled,     \* _jobs[id].cancel_requested
    worker,        \* where each worker thread is; "leave" and "done" are "finish"
                   \* and "ended" of a job that never had a log reader
    result,        \* the status a worker has worked out
    child,         \* the child processes
    store,         \* experiments.status
    marker,        \* status in the report's dashboard_job.json
    restarts

TERMINAL == {"succeeded", "failed", "timed_out", "cancelled", "interrupted"}

-----------------------------------------------------------------------------
(* A service that is not killed never has two children running, however     *)
(* submissions, cancels, timeouts, failed saves and a close interleave, and *)
(* from the moment a cancel or a close has hold of the lock no child of the *)
(* job runs: neither call can slip between the worker's look at the flags   *)
(* and its start of the child, or miss a child it has just started (_submit,*)
(* _run, cancel, close).                                                    *)
OneChild ==
    \A i, j \in Jobs : child[i] = "running" /\ child[j] = "running" => i = j
CancelReachesChild ==
    \A j \in Jobs : up /\ child[j] = "running" => ~cancelled[j] /\ ~closed
ChildrenHeld == OneChild /\ CancelReachesChild

(* A job whose cancel was accepted is never shown, saved or published as    *)
(* succeeded, even when its child had already ended well.                   *)
CancelledNeverSucceeds ==
    \A j \in Jobs :
        cancelled[j] => "succeeded" \notin {mem[j], store[j], marker[j]}

(* The record of a job that has ended is never written over, by the log     *)
(* reader, a late cancel, a close or a restart.                             *)
EndedForGood ==
    [][\A j \in Jobs : store[j] \in TERMINAL => store'[j] = store[j]]_store
=============================================================================
