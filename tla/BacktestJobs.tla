----------------------------- MODULE BacktestJobs -----------------------------
(***************************************************************************)
(* The web dashboard's jobs: callers submit, cancel and close; a worker    *)
(* thread per job runs one child process and publishes its result; the     *)
(* experiment history survives the service.                                *)
(*                                                                         *)
(* A step is what a thread does while it holds the manager's lock, or      *)
(* between two such sections.  A report's completion marker is on disk.    *)
(* The log reader only refreshes the history; one that died may leave the  *)
(* child blocked on its pipe, so no child is ever assumed to end.          *)
(***************************************************************************)
EXTENDS BacktestJobsState

vars == <<up, closed, active, process, mem, cancelled, worker, result, child,
          store, marker, restarts>>

Status == {"none", "queued", "running"} \cup TERMINAL

TypeOK ==
    /\ up \in BOOLEAN /\ closed \in BOOLEAN
    /\ active \in Jobs \cup {NoJob} /\ process \in Jobs \cup {NoJob}
    /\ mem \in [Jobs -> Status]
    /\ cancelled \in [Jobs -> BOOLEAN]
    /\ worker \in [Jobs -> {"none", "start", "abort", "lost", "wait", "judge",
                            "leave", "finish", "done", "ended", "dead"}]
    /\ result \in [Jobs -> TERMINAL]
    /\ child \in [Jobs -> {"none", "running", "complete", "broken", "killed"}]
    /\ store \in [Jobs -> Status]
    /\ marker \in [Jobs -> {"none"} \cup TERMINAL]
    /\ restarts \in 0 .. MaxRestarts

Init ==
    /\ up = TRUE /\ closed = FALSE /\ active = NoJob /\ process = NoJob
    /\ mem = [j \in Jobs |-> "none"]
    /\ cancelled = [j \in Jobs |-> FALSE]
    /\ worker = [j \in Jobs |-> "none"]
    /\ result = [j \in Jobs |-> "failed"]
    /\ child = [j \in Jobs |-> "none"]
    /\ store = [j \in Jobs |-> "none"]
    /\ marker = [j \in Jobs |-> "none"]
    /\ restarts = 0

-----------------------------------------------------------------------------
Goes(j, here, there) == worker[j] = here /\ worker' = [worker EXCEPT ![j] = there]

(* _persist: the row takes the status s. *)
Saved(j, s) == store' = [store EXCEPT ![j] = s]

(* It raises, after the commit or without it. *)
SaveRaises(j, s) == "store" \in Faults /\ (Saved(j, s) \/ UNCHANGED store)

Kill(j) ==
    child' = IF j # NoJob /\ child[j] = "running" THEN [child EXCEPT ![j] = "killed"]
             ELSE child

-----------------------------------------------------------------------------
(* _submit                                                                  *)

SlotFree_Always == up /\ ~closed
SlotFree == up /\ ~closed /\ active = NoJob

(* The slot is taken and the worker is started; when it cannot be started   *)
(* the caller gets the error and the slot stays taken.                      *)
Submit(j) ==
    /\ SlotFree /\ store[j] = "none"
    /\ Saved(j, "queued")
    /\ mem' = [mem EXCEPT ![j] = "queued"]
    /\ active' = j
    /\ \/ worker' = [worker EXCEPT ![j] = "start"]
       \/ "threads" \in Faults /\ worker' = [worker EXCEPT ![j] = "dead"]
    /\ UNCHANGED <<up, closed, process, cancelled, result, child, marker, restarts>>

(* The first save raises: no job is registered. *)
SubmitRaises(j) ==
    /\ SlotFree /\ store[j] = "none"
    /\ SaveRaises(j, "queued")
    /\ UNCHANGED <<up, closed, active, process, mem, cancelled, worker, result,
                   child, marker, restarts>>

-----------------------------------------------------------------------------
(* _run                                                                     *)

Unwanted(j) == closed \/ cancelled[j]

RunCancelled(j) ==
    /\ Goes(j, "start", "leave") /\ Unwanted(j)
    /\ result' = [result EXCEPT ![j] = "cancelled"]
    /\ UNCHANGED <<up, closed, active, process, mem, cancelled, child, store,
                   marker, restarts>>

RunRaises(j) ==
    /\ "spawn" \in Faults
    /\ Goes(j, "start", "leave") /\ ~Unwanted(j)
    /\ UNCHANGED <<up, closed, active, process, mem, cancelled, result, child, store,
                   marker, restarts>>

(* The child runs.  If its job cannot be saved, or its log reader cannot be *)
(* started, it is killed next.                                              *)
RunStarts(j) ==
    /\ worker[j] = "start" /\ ~Unwanted(j)
    /\ child' = [child EXCEPT ![j] = "running"]
    /\ process' = j
    /\ mem' = [mem EXCEPT ![j] = "running"]
    /\ \/ Saved(j, "running") /\ worker' = [worker EXCEPT ![j] = "wait"]
       \/ SaveRaises(j, "running") /\ worker' = [worker EXCEPT ![j] = "abort"]
    /\ UNCHANGED <<up, closed, active, cancelled, result, marker, restarts>>

RunLosesReader(j) ==
    /\ "threads" \in Faults
    /\ Goes(j, "start", "lost") /\ ~Unwanted(j)
    /\ child' = [child EXCEPT ![j] = "running"]
    /\ process' = j
    /\ mem' = [mem EXCEPT ![j] = "running"]
    /\ Saved(j, "running")
    /\ UNCHANGED <<up, closed, active, cancelled, result, marker, restarts>>

(* Joining a reader that was never started raises, ahead of the section     *)
(* that frees the slot.                                                     *)
RunAborts(j) ==
    /\ Goes(j, "abort", "leave") \/ Goes(j, "lost", "dead")
    /\ Kill(j)
    /\ UNCHANGED <<up, closed, active, process, mem, cancelled, result, store,
                   marker, restarts>>

ChildExits(j) == worker[j] = "wait" /\ child[j] # "running"

WaitReturns(j) ==
    /\ ChildExits(j) /\ Goes(j, "wait", "judge")
    /\ UNCHANGED <<up, closed, active, process, mem, cancelled, result, child, store,
                   marker, restarts>>

WaitTimesOut(j) ==
    /\ Goes(j, "wait", "finish")
    /\ Kill(j)
    /\ result' = [result EXCEPT ![j] = "timed_out"]
    /\ UNCHANGED <<up, closed, active, process, mem, cancelled, store, marker, restarts>>

(* Exit code 0 and the result file mean success. *)
Judge(j) ==
    /\ Goes(j, "judge", "finish")
    /\ result' = [result EXCEPT ![j] = IF cancelled[j] THEN "cancelled"
                                       ELSE IF child[j] = "complete" THEN "succeeded"
                                       ELSE "failed"]
    /\ UNCHANGED <<up, closed, active, process, mem, cancelled, child, store, marker,
                   restarts>>

FinalStatus_AsJudged(j) == result[j]
(* A cancel that came after the judgement still counts. *)
FinalStatus(j) == IF cancelled[j] THEN "cancelled" ELSE result[j]

(* The marker is published if the child made its directory; failing to      *)
(* write it makes the job fail.                                             *)
Publish(j) ==
    \/ UNCHANGED marker /\ mem' = [mem EXCEPT ![j] = FinalStatus(j)]
    \/ /\ child[j] # "none"
       /\ marker' = [marker EXCEPT ![j] = FinalStatus(j)]
       /\ mem' = [mem EXCEPT ![j] = FinalStatus(j)]
    \/ /\ child[j] # "none" /\ "marker" \in Faults
       /\ UNCHANGED marker
       /\ mem' = [mem EXCEPT ![j] = "failed"]

Finish_SlotLostOnRaise(j) ==
    /\ Goes(j, "leave", "done") \/ Goes(j, "finish", "ended")
    /\ Publish(j)
    /\ \/ Saved(j, mem'[j]) /\ active' = NoJob /\ process' = NoJob
       \/ SaveRaises(j, mem'[j]) /\ UNCHANGED <<active, process>>
    /\ UNCHANGED <<up, closed, cancelled, result, child, restarts>>
(* The last locked section: the job ends, and whether or not its record can *)
(* be saved the slot is free.                                               *)
Finish(j) ==
    /\ Goes(j, "leave", "done") \/ Goes(j, "finish", "ended")
    /\ Publish(j)
    /\ Saved(j, mem'[j]) \/ SaveRaises(j, mem'[j])
    /\ active' = NoJob /\ process' = NoJob
    /\ UNCHANGED <<up, closed, cancelled, result, child, restarts>>

(* The log reader saves the job as it stands.  The worker joins it for      *)
(* three seconds only, so it may outlive the worker.                        *)
SaveLogs(j) ==
    /\ up /\ worker[j] \in {"wait", "judge", "finish", "ended"}
    /\ Saved(j, mem[j])
    /\ UNCHANGED <<up, closed, active, process, mem, cancelled, worker, result, child,
                   marker, restarts>>

-----------------------------------------------------------------------------
(* cancel, close and the end of the service                                 *)

Cancelable(j) == mem[j] # "none" /\ mem[j] \notin TERMINAL

RequestCancel(j) ==
    /\ cancelled' = [cancelled EXCEPT ![j] = TRUE]
    /\ Kill(process)
    /\ Saved(j, mem[j]) \/ SaveRaises(j, mem[j])

Cancel(j) ==
    /\ up /\ Cancelable(j)
    /\ RequestCancel(j)
    /\ UNCHANGED <<up, closed, active, process, mem, worker, result, marker, restarts>>

Close ==
    /\ up /\ ~closed
    /\ closed' = TRUE
    /\ LET open == {j \in Jobs : active = j /\ Cancelable(j)} IN
       \/ \E j \in open : RequestCancel(j)
       \/ open = {} /\ UNCHANGED <<cancelled, child, store>>
    /\ UNCHANGED <<up, active, process, mem, worker, result, marker, restarts>>

(* The process ends: after close(), which waits for the worker a while at   *)
(* most, or killed.  A finishing job may have its marker and no record yet. *)
End ==
    /\ up /\ (closed \/ "crash" \in Faults)
    /\ up' = FALSE
    /\ active' = NoJob /\ process' = NoJob
    /\ mem' = [j \in Jobs |-> "none"]
    /\ cancelled' = [j \in Jobs |-> FALSE]
    /\ worker' = [j \in Jobs |-> IF worker[j] = "none" THEN "none" ELSE "done"]
    /\ \/ UNCHANGED marker
       \/ \E j \in Jobs :
            /\ worker[j] \in {"leave", "finish"} /\ child[j] # "none"
            /\ marker' = [marker EXCEPT ![j] = FinalStatus(j)]
    /\ UNCHANGED <<closed, result, child, store, restarts>>

Interrupted_Everything(s) == IF s = "none" THEN "none" ELSE "interrupted"
(* interrupt_active *)
Interrupted(s) == IF s \in {"queued", "running"} THEN "interrupted" ELSE s

Start ==
    /\ ~up /\ restarts < MaxRestarts
    /\ restarts' = restarts + 1
    /\ up' = TRUE /\ closed' = FALSE
    /\ store' = [j \in Jobs |-> Interrupted(store[j])]
    /\ mem' = store'
    /\ UNCHANGED <<active, process, cancelled, worker, result, child, marker>>

(* The child ends by itself, with its report or without. *)
ChildEnds(j) ==
    /\ child[j] = "running"
    /\ \E end \in {"complete", "broken"} : child' = [child EXCEPT ![j] = end]
    /\ UNCHANGED <<up, closed, active, process, mem, cancelled, worker, result, store,
                   marker, restarts>>

-----------------------------------------------------------------------------
Run(j) ==
    \/ RunCancelled(j) \/ RunRaises(j) \/ RunStarts(j) \/ RunLosesReader(j)
    \/ RunAborts(j) \/ WaitReturns(j) \/ WaitTimesOut(j) \/ Judge(j) \/ Finish(j)

Next ==
    \/ \E j \in Jobs : Submit(j) \/ SubmitRaises(j) \/ Run(j) \/ SaveLogs(j)
                       \/ Cancel(j) \/ ChildEnds(j)
    \/ Close \/ End \/ Start

Spec == Init /\ [][Next]_vars

(* Threads run; a wait ends, at the latest by its timeout.                  *)
FairSpec == Spec /\ \A j \in Jobs : WF_vars(Run(j))
-----------------------------------------------------------------------------
(* Properties.                                                              *)

(* The slot is freed in the end, whatever fails on the way, unless a thread *)
(* that the job needs could not be started.                                 *)
SlotFreed == \A j \in Jobs : active = j ~> active # j \/ worker[j] = "dead"
=============================================================================
