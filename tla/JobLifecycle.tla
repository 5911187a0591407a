---------------------------- MODULE JobLifecycle ----------------------------
(***************************************************************************)
(* What the job subsystem promises its users, seen from the rows and from  *)
(* the executors alone: a job is run only after it was queued, its row     *)
(* says "executing" for as long as its executor works, a terminal status   *)
(* is final, and at most MaxConcurrent executors work at once.             *)
(* The life of a row is the one of the module comment of job_runner.py and *)
(* of the status checks in routes/jobs.py; JobRunner implements it as long *)
(* as no two requests are about to write the same row.                     *)
(***************************************************************************)
EXTENDS Integers, FiniteSets

CONSTANTS Job, MaxConcurrent

VARIABLES
    status,     \* the status of each job's row
    active      \* the jobs whose executor is at work

lifecycleVars == <<status, active>>

\* Where each status may go in one step.
Successors == [
    absent    |-> {"pending", "queued"},
    pending   |-> {"approved", "rejected", "deleted"},
    approved  |-> {"queued", "deleted"},
    queued    |-> {"executing", "cancelled"},
    executing |-> {"completed", "failed", "cancelled"},
    completed |-> {"deleted"},
    failed    |-> {"deleted"},
    cancelled |-> {"deleted"},
    rejected  |-> {"deleted"},
    deleted   |-> {}]

LifecycleInit ==
    /\ status = [j \in Job |-> "absent"]
    /\ active = {}

\* A request or a task moves rows along; no row moves under its executor.
Advance ==
    /\ status' \in [Job -> DOMAIN Successors]
    /\ \A j \in Job : /\ status'[j] \in {status[j]} \cup Successors[status[j]]
                      /\ j \in active => status'[j] = status[j]
    /\ UNCHANGED active

BeginExecutor(j) ==
    /\ status[j] = "executing" /\ j \notin active
    /\ Cardinality(active) < MaxConcurrent
    /\ active' = active \cup {j}
    /\ UNCHANGED status

EndExecutor(j) ==
    /\ active' = active \ {j}
    /\ UNCHANGED status

\* The process dies with its executors.
Die ==
    /\ active' = {}
    /\ UNCHANGED status

\* A restart puts every job that was executing back in the queue.
Resume ==
    /\ active = {}
    /\ status' = [j \in Job |->
                    IF status[j] = "executing" THEN "queued" ELSE status[j]]
    /\ UNCHANGED active

LifecycleNext ==
    \/ Advance \/ Die \/ Resume
    \/ \E j \in Job : BeginExecutor(j) \/ EndExecutor(j)

LifecycleSpec == LifecycleInit /\ [][LifecycleNext]_lifecycleVars
=============================================================================
