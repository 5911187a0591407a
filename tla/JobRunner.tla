----------------------------- MODULE JobRunner -----------------------------
(***************************************************************************)
(* The background job runner (services/job_runner.py) and the job routes   *)
(* that feed it (routes/jobs.py).                                          *)
(*                                                                         *)
(* A job is a database row with a status and, once submitted, an asyncio   *)
(* task in the runner's registry.  The task waits for a slot of a FIFO     *)
(* semaphore, flips the row to "executing", runs the executor without a    *)
(* database session, and persists the outcome.  A route reads rows in one  *)
(* statement and writes them in a later one: between two awaits any other  *)
(* task or request may run, so what a handler has read may be stale when   *)
(* it commits.  One action below is the code between two awaits whose      *)
(* order others can observe.                                               *)
(***************************************************************************)
EXTENDS Integers, FiniteSets, Sequences

CONSTANTS
    Job,            \* the identities of job rows
    IndexOf,        \* the index each job works on (Job.index_name)
    Request,        \* HTTP requests served concurrently
    Ops,            \* the job endpoints in use
    MaxConcurrent,  \* settings.jobs.max_concurrent
    Faults,         \* the faults that may happen: "database", "es_factory"
    MaxCrashes      \* bound on the crashes and shutdowns of the process

AllOps == {"recommend", "approve", "reject", "bulk-approve", "execute",
           "execute-all", "create", "cancel", "clear-queue", "clear-history"}

ASSUME JobAssumption == IsFiniteSet(Job)
ASSUME MaxConcurrentAssumption == MaxConcurrent \in Nat \ {0}
ASSUME BoundAssumption == MaxCrashes \in Nat
ASSUME OpsAssumption == Ops \subseteq AllOps

VARIABLES
    row,            \* status of each job's row; "absent" before, "deleted" after
    task,           \* where the job's task stands ("none": not in _tasks)
    outcome,        \* the status a task is about to persist
    interrupted,    \* tasks with a CancelledError not yet delivered
    slots,          \* the semaphore's _value
    waiters,        \* the semaphore's _waiters, oldest first
    request,        \* what each request has read and still has to do
    process,        \* "up", "stopping" (lifespan shutdown) or "down"
    crashes         \* crashes and shutdowns so far

runnerVars == <<task, outcome, interrupted, slots, waiters>>
processVars == <<process, crashes>>
vars == <<row, runnerVars, request, processVars>>

Gone == {"absent", "deleted"}
InFlight == {"queued", "executing"}
Terminal == {"completed", "failed", "cancelled", "rejected"}
Status == {"pending", "approved"} \cup InFlight \cup Terminal
Outcomes == {"none", "completed", "failed", "cancelled"}

\* Phases of a task that has acquired a slot and not released it.
Slotted == {"slotted", "flipping", "loading", "running",
            "finishing", "finalizing", "closing"}
\* "granted" is a waiter whose future is set but that has not resumed yet.
Phase == {"none", "created", "waiting", "granted", "reporting", "marking",
          "ended"} \cup Slotted

Idle == [op |-> "none", at |-> "idle", rows |-> {}, ids |-> {}]

TypeOK ==
    /\ row \in [Job -> Status \cup Gone]
    /\ task \in [Job -> Phase]
    /\ outcome \in [Job -> Outcomes]
    /\ interrupted \subseteq Job
    /\ slots \in 0 .. MaxConcurrent
    /\ waiters \in Seq(Job)
    /\ request \in [Request -> [op   : AllOps \cup {"none"},
                                at   : {"idle", "gate", "commit", "signal"},
                                rows : SUBSET Job,
                                ids  : SUBSET Job]]
    /\ process \in {"up", "stopping", "down"}
    /\ crashes \in 0 .. MaxCrashes

Init ==
    /\ row = [j \in Job |-> "absent"]
    /\ task = [j \in Job |-> "none"]
    /\ outcome = [j \in Job |-> "none"]
    /\ interrupted = {}
    /\ slots = MaxConcurrent
    /\ waiters = <<>>
    /\ request = [h \in Request |-> Idle]
    /\ process = "up"
    /\ crashes = 0

-----------------------------------------------------------------------------
(* asyncio.Semaphore: acquire, release and the wake-up of waiters.         *)

\* Waiters whose future is neither set nor cancelled.
Sleeping(t, irq) == {j \in Job : t[j] = "waiting" /\ j \notin irq}

Before(w, a, b) == \E i, k \in DOMAIN w : i < k /\ w[i] = a /\ w[k] = b

\* W is what waking n waiters in FIFO order wakes out of the set S.
Woken(W, n, S, w) ==
    /\ W \subseteq S
    /\ Cardinality(W) = IF n < Cardinality(S) THEN n ELSE Cardinality(S)
    /\ \A a \in W, b \in S \ W : Before(w, a, b)

\* acquire() does not take a free slot past a waiter that is not cancelled.
Locked == slots = 0 \/ \E i \in DOMAIN waiters :
              ~ (task[waiters[i]] = "waiting" /\ waiters[i] \in interrupted)

\* self._waiters.remove(fut).
Without(w, j) ==
    LET i == CHOOSE i \in DOMAIN w : w[i] = j
    IN [k \in 1 .. Len(w) - 1 |-> IF k < i THEN w[k] ELSE w[k + 1]]

\* Mutant: the waiter that leaves wakes nobody.
LeaveQueueSilently(j, p, n) ==
    /\ waiters' = Without(waiters, j)
    /\ task' = [task EXCEPT ![j] = p]
    /\ slots' = n

\* Job j moves to phase p and leaves the queue; the waiters that the n slots
\* then free can serve are granted one each.
LeaveQueue(j, p, n) ==
    /\ waiters' = Without(waiters, j)
    /\ \E W \in SUBSET Job :
        /\ Woken(W, n, Sleeping(task, interrupted) \ {j}, waiters)
        /\ task' = [k \in Job |-> IF k = j THEN p
                                  ELSE IF k \in W THEN "granted" ELSE task[k]]
        /\ slots' = n - Cardinality(W)

\* Mutant: the slot is returned, no waiter is woken.
ReleaseSilently(j) ==
    /\ task' = [task EXCEPT ![j] = "ended"]
    /\ slots' = slots + 1
    /\ UNCHANGED waiters

\* The `finally` of _run: the task ends and releases its slot to one waiter.
Release(j) ==
    /\ \E W \in SUBSET Job :
        /\ Woken(W, 1, Sleeping(task, interrupted), waiters)
        /\ task' = [k \in Job |-> IF k = j THEN "ended"
                                  ELSE IF k \in W THEN "granted" ELSE task[k]]
        /\ slots' = slots + 1 - Cardinality(W)
    /\ UNCHANGED waiters

\* Mutants: a cancelled waiter gives nothing back, or always one.
RegainNothing(j) == 0
RegainAlways(j) == 1

\* What a cancelled waiter gives back: the slot it was granted meanwhile.
Regained(j) == IF task[j] = "granted" THEN 1 ELSE 0

\* Mutant: running executors are not cancelled.
InterruptQueued(S) == interrupted' =
    interrupted \cup {j \in S : task[j] \in {"created", "waiting", "granted"}}

\* task.cancel() on every registered task of S that is not done.
Interrupt(S) == interrupted' =
    interrupted \cup {j \in S : task[j] \notin {"none", "ended"}}

\* submit(): a no-op for a job whose task is still registered.
Submit(S) == task' =
    [j \in Job |-> IF j \in S /\ task[j] = "none" THEN "created" ELSE task[j]]

-----------------------------------------------------------------------------
(* The task of one job: _run, _run_with_slot, _finalize.                   *)

At(j, p) == process # "down" /\ task[j] = p
Resumes(j, p) == At(j, p) /\ j \notin interrupted
Goto(j, p) == task' = [task EXCEPT ![j] = p]
Write(j, status) == row' = [row EXCEPT ![j] = status]

\* First step of the task: take a free slot or queue for one.
Acquire(j) ==
    /\ Resumes(j, "created")
    /\ IF Locked
       THEN /\ Goto(j, "waiting")
            /\ waiters' = Append(waiters, j)
            /\ UNCHANGED slots
       ELSE /\ Goto(j, "slotted")
            /\ slots' = slots - 1
            /\ UNCHANGED waiters
    /\ UNCHANGED <<row, outcome, interrupted, request, processVars>>

\* A waiter that was granted a slot resumes from acquire().
Granted(j) ==
    /\ Resumes(j, "granted")
    /\ LeaveQueue(j, "slotted", slots)
    /\ UNCHANGED <<row, outcome, interrupted, request, processVars>>

\* With its slot, the task reads the row; only a queued job goes on.
ReadRow(j) ==
    /\ Resumes(j, "slotted")
    /\ Goto(j, IF row[j] = "queued" THEN "flipping" ELSE "closing")
    /\ UNCHANGED <<row, outcome, interrupted, slots, waiters, request,
                   processVars>>

\* The commit of "executing" takes effect, cancelled meanwhile or not.
FlipCommit(j) ==
    /\ At(j, "flipping")
    /\ row[j] \notin Gone
    /\ Goto(j, "loading")
    /\ Write(j, "executing")
    /\ UNCHANGED <<outcome, interrupted, slots, waiters, request,
                   processVars>>

\* That commit raises: the row is gone, or the database fails.
FlipFails(j) ==
    /\ Resumes(j, "flipping")
    /\ row[j] \in Gone \/ "database" \in Faults
    /\ Release(j)
    /\ UNCHANGED <<row, outcome, interrupted, request, processVars>>

\* The cluster is loaded, the client is built and the executor entered.
EnterExecutor(j) ==
    /\ Resumes(j, "loading")
    /\ Goto(j, "running")
    /\ UNCHANGED <<row, outcome, interrupted, slots, waiters, request,
                   processVars>>

\* es_factory raises (no cluster, undecryptable password): outside the try.
FactoryFails(j) ==
    /\ Resumes(j, "loading")
    /\ "es_factory" \in Faults
    /\ Release(j)
    /\ UNCHANGED <<row, outcome, interrupted, request, processVars>>

\* The executor returns or raises.
ExecutorEnds(j) ==
    /\ Resumes(j, "running")
    /\ Goto(j, "finishing")
    /\ \E o \in {"completed", "failed"} : outcome' = [outcome EXCEPT ![j] = o]
    /\ UNCHANGED <<row, interrupted, slots, waiters, request, processVars>>

\* _finalize reads the row: the first terminal writer wins.
FinalizeRead(j) ==
    /\ Resumes(j, "finishing")
    /\ Goto(j, IF row[j] \in Gone \cup Terminal THEN "closing" ELSE "finalizing")
    /\ UNCHANGED <<row, outcome, interrupted, slots, waiters, request,
                   processVars>>

\* _finalize commits; a failed commit is logged and swallowed.
FinalizeCommit(j) ==
    /\ At(j, "finalizing")
    /\ Goto(j, "closing")
    /\ \/ row[j] \notin Gone /\ Write(j, outcome[j])
       \/ (row[j] \in Gone \/ "database" \in Faults) /\ UNCHANGED row
    /\ UNCHANGED <<outcome, interrupted, slots, waiters, request,
                   processVars>>

\* The session is closed, the slot released, and the task done.
Close(j) ==
    /\ At(j, "closing")
    /\ Release(j)
    /\ outcome' = [outcome EXCEPT ![j] = "none"]
    /\ interrupted' = interrupted \ {j}
    /\ UNCHANGED <<row, request, processVars>>

\* _mark_cancelled_if_queued, first half: read the row.
MarkRead(j) ==
    /\ Resumes(j, "reporting")
    /\ Goto(j, IF row[j] = "queued" THEN "marking" ELSE "ended")
    /\ UNCHANGED <<row, outcome, interrupted, slots, waiters, request,
                   processVars>>

\* Second half: commit "cancelled"; a failed commit is logged and swallowed.
MarkCommit(j) ==
    /\ At(j, "marking")
    /\ Goto(j, "ended")
    /\ interrupted' = interrupted \ {j}
    /\ \/ row[j] \notin Gone /\ Write(j, "cancelled")
       \/ (row[j] \in Gone \/ "database" \in Faults) /\ UNCHANGED row
    /\ UNCHANGED <<outcome, slots, waiters, request, processVars>>

\* A read of a session raises: the row on either side of the executor, or the cluster.
\* The task ends there, and the row stays as it is.
ReadFails(j) ==
    /\ "database" \in Faults
    /\ \E p \in {"slotted", "loading", "finishing"} : Resumes(j, p)
    /\ Release(j)
    /\ outcome' = [outcome EXCEPT ![j] = "none"]
    /\ UNCHANGED <<row, interrupted, request, processVars>>

\* So does the read of _mark_cancelled_if_queued.
MarkFails(j) ==
    /\ "database" \in Faults
    /\ Resumes(j, "reporting")
    /\ Goto(j, "ended")
    /\ UNCHANGED <<row, outcome, interrupted, slots, waiters, request,
                   processVars>>

\* The done-callback evicts the task from the registry.
Evict(j) ==
    /\ At(j, "ended")
    /\ Goto(j, "none")
    /\ UNCHANGED <<row, outcome, interrupted, slots, waiters, request,
                   processVars>>

-----------------------------------------------------------------------------
(* Delivery of a CancelledError, at the await the task is suspended on.    *)

\* Before its first step: the body of _run never executes.
CancelUnstarted(j) ==
    /\ At(j, "created") /\ j \in interrupted
    /\ Goto(j, "ended")
    /\ interrupted' = interrupted \ {j}
    /\ UNCHANGED <<row, outcome, slots, waiters, request, processVars>>

\* Inside acquire(): a slot granted meanwhile is given back, and _run goes on
\* to mark the job cancelled.
CancelWaiting(j) ==
    /\ At(j, "waiting") \/ At(j, "granted")
    /\ j \in interrupted
    /\ LeaveQueue(j, "reporting", slots + Regained(j))
    /\ interrupted' = interrupted \ {j}
    /\ UNCHANGED <<row, outcome, request, processVars>>

\* A second cancel, while the first is being reported.
CancelReporting(j) ==
    /\ At(j, "reporting") \/ At(j, "marking")
    /\ j \in interrupted
    /\ Goto(j, "ended")
    /\ interrupted' = interrupted \ {j}
    /\ UNCHANGED <<row, outcome, slots, waiters, request, processVars>>

\* In one of the sessions before or after the executor: the task unwinds, the
\* row stays as it is.
CancelInSession(j) ==
    /\ \E p \in {"slotted", "flipping", "loading", "finishing", "finalizing"} :
          At(j, p)
    /\ j \in interrupted
    /\ Release(j)
    /\ outcome' = [outcome EXCEPT ![j] = "none"]
    /\ interrupted' = interrupted \ {j}
    /\ UNCHANGED <<row, request, processVars>>

\* In the executor: finalize as cancelled.
CancelExecutor(j) ==
    /\ At(j, "running") /\ j \in interrupted
    /\ Goto(j, "finishing")
    /\ outcome' = [outcome EXCEPT ![j] = "cancelled"]
    /\ interrupted' = interrupted \ {j}
    /\ UNCHANGED <<row, slots, waiters, request, processVars>>

TaskStep(j) ==
    \/ Acquire(j) \/ Granted(j) \/ ReadRow(j) \/ FlipCommit(j) \/ FlipFails(j)
    \/ EnterExecutor(j) \/ FactoryFails(j) \/ FinalizeRead(j) \/ FinalizeCommit(j)
    \/ Close(j) \/ MarkRead(j) \/ MarkCommit(j) \/ ReadFails(j) \/ MarkFails(j) \/ Evict(j)
    \/ CancelUnstarted(j) \/ CancelWaiting(j) \/ CancelReporting(j)
    \/ CancelInSession(j) \/ CancelExecutor(j)

-----------------------------------------------------------------------------
(* The routes: each reads, then commits, then signals the runner.          *)

Free(h, op) == process = "up" /\ op \in Ops /\ request[h] = Idle
Doing(h, op, at) == request[h].op = op /\ request[h].at = at
Become(h, op, at, rows, ids) == request' =
    [request EXCEPT ![h] = [op |-> op, at |-> at, rows |-> rows, ids |-> ids]]
Done(h) == request' = [request EXCEPT ![h] = Idle]
WithStatus(S) == {j \in Job : row[j] \in S}
\* UPDATE of a deleted row raises StaleDataError and the request fails.
WriteAll(S, status) ==
    /\ S \cap WithStatus(Gone) = {}
    /\ row' = [j \in Job |-> IF j \in S THEN status ELSE row[j]]

\* _get_job and the status check of the routes on one job.
ReadJob(h, op, statuses, at, j) ==
    /\ Free(h, op)
    /\ row[j] \in statuses
    /\ Become(h, op, at, {j}, {j})
    /\ UNCHANGED <<row, runnerVars, processVars>>

ReadApprove(h, j) == ReadJob(h, "approve", {"pending"}, "commit", j)
ReadReject(h, j) == ReadJob(h, "reject", {"pending"}, "commit", j)
\* Mutant: a finished job may be executed again.
ReadExecuteAgain(h, j) ==
    ReadJob(h, "execute", {"approved", "completed", "failed"}, "commit", j)
ReadExecute(h, j) == ReadJob(h, "execute", {"approved"}, "commit", j)
ReadCancel(h, j) == ReadJob(h, "cancel", InFlight, "signal", j)

\* The routes on all the jobs of a cluster read the rows they will write.
ReadRows(h, op, statuses, at) ==
    /\ Free(h, op)
    /\ WithStatus(statuses) # {} \/ op = "recommend"
    /\ Become(h, op, at, WithStatus(statuses), WithStatus(statuses))
    /\ UNCHANGED <<row, runnerVars, processVars>>

ReadRecommend(h) == ReadRows(h, "recommend", {"pending"}, "commit")
ReadBulkApprove(h) == ReadRows(h, "bulk-approve", {"pending"}, "commit")
ReadExecuteAll(h) == ReadRows(h, "execute-all", {"approved"}, "gate")

ReadClearQueue(h) ==
    /\ Free(h, "clear-queue")
    /\ WithStatus({"approved", "queued"}) # {}
    /\ Become(h, "clear-queue", "commit",
              WithStatus({"approved"}), WithStatus({"queued"}))
    /\ UNCHANGED <<row, runnerVars, processVars>>

\* The batches the loop of execute_all can take: one job for each open index,
\* whichever the unordered query returns first.
Batches(open) ==
    {S \in SUBSET open : /\ \A a, b \in S : IndexOf[a] = IndexOf[b] => a = b
                        /\ {IndexOf[j] : j \in S} = {IndexOf[j] : j \in open}}

\* execute_all reads the busy indexes and leaves their jobs approved.
GateExecuteAll(h) ==
    /\ Doing(h, "execute-all", "gate")
    /\ LET busy == {IndexOf[j] : j \in WithStatus(InFlight)}
           open == {j \in request[h].rows : IndexOf[j] \notin busy}
       IN \E S \in Batches(open) : Become(h, "execute-all", "commit", S, S)
    /\ UNCHANGED <<row, runnerVars, processVars>>

CommitApprove(h) ==
    /\ Doing(h, "approve", "commit") \/ Doing(h, "bulk-approve", "commit")
    /\ WriteAll(request[h].rows, "approved")
    /\ Done(h)
    /\ UNCHANGED <<runnerVars, processVars>>

CommitReject(h) ==
    /\ Doing(h, "reject", "commit")
    /\ WriteAll(request[h].rows, "rejected")
    /\ Done(h)
    /\ UNCHANGED <<runnerVars, processVars>>

\* recommend deletes the resolved suggestions, refreshes the others in place
\* and inserts new ones.
CommitRecommend(h) ==
    /\ Doing(h, "recommend", "commit")
    /\ \E resolved \in SUBSET request[h].rows, new \in SUBSET WithStatus({"absent"}) :
        /\ (request[h].rows \ resolved) \cap WithStatus(Gone) = {}
        /\ row' = [j \in Job |-> IF j \in resolved THEN "deleted"
                                 ELSE IF j \in new THEN "pending" ELSE row[j]]
    /\ Done(h)
    /\ UNCHANGED <<runnerVars, processVars>>

CommitExecute(h) ==
    /\ \E op \in {"execute", "execute-all"} :
        /\ Doing(h, op, "commit")
        /\ Become(h, op, "signal", {}, request[h].ids)
    /\ WriteAll(request[h].rows, "queued")
    /\ UNCHANGED <<runnerVars, processVars>>

\* drain, promote, reindex and relocate insert a row already queued.
CommitCreate(h, j) ==
    /\ Free(h, "create")
    /\ row[j] = "absent"
    /\ Write(j, "queued")
    /\ Become(h, "create", "signal", {}, {j})
    /\ UNCHANGED <<runnerVars, processVars>>

\* Mutant: the queued rows are deleted too.
DequeuedAll(h) == request[h].rows \cup request[h].ids

\* clear_queue deletes the rows it has read as approved.
Dequeued(h) == request[h].rows

CommitClearQueue(h) ==
    /\ Doing(h, "clear-queue", "commit")
    /\ row' = [j \in Job |-> IF j \in Dequeued(h) THEN "deleted" ELSE row[j]]
    /\ Become(h, "clear-queue", "signal", {}, request[h].ids)
    /\ UNCHANGED <<runnerVars, processVars>>

\* clear_history is one DELETE statement.
ClearHistory(h) ==
    /\ Free(h, "clear-history")
    /\ WithStatus(Terminal) # {}
    /\ row' = [j \in Job |-> IF row[j] \in Terminal THEN "deleted" ELSE row[j]]
    /\ UNCHANGED <<runnerVars, request, processVars>>

\* The row of a single job is refreshed before it is submitted.
SubmitJobs(h) ==
    /\ \/ \E op \in {"execute", "create"} :
              Doing(h, op, "signal") /\ request[h].ids \cap WithStatus(Gone) = {}
       \/ Doing(h, "execute-all", "signal")
    /\ Submit(request[h].ids)
    /\ Done(h)
    /\ UNCHANGED <<row, outcome, interrupted, slots, waiters, processVars>>

CancelTasks(h) ==
    /\ Doing(h, "cancel", "signal") \/ Doing(h, "clear-queue", "signal")
    /\ Interrupt(request[h].ids)
    /\ Done(h)
    /\ UNCHANGED <<row, task, outcome, slots, waiters, processVars>>

\* The cluster is not writable, a commit or the refresh raises.
RequestFails(h) ==
    /\ \/ request[h].at \in {"gate", "commit"}
       \/ /\ \E op \in {"execute", "create"} : Doing(h, op, "signal")
          /\ request[h].ids \cap WithStatus(Gone) # {} \/ "database" \in Faults
    /\ Done(h)
    /\ UNCHANGED <<row, runnerVars, processVars>>

RequestBegins(h) ==
    \/ \E j \in Job : \/ ReadApprove(h, j) \/ ReadReject(h, j) \/ ReadExecute(h, j)
                      \/ ReadCancel(h, j) \/ CommitCreate(h, j)
    \/ ReadRecommend(h) \/ ReadBulkApprove(h) \/ ReadExecuteAll(h)
    \/ ReadClearQueue(h) \/ ClearHistory(h)

RequestContinues(h) ==
    \/ GateExecuteAll(h) \/ CommitApprove(h) \/ CommitReject(h)
    \/ CommitRecommend(h) \/ CommitExecute(h) \/ CommitClearQueue(h)
    \/ SubmitJobs(h) \/ CancelTasks(h) \/ RequestFails(h)

-----------------------------------------------------------------------------
(* The process: crash, graceful shutdown (stop_all), restart (recover).    *)

\* The runner and the requests of a process die with it.
Lost ==
    /\ process' = "down"
    /\ task' = [j \in Job |-> "none"]
    /\ outcome' = [j \in Job |-> "none"]
    /\ interrupted' = {}
    /\ slots' = MaxConcurrent
    /\ waiters' = <<>>
    /\ request' = [h \in Request |-> Idle]
    /\ UNCHANGED row

Crash ==
    /\ process # "down"
    /\ crashes < MaxCrashes
    /\ crashes' = crashes + 1
    /\ Lost

\* The server has answered its last request; stop_all cancels every task.
StopAll ==
    /\ process = "up"
    /\ crashes < MaxCrashes
    /\ \A h \in Request : request[h] = Idle
    /\ process' = "stopping"
    /\ crashes' = crashes + 1
    /\ Interrupt(Job)
    /\ UNCHANGED <<row, task, outcome, slots, waiters, request>>

Stopped ==
    /\ process = "stopping"
    /\ \A j \in Job : task[j] \in {"none", "ended"}
    /\ Lost
    /\ UNCHANGED crashes

\* Mutant: only the executing jobs are resumed.
ResumedExecuting == WithStatus({"executing"})
\* The jobs recover() resumes.
Resumed == WithStatus(InFlight)
\* Mutant: they keep their status.
RequeuedStatus(j) == row[j]
\* The status recover() leaves a row with.
Requeued(j) == IF j \in Resumed THEN "queued" ELSE row[j]

\* lifespan startup: recover() re-queues and submits before serving.
Recover ==
    /\ process = "down"
    /\ process' = "up"
    /\ row' = [j \in Job |-> Requeued(j)]
    /\ Submit(Resumed)
    /\ UNCHANGED <<outcome, interrupted, slots, waiters, request, crashes>>

-----------------------------------------------------------------------------
Next ==
    \/ \E j \in Job : TaskStep(j) \/ ExecutorEnds(j)
    \/ \E h \in Request : RequestBegins(h) \/ RequestContinues(h)
    \/ Crash \/ StopAll \/ Stopped \/ Recover

Spec == Init /\ [][Next]_vars

\* The event loop runs every task that is ready and awaited database calls
\* return; requests once begun go on; the supervisor restarts the process.
SchedulerFairness ==
    /\ \A j \in Job : WF_vars(TaskStep(j))
    /\ \A h \in Request : WF_vars(RequestContinues(h))
    /\ WF_vars(Stopped) /\ WF_vars(Recover)

\* Every executor gives up after a bounded number of polls; of those that a shutdown
\* has to cancel nothing is assumed.
ExecutorFairness == \A j \in Job : WF_vars(process = "up" /\ ExecutorEnds(j))

FairSpec == Spec /\ SchedulerFairness /\ ExecutorFairness

-----------------------------------------------------------------------------
(* Properties.                                                             *)

Holders == {j \in Job : task[j] \in Slotted \cup {"granted"}}
Running == {j \in Job : task[j] = "running"}

\* Every slot is free or held by exactly one task, through every cancellation,
\* failure and restart: none leaks, none is handed out twice (the try/finally
\* of _run and the grants of the semaphore).
SlotsConserved == slots + Cardinality(Holders) = MaxConcurrent

\* At most max_concurrent executors run, whatever the requests do to the rows.
ExecutorsWithinCap == Cardinality(Running) <= MaxConcurrent

\* A free slot and a sleeping task coexist only while a waiter that was granted
\* a slot is about to resume and pass the free one on: no wake-up is lost when
\* a queued job is cancelled.
NoLostWakeup ==
    slots > 0 /\ Sleeping(task, interrupted) # {} =>
        \E j \in Job : task[j] = "granted"

\* The module comment of the runner: at any moment at most max_concurrent rows
\* are "executing" and the rest sit "queued".
ExecutingRowsWithinCap ==
    process = "up" => Cardinality(WithStatus({"executing"})) <= MaxConcurrent

\* A queued or executing row has a task that will still write it, or a request
\* about to submit it: no job is left in flight with nothing driving it, which
\* neither cancel nor clear-queue could then end.
InFlightIsDriven ==
    process = "up" =>
        \A j \in WithStatus(InFlight) :
            \/ task[j] \notin {"none", "closing", "ended"}
            \/ \E h \in Request :
                  /\ request[h].op \in {"execute", "execute-all", "create"}
                  /\ request[h].at = "signal"
                  /\ j \in request[h].ids

\* An executor works only for a row that says so: never for a job that was
\* cancelled, rejected, finished or deleted meanwhile.
RunningRowIsExecuting == \A j \in Running : row[j] = "executing"

\* The rows and the executors live by JobLifecycle: no row skips a step of its
\* life, none moves while its executor works, and none comes back from a
\* terminal status, as the comment on _TERMINAL has it.
Lifecycle == INSTANCE JobLifecycle WITH status <- row, active <- Running
ImplementsLifecycle == Lifecycle!LifecycleSpec

\* Every job that is queued reaches a terminal status or is deleted, across crashes
\* and restarts.
EveryJobEnds == \A j \in Job :
    row[j] = "queued" ~> row[j] \in Terminal \cup Gone

\* stop_all returns, even if no executor would return by itself.
ShutdownEnds == process = "stopping" ~> process = "down"

=============================================================================
