# ElasticOps: a TLA+ model

ElasticOps (`src/`) is a FastAPI service with a React front end that watches Elasticsearch clusters,
recommends maintenance, and carries it out as background jobs: resizing an index in place, force
merging, relocating shards, draining nodes. The service runs as one process with one asyncio event
loop and keeps its state in SQLite; the front end keeps a copy of that state in each browser tab and
lets an operator act on it. This directory specifies the parts that can go wrong between two `await`s
of the service, or between a click and an answer in the browser, checks them with TLC on small
instances, and proves the safety properties with TLAPS for every instance.

Paths below are relative to `src/`; `jobs.py` is `backend/routes/jobs.py`, `executor.py`,
`job_runner.py`, `poller.py` and `drain.py` are in `backend/services/`, and `*.ts`, `*.tsx` are in
`frontend/src/`.

## 1. The system

| Component | State | Operations | Talks to |
|---|---|---|---|
| Job routes (`jobs.py`) | the `jobs` and `runs` rows | recommend, approve, reject, execute, bulk-approve, execute-all, cancel, clear-queue, clear-history, drain, promote, reindex, relocate | job runner (`submit`, `cancel`), drain pre-flight, analyzer and recommender |
| Job runner (`job_runner.py`) | registry of asyncio tasks, a FIFO semaphore of `max_concurrent` slots | `submit`, `cancel`, `recover`, `stop_all`, the task of a job | rows, executors |
| Executors (`executor.py`) | none of their own; indices, settings and tasks of Elasticsearch | one coroutine per job type | Elasticsearch client |
| Drain (`drain.py`, `executor.py`) | the setting `cluster.routing.allocation.exclude._name` | pre-flight, drain, undrain | Elasticsearch; the cancel route |
| Poll manager (`poller.py`) | registry of pollers, their tasks and HTTP clients | `start_all`, `stop_all`, `add_cluster`, `remove_cluster`, the poll loop | cluster rows, snapshots |
| Clusters (`routes/clusters.py`) | `clusters` rows and what hangs on them | create, update, delete | poll manager |
| Snapshots (`snapshot_repo.py`, `snapshot_service.py`, `routes/es.py`) | one row per cluster and kind | upsert, snapshot-first read with live fall-back, builders | poller, Elasticsearch |
| Analyzer, recommender (`analyzer.py`, `recommender.py`) | none | indices to suggestions, with a fingerprint for each | job routes |
| Rebalance, roles, shard arithmetic (`rebalance.py`, `role_logic.py`, `executor.py:19-48`) | none | moves, roles, legal shard counts | views, executors |
| Access (`auth.py`, `routes/auth.py`, `routes/admin.py`, `rate_limit.py`) | users, session cookies, login failures | set-up, login, roles, deactivation, throttle | all routes |
| Session and routing (`client.ts`, `auth.ts`, `AuthContext.tsx`, `App.tsx`, `Login.tsx`, `Setup.tsx`) | token in localStorage and in each tab, cached set-up status, route | sign in, set up, sign out, guards, the end of a session on 401 | access routes; the other tabs |
| Cluster selection (`clusters.ts`, `ClusterContext.tsx`, `Sidebar.tsx`, `ClusterDialog.tsx`) | cached list, selected id, dialog and form | fetch, select, create, edit, remove | cluster routes; every page |
| Job board (`jobs.ts`, `Jobs.tsx`) | cached list and summary of jobs | poll, approve, reject, execute, bulk operations | job routes; the runner moves the rows too |
| Operator panels (`ShardMap.tsx`, `Nodes.tsx`, `Indices.tsx`, `Overview.tsx`, `Settings.tsx`, `Rest.tsx`) | selected row, armed action, typed text, requests under way | arm, confirm, cancel, send, be answered | job routes, ES routes |
| Other views (`Users.tsx`, the tables, `format.ts`) | filters and sorting | show | the API |

What is hard here, and how each part is correct:

* **Interleaving at every `await`.** A route reads rows, awaits, then writes; an executor reads a
  setting, awaits, then writes it back; `add_cluster` looks into the registry, awaits, then starts.
  Correct is what holds for every order in which these pieces of code can run.
* **Cancellation.** A `CancelledError` may arrive at any `await`: before a task's first step, in the
  queue of the semaphore, in a session, in the executor, in a `finally` block. No slot may be lost, no
  index may stay blocked, no row may stay in flight.
* **Crash and restart.** `recover()` runs every job in flight again, from its beginning. A job must
  be safe to run again from wherever the last run stopped.
* **Failure half way.** A call of Elasticsearch may fail or report success for half the work; a
  lookup that fails reads as "absent"; a commit may fail behind an announcement, or before one.
* **Stale copies in the browser.** A poll may land after a change made meanwhile; a form, a dialog, an
  armed button or a callback outlives the row, the cluster or the session it was made for. Correct is
  that what is sent is what the operator saw and armed, and that a page catches up.
* **The outside.** Clients write to the index being resized, Elasticsearch moves shards on its own.

## 2. The modules

| Module | Models | Composition |
|---|---|---|
| `JobLifecycle` | the promise: how rows and executors may change | abstract |
| `JobRunner` | `job_runner.py` with the asyncio semaphore, and every job route that writes or signals | implements `JobLifecycle` (`INSTANCE ... WITH status <- row, active <- Running`) |
| `InPlaceResize` | `executor.py:227-421`, call by call, with Elasticsearch and clients | one executor of `JobRunner`, in detail |
| `Drain` | `drain.py`, `executor.py:533-583`, drain and cancel of `jobs.py`, with shard relocation | several executors and cancel requests sharing one setting |
| `PollManager` | `poller.py`, the cluster routes, start and shutdown in `main.py` | manager and requests |
| `Session` | `apiFetch`, the auth hooks, the guards, both forms, several tabs; `auth.py`, `routes/auth.py` as far as tokens go | tabs and server |
| `ClusterSelection` | `clusters.ts`, `ClusterContext.tsx`, the selector and the dialog, with the cluster rows | tab, server and other admins |
| `JobBoard` | `jobs.ts`, `Jobs.tsx`, with the job rows | page, server and runner |
| `OperatorPanels` | the six pages from which an operator changes a cluster, with `es.ts`, `rest.ts` | pages and answers |
| `MC...` | instances for TLC | extend the above |
| `...Proofs` | theorems for every instance | extend the above |

One action is the code between two `await`s whose order others can observe; what a handler has read
before an `await` is kept in a record (`request`, `read`, `undrain`, `found`, `counted`), stale when
used if others were faster.

**JobRunner.** `row` is `Job.status`; `task` where the task of the job stands in `_run`,
`_run_with_slot`, `_finalize` and `_mark_cancelled_if_queued`; `slots` and `waiters` are the semaphore's
`_value` and `_waiters`; `interrupted` holds the cancellations that `task.cancel()` has requested and the
loop has not delivered. A request is a read phase, a commit and a signal to the runner. The semaphore
is that of Python's `asyncio`: a waiter that is granted a slot does not hold it until it runs again, may
be cancelled meanwhile, and must then pass the slot on. Each `Cancel...` action delivers a cancellation
at one kind of `await`. `Crash` forgets everything but the rows; `Recover` is `recover()`; `StopAll` and
`Stopped` are the graceful shutdown. What the executor does is one step that succeeds, fails or is
cancelled; the next two modules open it.

**InPlaceResize.** `exists`, `docs`, `blocked`, `resized` are the two indices `source` and `temp`; `at` is
the next Elasticsearch call of the executor, `pending` the exception that waits for the `finally`
block. A count sees what is searchable: `unseen` are the documents of the source that no refresh has reached yet,
`uncounted` those the count before the deletion could not include, because they were unseen or came after it.
`Again` runs the job again after a crash, or another resize of the same index after any end: the analyzer judges an
index by its current size and shard count and the executor by what exists, so nothing keeps a second job from an index
that the first has left half refilled. The second job may have another target, so that `resized` may be false again.
`Faults`, `CrashAt`, `CancelAt` and `WriteAt` say what may fail and in which steps the process may
die, a cancellation arrive, a client write: they are parameters because some results differ by
step, and naming the steps at which a promise holds is the result.

**Drain.** `transient` is the setting that drains write, `Persistent` the one an operator wrote; the
transient one, unless empty, hides the persistent one (`Effective`). An executor reads the union of both into `read`, a
cancel request into `undrain`, and each writes it back, changed, after an `await`: nothing keeps these pairs apart, so
any copy may be stale when it is written. A node is `Settled` when it is in force and in every copy in hand, `Released`
when it is in neither setting, in no copy and no executor is about to add it. `place` and `going` are the shards, which
Elasticsearch moves off excluded nodes.

**PollManager.** `row` is `is_active` of a cluster, `registry` is `_pollers` and `_tasks` (always written
together), `owner`, `task` and `open` are the poller objects with their tasks and HTTP clients. A request
goes through its commit, the refresh, and the pieces of `add_cluster` or `remove_cluster`. `Racing` are the
clusters for which two requests may be served at once: the service does not keep them apart, and the properties say
which of their halves need that they do not meet. `failed` remembers for which clusters a transaction of a request, or the
factory that builds a poller, has failed since the process started. The two cadences of a poller are one `Cycle` that writes
snapshots. Polling is taken to be enabled.

**Session.** `stored` is `eo_token` in localStorage, `token` the copy in the state of each tab, `status` its
cached answer of `/api/auth/status`, `at` the route it shows. A request keeps the token it was sent with; a
refusal (`RefusalArrives`) clears the token of the browser and of the tab it arrives in, whichever token was
refused, as the listener in `AuthProvider` does. `Routed` is what the two guards make of a route.

**ClusterSelection.** `list` is the cached query, `fetch` the list that a fetch under way will bring, which was
settled when the server read it. A fetch keeps the objects of rows that have not changed (structural sharing),
and the effect of the dialog runs when its cluster is another *object*: `Show` says when the form is filled anew.
Create appends to the list before it invalidates; update and delete return the promise of the refetch, so their
callbacks run after it, with the list of the render they were made in.

**JobBoard.** `log` is the sequence of all states of the rows, so that a copy is a place in it: `shown` is what each
query has cached, `fetch` what its fetch under way will bring. A mutation changes the rows, invalidates both
queries (`Invalidate` drops an older fetch under way and starts another, as react-query does), and is over when
its promise is: at once, or with the refetch. Every button is an action whose guard is its `disabled`.

**OperatorPanels.** `subject` is the selected shard, node or index, `armed` what the next click confirms, `text`
what is typed or picked, `calls` the requests under way with what they were sent for and whether their component
is still mounted (`here`), `tracked` the relocation whose job the panel follows. `Mounted`, `Show`, `SelectRow` say
what each kind of step forgets and what it keeps.

## 3. The runs

| Run | Question | What it shows |
|---|---|---|
| `sequential` | every endpoint, a database that fails at any read or write, an executor that cannot be built, a crash or a shutdown, requests one at a time | `JobRunner` implements `JobLifecycle`; an executor only works for a row that says "executing"; slots are neither lost nor duplicated, the cap holds, no wake-up is lost |
| `batch` | execute-all, two indexes, no cancel, a crash or a shutdown | everything in flight is driven, rows stay within the cap, every job ends, shutdown ends |
| `resize` | failing calls, cancellation, kill anywhere, two further runs, clients that write at any time, counts that lag behind | the source is deleted only with a copy of all that its count could include; outside the resume guard temp is deleted only when the source has its documents, or clients have written as many others there; a completed resize leaves one whole writable index; an aborted first run leaves the source writable; every run ends |
| `resume` (violation) | one kill anywhere | the next run deletes the only copy |
| `drain` | two drains and their cancels whose reads and writes of the setting overlap, a persistent exclusion, failures, a restart | a settled exclusion ends only with the undrain of that node; a released node is taken again only by a drain of it; persistent exclusions stay; drains end |
| `relocating` (violation) | one drain | the node is "safe to stop" with a shard still on it |
| `polls` | two clusters, overlapping requests, failing transactions and factories, a crash or a shutdown | no poller leaks or outlives its client, pollers follow rows, active clusters are cached |
| `session` | two tabs, two requests under way, tokens that expire, log-outs, reloads | nothing but a log-out or a refused token ends a session; a sign-in lands on the pages with its token; a tab without a good token leaves the pages |
| `clusters` | two ids that may be given out again, other admins, late and failing fetches | the edit form is that of the cluster its PATCH will name; a selection outlives every fetch; a removed cluster is left; a cluster listed twice is soon listed once |
| `board` | one job, changes by the page, by others and by the runner, two of the page's calls at once | no poll overwrites what the page has done; Execute Next waits for a newer list; an open page catches up |
| `panels` | six pages, two clusters that may be written and a read-only one, two requests at once, cluster switches between arming and sending | a relocation takes the shard to the node that were armed, when it is sent to the cluster it was armed on; one arming sends one request; an explanation is of its row; the read-only cluster is asked for nothing |
| `tracked` (violation) | one relocation answered after another shard is selected | the panel shows the job of the first shard as the second one's |

### Bounds, and why they are enough

* Jobs: two or three. With one slot, three jobs are one holder, one waiter being granted and one
  behind it, which is all a wake-up involves. Two indexes tell "same" from "other".
* Requests: one in the runs of `JobRunner`, which ask what holds while no request finds rows that another is about to
  write; two for the pollers, for a reader whose value another writer makes stale. The proofs cover any number,
  overlapping or not, wherever no premise says otherwise.
* Crashes: one for runner, drains and pollers (a second meets the same states, as nothing but the rows
  survives), any number for the resize within its three runs, as a half-finished run may leave a new state.
* Documents: two stored and two that clients may add: enough for an empty, a partial and a complete
  copy, a count that agrees by accident, and two writes around one count. The runs of the executor are bounded by `MaxAttempts`.
* Drain: four nodes, so that one is a target while two drain and one is excluded by the operator; one
  shard on a node that has room for one.
* Pollers: one for each cluster. A poller returns to the pool when its client is closed, and the
  requests of one cluster do not overlap in the run, so no start ever waits for the pool; the proofs cover any `Racing`.
* Session: two tabs, two tokens and two requests under way at once are one session that ends while an answer
  for it, or a form of another tab, is still to come. A third token would only begin the story again.
* ClusterSelection: two ids and two names with three writes: create, rename, delete and create again under the
  same id, by the tab or by others.
* JobBoard: one job whose row changes twice, two calls of the page at once: a fetch from before both, between
  them and after. The page sees other jobs only through the order of the list, which the theorems cover.
* OperatorPanels: three clusters, one of them read-only, two subjects, two texts, two requests: what was armed or sent, and another.
  Subjects, texts and the two clusters that may be written are interchangeable, so `Names` is a sound symmetry.

`CHECK_DEADLOCK FALSE` is said where a bounded run really ends: all jobs ended, the last permitted run
over, every shard in place.

### Fairness

* `SchedulerFairness`: weak fairness of each task's and each begun request's next step, of the end of the
  shutdown and of the restart. The event loop runs whatever is ready, SQLite answers, and the container
  is restarted. Nothing is assumed of clients or of faults.
* `ExecutorFairness`: an executor returns while the process is up. The executors with a bounded number of polls do;
  the exception is the loop of the in-place reindex (`executor.py:404`), see below. During a shutdown nothing is
  assumed of executors, so `ShutdownEnds` rests on their cancellation alone.
* `InPlaceResize`: the answered calls and the progress of the reindex task.
* `Drain`: weak fairness of the executor's and the cancel request's steps, and of a move that has begun; strong fairness of the
  evacuation of an excluded node, which the room on other nodes switches off and on. Without a target no fairness helps:
  the pre-flight is what excludes it. `DrainEnds` leaves out a drain whose node is no longer excluded while it polls:
  an undrain, or a stale copy, may take the exclusion away, and then nothing moves the shards.
* `PollManager`: weak fairness of requests, cycles, cancelled tasks, start and shutdown. A cycle that
  fails, or whose cluster does not answer, writes nothing and is not an action; `ActiveIsCached` speaks of clusters whose cycles get
  through.
* `Session`: the pages go on polling (strong, as the bound on requests under way may switch a poll off), every
  request is answered or given up (weak), and of the refusals some get through (strong). The refresh
  interval is one the user may set to "off"; then a dead session shows only at the next request.
* `ClusterSelection`: a fetch is answered or given up (weak). `JobBoard`: an open page polls (weak) and a fetch that is
  under way again and again gets through (strong). `OperatorPanels` has no liveness property.

## 4. What is proved

Every theorem holds for all values of the constants that satisfy the modules' assumptions and the premise the
theorem names. The type invariants of all modules are proved rather than run.

* `JobRunnerProofs`: `TypeCorrect`, `SlotsAreConserved`, `ExecutorsStayWithinCap`, `WakeupsAreNotLost`, with any number of
  overlapping requests, faults and crashes. `SlotsConserved` alone is not inductive: a step that frees a
  slot grants it to a set of waiters, so the proof carries *Accounted* (free slots plus holders, granted waiters
  included, are `MaxConcurrent`) and *Awake* (if a slot is free and someone sleeps, someone has been granted).
  The heart of it is a lemma on exchanging the elements of a finite set, used at each step that passes
  a slot on.
  The rest of the module is about rows. The premise of these theorems is a property of the behaviour, `[]Undisturbed`:
  no two requests are at the same time between reading and writing the same row (an approve that overlaps a reject
  breaks the promise, see section 5). Requests for different rows, requests that create, cancel or clear the history, tasks and
  recoveries overlap as they like. `CreatorsAreUndisturbed` proves the premise where requests only create,
  cancel and clear the history, however many there are.
  * `ExecutorsWorkForTheirRows`, `KeepsTheLifecycle`, the refinement of `JobLifecycle`, and `TerminalRowsRest`, the comment at
    `job_runner.py:49-50`, with all endpoints, faults, crashes and cancellations. The invariant `RowsFollowed` says
    what a task has read of its row, and a request of the rows it will write, still holds; each step then is a
    move, the begin or end of an executor, a death or a resumption.
  * `NothingIsLeftInFlight` and `RowsStayWithinCap`, also under `Calm` (no cancel, no clear-queue, no faults; crashes
    and shutdowns stay). The invariant `Driven` ties every phase of a task to a status, and every job in flight that has
    no task to the one request that will submit it. Both parts of `Calm` are needed: see Jobs in section 5.
* `InPlaceResizeProofs`: `TypeCorrect`, `SourcesAreCopied` and `TempsAreCopied` for every choice of faults, crashes,
  cancellations and client writes, and any number of runs. `Stock` says where documents can be (an index that does not
  exist has none, only acknowledged ones exist). `Verified` says what the executor's step knows of its copy: from the
  copy to the deletion temp is a part of the source, so that two equal counts, one of which lacks what was unseen,
  bound what temp lacks by what was uncounted (`CountRest`, `LacksLess`); at the deletion of temp the source has as
  many documents as temp. That is all a comparison of counts can give: a client's document can stand for one that was
  not copied, and `TempIsCopied` says so. Neither theorem is about the deletion of temp by the resume guard, which the
  run `resume` shows. `CompletedIsAlwaysWhole` follows the write block and the shard count through `Refilled`; it
  needs that no lookup fails (a failing one makes the run end without a resize, section 5) and that a write creates no
  index. `AbortsLeaveWritable` needs that the `finally` block finds the source, and lifts the block uncancelled
  (`FirstRun`).
* `DrainProofs`: `TypeCorrect`, `SettledNodesStay` and `ReleasedNodesStay` with no premise: reads and writes of the
  setting overlap as they like, calls and cancels fail, answers get lost, the process restarts. Being settled is
  inductive up to the undrain of that node (`StepSettles`), because a copy that is read while the node is settled
  contains it, and every copy that is written does; being released up to the start of its drain (`StepReleases`), for
  the mirror reason. Most steps touch neither the setting nor a copy, which `OthersReadNothing` says once.
  `PersistentIsKept` needs `NoneIsPersistent`, that no persistently excluded node is drained: its undrain would take
  it out. Drains and undrains that overlap undo each other, but every copy, however old, contains the persistent nodes
  (`Copied`, `CopiesCopied`).
* `PollManagerProofs`: `TypeCorrect`, `PollersNeverStray`, `OnePollerEach` and `RowsAreFollowed`, for any `Racing`.
  Clusters whose requests overlap and clusters whose requests do not are served by the same process, and what the
  first do to the registry must not reach the second. Some halves hold of all pollers: the client of a running one is
  open, a cancelled one has exactly one request, or the shutdown, to close it. The others (a running poller is the
  registered one, it is the only one of its cluster, rows and pollers agree) are about clusters outside `Racing` and
  fail for those inside (section 5). The invariant has two halves too. `PollersKept`: a poller that exists has an open
  client and is minded (`Minded`), the registry holds pollers of the right cluster (`Bound`), what a request is about
  to close or has seen is still so (`Taken`, `Cleared`), and outside `Racing` a request is alone with its cluster
  (`Alone`). `RowsKept`: at each step of a request it is known what the row says and what the registry holds (`Owes`),
  and a cluster with nothing pending agrees (`Settled`). The second half is needed because `PollersMatchRows` says
  nothing while a request is under way, and rests on the first.
* `SessionProofs`: `TypeCorrect`, `SessionsLast`, `LoginsLand`, for any tabs, tokens and requests under way.
  `IsRouted`: a tab is where the guards would leave it. `TokensKnown`: tokens in storage and in the answers to forms
  were issued. `StatusAnswered`: what the server says of the set-up is one of two answers. `RequestsAccepted`: while
  nobody has logged out and nothing is revoked, every request of a page carries a token the server accepts, so no late
  answer can end the session.
* `JobBoardProofs`: `TypeCorrect`, `OwnWritesAreShown`, `NextIsAlwaysFresh`. `FetchesOwn`: a fetch under way is no
  older than what the page shows or was told; `CallsKnown`: a call that is answered has its change in the log;
  `RanIsAcked`: the list has been invalidated for the last Execute Next.
* `OperatorPanelsProofs`: `TypeCorrect`, `RowsAreExplained`, `RelocationsAreAsArmed`, `ArmingsAreSpent`,
  `ReadOnlyIsLeftAlone`. `ArmedFor`: an armed relocation is for the shard and target shown, and the cluster it was
  armed on is recorded; `Unspent`: an armed drain or retry with no request pending has sent none; `AwaitsItsRow`: an
  explanation under way is for the row of its dialog; `RelocatesShards`: a relocation has a shard.
* `ClusterSelectionProofs`: `TypeCorrect`, `FormIsAlwaysOfActive`, `SelectionIsKept`, `RemovalsAreLeft`, for any ids,
  names and writes, whatever other admins do. The first half is about the list itself: the rows sorted by name, which
  the model places by rank. In a finite set with a strict total order every rank below the number of elements is taken
  (`EveryRankIsTaken`), so the list that a fetch brings has exactly the ids of the rows; this is proved from the
  theorems on cardinality, with no appeal to a sorting operator. Of the rest, `Typed` includes the form
  (`FormIsOfActive` is inductive with the types); `Kept` says that a cluster which the tab mentions, or a fetch
  brings, exists or has been deleted, and that the list, and the one that is to replace it, hold the selected cluster
  unless that has been deleted; `Removed` says that a cluster whose removal has gone through is in no list that was
  fetched since.

Only model-checked: the liveness properties, as the prover reaches neither fairness nor ENABLED (`EveryJobEnds`,
`ShutdownEnds`, `AttemptEnds`, `DrainEnds`, `RemovedIsClosed`, `ActiveIsCached`, `DeadSessionLeaves`, `PageCatchesUp`,
`DuplicateGoes`). Every other property of a passing run is stated by a theorem. No theorem is about what happens
outside a premise; section 5 is.

## 5. What the models say about the code

Findings with a run are listed in `PROJECT.json`. The rest, met while modelling:

* **Jobs.** `approve`, `reject` and `execute` write a status after an `await` without looking again: an approve that
  overlaps a reject brings the job back, against the comment at `job_runner.py:49-50`. A cancellation (or a failing
  database or `es_factory`) between the flip to "executing" and the `try` around the executor (`job_runner.py:209`),
  or while the outcome is being written, leaves a row in flight with no task, which neither cancel nor clear-queue can
  end before a restart. Two overlapping execute-all can take two jobs of one index, as the gate reads before its own
  commit (`jobs.py:293`); `execute`, `promote`, `reindex` and `relocate` do not look at the gate at all. So "at most
  one in-flight job per index" (`jobs.py:288`) is kept within one execute-all and no further, and no property claims
  it. `submit` ignores a job whose previous task is still registered. A shutdown cancels the jobs in flight for good,
  while a crash resumes them. `clear_queue` cancels by the ids it read, so it can reach a job that has started
  meanwhile.
* **Resize.** A client write between the lifting of the write block and the deletion of the source
  (`executor.py:357-361`) is acknowledged and lost. So is one that is acknowledged while the write block is off before
  the count (`executor.py:347-351`) and is not searchable by then: `_count` is near-real-time and nothing refreshes
  the index; `uncounted` in `SourceIsCopied` is exactly what can be lost so. A refill that is cancelled, or fails its
  verification, keeps temp (`executor.py:415-418`), and the source is left partial; if another resize of that index
  runs, one approved before or one recommended since (`analyzer.py:95-97` looks at its current size and shard count),
  it finds both indices, deletes temp as stale (`executor.py:302-303`), the only full copy, and completes on the
  partial source, with no crash at all. The run `resume` shows the same deletion after a crash. A lookup that fails
  reads as "no such index" (`executor.py:231`): in the resume guard the run then ends, or goes on, as if the other
  index were all there is. A cancellation that reaches the `finally` block, or a failing restore, leaves the source
  write-blocked. Counts are compared, not documents: a client write during the refill can make up for a document that
  was not copied. If the recreation of the source fails and a client's write creates it automatically, the next run
  takes it for the original. A resumed run recreates the source without aliases. The loop that waits for the reindex
  task has no bound.
* **Drain.** Two drains whose reads and writes of the setting overlap lose one of the two nodes
  (`executor.py:552-559`, against "never clobbers" at 552); a drain that overlaps an undrain brings the undrained node
  back, or loses its own. A drain that loses its node so goes on polling until it times out. `SettledStays` and
  `ReleasedStays` say what is left: only a copy that was in hand at the time can undo a change. The pre-flight counts
  nodes already excluded as targets. A drain that has completed or failed cannot be undrained through cancel. The
  cancel route undrains before it stops the executor, whose write may come later; if the undrain fails the job is not
  cancelled either. Undraining copies the persistent exclusions into the transient setting, where they outlive a
  change of the persistent one.
* **Pollers.** Two overlapping requests for one cluster (delete and create again, or two toggles) can start two
  pollers, one of which is beyond the reach of the manager: take a cluster into `Racing` to see it. A cycle may write
  the snapshots of a cluster between the deletion of its rows and the cancellation of its poller; SQLite hands the id
  out again. A changed URL or password does not reach a running poller. An error in `add_cluster` or `remove_cluster`
  is swallowed, and the poller is wrong until the process restarts (`PollersMatchRows` says that there is no other way
  while the requests of a cluster do not overlap). A row that no poller can be built for, such as one whose password
  cannot be decrypted, is one such error; at the start of the process it keeps the service from starting, as
  `start_all` does not catch it.
* **Session.** After set-up `navigate("/overview")` meets the cached "set-up required" and is sent back to `/setup`
  until the status is read again. A late 401 of a request with an old token signs out the session that has followed
  it. After another tab has signed in as someone else, a tab goes on showing the first user while its requests carry
  the second one's token. The caches are not cleared at log-out, so within its stale time the record of the last user,
  with its admin flag, is shown to the next. After a sign-in without a reload the cluster list stays disabled until
  something else mounts that query.
* **Clusters.** The edit form is filled again, over what was typed, when a refetch brings a changed row. An edit whose
  cluster has vanished from the list becomes a create. The callback of a create closes whichever dialog is open by then, that of
  a removal overrides a later selection by one from an old list. SQLite hands ids out again: a tab that
  still lists the old cluster under that id acts on the new one (`SelectionHolds` and `RemovedIsLeft` say so).
* **Job board.** Ids of deleted jobs are handed out again, so a click on an old list can approve another job. "Approve
  All" approves jobs the list does not show yet. Execute Next is enabled again by a change of tab while its refetch is
  under way. The message of an execute-all outlives a change of the cluster. Relocations and drains invalidate the ES
  queries only, so the list of jobs follows with its next poll. The buttons of the page do not look at `read_only`;
  the routes do.
* **Panels.** Besides `tracked`: an armed relocation survives a change of the cluster and is then sent to the new one
  (`ShardMap.tsx:122-128`, `242-247`; `RelocatesAsArmed` leaves this case out); a drain armed on one node drains, with
  one click, the node selected next, against the "two-step confirm" of `Nodes.tsx:284`; an armed retry survives a
  change of the cluster if the page of the new one is cached. The form of an index action stays when another index is
  selected, and the late answer to an earlier action clears what is typed in it; reopening it while a request is
  pending lets the same request be sent twice. The answer to a settings change clears what has been typed since.
  Settings shows the persistent value as the current one although a transient one wins. The console keeps the answer
  of the previous cluster, and its Enter key sends while a request is pending.

## 6. What is not modelled

* The Elasticsearch client and the HTTP layer: their failures are the faults of the models.
* Formatting, progress texts, settings, schemas, migrations, password hashing and encryption.
* Of the resize: mappings, aliases, updates and deletions by clients (documents are only added), the
  relocation before a shrink (one step that succeeds or fails).
* Of the drain: roles and attributes of nodes, sizes of shards.
* Of recommend: fingerprints (the rows to delete or to add are chosen freely).
* Of the front end: the signed-in user's record and the password dialog, the users page, the enabling of the cluster list,
  the progress of a drain, what the suggestions are, sorting, filters, formatting, and the read hooks of `es.ts`.
* Force merge, expunge, relocate, promote and reindex as executors: the executor step of `JobRunner` stands for them.
* Snapshots, analyzer and recommender, rebalance, roles, shard counts, users and the throttle: sequential
  computations or single statements around one commit; their hazards are listed with what keeps them uncovered.
* Of the pollers: a cycle that fails, and a start of the process that fails.
* Of the job board: `OwnWritesShow` says nothing of a change made while the first fetch of the list is under way, which
  react-query joins instead of restarting, or while the page is away.
* External, modelled from use: `asyncio.Semaphore`, the indices, tasks, settings and shard allocation of Elasticsearch,
  and of react-query the restart of a fetch by `invalidateQueries`.

## 7. Plan

Done: the job runner with its routes, its promise and the proof that it keeps it; the in-place resize; the drain; the
pollers; the front end's session, cluster selection, job board and operator panels. Left, in this order:

1. `TaskPolling`: force merge, expunge, relocate, promote and reindex as start, poll and restart, since `recover()` starts
   again what Elasticsearch is still doing; `wait_until_green` and `wait_until_primaries_on_node` inside it.
2. `Snapshots`: `upsert_snapshot` between poller and live reads; what a reader may be told about staleness.
3. Deletion of a cluster while its jobs run: rows of `JobRunner` against requests of `PollManager`.
4. `Access`: the last admin, deactivation, the sliding window of the throttle.
5. `Algorithms`: legal shard counts, `suggest_moves` (termination, no move undone, the gap it leaves), roles, each against
   a reference definition over bounded inputs; then `Recommend`: fingerprints, duplicates, jobs approved meanwhile.
