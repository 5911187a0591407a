----------------------------- MODULE PollManager -----------------------------
(***************************************************************************)
(* The pollers of the clusters: ClusterPollManager and the life of a       *)
(* ClusterPoller (services/poller.py), driven by the cluster endpoints of  *)
(* routes/clusters.py and by start and shutdown of the process (main.py).  *)
(*                                                                         *)
(* A request changes the row of a cluster in one transaction and tells the *)
(* manager afterwards; the manager in turn looks at its registry, awaits a *)
(* read of the row, and only then starts a poller.  A poller writes the    *)
(* snapshots of its cluster until its task is cancelled and its HTTP       *)
(* client closed.                                                          *)
(***************************************************************************)
EXTENDS Functions, Integers

CONSTANTS
    Cluster,        \* ids of clusters, 1 and up
    Poller,         \* poller objects, each with its task and its HTTP client
    Request,        \* requests that may be served at once
    Racing,         \* clusters whose own requests may overlap
    Faults,         \* "database": a transaction of a request or the manager fails;
                    \* "factory": no poller can be built for a row
    MaxCrashes      \* bound on crashes and restarts

None == 0
ASSUME ClusterAssumption == Cluster \subseteq Nat \ {0} /\ Racing \subseteq Cluster
ASSUME PollerAssumption == None \notin Poller
ASSUME BoundAssumption == MaxCrashes \in Nat

VARIABLES
    row,            \* row of each cluster: absent, active or inactive
    cached,         \* clusters that have snapshot rows
    registry,       \* the manager's poller of each cluster, or None
    owner,          \* the cluster each poller polls; None: it does not exist
    task,           \* its task
    open,           \* pollers whose HTTP client is open
    request,        \* the requests being served
    failed,         \* clusters with a failed request since the process started
    up,             \* the process
    crashes         \* crashes and restarts so far

dbVars == <<row, cached>>
pollerVars == <<registry, owner, task, open>>
vars == <<dbVars, pollerVars, request, failed, up, crashes>>

Idle == [at |-> "idle", cluster |-> None, active |-> FALSE, poller |-> None]
RequestStep == {"create", "update", "refresh", "delete", "add", "get", "start", "remove",
                "close"}
Served == [at : RequestStep, cluster : Cluster, active : BOOLEAN, poller : Poller \cup {None}]

TypeOK ==
    /\ row \in [Cluster -> {"absent", "active", "inactive"}]
    /\ cached \subseteq Cluster
    /\ registry \in [Cluster -> Poller \cup {None}]
    /\ owner \in [Poller -> Cluster \cup {None}]
    /\ task \in [Poller -> {"running", "stopping", "ended"}]
    /\ open \subseteq Poller
    /\ request \in [Request -> {Idle} \cup Served]
    /\ failed \subseteq Cluster
    /\ up \in {"down", "up", "stopping"}
    /\ crashes \in 0 .. MaxCrashes

Init ==
    /\ row = [c \in Cluster |-> "absent"]
    /\ cached = {}
    /\ registry = [c \in Cluster |-> None]
    /\ owner = [p \in Poller |-> None]
    /\ task = [p \in Poller |-> "ended"]
    /\ open = {}
    /\ request = [r \in Request |-> Idle]
    /\ failed = {}
    /\ up = "down"
    /\ crashes = 0

Registered == {registry[c] : c \in Cluster} \ {None}
Live(p) == owner[p] # None /\ task[p] # "ended"

-----------------------------------------------------------------------------
(* The pollers.                                                            *)

\* started gives each cluster its new poller, with a client and a task of its own;
\* it replaces whatever the registry held for the cluster.
StartOne(started) ==
    LET new == Range(started)
    IN /\ \A p \in new : owner[p] = None
       /\ owner' = [p \in Poller |-> IF p \in new THEN AntiFunction(started)[p] ELSE owner[p]]
       /\ task' = [p \in Poller |-> IF p \in new THEN "running" ELSE task[p]]
       /\ open' = open \cup new
       /\ registry' = [c \in Cluster |-> IF c \in DOMAIN started THEN started[c] ELSE registry[c]]

\* The client of each of these pollers is closed, and nothing refers to it any more.
Dispose(ps) ==
    /\ open' = open \ ps
    /\ owner' = [p \in Poller |-> IF p \in ps THEN None ELSE owner[p]]
    /\ task' = [p \in Poller |-> IF p \in ps THEN "ended" ELSE task[p]]

\* A cycle of the poller writes a snapshot; one that is being cancelled may have
\* its last write under way.
Cycle(p) ==
    /\ Live(p)
    /\ cached' = cached \cup {owner[p]}
    /\ UNCHANGED <<row, pollerVars, request, failed, up, crashes>>

\* The cancelled task ends.
TaskEnds(p) ==
    /\ task[p] = "stopping"
    /\ task' = [task EXCEPT ![p] = "ended"]
    /\ UNCHANGED <<dbVars, registry, owner, open, request, failed, up, crashes>>

-----------------------------------------------------------------------------
(* The endpoints.                                                          *)

Begin(r, s, c, a) ==
    /\ up = "up"
    /\ request[r] = Idle
    /\ c \in Racing \/ \A q \in Request : request[q].cluster # c
    /\ request' = [request EXCEPT ![r] = [at |-> s, cluster |-> c, active |-> a, poller |-> None]]
Goto(r, s) == request' = [request EXCEPT ![r].at = s]
\* Mutant: the rest of the record stays.
DoneInPlace(r) == request' = [request EXCEPT ![r].at = "idle"]
Done(r) == request' = [request EXCEPT ![r] = Idle]

\* Create commits an active row, then adds its poller.  The database gives out the
\* id above the highest in use, so ids come back after a deletion.
NextId(c) ==
    /\ \A d \in Cluster : row[d] # "absent" => d < c
    /\ c = 1 \/ \E d \in Cluster : row[d] # "absent" /\ c = d + 1
Create(r, c) ==
    /\ NextId(c)
    /\ row' = [row EXCEPT ![c] = "active"]
    /\ Begin(r, "create", c, TRUE)
    /\ UNCHANGED <<cached, pollerVars, failed, up, crashes>>

\* Update reads the row; only a change of is_active concerns the manager.
Update(r, c, a) ==
    /\ row[c] = IF a THEN "inactive" ELSE "active"
    /\ Begin(r, "update", c, a)
    /\ UNCHANGED <<dbVars, pollerVars, failed, up, crashes>>

\* The commit fails if the row is gone.
CommitUpdate(r) ==
    LET c == request[r].cluster
    IN /\ request[r].at = "update"
       /\ IF row[c] = "absent"
          THEN Done(r) /\ UNCHANGED row
          ELSE /\ row' = [row EXCEPT ![c] = IF request[r].active THEN "active" ELSE "inactive"]
               /\ Goto(r, "refresh")
       /\ UNCHANGED <<cached, pollerVars, failed, up, crashes>>

\* After the commit the row is read again: create only needs its id, update
\* goes by what it says now.
Refresh(r) ==
    LET now == row[request[r].cluster]
    IN /\ request[r].at \in {"create", "refresh"}
       /\ IF now = "absent" THEN Done(r)
          ELSE IF request[r].at = "create" \/ now = "active" THEN Goto(r, "add")
          ELSE Goto(r, "remove")
       /\ UNCHANGED <<dbVars, pollerVars, failed, up, crashes>>

DeleteRead(r, c) ==
    /\ row[c] # "absent"
    /\ Begin(r, "delete", c, FALSE)
    /\ UNCHANGED <<dbVars, pollerVars, failed, up, crashes>>

\* The row goes with its snapshots, then the poller.
CommitDelete(r) ==
    LET c == request[r].cluster
    IN /\ request[r].at = "delete"
       /\ row' = [row EXCEPT ![c] = "absent"]
       /\ cached' = cached \ {c}
       /\ Goto(r, "remove")
       /\ UNCHANGED <<pollerVars, failed, up, crashes>>

\* add_cluster: nothing to do if the cluster has a poller.
AddCheck(r) ==
    /\ request[r].at = "add"
    /\ IF registry[request[r].cluster] # None THEN Done(r) ELSE Goto(r, "get")
    /\ UNCHANGED <<dbVars, pollerVars, failed, up, crashes>>

\* It awaits a read of the row ...
AddGet(r) ==
    /\ request[r].at = "get"
    /\ IF row[request[r].cluster] = "active" THEN Goto(r, "start") ELSE Done(r)
    /\ UNCHANGED <<dbVars, pollerVars, failed, up, crashes>>

\* ... and starts a poller.
AddStart(r) ==
    /\ request[r].at = "start"
    /\ \E p \in Poller : StartOne([c \in {request[r].cluster} |-> p])
    /\ Done(r)
    /\ UNCHANGED <<dbVars, failed, up, crashes>>

\* Mutant: the task is left running.
RemovePopUncancelled(r) ==
    LET c == request[r].cluster
        p == registry[c]
    IN /\ request[r].at = "remove"
       /\ registry' = [registry EXCEPT ![c] = None]
       /\ IF p = None
          THEN Done(r)
          ELSE request' = [request EXCEPT ![r].at = "close", ![r].poller = p]
       /\ UNCHANGED <<dbVars, task, owner, open, failed, up, crashes>>

\* Mutant: nobody waits for the cancelled task.
RemovePopForgets(r) ==
    LET p == registry[request[r].cluster]
    IN /\ request[r].at = "remove"
       /\ registry' = [registry EXCEPT ![request[r].cluster] = None]
       /\ task' = [q \in Poller |-> IF q = p THEN "stopping" ELSE task[q]]
       /\ Done(r)
       /\ UNCHANGED <<dbVars, owner, open, failed, up, crashes>>

\* remove_cluster takes the poller out of the registry and cancels its task ...
RemovePop(r) ==
    LET c == request[r].cluster
        p == registry[c]
    IN /\ request[r].at = "remove"
       /\ IF p = None
          THEN Done(r) /\ UNCHANGED <<registry, task>>
          ELSE /\ registry' = [registry EXCEPT ![c] = None]
               /\ task' = [task EXCEPT ![p] = "stopping"]
               /\ request' = [request EXCEPT ![r].at = "close", ![r].poller = p]
       /\ UNCHANGED <<dbVars, owner, open, failed, up, crashes>>

\* Mutant: the client is closed before the task has ended.
RemoveCloseEarly(r) ==
    /\ request[r].at = "close"
    /\ open' = open \ {request[r].poller}
    /\ Done(r)
    /\ UNCHANGED <<dbVars, registry, owner, task, failed, up, crashes>>

\* ... and closes its client when the task has ended.
RemoveClose(r) ==
    /\ request[r].at = "close"
    /\ task[request[r].poller] = "ended"
    /\ Dispose({request[r].poller})
    /\ Done(r)
    /\ UNCHANGED <<dbVars, registry, failed, up, crashes>>

\* A transaction of the request fails, or the factory of its poller; behind the commit
\* the error is swallowed.
RequestFails(r) ==
    /\ \/ /\ "database" \in Faults
          /\ request[r].at \in {"update", "create", "refresh", "delete", "get"}
       \/ "factory" \in Faults /\ request[r].at = "start"
    /\ Done(r)
    /\ failed' = failed \cup {request[r].cluster}
    /\ UNCHANGED <<dbVars, pollerVars, up, crashes>>

-----------------------------------------------------------------------------
(* The process.                                                            *)

\* Mutant: the query does not look at is_active.
StartEveryRow ==
    LET present == {c \in Cluster : row[c] # "absent"}
    IN /\ up = "down"
       /\ up' = "up"
       /\ \E started \in Injection(present, Poller) : StartOne(started)
       /\ failed' = {}
       /\ UNCHANGED <<dbVars, request, crashes>>

\* Mutant: only requests start pollers.
StartNone ==
    /\ up = "down"
    /\ up' = "up"
    /\ failed' = {}
    /\ UNCHANGED <<dbVars, pollerVars, request, crashes>>

\* start_all starts a poller for every active row, before requests are served.
Start ==
    LET active == {c \in Cluster : row[c] = "active"}
    IN /\ up = "down"
       /\ up' = "up"
       /\ \E started \in Injection(active, Poller) : StartOne(started)
       /\ failed' = {}
       /\ UNCHANGED <<dbVars, request, crashes>>

\* stop_all, when the last request has been served, cancels the registered
\* tasks ...
StopAll ==
    /\ up = "up"
    /\ \A r \in Request : request[r] = Idle
    /\ crashes < MaxCrashes
    /\ up' = "stopping"
    /\ task' = [p \in Poller |-> IF p \in Registered /\ task[p] = "running" THEN "stopping" ELSE task[p]]
    /\ UNCHANGED <<dbVars, registry, owner, open, request, failed, crashes>>

\* ... waits for them, and closes their clients; the process ends, with any poller that
\* has escaped the registry.
Stopped ==
    /\ up = "stopping"
    /\ \A p \in Registered : task[p] = "ended"
    /\ up' = "down"
    /\ crashes' = crashes + 1
    /\ Dispose(Poller)
    /\ registry' = [c \in Cluster |-> None]
    /\ UNCHANGED <<dbVars, request, failed>>

Crash ==
    /\ up # "down"
    /\ crashes < MaxCrashes
    /\ up' = "down"
    /\ crashes' = crashes + 1
    /\ Dispose(Poller)
    /\ registry' = [c \in Cluster |-> None]
    /\ request' = [r \in Request |-> Idle]
    /\ UNCHANGED <<dbVars, failed>>

Serve(r) ==
    \/ CommitUpdate(r) \/ Refresh(r) \/ CommitDelete(r) \/ AddCheck(r) \/ AddGet(r)
    \/ AddStart(r) \/ RemovePop(r) \/ RemoveClose(r)

Next ==
    \/ \E r \in Request :
        \/ Serve(r) \/ RequestFails(r)
        \/ \E c \in Cluster : \/ Create(r, c) \/ DeleteRead(r, c)
                              \/ \E a \in BOOLEAN : Update(r, c, a)
    \/ \E p \in Poller : Cycle(p) \/ TaskEnds(p)
    \/ Start \/ StopAll \/ Stopped \/ Crash

Spec == Init /\ [][Next]_vars

\* The event loop serves requests, ends cancelled tasks and runs the pollers;
\* the process comes back and shuts down.
FairSpec ==
    /\ Spec
    /\ \A r \in Request : WF_vars(Serve(r))
    /\ \A p \in Poller : WF_vars(Cycle(p)) /\ WF_vars(TaskEnds(p))
    /\ WF_vars(Start) /\ WF_vars(Stopped)

-----------------------------------------------------------------------------
(* Properties.                                                             *)

Quiet == up = "up" /\ \A r \in Request : request[r] = Idle

\* No poller escapes the manager: one that runs is registered for its cluster, unless
\* requests of that cluster may overlap; and a cancelled one of any cluster has somebody
\* left to wait for it and close its client.
NoStrayPoller ==
    \A p \in Poller :
        /\ task[p] = "running" /\ owner[p] \notin Racing => registry[owner[p]] = p
        /\ p \in open /\ task[p] # "running" =>
             \/ up = "stopping" /\ p \in Registered
             \/ \E r \in Request : request[r].at = "close" /\ request[r].poller = p

\* When no request is under way exactly the active clusters are polled, whatever the
\* overlapping requests of others have left behind, but for those with a failed request:
\* the start of the process brings these back too.
PollersMatchRows ==
    Quiet => \A c \in Cluster \ (failed \cup Racing) :
                 (row[c] = "active") <=> (registry[c] # None)

\* A poller of any cluster never runs on a closed client, nor has two requests waiting to
\* close it; and none runs for a cluster another poller runs for, unless requests of that
\* cluster may overlap.
OnePollerWithClient ==
    /\ \A p \in Poller : Live(p) => p \in open
    /\ \A q, r \in Request :
          request[q].at = "close" /\ request[r].at = "close" /\ request[q].poller = request[r].poller
              => q = r
    /\ \A p, q \in Poller :
          task[p] = "running" /\ task[q] = "running" /\ owner[p] = owner[q] /\ owner[p] \notin Racing
              => p = q

\* Every cancelled poller gets its client closed.
RemovedIsClosed == \A p \in Poller : task[p] = "stopping" ~> p \notin open

\* A cluster that stays active gets into the cache, over restarts and while other
\* clusters come and go.
ActiveIsCached ==
    \A c \in Cluster : row[c] = "active" ~> (row[c] # "active" \/ c \in cached \cup failed)
=============================================================================
