-------------------------- MODULE PollManagerProofs --------------------------
(***************************************************************************)
(* Proofs about PollManager for any number of clusters, pollers and        *)
(* requests, and any faults and crashes.                                   *)
(***************************************************************************)
EXTENDS PollManager, TLAPS

-----------------------------------------------------------------------------
(* The helpers.                                                            *)

\* Starting pollers for a set of clusters ties each of them to its own poller and
\* leaves the others alone.
LEMMA StartOneTies ==
    ASSUME TypeOK, NEW C \in SUBSET Cluster, NEW started \in Injection(C, Poller),
           StartOne(started)
    PROVE  /\ \A c \in C : /\ started[c] \in Poller /\ owner[started[c]] = None
                           /\ owner'[started[c]] = c
           /\ owner' \in [Poller -> Cluster \cup {None}]
           /\ task' = [p \in Poller |-> IF p \in Range(started) THEN "running" ELSE task[p]]
           /\ registry' = [c \in Cluster |-> IF c \in C THEN started[c] ELSE registry[c]]
           /\ open' = open \cup Range(started)
           /\ Range(started) \subseteq Poller
           /\ \A p \in Poller : p \notin Range(started) => owner'[p] = owner[p]
           /\ \A p \in Range(started) : owner'[p] \in C /\ started[owner'[p]] = p
<1> USE DEF TypeOK
<1>1. started \in [C -> Poller] /\ \A c, d \in C : started[c] = started[d] => c = d
  BY DEF Injection, IsInjective
<1>2. Range(started) \subseteq Poller /\ \A c \in C : started[c] \in Range(started)
  BY <1>1 DEF Range
<1>3. \A p \in Range(started) : \E c \in C : started[c] = p
  BY <1>1 DEF Range
<1>4. owner' = [p \in Poller |-> IF p \in Range(started) THEN AntiFunction(started)[p]
                                                       ELSE owner[p]]
  BY DEF StartOne
<1>5. \A p \in Range(started) : /\ AntiFunction(started)[p] \in C
                                /\ started[AntiFunction(started)[p]] = p
  BY <1>1, <1>3 DEF AntiFunction, Inverse
<1>6. \A c \in C : AntiFunction(started)[started[c]] = c
  BY <1>1, <1>2, <1>5
<1>7. task' = [p \in Poller |-> IF p \in Range(started) THEN "running" ELSE task[p]]
  BY DEF StartOne
<1>8. registry' = [c \in Cluster |-> IF c \in C THEN started[c] ELSE registry[c]]
  BY <1>1 DEF StartOne
<1>9. owner' \in [Poller -> Cluster \cup {None}]
  BY <1>4, <1>5
<1>10. \A c \in C : owner[started[c]] = None
  BY <1>2 DEF StartOne
<1>11. open' = open \cup Range(started)
  BY DEF StartOne
<1> QED BY <1>1, <1>2, <1>4, <1>5, <1>6, <1>7, <1>8, <1>9, <1>10, <1>11

\* So the types stay.
LEMMA StartOneTyped ==
    ASSUME TypeOK, NEW C \in SUBSET Cluster, NEW started \in Injection(C, Poller), StartOne(started)
    PROVE  /\ owner' \in [Poller -> Cluster \cup {None}]
           /\ registry' \in [Cluster -> Poller \cup {None}]
           /\ task' \in [Poller -> {"running", "stopping", "ended"}]
           /\ open' \subseteq Poller
BY StartOneTies DEF TypeOK

\* A single poller for a single cluster.
LEMMA SingleStart ==
    ASSUME NEW c \in Cluster, NEW p \in Poller
    PROVE  /\ [d \in {c} |-> p] \in Injection({c}, Poller)
           /\ Range([d \in {c} |-> p]) = {p}
BY DEF Injection, IsInjective, Range

-----------------------------------------------------------------------------
(* Type correctness.                                                       *)

\* Initially.
LEMMA InitTyped == Init => TypeOK
BY BoundAssumption DEF Init, TypeOK

\* A request that has begun has a cluster.
LEMMA RequestServed ==
    ASSUME TypeOK, NEW r \in Request, request[r].at # "idle"
    PROVE  request[r] \in Served /\ request[r] # Idle /\ request[r].cluster \in Cluster
BY DEF TypeOK, Served, Idle

\* Ending, moving on and beginning a request keep its type.
LEMMA DoneTyped ==
    ASSUME TypeOK, NEW r \in Request, Done(r)
    PROVE  request' \in [Request -> {Idle} \cup Served]
BY DEF TypeOK, Done

\* Moving on keeps the type of a request ...
LEMMA GotoTyped ==
    ASSUME TypeOK, NEW r \in Request, NEW s \in RequestStep, request[r] \in Served, Goto(r, s)
    PROVE  request' \in [Request -> {Idle} \cup Served]
<1>1. [request[r] EXCEPT !.at = s] \in Served
  BY DEF Served
<1> QED BY <1>1 DEF TypeOK, Goto

\* ... and so does beginning one.
LEMMA BeginTyped ==
    ASSUME TypeOK, NEW r \in Request, NEW s \in RequestStep, NEW c \in Cluster, NEW a \in BOOLEAN,
           Begin(r, s, c, a)
    PROVE  request' \in [Request -> {Idle} \cup Served]
<1>1. [at |-> s, cluster |-> c, active |-> a, poller |-> None] \in Served
  BY DEF Served
<1> QED BY <1>1 DEF TypeOK, Begin

\* A shutdown is counted when it ends, so there is room to count it.
RoomToStop == up = "stopping" => crashes < MaxCrashes

\* Every step keeps the types.
LEMMA StepTyped == TypeOK /\ RoomToStop /\ [Next]_vars => TypeOK' /\ RoomToStop'
<1> SUFFICES ASSUME TypeOK, RoomToStop, [Next]_vars PROVE TypeOK' /\ RoomToStop'
  OBVIOUS
<1> USE DEF TypeOK, RoomToStop
<1>1. ASSUME NEW r \in Request,
             CommitUpdate(r) \/ Refresh(r) \/ CommitDelete(r) \/ AddCheck(r) \/ AddGet(r)
               \/ RequestFails(r)
      PROVE  TypeOK' /\ RoomToStop'
  <2>1. request[r] \in Served
    BY <1>1, RequestServed
       DEF CommitUpdate, Refresh, CommitDelete, AddCheck, AddGet, RequestFails
  <2>2. request' \in [Request -> {Idle} \cup Served]
    <3>1. Done(r) \/ \E s \in RequestStep : Goto(r, s)
      BY <1>1 DEF CommitUpdate, Refresh, CommitDelete, AddCheck, AddGet, RequestFails, RequestStep
    <3> QED BY <2>1, <3>1, DoneTyped, GotoTyped
  <2>3. request[r].cluster \in Cluster
    BY <2>1 DEF Served
  <2> QED BY <1>1, <2>2, <2>3 DEF CommitUpdate, Refresh, CommitDelete, AddCheck, AddGet,
                                RequestFails, pollerVars, dbVars
<1>2. ASSUME NEW r \in Request, NEW c \in Cluster,
             Create(r, c) \/ DeleteRead(r, c) \/ \E a \in BOOLEAN : Update(r, c, a)
      PROVE  TypeOK' /\ RoomToStop'
  <2>1. request' \in [Request -> {Idle} \cup Served]
    <3>1. \E s \in RequestStep, a \in BOOLEAN : Begin(r, s, c, a)
      BY <1>2 DEF Create, DeleteRead, Update, RequestStep
    <3> QED BY <3>1, BeginTyped
  <2> QED BY <1>2, <2>1 DEF Create, DeleteRead, Update, Begin, pollerVars, dbVars
<1>3. ASSUME NEW r \in Request, AddStart(r) PROVE TypeOK' /\ RoomToStop'
  <2>1. request[r].cluster \in Cluster
    BY <1>3, RequestServed DEF AddStart
  <2>2. PICK p \in Poller : StartOne([c \in {request[r].cluster} |-> p])
    BY <1>3 DEF AddStart
  <2>3. [c \in {request[r].cluster} |-> p] \in Injection({request[r].cluster}, Poller)
    BY <2>1, SingleStart
  <2>4. /\ owner' \in [Poller -> Cluster \cup {None}]
        /\ registry' \in [Cluster -> Poller \cup {None}]
        /\ task' \in [Poller -> {"running", "stopping", "ended"}]
        /\ open' \subseteq Poller
    BY <2>1, <2>2, <2>3, StartOneTyped
  <2>5. request' \in [Request -> {Idle} \cup Served]
    BY <1>3, DoneTyped DEF AddStart
  <2> QED BY <1>3, <2>4, <2>5 DEF AddStart, dbVars
<1>4. ASSUME NEW r \in Request, RemovePop(r) PROVE TypeOK' /\ RoomToStop'
  <2>1. request[r] \in Served /\ request[r].cluster \in Cluster
    BY <1>4, RequestServed DEF RemovePop
  <2>2. CASE registry[request[r].cluster] = None
    BY <1>4, <2>2, DoneTyped DEF RemovePop, dbVars
  <2>3. CASE registry[request[r].cluster] # None
    <3> DEFINE p == registry[request[r].cluster]
    <3>1. p \in Poller
      BY <2>1, <2>3
    <3>2. request' = [request EXCEPT ![r].at = "close", ![r].poller = p]
      BY <1>4, <2>3 DEF RemovePop
    <3>3. request' \in [Request -> {Idle} \cup Served]
      <4>1. [request[r] EXCEPT !.at = "close", !.poller = p] \in Served
        BY <2>1, <3>1 DEF Served, RequestStep
      <4> QED BY <3>2, <4>1
    <3>4. /\ task' = [task EXCEPT ![p] = "stopping"]
          /\ registry' = [registry EXCEPT ![request[r].cluster] = None]
          /\ UNCHANGED <<dbVars, owner, open, failed, up, crashes>>
      BY <1>4, <2>3 DEF RemovePop
    <3> QED BY <3>1, <3>3, <3>4 DEF dbVars
  <2> QED BY <2>2, <2>3
<1>5. ASSUME NEW r \in Request, RemoveClose(r) PROVE TypeOK' /\ RoomToStop'
  <2>1. request' \in [Request -> {Idle} \cup Served]
    BY <1>5, DoneTyped DEF RemoveClose
  <2> QED BY <1>5, <2>1 DEF RemoveClose, Dispose, dbVars
<1>6. ASSUME NEW p \in Poller, Cycle(p) \/ TaskEnds(p) PROVE TypeOK' /\ RoomToStop'
  BY <1>6 DEF Cycle, TaskEnds, Live, pollerVars, dbVars
<1>7. CASE Start
  <2> DEFINE active == {c \in Cluster : row[c] = "active"}
  <2>1. PICK started \in Injection(active, Poller) : StartOne(started)
    BY <1>7 DEF Start
  <2>2. /\ owner' \in [Poller -> Cluster \cup {None}]
        /\ registry' \in [Cluster -> Poller \cup {None}]
        /\ task' \in [Poller -> {"running", "stopping", "ended"}]
        /\ open' \subseteq Poller
    BY <2>1, StartOneTyped
  <2> QED BY <1>7, <2>2 DEF Start, dbVars
<1>8. CASE StopAll
  BY <1>8, BoundAssumption DEF StopAll, dbVars
<1>9. CASE Stopped \/ Crash
  BY <1>9, BoundAssumption DEF Stopped, Crash, Dispose, dbVars
<1>10. CASE UNCHANGED vars
  BY <1>10 DEF vars, dbVars, pollerVars
<1> QED BY <1>1, <1>2, <1>3, <1>4, <1>5, <1>6, <1>7, <1>8, <1>9, <1>10 DEF Next, Serve

\* The variables keep their types for any number of clusters and requests.
THEOREM TypeCorrect == Spec => []TypeOK
<1>1. Init => TypeOK /\ RoomToStop
  BY InitTyped DEF Init, RoomToStop
<1> QED BY <1>1, StepTyped, PTL DEF Spec

-----------------------------------------------------------------------------
(* The pollers: clusters whose requests may overlap beside those whose     *)
(* requests do not.                                                        *)

\* A poller that exists has an open client; if its task runs the registry knows it, at
\* least for a cluster served one request at a time, and if not somebody is about to
\* close the client.
Minded ==
    \A p \in Poller :
        /\ owner[p] = None => p \notin open /\ task[p] = "ended"
        /\ owner[p] # None => p \in open /\ up # "down"
        /\ task[p] = "running" /\ owner[p] \notin Racing => up = "up" /\ registry[owner[p]] = p
        /\ owner[p] # None /\ task[p] # "running" =>
             \/ up = "stopping" /\ registry[owner[p]] = p
             \/ \E r \in Request : request[r].at = "close" /\ request[r].poller = p

\* What the registry holds for a cluster is a poller of that cluster.
Bound ==
    \A c \in Cluster : registry[c] # None =>
        /\ owner[registry[c]] = c
        /\ up # "down"
        /\ up = "up" => task[registry[c]] = "running"

\* A request that is closing a poller has taken it out of the registry, for itself alone.
Taken ==
    \A r \in Request : request[r].at = "close" =>
        /\ request[r].poller \in Poller
        /\ owner[request[r].poller] = request[r].cluster
        /\ task[request[r].poller] # "running"
        /\ \A q \in Request : request[q].at = "close" /\ request[q].poller = request[r].poller => q = r

\* Where requests do not overlap, one that is closing a poller or is about to start one
\* finds none in the registry.
Cleared ==
    \A r \in Request :
        request[r].at \in {"get", "start", "close"} /\ request[r].cluster \notin Racing =>
            registry[request[r].cluster] = None

\* There each cluster has one request at a time; and none is served outside the life of the
\* process.
Alone ==
    /\ \A r, q \in Request :
          request[r] # Idle /\ request[r].cluster \notin Racing /\ request[r].cluster = request[q].cluster
              => r = q
    /\ up # "up" => \A r \in Request : request[r] = Idle

\* What a request has still to tell the manager is what the row says and the
\* registry does not.
Owes(r) ==
    LET c == request[r].cluster
    IN /\ request[r].at = "update" => row[c] = IF request[r].active THEN "inactive" ELSE "active"
       /\ request[r].at = "refresh" =>
            /\ row[c] = IF request[r].active THEN "active" ELSE "inactive"
            /\ request[r].active <=> registry[c] = None
       /\ request[r].at \in {"create", "add", "get", "start"} =>
            row[c] = "active" /\ registry[c] = None
       /\ request[r].at \in {"remove", "close"} => row[c] # "active"
Owing == \A r \in Request : request[r].cluster \notin failed \cup Racing => Owes(r)

\* Nothing owed: row and registry agree.
Agree(c) == (row[c] = "active") <=> (registry[c] # None)
Pending(r) == request[r].at \notin {"idle", "update", "delete"}
Settled ==
    up = "up" =>
        \A c \in Cluster \ (failed \cup Racing) :
            Agree(c) \/ \E r \in Request : request[r].cluster = c /\ Pending(r)

PollersKept == TypeOK /\ Minded /\ Bound /\ Taken /\ Cleared /\ Alone
RowsKept == Owing /\ Settled

\* What ending and moving on do to the requests.
LEMMA DoneOthers ==
    ASSUME TypeOK, NEW r \in Request, Done(r)
    PROVE  /\ request'[r] = Idle
           /\ \A q \in Request : q # r => request'[q] = request[q]
BY DEF TypeOK, Done

\* Moving on changes the step of one request and nothing else of it.
LEMMA GotoOthers ==
    ASSUME TypeOK, NEW r \in Request, NEW s \in RequestStep, request[r] \in Served, Goto(r, s)
    PROVE  /\ request'[r].at = s /\ request'[r] # Idle
           /\ request'[r].cluster = request[r].cluster
           /\ request'[r].active = request[r].active
           /\ request'[r].poller = request[r].poller
           /\ \A q \in Request : q # r => request'[q] = request[q]
<1>1. request'[r] = [request[r] EXCEPT !.at = s]
  BY DEF TypeOK, Goto
<1>2. request'[r].at = s
  BY <1>1 DEF Served
<1>3. "idle" \notin RequestStep
  BY DEF RequestStep
<1> QED BY <1>1, <1>2, <1>3 DEF TypeOK, Goto, Served, Idle

\* A request that begins is the only one of its cluster, unless these overlap.
LEMMA BeginOthers ==
    ASSUME TypeOK, NEW r \in Request, NEW s \in RequestStep, NEW c \in Cluster,
           NEW a \in BOOLEAN, Begin(r, s, c, a)
    PROVE  /\ request'[r].at = s /\ request'[r].cluster = c /\ request'[r].active = a
           /\ request[r] = Idle /\ request'[r] # Idle /\ up = "up"
           /\ c \notin Racing => \A q \in Request : request[q].cluster # c
           /\ \A q \in Request : q # r => request'[q] = request[q]
BY ClusterAssumption DEF TypeOK, Begin, Idle, RequestStep

\* Nothing but the steps of the requests is needed to keep them apart.
LEMMA RequestsStayAlone ==
    ASSUME TypeOK, Alone, NEW r \in Request, request[r] \in Served,
           Done(r) \/ \E s \in RequestStep : Goto(r, s), UNCHANGED up
    PROVE  Alone'
<1>1. up = "up"
  BY DEF Alone, Served, Idle, RequestStep
<1>2. CASE Done(r)
  <2>1. request'[r] = Idle /\ \A q \in Request : q # r => request'[q] = request[q]
    BY <1>2, DoneOthers
  <2>2. \A q \in Request : request[q] # Idle => request[q].cluster # Idle.cluster
    BY ClusterAssumption DEF TypeOK, Served, Idle, None
  <2> QED BY <1>1, <2>1, <2>2 DEF Alone
<1>3. CASE \E s \in RequestStep : Goto(r, s)
  <2>1. /\ request'[r].cluster = request[r].cluster /\ request[r] # Idle
        /\ \A q \in Request : q # r => request'[q] = request[q]
    BY <1>3, GotoOthers DEF Served, Idle, RequestStep
  <2> QED BY <1>1, <2>1 DEF Alone
<1> QED BY <1>2, <1>3

\* The steps of a request that only move it on: no poller is touched.
LEMMA TalkingKeeps ==
    ASSUME PollersKept, TypeOK', NEW r \in Request,
           CommitUpdate(r) \/ Refresh(r) \/ CommitDelete(r) \/ AddCheck(r) \/ AddGet(r)
             \/ RequestFails(r)
    PROVE  PollersKept'
<1> USE DEF PollersKept
<1>1. UNCHANGED <<registry, owner, task, open, up>>
  BY DEF CommitUpdate, Refresh, CommitDelete, AddCheck, AddGet, RequestFails, pollerVars
<1>2. request[r] \in Served /\ request[r].at # "close"
  BY RequestServed DEF CommitUpdate, Refresh, CommitDelete, AddCheck, AddGet, RequestFails
<1>3. \/ Done(r)
      \/ \E s \in RequestStep \ {"close"} : Goto(r, s) /\ (s = "get" => AddCheck(r) /\ registry[request[r].cluster] = None)
                                               /\ (s = "start" => request[r].at = "get")
  BY DEF CommitUpdate, Refresh, CommitDelete, AddCheck, AddGet, RequestFails, RequestStep
<1>4. Alone'
  BY <1>1, <1>2, <1>3, RequestsStayAlone
<1>5. /\ \A q \in Request : q # r => request'[q] = request[q]
      /\ request'[r].at # "close"
      /\ request'[r].at \in {"get", "start"} =>
           /\ request[r].cluster \notin Racing => registry[request[r].cluster] = None
           /\ request'[r].cluster = request[r].cluster
  <2>1. CASE Done(r)
    BY <2>1, DoneOthers DEF Idle
  <2>2. ASSUME NEW s \in RequestStep \ {"close"}, Goto(r, s),
               s = "get" => AddCheck(r) /\ registry[request[r].cluster] = None,
               s = "start" => request[r].at = "get"
        PROVE  /\ \A q \in Request : q # r => request'[q] = request[q]
               /\ request'[r].at # "close"
               /\ request'[r].at \in {"get", "start"} =>
                    /\ request[r].cluster \notin Racing => registry[request[r].cluster] = None
                    /\ request'[r].cluster = request[r].cluster
    BY <1>2, <2>2, GotoOthers DEF Cleared
  <2> QED BY <1>3, <2>1, <2>2
<1>6. Taken' /\ Cleared'
  BY <1>1, <1>5 DEF Taken, Cleared
<1>7. \A q \in Request : request[q].at = "close" => request'[q] = request[q]
  BY <1>2, <1>5
<1>8. Minded' /\ Bound'
  BY <1>1, <1>7 DEF Minded, Bound
<1> QED BY <1>4, <1>6, <1>8

\* A request that begins finds its cluster without another one, unless these overlap.
LEMMA BeginKeeps ==
    ASSUME PollersKept, TypeOK', NEW r \in Request, NEW c \in Cluster,
           Create(r, c) \/ DeleteRead(r, c) \/ \E a \in BOOLEAN : Update(r, c, a)
    PROVE  PollersKept'
<1> USE DEF PollersKept
<1>1. UNCHANGED <<registry, owner, task, open, up>>
  BY DEF Create, DeleteRead, Update, pollerVars
<1>2. \E s \in {"create", "delete", "update"}, a \in BOOLEAN : Begin(r, s, c, a)
  BY DEF Create, DeleteRead, Update
<1>3. /\ request'[r].at \in {"create", "delete", "update"} /\ request'[r].cluster = c
      /\ request[r] = Idle /\ up = "up"
      /\ c \notin Racing => \A q \in Request : request[q].cluster # c
      /\ \A q \in Request : q # r => request'[q] = request[q]
  BY <1>2, BeginOthers DEF RequestStep
<1>4. Alone' /\ Taken' /\ Cleared'
  BY <1>1, <1>3 DEF Alone, Taken, Cleared
<1>5. \A q \in Request : request[q].at = "close" => request'[q] = request[q]
  BY <1>3 DEF Idle
<1>6. Minded' /\ Bound'
  BY <1>1, <1>5 DEF Minded, Bound
<1> QED BY <1>4, <1>6

\* The manager's own steps for a request: start, take out, close.
LEMMA ManagingKeeps ==
    ASSUME PollersKept, TypeOK', NEW r \in Request,
           AddStart(r) \/ RemovePop(r) \/ RemoveClose(r)
    PROVE  PollersKept'
<1> USE DEF PollersKept
<1> DEFINE c == request[r].cluster
<1>1. request[r] \in Served /\ request[r] # Idle /\ c \in Cluster /\ up = "up" /\ up' = "up"
  <2>1. request[r] \in Served /\ request[r] # Idle /\ c \in Cluster /\ up' = up
    BY RequestServed DEF AddStart, RemovePop, RemoveClose
  <2> QED BY <2>1 DEF Alone
<1>2. None \notin Cluster /\ None \notin Poller
  BY ClusterAssumption, PollerAssumption DEF None
<1>3. c \notin Racing => \A q \in Request : q # r => request[q].cluster # c
  BY <1>1 DEF Alone
<1>4. ASSUME Done(r)
      PROVE  /\ request'[r] = Idle /\ \A q \in Request : q # r => request'[q] = request[q]
             /\ Alone'
  BY <1>1, <1>4, DoneOthers, RequestsStayAlone
<1>5. Idle.at = "idle" /\ Idle.poller = None
  BY DEF Idle
<1>6. CASE AddStart(r)
  <2>1. PICK p \in Poller : StartOne([d \in {c} |-> p])
    BY <1>6 DEF AddStart
  <2>2. [d \in {c} |-> p] \in Injection({c}, Poller) /\ Range([d \in {c} |-> p]) = {p}
    BY <1>1, SingleStart
  <2>3. /\ owner[p] = None /\ owner'[p] = c
        /\ task' = [q \in Poller |-> IF q \in {p} THEN "running" ELSE task[q]]
        /\ registry' = [d \in Cluster |-> IF d \in {c} THEN [e \in {c} |-> p][d] ELSE registry[d]]
        /\ open' = open \cup {p}
        /\ \A q \in Poller : q \notin {p} => owner'[q] = owner[q]
    BY <1>1, <2>1, <2>2, StartOneTies
  <2>4. /\ task'[p] = "running" /\ \A q \in Poller \ {p} : task'[q] = task[q]
        /\ registry'[c] = p /\ \A d \in Cluster \ {c} : registry'[d] = registry[d]
    BY <1>1, <2>3
  <2>5. Done(r) /\ (c \notin Racing => registry[c] = None)
    BY <1>6 DEF AddStart, Cleared
  <2>6. \A q \in Request : request[q].at = "close" => request[q].poller # p
    BY <1>2, <2>3, RequestServed DEF Taken
  <2>7. \A q \in Poller : task[q] = "running" /\ c \notin Racing => owner[q] # c
    BY <1>2, <2>5 DEF Minded
  <2>8. Minded'
    <3>1. p \in open' /\ owner'[p] # None /\ registry'[owner'[p]] = p
      BY <1>1, <1>2, <2>3, <2>4
    <3>2. ASSUME NEW q \in Poller, q # p
          PROVE  /\ owner'[q] = None => q \notin open' /\ task'[q] = "ended"
                 /\ owner'[q] # None => q \in open'
                 /\ task'[q] = "running" /\ owner'[q] \notin Racing => registry'[owner'[q]] = q
                 /\ owner'[q] # None /\ task'[q] # "running" =>
                      \E x \in Request : request'[x].at = "close" /\ request'[x].poller = q
      <4>1. owner'[q] = owner[q] /\ task'[q] = task[q] /\ (q \in open' <=> q \in open)
        BY <2>3, <2>4, <3>2
      <4>2. task[q] = "running" /\ owner[q] \notin Racing => owner[q] \in Cluster \ {c}
        BY <2>7 DEF Minded, TypeOK
      <4>3. owner[q] # None /\ task[q] # "running" =>
              \E x \in Request : request'[x].at = "close" /\ request'[x].poller = q
        <5>1. request[r].at # "close"
          BY <1>6 DEF AddStart
        <5> QED BY <1>1, <1>4, <2>5, <5>1 DEF Minded
      <4> QED BY <1>1, <2>4, <4>1, <4>2, <4>3 DEF Minded
    <3> QED BY <1>1, <2>4, <3>1, <3>2 DEF Minded
  <2>9. Bound'
    BY <1>1, <1>2, <2>3, <2>4 DEF Bound, TypeOK
  <2>10. Taken'
    BY <1>4, <1>5, <2>3, <2>4, <2>5, <2>6 DEF Taken
  <2>11. Cleared'
    BY <1>3, <1>4, <1>5, <2>4, <2>5, RequestServed DEF Cleared
  <2> QED BY <1>4, <2>5, <2>8, <2>9, <2>10, <2>11
<1>7. CASE RemovePop(r)
  <2>1. CASE registry[c] = None
    <3>1. Done(r) /\ UNCHANGED <<registry, owner, task, open>>
      BY <1>7, <2>1 DEF RemovePop
    <3>2. \A q \in Request : request[q].at = "close" => request'[q] = request[q]
      BY <1>4, <1>7, <3>1 DEF RemovePop
    <3>3. Minded' /\ Bound'
      BY <1>1, <3>1, <3>2 DEF Minded, Bound
    <3>4. Taken' /\ Cleared'
      BY <1>4, <1>5, <3>1 DEF Taken, Cleared
    <3> QED BY <1>4, <3>1, <3>3, <3>4
  <2>2. CASE registry[c] # None
    <3> DEFINE p == registry[c]
    <3>1. /\ p \in Poller /\ owner[p] = c /\ task[p] = "running"
          /\ \A d \in Cluster \ {c} : registry[d] # p
      BY <1>1, <1>2, <2>2 DEF Bound, TypeOK
    <3>2. /\ registry' = [registry EXCEPT ![c] = None]
          /\ task' = [task EXCEPT ![p] = "stopping"]
          /\ request' = [request EXCEPT ![r].at = "close", ![r].poller = p]
          /\ UNCHANGED <<owner, open>>
      BY <1>7, <2>2 DEF RemovePop
    <3>3. /\ registry'[c] = None /\ \A d \in Cluster \ {c} : registry'[d] = registry[d]
          /\ task'[p] = "stopping" /\ \A q \in Poller \ {p} : task'[q] = task[q]
      BY <1>1, <3>1, <3>2 DEF TypeOK
    <3>4. /\ request'[r] = [request[r] EXCEPT !.at = "close", !.poller = p]
          /\ \A q \in Request : q # r => request'[q] = request[q]
      BY <3>2 DEF TypeOK
    <3>5. request'[r].at = "close" /\ request'[r].poller = p /\ request'[r].cluster = c
      BY <1>1, <3>4 DEF Served
    <3>6. request[r].at = "remove"
      BY <1>7 DEF RemovePop
    <3>7. Minded'
      <4>1. ASSUME NEW q \in Poller, q # p, owner[q] # None, task[q] # "running"
            PROVE  \E x \in Request : request'[x].at = "close" /\ request'[x].poller = q
        BY <1>1, <3>4, <3>6, <4>1 DEF Minded
      <4>2. ASSUME NEW q \in Poller, q # p, task[q] = "running", owner[q] \notin Racing
            PROVE  registry'[owner[q]] = q
        BY <3>1, <3>3, <4>2, <1>2 DEF Minded, TypeOK
      <4>3. owner'[p] # None /\ p \in open'
        BY <1>1, <1>2, <3>1, <3>2 DEF Minded
      <4>4. ASSUME NEW q \in Poller, q # p
            PROVE  /\ owner'[q] = None => q \notin open' /\ task'[q] = "ended"
                   /\ owner'[q] # None => q \in open'
                   /\ task'[q] = "running" /\ owner'[q] \notin Racing => registry'[owner'[q]] = q
                   /\ owner'[q] # None /\ task'[q] # "running" =>
                        \E x \in Request : request'[x].at = "close" /\ request'[x].poller = q
        <5>1. owner'[q] = owner[q] /\ task'[q] = task[q] /\ open' = open
          BY <3>2, <3>3, <4>4
        <5> QED BY <5>1, <4>1, <4>2, <4>4 DEF Minded
      <4> QED BY <1>1, <3>3, <3>5, <4>3, <4>4 DEF Minded
    <3>8. Bound'
      BY <1>1, <3>1, <3>2, <3>3 DEF Bound, TypeOK
    <3>9. Taken'
      <4>1. \A q \in Request : q # r /\ request[q].at = "close" => request[q].poller # p
        BY <3>1 DEF Taken
      <4>2. \A q \in Request : q # r /\ request'[q].at = "close" =>
                /\ request[q].at = "close" /\ request'[q] = request[q] /\ request[q].poller # p
        BY <3>4, <4>1
      <4>3. ASSUME NEW q \in Request, request'[q].at = "close"
            PROVE  /\ request'[q].poller \in Poller
                   /\ owner'[request'[q].poller] = request'[q].cluster
                   /\ task'[request'[q].poller] # "running"
        <5>1. CASE q = r
          BY <3>1, <3>2, <3>3, <3>5, <5>1
        <5>2. CASE q # r
          <6>1. request'[q] = request[q] /\ request[q].at = "close" /\ request[q].poller # p
            BY <4>2, <4>3, <5>2
          <6>2. /\ request[q].poller \in Poller /\ owner[request[q].poller] = request[q].cluster
                /\ task[request[q].poller] # "running"
            BY <6>1 DEF Taken
          <6> QED BY <3>2, <3>3, <6>1, <6>2
        <5> QED BY <5>1, <5>2
      <4>4. ASSUME NEW q \in Request, NEW x \in Request, request'[q].at = "close",
                   request'[x].at = "close", request'[x].poller = request'[q].poller
            PROVE  x = q
        BY <3>5, <4>2, <4>4 DEF Taken
      <4> QED BY <4>3, <4>4 DEF Taken
    <3>10. Cleared'
      <4>1. ASSUME NEW q \in Request, request'[q].at \in {"get", "start", "close"},
                   request'[q].cluster \notin Racing
            PROVE  registry'[request'[q].cluster] = None
        <5>1. CASE q = r
          BY <3>3, <3>5, <5>1
        <5>2. CASE q # r
          <6>1. request'[q] = request[q] /\ registry[request[q].cluster] = None
            BY <3>4, <4>1, <5>2 DEF Cleared
          <6>2. request[q].cluster \in Cluster
            BY <4>1, <6>1, RequestServed
          <6> QED BY <3>3, <6>1, <6>2
        <5> QED BY <5>1, <5>2
      <4> QED BY <4>1 DEF Cleared
    <3>11. Alone'
      <4>1. request'[r] # Idle
        BY <1>5, <3>5
      <4>2. \A q \in Request : request'[q].cluster = request[q].cluster
        BY <1>1, <3>4, <3>5
      <4>3. \A q \in Request : request'[q] # Idle => request[q] # Idle
        BY <1>1, <3>4, <3>5
      <4> QED BY <1>1, <4>2, <4>3 DEF Alone
    <3> QED BY <3>7, <3>8, <3>9, <3>10, <3>11
  <2> QED BY <2>1, <2>2
<1>8. CASE RemoveClose(r)
  <2> DEFINE p == request[r].poller
  <2>1. /\ p \in Poller /\ owner[p] = c /\ task[p] # "running"
        /\ request[r].at = "close" /\ Done(r)
    BY <1>8 DEF RemoveClose, Taken
  <2>2. /\ registry' = registry /\ open' = open \ {p}
        /\ owner'[p] = None /\ task'[p] = "ended"
        /\ \A q \in Poller \ {p} : owner'[q] = owner[q] /\ task'[q] = task[q]
    BY <1>8, <2>1 DEF RemoveClose, Dispose, TypeOK
  <2>3. \A d \in Cluster : registry[d] # p
    BY <1>1, <1>2, <2>1 DEF Bound
  <2>4. \A q \in Request : q # r /\ request[q].at = "close" => request[q].poller # p
    BY <2>1 DEF Taken
  <2>5. Minded'
    <3>1. ASSUME NEW q \in Poller, q # p, owner[q] # None, task[q] # "running"
          PROVE  \E x \in Request : request'[x].at = "close" /\ request'[x].poller = q
      BY <1>1, <1>4, <2>1, <3>1 DEF Minded
    <3> QED BY <1>1, <2>2, <3>1 DEF Minded
  <2>6. Bound'
    BY <1>1, <2>2, <2>3 DEF Bound, TypeOK
  <2>7. Taken'
    BY <1>4, <1>5, <2>1, <2>2, <2>4 DEF Taken
  <2>8. Cleared'
    BY <1>4, <1>5, <2>1, <2>2 DEF Cleared
  <2> QED BY <1>4, <2>1, <2>5, <2>6, <2>7, <2>8
<1> QED BY <1>6, <1>7, <1>8

\* The steps of pollers and of the process.
LEMMA ProcessKeeps ==
    ASSUME PollersKept, TypeOK',
           \/ \E p \in Poller : Cycle(p) \/ TaskEnds(p)
           \/ Start \/ StopAll \/ Stopped \/ Crash
           \/ UNCHANGED vars
    PROVE  PollersKept'
<1> USE DEF PollersKept
<1>1. None \notin Cluster /\ None \notin Poller /\ Idle.at = "idle"
  BY ClusterAssumption, PollerAssumption DEF None, Idle
<1>2. CASE UNCHANGED vars \/ \E p \in Poller : Cycle(p)
  BY <1>2 DEF vars, pollerVars, Cycle, Minded, Bound, Taken, Cleared, Alone
<1>3. ASSUME NEW p \in Poller, TaskEnds(p) PROVE PollersKept'
  <2>1. /\ task[p] = "stopping" /\ task'[p] = "ended"
        /\ \A q \in Poller : q # p => task'[q] = task[q]
        /\ UNCHANGED <<registry, owner, open, request, up>>
    BY <1>3 DEF TaskEnds, TypeOK
  <2>2. Minded'
    BY <2>1 DEF Minded
  <2>3. Bound' /\ Taken' /\ Cleared' /\ Alone'
    BY <1>1, <2>1 DEF Bound, Taken, Cleared, Alone, TypeOK
  <2> QED BY <2>2, <2>3
<1>4. CASE Start
  <2> DEFINE active == {c \in Cluster : row[c] = "active"}
  <2>1. /\ \A p \in Poller : owner[p] = None /\ task[p] = "ended" /\ p \notin open
        /\ \A c \in Cluster : registry[c] = None
        /\ \A r \in Request : request[r] = Idle
        /\ up' = "up" /\ request' = request
    BY <1>1, <1>4 DEF Start, Minded, Bound, Alone
  <2>2. PICK started \in Injection(active, Poller) : StartOne(started)
    BY <1>4 DEF Start
  <2> HIDE DEF active
  <2>3. active \in SUBSET Cluster
    BY DEF active
  <2>4. /\ \A c \in active : started[c] \in Poller /\ owner'[started[c]] = c
        /\ task' = [p \in Poller |-> IF p \in Range(started) THEN "running" ELSE task[p]]
        /\ registry' = [c \in Cluster |-> IF c \in active THEN started[c] ELSE registry[c]]
        /\ open' = open \cup Range(started)
        /\ \A p \in Poller : p \notin Range(started) => owner'[p] = owner[p]
        /\ \A p \in Range(started) : owner'[p] \in active /\ started[owner'[p]] = p
    BY <2>2, <2>3, StartOneTies
  <2>5. \A c \in active : started[c] \in Range(started)
    BY DEF Injection, Range
  <2>6. Minded'
    BY <1>1, <2>1, <2>3, <2>4 DEF Minded
  <2>7. Bound'
    BY <1>1, <2>1, <2>3, <2>4, <2>5 DEF Bound
  <2>8. Taken' /\ Cleared' /\ Alone'
    BY <1>1, <2>1 DEF Taken, Cleared, Alone
  <2> QED BY <2>6, <2>7, <2>8
<1>5. CASE StopAll
  <2>1. /\ up = "up" /\ up' = "stopping" /\ \A r \in Request : request[r] = Idle
        /\ UNCHANGED <<registry, owner, open, request>>
        /\ task' = [p \in Poller |-> IF p \in Registered /\ task[p] = "running"
                                     THEN "stopping" ELSE task[p]]
    BY <1>5 DEF StopAll
  <2>2. \A p \in Poller : owner[p] # None => task[p] = "running" /\ p \in open
    BY <1>1, <2>1 DEF Minded
  <2>3. \A p \in Poller : p \in Registered => owner[p] # None /\ registry[owner[p]] = p
    BY <1>1 DEF Registered, Bound
  <2>4. \A p \in Poller : owner[p] \in Cluster \ Racing => p \in Registered
    BY <1>1, <2>1, <2>2 DEF Registered, Minded
  <2>5. Minded'
    <3>1. ASSUME NEW p \in Poller
          PROVE  /\ owner[p] = None => p \notin open /\ task'[p] = "ended"
                 /\ task'[p] = "running" => owner[p] \in Racing
                 /\ owner[p] # None /\ task'[p] # "running" => registry[owner[p]] = p
      <4>1. CASE owner[p] = None
        BY <2>1, <4>1 DEF Minded
      <4>2. CASE owner[p] # None
        BY <2>1, <2>2, <2>3, <2>4, <4>2 DEF TypeOK
      <4> QED BY <4>1, <4>2
    <3> QED BY <2>1, <2>2, <3>1 DEF Minded
  <2>6. Bound' /\ Taken' /\ Cleared' /\ Alone'
    BY <1>1, <2>1 DEF Bound, Taken, Cleared, Alone
  <2> QED BY <2>5, <2>6
<1>6. CASE Stopped \/ Crash
  <2>1. up' = "down" /\ \A r \in Request : request'[r] = Idle
    BY <1>6 DEF Stopped, Crash, Alone
  <2>2. registry' = [c \in Cluster |-> None]
    BY <1>6 DEF Stopped, Crash
  <2>3. \A p \in Poller : owner'[p] = None /\ task'[p] = "ended" /\ p \notin open'
    BY <1>6 DEF Stopped, Crash, Dispose
  <2> QED BY <1>1, <2>1, <2>2, <2>3 DEF Minded, Bound, Taken, Cleared, Alone
<1> QED BY <1>2, <1>3, <1>4, <1>5, <1>6

\* The pollers are kept from the start on.
LEMMA PollersAlwaysKept == Spec => [](PollersKept /\ RoomToStop)
<1>1. ASSUME Init PROVE PollersKept /\ RoomToStop
  <2>1. TypeOK
    BY <1>1, InitTyped
  <2>2. /\ up = "down" /\ open = {} /\ \A r \in Request : request[r] = Idle
        /\ \A p \in Poller : owner[p] = None /\ task[p] = "ended"
        /\ \A c \in Cluster : registry[c] = None
    BY <1>1 DEF Init
  <2>3. Idle.at = "idle"
    BY DEF Idle
  <2> QED BY <2>1, <2>2, <2>3 DEF PollersKept, Minded, Bound, Taken, Cleared, Alone, RoomToStop
<1>2. ASSUME PollersKept, RoomToStop, [Next]_vars PROVE PollersKept' /\ RoomToStop'
  <2>1. TypeOK' /\ RoomToStop'
    BY <1>2, StepTyped DEF PollersKept
  <2>2. PollersKept'
    BY <1>2, <2>1, TalkingKeeps, BeginKeeps, ManagingKeeps, ProcessKeeps DEF Next, Serve
  <2> QED BY <2>1, <2>2
<1> QED BY <1>1, <1>2, PTL DEF Spec

\* No poller of a cluster whose requests do not overlap escapes the manager, whatever
\* overlaps elsewhere and whatever fails; and no cancelled poller at all is left with an
\* open client and nobody to close it.
THEOREM PollersNeverStray == Spec => []NoStrayPoller
<1>1. PollersKept => NoStrayPoller
  <2> SUFFICES ASSUME PollersKept, NEW p \in Poller
               PROVE  /\ task[p] = "running" /\ owner[p] \notin Racing => registry[owner[p]] = p
                      /\ p \in open /\ task[p] # "running" =>
                           \/ up = "stopping" /\ p \in Registered
                           \/ \E r \in Request : request[r].at = "close" /\ request[r].poller = p
    BY DEF NoStrayPoller
  <2>1. owner[p] = None \/ owner[p] \in Cluster
    BY DEF PollersKept, TypeOK
  <2> QED BY <2>1, PollerAssumption DEF PollersKept, Minded, Registered
<1> QED BY <1>1, PollersAlwaysKept, PTL

\* Pollers work on open clients and are closed by one request only, and each cluster whose
\* requests do not overlap has one running poller at most.
THEOREM OnePollerEach == Spec => []OnePollerWithClient
<1>1. PollersKept => OnePollerWithClient
  BY DEF PollersKept, Minded, Taken, OnePollerWithClient, Live
<1> QED BY <1>1, PollersAlwaysKept, PTL

-----------------------------------------------------------------------------
(* The rows and the registry.                                              *)

\* A request disturbs what is settled of its own cluster at most.
LEMMA OtherClustersStay ==
    ASSUME PollersKept, RowsKept, NEW r \in Request, NEW c \in Cluster,
           request[r] = Idle \/ request[r].cluster = c,
           request'[r] = Idle \/ request'[r].cluster = c,
           \A q \in Request : q # r =>
               request'[q] = request[q] /\ (c \notin Racing => request[q].cluster # c),
           \A d \in Cluster \ {c} : row'[d] = row[d] /\ registry'[d] = registry[d],
           failed \subseteq failed', up' = up, up = "up",
           c \notin failed' \cup Racing => Owes(r)' /\ (Agree(c)' \/ Pending(r)')
    PROVE  RowsKept'
<1>1. Idle.at = "idle" /\ Idle.cluster = None /\ None \notin Cluster
  BY ClusterAssumption DEF Idle, None
<1>2. ASSUME NEW q \in Request, q # r, request[q].cluster \notin failed' \cup Racing
      PROVE  Owes(q)'
  <2>1. Owes(q) /\ request'[q] = request[q] /\ request[q].cluster # c
    BY <1>2 DEF RowsKept, Owing
  <2>2. CASE request[q].at = "idle"
    BY <2>1, <2>2 DEF Owes
  <2>3. CASE request[q].at # "idle"
    <3>1. request[q].cluster \in Cluster
      BY <2>3, RequestServed DEF PollersKept
    <3> QED BY <2>1, <3>1 DEF Owes
  <2> QED BY <2>2, <2>3
<1>3. request'[r].cluster \notin failed' \cup Racing => Owes(r)'
  BY <1>1 DEF Owes
<1>4. Owing'
  BY <1>2, <1>3 DEF Owing
<1>5. ASSUME NEW d \in Cluster, d \notin failed' \cup Racing, d # c
      PROVE  Agree(d)' \/ \E q \in Request : request'[q].cluster = d /\ Pending(q)'
  <2>1. Agree(d) => Agree(d)'
    BY <1>5 DEF Agree
  <2>2. ASSUME NEW q \in Request, request[q].cluster = d, Pending(q)
        PROVE  request'[q].cluster = d /\ Pending(q)'
    BY <1>1, <1>5, <2>2 DEF Pending
  <2> QED BY <1>5, <2>1, <2>2 DEF RowsKept, Settled
<1>6. ASSUME c \notin failed' \cup Racing
      PROVE  Agree(c)' \/ \E q \in Request : request'[q].cluster = c /\ Pending(q)'
  BY <1>1, <1>6 DEF Pending
<1>7. Settled'
  BY <1>5, <1>6 DEF Settled
<1> QED BY <1>4, <1>7 DEF RowsKept

\* A request on its way keeps what it owes.
LEMMA ServingFollows ==
    ASSUME PollersKept, PollersKept', RowsKept, NEW r \in Request, NEW c \in Cluster,
           request[r].cluster = c, Serve(r) \/ RequestFails(r)
    PROVE  RowsKept'
<1> USE DEF PollersKept
<1>1. /\ request[r] \in Served /\ request[r] # Idle
      /\ up = "up" /\ up' = up /\ failed \subseteq failed'
  <2>1. request[r] \in Served /\ request[r] # Idle
    BY RequestServed DEF Serve, CommitUpdate, Refresh, CommitDelete, AddCheck, AddGet, AddStart,
                         RemovePop, RemoveClose, RequestFails
  <2>2. up' = up /\ failed \subseteq failed'
    BY DEF Serve, CommitUpdate, Refresh, CommitDelete, AddCheck, AddGet, AddStart,
           RemovePop, RemoveClose, RequestFails
  <2> QED BY <2>1, <2>2 DEF Alone
<1>2. /\ None \notin Cluster /\ None \notin Poller
      /\ Idle.at = "idle" /\ Idle.cluster = None
  BY ClusterAssumption, PollerAssumption DEF None, Idle
<1>3. c \notin Racing => \A q \in Request : q # r => request[q].cluster # c
  BY <1>1 DEF Alone
<1>4. c \notin failed \cup Racing => Owes(r)
  BY DEF RowsKept, Owing
<1>5. c \notin failed \cup Racing /\ request[r].at \in {"update", "delete"} => Agree(c)
  BY <1>1, <1>3 DEF RowsKept, Settled, Pending
<1>6. ASSUME Done(r)
      PROVE  /\ request'[r] = Idle /\ \A q \in Request : q # r => request'[q] = request[q]
             /\ Owes(r)'
  BY <1>1, <1>2, <1>6, DoneOthers DEF Owes
<1>7. ASSUME NEW s \in RequestStep, Goto(r, s)
      PROVE  /\ request'[r].at = s /\ request'[r].cluster = c
             /\ request'[r].active = request[r].active
             /\ \A q \in Request : q # r => request'[q] = request[q]
             /\ Pending(r)' <=> s \notin {"update", "delete"}
  BY <1>1, <1>7, GotoOthers DEF Pending, RequestStep
<1>8. ASSUME \A d \in Cluster \ {c} : row'[d] = row[d] /\ registry'[d] = registry[d],
             \A q \in Request : q # r => request'[q] = request[q],
             request'[r] = Idle \/ request'[r].cluster = c,
             c \notin failed' \cup Racing => Owes(r)' /\ (Agree(c)' \/ Pending(r)')
      PROVE  RowsKept'
  BY <1>1, <1>3, <1>8, OtherClustersStay
<1>9. CASE CommitUpdate(r)
  <2>1. /\ request[r].at = "update" /\ UNCHANGED <<registry, failed>>
        /\ \A d \in Cluster \ {c} : row'[d] = row[d]
    BY <1>9 DEF CommitUpdate, pollerVars, TypeOK
  <2>2. CASE row[c] = "absent"
    <3>1. Done(r) /\ row' = row
      BY <1>9, <2>2 DEF CommitUpdate
    <3>2. c \in failed \cup Racing
      BY <1>1, <1>4, <2>1, <2>2 DEF Owes
    <3> QED BY <1>6, <1>8, <2>1, <3>1, <3>2
  <2>3. CASE row[c] # "absent"
    <3>1. Goto(r, "refresh") /\ row' = [row EXCEPT ![c] = IF request[r].active THEN "active" ELSE "inactive"]
      BY <1>9, <2>3 DEF CommitUpdate
    <3>2. "refresh" \in RequestStep
      BY DEF RequestStep
    <3>3. c \notin failed \cup Racing => (request[r].active <=> registry[c] = None)
      BY <1>4, <1>5, <2>1 DEF Owes, Agree
    <3>4. row'[c] = IF request[r].active THEN "active" ELSE "inactive"
      BY <1>1, <3>1 DEF TypeOK
    <3>5. c \notin failed \cup Racing => Owes(r)' /\ Pending(r)'
      BY <1>7, <2>1, <3>1, <3>2, <3>3, <3>4 DEF Owes
    <3> QED BY <1>7, <1>8, <2>1, <3>1, <3>2, <3>5
  <2> QED BY <2>2, <2>3
<1>10. CASE Refresh(r)
  <2>1. request[r].at \in {"create", "refresh"} /\ UNCHANGED <<row, registry, failed>>
    BY <1>10 DEF Refresh, pollerVars, dbVars
  <2>2. CASE row[c] = "absent"
    <3>1. Done(r)
      BY <1>10, <2>2 DEF Refresh
    <3>2. c \in failed \cup Racing
      BY <1>4, <2>1, <2>2 DEF Owes
    <3> QED BY <1>6, <1>8, <2>1, <3>1, <3>2
  <2>3. CASE row[c] # "absent" /\ (request[r].at = "create" \/ row[c] = "active")
    <3>1. Goto(r, "add") /\ "add" \in RequestStep
      BY <1>10, <2>3 DEF Refresh, RequestStep
    <3>2. c \notin failed \cup Racing => Owes(r)' /\ Pending(r)'
      BY <1>1, <1>4, <1>7, <2>1, <2>3, <3>1 DEF Owes
    <3> QED BY <1>7, <1>8, <2>1, <3>1, <3>2
  <2>4. CASE row[c] # "absent" /\ ~ (request[r].at = "create" \/ row[c] = "active")
    <3>1. Goto(r, "remove") /\ "remove" \in RequestStep
      BY <1>10, <2>4 DEF Refresh, RequestStep
    <3>2. c \notin failed \cup Racing => Owes(r)' /\ Pending(r)'
      BY <1>7, <2>1, <2>4, <3>1 DEF Owes
    <3> QED BY <1>7, <1>8, <2>1, <3>1, <3>2
  <2> QED BY <2>2, <2>3, <2>4
<1>11. CASE CommitDelete(r)
  <2>1. /\ Goto(r, "remove") /\ UNCHANGED <<registry, failed>> /\ row'[c] = "absent"
        /\ \A d \in Cluster \ {c} : row'[d] = row[d]
    BY <1>1, <1>11 DEF CommitDelete, pollerVars, TypeOK
  <2>2. "remove" \in RequestStep
    BY DEF RequestStep
  <2>3. Owes(r)' /\ Pending(r)'
    BY <1>7, <2>1, <2>2 DEF Owes
  <2> QED BY <1>7, <1>8, <2>1, <2>2, <2>3
<1>12. CASE AddCheck(r) \/ AddGet(r)
  <2>1. request[r].at \in {"add", "get"} /\ UNCHANGED <<row, registry, failed>>
    BY <1>12 DEF AddCheck, AddGet, pollerVars, dbVars
  <2>2. CASE Done(r)
    <3>1. c \in failed \cup Racing
      <4>1. registry[c] # None \/ row[c] # "active"
        BY <1>1, <1>2, <1>6, <1>7, <1>12, <2>2 DEF AddCheck, AddGet, RequestStep
      <4> QED BY <1>4, <2>1, <4>1 DEF Owes
    <3> QED BY <1>6, <1>8, <2>1, <2>2, <3>1
  <2>3. CASE \E s \in {"get", "start"} : Goto(r, s)
    <3>1. PICK s \in {"get", "start"} : Goto(r, s)
      BY <2>3
    <3>2. s \in RequestStep
      BY DEF RequestStep
    <3>3. c \notin failed \cup Racing => Owes(r)' /\ Pending(r)'
      BY <1>4, <1>7, <2>1, <3>1, <3>2 DEF Owes
    <3> QED BY <1>7, <1>8, <2>1, <3>1, <3>2, <3>3
  <2> QED BY <1>12, <2>2, <2>3 DEF AddCheck, AddGet
<1>13. CASE AddStart(r)
  <2>1. PICK p \in Poller : StartOne([d \in {c} |-> p])
    BY <1>13 DEF AddStart
  <2>2. [d \in {c} |-> p] \in Injection({c}, Poller)
    BY <1>1, SingleStart
  <2>3. registry' = [d \in Cluster |-> IF d \in {c} THEN [e \in {c} |-> p][d] ELSE registry[d]]
    BY <1>1, <2>1, <2>2, StartOneTies
  <2>4. registry'[c] = p /\ \A d \in Cluster \ {c} : registry'[d] = registry[d]
    BY <1>1, <2>3
  <2>5. request[r].at = "start" /\ Done(r) /\ UNCHANGED <<row, failed>>
    BY <1>13 DEF AddStart, dbVars
  <2>6. c \notin failed \cup Racing => Agree(c)'
    BY <1>2, <1>4, <2>4, <2>5 DEF Owes, Agree
  <2> QED BY <1>6, <1>8, <2>4, <2>5, <2>6
<1>14. CASE RemovePop(r)
  <2>1. /\ request[r].at = "remove" /\ UNCHANGED <<row, failed>>
        /\ registry'[c] = None /\ \A d \in Cluster \ {c} : registry'[d] = registry[d]
    BY <1>1, <1>14 DEF RemovePop, dbVars, TypeOK
  <2>2. c \notin failed \cup Racing => Agree(c)'
    BY <1>4, <2>1 DEF Owes, Agree
  <2>3. CASE registry[c] = None
    <3>1. Done(r)
      BY <1>14, <2>3 DEF RemovePop
    <3> QED BY <1>6, <1>8, <2>1, <2>2, <3>1
  <2>4. CASE registry[c] # None
    <3>1. request' = [request EXCEPT ![r].at = "close", ![r].poller = registry[c]]
      BY <1>14, <2>4 DEF RemovePop
    <3>2. /\ request'[r] = [request[r] EXCEPT !.at = "close", !.poller = registry[c]]
          /\ \A q \in Request : q # r => request'[q] = request[q]
      BY <3>1 DEF TypeOK
    <3>3. request'[r].at = "close" /\ request'[r].cluster = c
      BY <1>1, <3>2 DEF Served
    <3>4. c \notin failed \cup Racing => Owes(r)'
      BY <1>4, <2>1, <3>3 DEF Owes
    <3> QED BY <1>8, <2>1, <2>2, <3>2, <3>3, <3>4
  <2> QED BY <2>3, <2>4
<1>15. CASE RemoveClose(r)
  <2>1. /\ request[r].at = "close" /\ Done(r) /\ UNCHANGED <<row, registry, failed>>
        /\ c \notin Racing => registry[c] = None
    BY <1>15 DEF RemoveClose, dbVars, Cleared
  <2>2. c \notin failed \cup Racing => Agree(c)'
    BY <1>4, <2>1 DEF Owes, Agree
  <2> QED BY <1>6, <1>8, <2>1, <2>2
<1>16. CASE RequestFails(r)
  <2>1. Done(r) /\ UNCHANGED <<row, registry>> /\ c \in failed'
    BY <1>16 DEF RequestFails, dbVars, pollerVars
  <2> QED BY <1>6, <1>8, <2>1
<1> QED BY <1>9, <1>10, <1>11, <1>12, <1>13, <1>14, <1>15, <1>16 DEF Serve

\* A new request finds row and registry of its cluster settled.
LEMMA BeginningFollows ==
    ASSUME PollersKept, RowsKept, NEW r \in Request, NEW c \in Cluster,
           Create(r, c) \/ DeleteRead(r, c) \/ \E a \in BOOLEAN : Update(r, c, a)
    PROVE  RowsKept'
<1>1. UNCHANGED <<registry, failed, up>> /\ \A d \in Cluster \ {c} : row'[d] = row[d]
  BY DEF Create, DeleteRead, Update, pollerVars, dbVars, PollersKept, TypeOK
<1>2. PICK s \in {"create", "delete", "update"}, a \in BOOLEAN :
        /\ Begin(r, s, c, a)
        /\ s = "create" => Create(r, c)
        /\ s = "delete" => DeleteRead(r, c)
        /\ s = "update" => Update(r, c, a)
  BY DEF Create, DeleteRead, Update
<1>3. s \in RequestStep
  BY DEF RequestStep
<1>4. /\ request'[r].at = s /\ request'[r].cluster = c /\ request'[r].active = a
      /\ request[r] = Idle /\ up = "up"
      /\ c \notin Racing => \A q \in Request : request[q].cluster # c
      /\ \A q \in Request : q # r => request'[q] = request[q]
  BY <1>2, <1>3, BeginOthers DEF PollersKept
<1>5. c \notin failed \cup Racing => Agree(c)
  BY <1>4 DEF RowsKept, Settled
<1>6. c \notin failed \cup Racing => Owes(r)' /\ (Agree(c)' \/ Pending(r)')
  <2>1. CASE s = "create"
    <3>1. row[c] = "absent"
      <4>1. row[c] # "absent" => c < c
        BY <1>2, <2>1 DEF Create, NextId
      <4> QED BY <4>1, ClusterAssumption
    <3>2. row'[c] = "active"
      BY <1>2, <2>1 DEF Create, PollersKept, TypeOK
    <3> QED BY <1>1, <1>4, <1>5, <2>1, <3>1, <3>2 DEF Owes, Pending, Agree
  <2>2. CASE s \in {"delete", "update"}
    <3>1. row' = row /\ (s = "update" => row[c] = IF a THEN "inactive" ELSE "active")
      BY <1>2, <2>2 DEF DeleteRead, Update, dbVars
    <3>2. Agree(c) => Agree(c)'
      BY <1>1, <3>1 DEF Agree
    <3>3. Owes(r)'
      BY <1>4, <2>2, <3>1 DEF Owes
    <3> QED BY <1>5, <3>2, <3>3
  <2> QED BY <1>2, <2>1, <2>2
<1> QED BY <1>1, <1>4, <1>6, OtherClustersStay

\* The process starts a poller for each active row.
LEMMA ProcessFollows ==
    ASSUME PollersKept, PollersKept', RowsKept,
           \/ \E p \in Poller : Cycle(p) \/ TaskEnds(p)
           \/ Start \/ StopAll \/ Stopped \/ Crash
           \/ UNCHANGED vars
    PROVE  RowsKept'
<1>1. None \notin Cluster /\ None \notin Poller /\ Idle.at = "idle"
  BY ClusterAssumption, PollerAssumption DEF None, Idle
<1>2. CASE UNCHANGED vars \/ \E p \in Poller : Cycle(p) \/ TaskEnds(p)
  <2>1. UNCHANGED <<row, registry, request, failed, up>>
    BY <1>2 DEF vars, dbVars, pollerVars, Cycle, TaskEnds
  <2> QED BY <2>1 DEF RowsKept, Owing, Owes, Settled, Agree, Pending
<1>3. CASE StopAll \/ Stopped \/ Crash
  <2>1. up' # "up" /\ \A r \in Request : request'[r] = Idle
    BY <1>3 DEF StopAll, Stopped, Crash, PollersKept, Alone
  <2> QED BY <1>1, <2>1 DEF RowsKept, Owing, Owes, Settled
<1>4. CASE Start
  <2> DEFINE active == {c \in Cluster : row[c] = "active"}
  <2>1. /\ \A c \in Cluster : registry[c] = None
        /\ \A r \in Request : request'[r] = Idle
        /\ row' = row
    BY <1>4 DEF Start, PollersKept, Bound, Alone, dbVars
  <2>2. PICK started \in Injection(active, Poller) : StartOne(started)
    BY <1>4 DEF Start
  <2> HIDE DEF active
  <2>3. active \in SUBSET Cluster
    BY DEF active
  <2>4. /\ \A c \in active : started[c] \in Poller
        /\ registry' = [c \in Cluster |-> IF c \in active THEN started[c] ELSE registry[c]]
    BY <2>2, <2>3, StartOneTies DEF PollersKept
  <2>5. \A c \in Cluster : Agree(c)'
    BY <1>1, <2>1, <2>4 DEF Agree, active
  <2> QED BY <1>1, <2>1, <2>5 DEF RowsKept, Owing, Owes, Settled
<1> QED BY <1>2, <1>3, <1>4

\* When no request is under way exactly the active clusters have a poller, but for those a
\* request failed for and those whose requests may overlap: for any number of clusters, over
\* crashes and restarts, whatever overlaps elsewhere.
THEOREM RowsAreFollowed == Spec => []PollersMatchRows
<1>1. Init => RowsKept
  BY DEF Init, RowsKept, Owing, Owes, Settled, Idle
<1>2. ASSUME PollersKept, PollersKept', RowsKept, [Next]_vars PROVE RowsKept'
  <2>1. ASSUME NEW r \in Request, Serve(r) \/ RequestFails(r) PROVE request[r].cluster \in Cluster
    BY <1>2, <2>1, RequestServed
       DEF PollersKept, Serve, CommitUpdate, Refresh, CommitDelete, AddCheck, AddGet, AddStart,
           RemovePop, RemoveClose, RequestFails
  <2> QED BY <1>2, <2>1, ServingFollows, BeginningFollows, ProcessFollows DEF Next
<1>3. RowsKept => PollersMatchRows
  BY DEF RowsKept, Settled, Agree, Pending, PollersMatchRows, Quiet, Idle
<1> QED BY <1>1, <1>2, <1>3, PollersAlwaysKept, PTL DEF Spec
=============================================================================
