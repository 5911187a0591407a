-------------------------------- MODULE Drain --------------------------------
(***************************************************************************)
(* Draining nodes: the pre-flight check of services/drain.py, the drain    *)
(* executor and undrain_node of services/executor.py, and the cancel       *)
(* endpoint of routes/jobs.py that undrains, against Elasticsearch moving  *)
(* shards away from excluded nodes.                                        *)
(*                                                                         *)
(* The set of excluded nodes is one cluster setting that executors and     *)
(* cancel requests read, change and write back, each with an await between *)
(* the read and the write.  Nothing keeps these apart: other copies        *)
(* of the setting may be in hand while one is written.                     *)
(***************************************************************************)
EXTENDS Integers, FiniteSets

CONSTANTS
    Node,           \* data nodes of the cluster
    Shard,          \* shards
    Home,           \* where each shard is at first
    Room,           \* how many shards fit on a node
    Persistent,     \* nodes excluded by the persistent setting
    Job,            \* drain jobs
    NodeOf,         \* the node each one drains
    MaxConcurrent,  \* slots of the job runner
    Faults,         \* what may fail: "call", "timeout"
    MaxCrashes      \* bound on restarts

ASSUME PlaceAssumption ==
    IsFiniteSet(Node) /\ IsFiniteSet(Shard) /\ Home \in [Shard -> Node] /\ Room \in Nat
ASSUME JobAssumption == NodeOf \in [Job -> Node] /\ MaxConcurrent \in Nat \ {0}
ASSUME SettingAssumption == Persistent \subseteq Node
ASSUME BoundAssumption == MaxCrashes \in Nat

VARIABLES
    transient,      \* nodes of the transient setting
    place,          \* the node that owns each shard
    going,          \* the set of the node it is relocating to, if any
    at,             \* where the job stands
    read,           \* the exclude set its executor has read
    cancel,         \* where the request that cancels it stands
    undrain,        \* the exclude set that request has read
    crashes         \* restarts so far

esVars == <<transient, place, going>>
jobVars == <<at, read>>
cancelVars == <<cancel, undrain>>
vars == <<esVars, jobVars, cancelVars, crashes>>

Terminal == {"completed", "failed", "cancelled"}
Executing == {"write", "poll"}
Phase == {"none", "queued"} \cup Executing \cup Terminal

TypeOK ==
    /\ transient \subseteq Node
    /\ place \in [Shard -> Node]
    /\ going \in [Shard -> SUBSET Node]
    /\ at \in [Job -> Phase]
    /\ read \in [Job -> SUBSET Node]
    /\ cancel \in [Job -> {"none", "asked", "read", "undrained", "lost", "done"}]
    /\ undrain \in [Job -> SUBSET Node]
    /\ crashes \in 0 .. MaxCrashes

Init ==
    /\ transient = {}
    /\ place = Home
    /\ going = [s \in Shard |-> {}]
    /\ at = [j \in Job |-> "none"]
    /\ read = [j \in Job |-> {}]
    /\ cancel = [j \in Job |-> "none"]
    /\ undrain = [j \in Job |-> {}]
    /\ crashes = 0

-----------------------------------------------------------------------------
(* Elasticsearch.                                                          *)

\* The transient setting overrides the persistent one, unless it is unset.
Effective == IF transient # {} THEN transient ELSE Persistent

Load(n) == Cardinality({s \in Shard : place[s] = n \/ n \in going[s]})

\* A shard begins to relocate to a node that is not excluded and has room.
StartMove(s, n) ==
    /\ going[s] = {} /\ n # place[s]
    /\ n \notin Effective /\ Load(n) < Room
    /\ going' = [going EXCEPT ![s] = {n}]
    /\ UNCHANGED <<transient, place, jobVars, cancelVars, crashes>>

FinishMove(s) ==
    \E n \in going[s] :
        /\ place' = [place EXCEPT ![s] = n]
        /\ going' = [going EXCEPT ![s] = {}]
        /\ UNCHANGED <<transient, jobVars, cancelVars, crashes>>

\* The row of a relocating shard names both nodes and equals neither name.
OnNode(n) == {s \in Shard : place[s] = n /\ going[s] = {}}

-----------------------------------------------------------------------------
(* The drain job.                                                          *)

\* At least two other data nodes, and what is on this one fits on them.
Preflight(n) ==
    LET others == Node \ {n}
        used == {s \in Shard : place[s] \in others}
    IN /\ Cardinality(others) >= 2
       /\ Cardinality(OnNode(n)) <= Cardinality(others) * Room - Cardinality(used)

\* The endpoint checks, and creates and submits the job.
Submit(j) ==
    /\ at[j] = "none"
    /\ Preflight(NodeOf[j])
    /\ at' = [at EXCEPT ![j] = "queued"]
    /\ UNCHANGED <<esVars, read, cancelVars, crashes>>

\* Mutant: the persistent setting is not read.
ExcludeSetTransient == transient

\* The union of both settings is read.
ExcludeSet == transient \cup Persistent

\* The executor starts and reads the exclude set ...
ReadExcluded(j) ==
    /\ at[j] = "queued"
    /\ Cardinality({k \in Job : at[k] \in Executing}) < MaxConcurrent
    /\ at' = [at EXCEPT ![j] = "write"]
    /\ read' = [read EXCEPT ![j] = ExcludeSet]
    /\ UNCHANGED <<esVars, cancelVars, crashes>>

\* Mutant: only its own node is written.
WriteOnlyOwn(j) ==
    /\ at[j] = "write"
    /\ transient' = {NodeOf[j]}
    /\ at' = [at EXCEPT ![j] = "poll"]
    /\ read' = [read EXCEPT ![j] = {}]
    /\ UNCHANGED <<place, going, cancelVars, crashes>>

\* ... and writes it back with its node.
WriteExcluded(j) ==
    /\ at[j] = "write"
    /\ transient' = read[j] \cup {NodeOf[j]}
    /\ at' = [at EXCEPT ![j] = "poll"]
    /\ read' = [read EXCEPT ![j] = {}]
    /\ UNCHANGED <<place, going, cancelVars, crashes>>

\* Mutant: while it polls it sees to it that its node is still in the setting.
DrainedInsisting(j) ==
    /\ at[j] = "poll"
    /\ transient' = transient \cup {NodeOf[j]}
    /\ at' = IF OnNode(NodeOf[j]) = {} THEN [at EXCEPT ![j] = "completed"] ELSE at
    /\ UNCHANGED <<place, going, read, cancelVars, crashes>>

\* It polls until no row is on the node.
Drained(j) ==
    /\ at[j] = "poll"
    /\ OnNode(NodeOf[j]) = {}
    /\ at' = [at EXCEPT ![j] = "completed"]
    /\ UNCHANGED <<esVars, read, cancelVars, crashes>>

\* A call fails, or the polls run out; the exclusion stays.
Fail(j) ==
    /\ \/ at[j] \in Executing /\ "call" \in Faults
       \/ at[j] = "poll" /\ "timeout" \in Faults
    /\ at' = [at EXCEPT ![j] = "failed"]
    /\ read' = [read EXCEPT ![j] = {}]
    /\ UNCHANGED <<esVars, cancelVars, crashes>>

-----------------------------------------------------------------------------
(* The cancel endpoint: undrain first, then interrupt the job.             *)

Abandoned(c) == IF c = "undrained" THEN "lost" ELSE "none"

AskCancel(j) ==
    /\ cancel[j] = "none"
    /\ at[j] \in {"queued"} \cup Executing
    /\ cancel' = [cancel EXCEPT ![j] = "asked"]
    /\ UNCHANGED <<esVars, jobVars, undrain, crashes>>

UndrainRead(j) ==
    /\ cancel[j] = "asked"
    /\ undrain' = [undrain EXCEPT ![j] = ExcludeSet]
    /\ cancel' = [cancel EXCEPT ![j] = "read"]
    /\ UNCHANGED <<esVars, jobVars, crashes>>

\* The setting is written without the node; an empty set unsets it.
UndrainWrite(j) ==
    /\ cancel[j] = "read"
    /\ transient' = undrain[j] \ {NodeOf[j]}
    /\ cancel' = [cancel EXCEPT ![j] = "undrained"]
    /\ undrain' = [undrain EXCEPT ![j] = {}]
    /\ UNCHANGED <<place, going, jobVars, crashes>>

Interrupt(j) ==
    /\ cancel[j] = "undrained"
    /\ cancel' = [cancel EXCEPT ![j] = "done"]
    /\ at' = IF at[j] \in Terminal THEN at ELSE [at EXCEPT ![j] = "cancelled"]
    /\ read' = [read EXCEPT ![j] = {}]
    /\ UNCHANGED <<esVars, undrain, crashes>>

\* A call of the request fails: the client sees an error and the job goes on,
\* though the answer that got lost may be that of the write.
CancelFails(j) ==
    /\ "call" \in Faults
    /\ cancel[j] \in {"asked", "read", "undrained"}
    /\ cancel' = [cancel EXCEPT ![j] = Abandoned(cancel[j])]
    /\ undrain' = [undrain EXCEPT ![j] = {}]
    /\ UNCHANGED <<esVars, jobVars, crashes>>

-----------------------------------------------------------------------------
\* Mutant: jobs in flight are not run again.
RestartForgets ==
    /\ crashes < MaxCrashes
    /\ crashes' = crashes + 1
    /\ at' = [j \in Job |-> IF at[j] \in Executing THEN "none" ELSE at[j]]
    /\ cancel' = [j \in Job |-> "none"]
    /\ read' = [j \in Job |-> {}]
    /\ undrain' = [j \in Job |-> {}]
    /\ UNCHANGED esVars

\* A restart: jobs in flight are queued again, requests are gone.
Restart ==
    /\ crashes < MaxCrashes
    /\ crashes' = crashes + 1
    /\ at' = [j \in Job |-> IF at[j] \in Executing THEN "queued" ELSE at[j]]
    /\ cancel' = [j \in Job |-> IF cancel[j] \in {"done", "lost"} THEN cancel[j]
                             ELSE Abandoned(cancel[j])]
    /\ read' = [j \in Job |-> {}]
    /\ undrain' = [j \in Job |-> {}]
    /\ UNCHANGED esVars

Drive(j) == ReadExcluded(j) \/ WriteExcluded(j) \/ Drained(j)
Answer(j) == UndrainRead(j) \/ UndrainWrite(j) \/ Interrupt(j)

Next ==
    \/ \E j \in Job : Submit(j) \/ Drive(j) \/ Fail(j)
                       \/ AskCancel(j) \/ Answer(j) \/ CancelFails(j)
    \/ \E s \in Shard : FinishMove(s) \/ \E n \in Node : StartMove(s, n)
    \/ Restart

Spec == Init /\ [][Next]_vars

\* Elasticsearch moves shards away from excluded nodes.
Evacuate(s) == place[s] \in Effective /\ \E n \in Node : StartMove(s, n)

\* Calls are answered, polls go on, slots go round; Elasticsearch finishes what it
\* moves and moves a shard that has somewhere to go time and again.
FairSpec ==
    /\ Spec
    /\ \A j \in Job : WF_vars(Drive(j)) /\ WF_vars(Answer(j))
    /\ \A s \in Shard : SF_vars(Evacuate(s)) /\ WF_vars(FinishMove(s))

-----------------------------------------------------------------------------
(* Properties.                                                             *)

\* A node is settled when it is in force and in every copy of the setting that an
\* executor or a request is about to write back; it is released when it is in neither
\* setting, in none of these copies, and no executor is about to add it.
Settled(n) ==
    /\ n \in Effective
    /\ \A j \in Job : /\ at[j] = "write" => n \in read[j]
                      /\ cancel[j] = "read" => n \in undrain[j]
Released(n) ==
    /\ n \notin ExcludeSet
    /\ \A j \in Job : /\ at[j] = "write" => n \notin read[j] \cup {NodeOf[j]}
                      /\ cancel[j] = "read" => n \notin undrain[j]

\* A settled exclusion ends only with the undrain of that very node, whatever else is
\* drained, undrained, fails or restarts and however it overlaps: an exclusion can only
\* be lost to a copy of the setting that was read before it was written.
SettledStays ==
    [][\A n \in Node : Settled(n) /\ ~ Settled(n)' =>
         \E j \in Job : NodeOf[j] = n /\ cancel[j] = "read" /\ cancel'[j] = "undrained"]_vars

\* A released node is not excluded again before a drain of that very node starts, at first
\* or after a restart: a node given back can only be taken by a copy that still has it.
ReleasedStays ==
    [][\A n \in Node : Released(n) /\ ~ Released(n)' =>
         \E j \in Job : NodeOf[j] = n /\ at[j] = "queued" /\ at'[j] = "write"]_vars

\* A node that is excluded persistently stays excluded, though the transient
\* setting hides the persistent one.
PersistentKept == Persistent \subseteq Effective

\* A drain that reports its node safe to stop has left nothing on it.
DrainedIsEmpty ==
    [][\A j \in Job : at[j] = "poll" /\ at'[j] = "completed" =>
         \A s \in Shard : place[s] # NodeOf[j]]_vars

\* Every drain ends by itself, before its polls run out, as long as its node
\* stays excluded while it polls.
DrainEnds ==
    \A j \in Job : at[j] = "queued" ~>
        \/ at[j] \in Terminal
        \/ at[j] = "poll" /\ NodeOf[j] \notin Effective
=============================================================================
