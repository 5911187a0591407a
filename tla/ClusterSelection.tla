-------------------------- MODULE ClusterSelection --------------------------
(***************************************************************************)
(* The clusters of the browser: the cached list and its mutations          *)
(* (api/clusters.ts), the active cluster (context/ClusterContext.tsx), the *)
(* selector of the side bar and the dialog that creates and edits.         *)
(*                                                                         *)
(* One tab of an admin, and other admins who change the same rows.  The    *)
(* list is fetched on its own account and after the tab's own writes; the  *)
(* selection, the open form and the callbacks of requests all outlive the  *)
(* list they were made from.                                               *)
(***************************************************************************)
EXTENDS Integers, Sequences, FiniteSets

CONSTANTS
    MaxCluster,     \* bound on the ids of clusters
    MaxName,        \* bound on their names, numbered in alphabetical order
    MaxWrites       \* bound on the writes, of the tab and of other admins

None == 0
Cluster == 1 .. MaxCluster
Name == 1 .. MaxName
ASSUME BoundAssumption == MaxCluster \in Nat /\ MaxName \in Nat \ {0} /\ MaxWrites \in Nat

VARIABLES
    server,         \* name of each cluster, or None
    writes,         \* writes so far
    past,           \* history of each id: never deleted, gone, or given out again
    list,           \* the cached list; empty also while there is none
    fetch,          \* the fetch of the list: idle, lost, or the list it brings
    selected,       \* activeId
    dialog,         \* the dialog of the selector
    form,           \* what the form of the dialog was filled from
    create, update, delete  \* the tab's mutations

tabVars == <<list, fetch, selected, dialog, form>>
mutationVars == <<create, update, delete>>
vars == <<server, writes, past, tabVars, mutationVars>>

Row == [id : Cluster, name : Name]
\* A row and its place in the list: what stays the same object when a fetch brings
\* the same row in the same place, and only then.
Object == [place : Nat, row : Row]
NoRow == [id |-> None, name |-> None]
NoObject == [place |-> 0, row |-> NoRow]
Quiet == [at |-> "idle", rows |-> <<>>]
NoCreate == [at |-> "idle", row |-> NoRow]
NoDelete == [at |-> "idle", id |-> None, next |-> None]

TypeOK ==
    /\ server \in [Cluster -> Name \cup {None}]
    /\ writes \in 0 .. MaxWrites
    /\ past \in [Cluster -> {"new", "gone", "reused"}]
    /\ list \in Seq(Row)
    /\ fetch \in [at : {"idle", "answered", "lost"}, rows : Seq(Row)]
    /\ selected \in Cluster \cup {None}
    /\ dialog \in {"closed", "add", "edit"}
    /\ form \in Object \cup {NoObject}
    /\ create \in {NoCreate} \cup [at : {"answered"}, row : Row]
    /\ update \in {"idle", "answered", "settling"}
    /\ delete \in {NoDelete} \cup [at : {"answered", "settling"}, id : Cluster,
                                  next : Cluster \cup {None}]

-----------------------------------------------------------------------------
(* The server.                                                             *)

Existing == {c \in Cluster : server[c] # None}
\* list_clusters orders by name.
Earlier(c, d) == server[c] < server[d] \/ (server[c] = server[d] /\ c < d)
\* The cluster that i others come before.
Ranked(i) == CHOOSE c \in Existing : Cardinality({d \in Existing : Earlier(d, c)}) = i
Listing ==
    [i \in 1 .. Cardinality(Existing) |->
        [id |-> Ranked(i - 1), name |-> server[Ranked(i - 1)]]]
\* The database gives out the id above the highest in use.
NextId == IF Existing = {} THEN 1 ELSE 1 + CHOOSE c \in Existing : \A d \in Existing : d <= c

Write == writes < MaxWrites /\ writes' = writes + 1
Insert(n) ==
    /\ Write
    /\ NextId <= MaxCluster
    /\ server' = [server EXCEPT ![NextId] = n]
    /\ past' = [past EXCEPT ![NextId] = IF @ = "gone" THEN "reused" ELSE @]
Rename(c, n) ==
    /\ Write
    /\ server[c] # None
    /\ server' = [server EXCEPT ![c] = n]
    /\ UNCHANGED past
DeleteRow(c) ==
    /\ Write
    /\ server[c] # None
    /\ server' = [server EXCEPT ![c] = None]
    /\ past' = [past EXCEPT ![c] = IF @ = "new" THEN "gone" ELSE @]

-----------------------------------------------------------------------------
(* What follows from the list.                                             *)

Ids(rows) == {rows[i].id : i \in DOMAIN rows}
FirstWith(rows, c) ==
    CHOOSE i \in DOMAIN rows : rows[i].id = c /\ \A j \in 1 .. i - 1 : rows[j].id # c
Nth(rows, i) == [place |-> i, row |-> rows[i]]
\* The selected cluster, or else the first.
ActiveOf(rows, s) ==
    IF rows = <<>> THEN NoObject
    ELSE Nth(rows, IF s \in Ids(rows) THEN FirstWith(rows, s) ELSE 1)
Active == ActiveOf(list, selected)
ActiveId == Active.row.id

\* The cluster the dialog gets.
Given(d, active) == IF d = "edit" THEN active ELSE NoObject
\* Mutant: the effect of the dialog does not depend on the cluster.
ShowOnOpen(rows, s, d) ==
    /\ list' = rows
    /\ selected' = s
    /\ dialog' = d
    /\ form' = IF d # "closed" /\ dialog = "closed" THEN Given(d, ActiveOf(rows, s)) ELSE form
\* A render with this list, selection and dialog.  The effect of the dialog fills in
\* the form when it opens and when the cluster it is given becomes another object.
Show(rows, s, d) ==
    LET given == Given(d, ActiveOf(rows, s))
    IN /\ list' = rows
       /\ selected' = s
       /\ dialog' = d
       /\ form' = IF d # "closed" /\ (dialog = "closed" \/ given # Given(dialog, Active))
                  THEN given ELSE form

Init ==
    /\ server \in [Cluster -> Name \cup {None}]
    /\ \A c, d \in Cluster : c < d /\ server[d] # None => server[c] # None
    /\ writes = 0
    /\ list = <<>>
    /\ fetch = Quiet
    /\ selected \in Cluster \cup {None}
    /\ past = [c \in Cluster |-> IF c = selected /\ server[c] = None THEN "gone" ELSE "new"]
    /\ dialog = "closed"
    /\ form = NoObject
    /\ create = NoCreate /\ update = "idle" /\ delete = NoDelete

-----------------------------------------------------------------------------
(* The query ["clusters"].                                                 *)

\* What a fetch will bring is settled when the server reads; it may be out of date
\* when it arrives.
Fetched == [at |-> "answered", rows |-> Listing]

\* Mutant: nothing is fetched again.
InvalidateNothing == fetch
\* Mutant: a fetch under way is left to land.
InvalidateKeepingFetch == IF fetch.at \in {"idle", "lost"} THEN Fetched ELSE fetch
\* invalidateQueries drops a fetch under way and starts another.
Invalidate == Fetched

\* On mount, on reconnecting, or when the users page opens, which has a query of its own.
StartFetch ==
    /\ fetch.at \in {"idle", "lost"}
    /\ fetch' = Fetched
    /\ UNCHANGED <<server, writes, past, list, selected, dialog, form, mutationVars>>

FetchArrives ==
    /\ fetch.at = "answered"
    /\ Show(fetch.rows, selected, dialog)
    /\ fetch' = Quiet
    /\ UNCHANGED <<server, writes, past, mutationVars>>

\* The retry has failed too; the list stays.
FetchFails ==
    /\ fetch.at = "answered"
    /\ fetch' = [at |-> "lost", rows |-> <<>>]
    /\ UNCHANGED <<server, writes, past, list, selected, dialog, form, mutationVars>>

-----------------------------------------------------------------------------
(* The selector and the dialog.  The dialog covers the page while open.    *)

Select(c) ==
    /\ dialog = "closed" /\ c \in Ids(list)
    /\ Show(list, c, dialog)
    /\ UNCHANGED <<server, writes, past, fetch, mutationVars>>

Open(d) ==
    /\ dialog = "closed"
    /\ d = "edit" => Active # NoObject
    /\ Show(list, selected, d)
    /\ UNCHANGED <<server, writes, past, fetch, mutationVars>>

Close ==
    /\ dialog # "closed"
    /\ Show(list, selected, "closed")
    /\ UNCHANGED <<server, writes, past, fetch, mutationVars>>

Pending == create.at # "idle" \/ update # "idle"
\* The button is disabled while either mutation is pending.  An edit that has no
\* cluster left to edit creates one.
SubmitCreate(n) ==
    /\ dialog # "closed" /\ ~Pending
    /\ Given(dialog, Active) = NoObject
    /\ Insert(n)
    /\ create' = [at |-> "answered", row |-> [id |-> NextId, name |-> n]]
    /\ UNCHANGED <<tabVars, update, delete>>
SubmitUpdate(n) ==
    /\ dialog = "edit" /\ ~Pending
    /\ Active # NoObject
    /\ Rename(ActiveId, n)
    /\ update' = "answered"
    /\ UNCHANGED <<tabVars, create, delete>>

\* The user has confirmed; the callback will see the list of this render.
HandleRemove ==
    LET others == {i \in DOMAIN list : list[i].id # ActiveId}
        next == IF others = {} THEN None
                ELSE list[CHOOSE i \in others : \A j \in others : i <= j].id
    IN /\ dialog = "closed" /\ delete.at = "idle" /\ Active # NoObject
       /\ DeleteRow(ActiveId)
       /\ delete' = [at |-> "answered", id |-> ActiveId, next |-> next]
       /\ UNCHANGED <<tabVars, create, update>>

-----------------------------------------------------------------------------
(* The answers to the mutations.  A request that is refused changes nothing *)
(* but the message shown.                                                  *)

\* useCreateCluster appends the cluster, then invalidates; the dialog selects it and
\* closes, whatever it shows by now.
CreateArrives ==
    /\ create.at = "answered"
    /\ Show(Append(list, create.row), create.row.id, "closed")
    /\ fetch' = Invalidate
    /\ create' = NoCreate
    /\ UNCHANGED <<server, writes, past, update, delete>>

\* The hooks of update and delete return the promise of the refetch, so their
\* callbacks wait for it.
UpdateArrives ==
    /\ update = "answered"
    /\ fetch' = Invalidate
    /\ update' = "settling"
    /\ UNCHANGED <<server, writes, past, list, selected, dialog, form, create, delete>>
UpdateDone ==
    /\ update = "settling" /\ fetch.at \in {"idle", "lost"}
    /\ Show(list, selected, "closed")
    /\ update' = "idle"
    /\ UNCHANGED <<server, writes, past, fetch, create, delete>>

\* Mutant: the hook does not invalidate the list.
DeleteArrivesOnly ==
    /\ delete.at = "answered"
    /\ delete' = [delete EXCEPT !.at = "settling"]
    /\ UNCHANGED <<server, writes, past, tabVars, create, update>>
DeleteArrives ==
    /\ delete.at = "answered"
    /\ fetch' = Invalidate
    /\ delete' = [delete EXCEPT !.at = "settling"]
    /\ UNCHANGED <<server, writes, past, list, selected, dialog, form, create, update>>
DeleteDone ==
    /\ delete.at = "settling" /\ fetch.at \in {"idle", "lost"}
    /\ Show(list, IF delete.next # None THEN delete.next ELSE selected, dialog)
    /\ delete' = NoDelete
    /\ UNCHANGED <<server, writes, past, fetch, create, update>>

-----------------------------------------------------------------------------
(* Other admins.                                                           *)

OthersWrite ==
    /\ \/ \E n \in Name : Insert(n)
       \/ \E c \in Cluster, n \in Name : Rename(c, n)
       \/ \E c \in Cluster : DeleteRow(c)
    /\ UNCHANGED <<tabVars, mutationVars>>

-----------------------------------------------------------------------------
Next ==
    \/ StartFetch \/ FetchArrives \/ FetchFails
    \/ \E c \in Cluster : Select(c)
    \/ Open("add") \/ Open("edit") \/ Close \/ HandleRemove
    \/ \E n \in Name : SubmitCreate(n) \/ SubmitUpdate(n)
    \/ CreateArrives \/ UpdateArrives \/ UpdateDone \/ DeleteArrives \/ DeleteDone
    \/ OthersWrite

Spec == Init /\ [][Next]_vars

\* A fetch is answered or given up.
Fairness == WF_vars(FetchArrives \/ FetchFails)
FairSpec == Spec /\ Fairness

-----------------------------------------------------------------------------
(* Properties.                                                             *)

\* What an open edit form was filled from is the cluster its PATCH will name, as the
\* list has it now: fields the user has not touched never come from another cluster
\* or from an older list.
FormIsOfActive == dialog = "edit" => form = Active

\* The selection outlives every fetch: a cluster the user has selected or created
\* stays in the list, and so the active one, unless it has been deleted.
SelectionHolds ==
    list # <<>> /\ selected # None => selected \in Ids(list) \/ past[selected] # "new"

\* When the removal of a cluster has gone through and the list has come in again, the
\* removed cluster is no longer the active one, unless its id has been given out anew.
RemovedIsLeft ==
    [][delete.at = "settling" /\ delete'.at = "idle" /\ fetch.at # "lost"
        => ActiveId' # delete.id \/ past[delete.id] = "reused"]_vars

Duplicate == \E i, j \in DOMAIN list : i # j /\ list[i].id = list[j].id
\* A cluster that the append and a fetch have both put into the list is soon there
\* once, if the list can be fetched.
DuplicateGoes == Duplicate ~> (~Duplicate \/ fetch.at = "lost")
=============================================================================
