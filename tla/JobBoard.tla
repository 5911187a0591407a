------------------------------ MODULE JobBoard ------------------------------
(***************************************************************************)
(* The jobs page of one cluster: its queries and mutations (api/jobs.ts),  *)
(* its two tabs (pages/Jobs.tsx), the rows on the server, and whoever else *)
(* changes them.                                                           *)
(*                                                                         *)
(* The page decides by a copy of the rows that is polled and that is read  *)
(* again after each of its own changes.  Two queries hold such copies: the *)
(* list of the jobs and the summary of their numbers.                      *)
(***************************************************************************)
EXTENDS Integers, Sequences, FiniteSets

CONSTANTS
    MaxJob,         \* bound on the ids of jobs, in the order the list has
    MaxWrites,      \* bound on the changes of the rows
    MaxCalls        \* bound on the page's changes under way at once

Job == 1 .. MaxJob
Query == {"list", "summary"}
Hook == {"recommend", "approve", "reject", "bulkApprove",
         "execute", "executeAll", "clearQueue", "clearHistory"}
\* A job that completed, failed or was cancelled has "ended"; "none" is no row.
Status == {"none", "pending", "rejected", "approved", "queued", "executing", "ended"}
Rows == [Job -> Status]

ASSUME BoundAssumption == MaxJob \in Nat /\ MaxWrites \in Nat /\ MaxCalls \in Nat

VARIABLES
    log,            \* the rows, as each change has left them; the last are the present ones
    tab,            \* the tab of the page, or "away" on another page
    shown,          \* what each query has cached, as a place in the log, 0 for nothing
    fetch,          \* what its fetch under way will bring, 0 for none
    missed,         \* queries whose latest fetch failed
    calls,          \* the page's changes under way
    acked,          \* history: the latest own change each query has been invalidated for
    ran             \* history: the change of the last Execute Next since the tab opened

cacheVars == <<shown, fetch, missed>>
historyVars == <<acked, ran>>
vars == <<log, tab, cacheVars, calls, historyVars>>

\* A call has made a change and been answered; then it waits for the queries to be
\* read again.  It is "here" as long as the tab that made it is.
Call == [hook : Hook, at : {"answered", "settling"}, change : 2 .. MaxWrites + 1, here : BOOLEAN]

TypeOK ==
    /\ log \in Seq(Rows) /\ Len(log) \in 1 .. MaxWrites + 1
    /\ tab \in {"suggestions", "execution", "away"}
    /\ shown \in [Query -> 0 .. Len(log)]
    /\ fetch \in [Query -> 0 .. Len(log)]
    /\ missed \subseteq Query
    /\ calls \subseteq Call
    /\ acked \in [Query -> 0 .. Len(log)]
    /\ ran \in 0 .. Len(log)

Now == Len(log)
Present == log[Now]
Listed == IF shown["list"] = 0 THEN [j \in Job |-> "none"] ELSE log[shown["list"]]

Init ==
    /\ \E rows \in [Job -> {"pending", "approved", "queued"}] : log = <<rows>>
    /\ tab = "away"
    /\ shown = [q \in Query |-> 0]
    /\ fetch = [q \in Query |-> 0]
    /\ missed = {}
    /\ calls = {}
    /\ acked = [q \in Query |-> 0]
    /\ ran = 0

-----------------------------------------------------------------------------
(* The server: what each request does to the rows, if it is not refused.   *)

Move(rows, from, to) == [j \in Job |-> IF rows[j] \in from THEN to ELSE rows[j]]
Step(rows, j, from, to) == {[rows EXCEPT ![j] = to] : i \in {i \in {j} : rows[i] = from}}

\* Suggestions that are no longer made go, new ones come.
Recommended(rows) ==
    {new \in Rows : \A j \in Job : \/ new[j] = rows[j]
                                   \/ {rows[j], new[j]} = {"none", "pending"}}
\* All of a tier, or all of them.
BulkApproved(rows) ==
    {new \in Rows : \A j \in Job : \/ new[j] = rows[j]
                                   \/ rows[j] = "pending" /\ new[j] = "approved"}
\* One job of an index at a time: the others stay approved.
AllExecuted(rows) ==
    {new \in Rows : \A j \in Job : \/ new[j] = rows[j]
                                   \/ rows[j] = "approved" /\ new[j] = "queued"}
\* Queued jobs are cancelled; one that has just been granted a slot escapes.
QueueCleared(rows) ==
    {new \in Rows : \A j \in Job :
        IF rows[j] = "approved" THEN new[j] = "none"
        ELSE IF rows[j] = "queued" THEN new[j] \in {"executing", "ended"}
        ELSE new[j] = rows[j]}

\* The rows a request may leave; j is the job it names, if it names one.
After(hook, j, rows) ==
    CASE hook = "recommend" -> Recommended(rows)
      [] hook = "approve" -> Step(rows, j, "pending", "approved")
      [] hook = "reject" -> Step(rows, j, "pending", "rejected")
      [] hook = "bulkApprove" -> BulkApproved(rows)
      [] hook = "execute" -> Step(rows, j, "approved", "queued")
      [] hook = "executeAll" -> AllExecuted(rows)
      [] hook = "clearQueue" -> QueueCleared(rows)
      [] hook = "clearHistory" -> {Move(rows, {"rejected", "ended"}, "none")}

\* A request that finds nothing to do has nothing to show either.
Becomes(rows) == Now <= MaxWrites /\ rows # Present /\ log' = Append(log, rows)

\* The runner, another tab or another user.
OthersWrite ==
    /\ \E j \in Job, hook \in Hook :
          \E rows \in After(hook, j, Present) \cup Step(Present, j, "queued", "executing")
                        \cup Step(Present, j, "executing", "ended") :
             Becomes(rows)
    /\ UNCHANGED <<tab, cacheVars, calls, historyVars>>

-----------------------------------------------------------------------------
(* The queries.                                                            *)

InFlight(q) == fetch[q] # 0
OnPage == tab # "away"

\* Mutant: only what has never been read is read.
PollOnce(q) ==
    /\ OnPage /\ ~InFlight(q) /\ shown[q] = 0
    /\ fetch' = [fetch EXCEPT ![q] = Now]
    /\ UNCHANGED <<log, tab, shown, missed, calls, historyVars>>
\* Every 5 seconds, and when the page is opened.
Poll(q) ==
    /\ OnPage /\ ~InFlight(q)
    /\ fetch' = [fetch EXCEPT ![q] = Now]
    /\ UNCHANGED <<log, tab, shown, missed, calls, historyVars>>

FetchArrives(q) ==
    /\ InFlight(q)
    /\ shown' = [shown EXCEPT ![q] = fetch[q]]
    /\ fetch' = [fetch EXCEPT ![q] = 0]
    /\ missed' = missed \ {q}
    /\ UNCHANGED <<log, tab, calls, historyVars>>

\* The retry has failed too; what is cached stays.
FetchFails(q) ==
    /\ InFlight(q)
    /\ fetch' = [fetch EXCEPT ![q] = 0]
    /\ missed' = missed \cup {q}
    /\ UNCHANGED <<log, tab, shown, calls, historyVars>>

\* The first fetch of a query is joined; a later one is dropped for a new one.
Restarts(q) == OnPage /\ ~(InFlight(q) /\ shown[q] = 0)
\* Mutant: the key ["jobs", clusterId] does not reach ["jobs", "summary", clusterId].
InvalidateOfCluster(change) ==
    /\ fetch' = [fetch EXCEPT !["list"] = IF Restarts("list") THEN Now ELSE @]
    /\ acked' = [q \in Query |-> IF Restarts(q) /\ change > acked[q] THEN change ELSE acked[q]]
\* invalidateQueries({ queryKey: ["jobs"] }) reaches both queries.
Invalidate(change) ==
    /\ fetch' = [q \in Query |-> IF Restarts(q) THEN Now ELSE fetch[q]]
    /\ acked' = [q \in Query |-> IF Restarts(q) /\ change > acked[q] THEN change ELSE acked[q]]

-----------------------------------------------------------------------------
(* The buttons.                                                            *)

Pending(hook) == \E c \in calls : c.hook = hook /\ c.here
Room == Cardinality(calls) < MaxCalls

\* The request changes the rows.  Its answer may be lost: to the page that is a call
\* that failed, as is one that was refused, and nothing comes of either.
Send(hook, j) ==
    /\ Room
    /\ \E rows \in After(hook, j, Present) : Becomes(rows)
    /\ \/ calls' = calls \cup
              {[hook |-> hook, at |-> "answered", change |-> Now', here |-> TRUE]}
       \/ UNCHANGED calls
    /\ UNCHANGED <<tab, cacheVars, historyVars>>

\* The buttons of a row are there while it is listed as pending; neither they nor
\* Approve All are disabled while a request is under way.
Decide(hook, j) ==
    /\ tab = "suggestions" /\ hook \in {"approve", "reject"}
    /\ Listed[j] = "pending"
    /\ Send(hook, j)
BulkApprove(j) == tab = "suggestions" /\ Send("bulkApprove", j)
RunAnalysis(j) == tab = "suggestions" /\ ~Pending("recommend") /\ Send("recommend", j)

\* approved[0]
ExecuteNext(j) ==
    /\ tab = "execution" /\ ~Pending("execute")
    /\ Listed[j] = "approved" /\ \A i \in 1 .. j - 1 : Listed[i] # "approved"
    /\ Send("execute", j)
ExecuteAll(j) ==
    /\ tab = "execution" /\ ~Pending("executeAll")
    /\ Listed[j] = "approved"
    /\ Send("executeAll", j)
ClearQueue(j) ==
    /\ tab = "execution" /\ ~Pending("clearQueue")
    /\ Listed[j] \in {"approved", "queued"}
    /\ Send("clearQueue", j)
\* Offered for completed and failed jobs, not for cancelled ones.
ClearHistory(j) ==
    /\ tab = "execution" /\ ~Pending("clearHistory")
    /\ Listed[j] = "ended"
    /\ Send("clearHistory", j)

-----------------------------------------------------------------------------
(* The answers.                                                            *)

\* Mutant: the braces of useRecommend, everywhere.
ReturnsNothing(hook) == TRUE
\* The function in braces does not return the promise of the invalidation: the call
\* is over at once.
ReturnsAtOnce(hook) == hook = "recommend"

CallAnswered(c) ==
    /\ c \in calls /\ c.at = "answered"
    /\ Invalidate(c.change)
    /\ ran' = IF c.hook = "execute" /\ c.here THEN c.change ELSE ran
    /\ calls' = (calls \ {c}) \cup
          IF ReturnsAtOnce(c.hook) \/ ~c.here THEN {} ELSE {[c EXCEPT !.at = "settling"]}
    /\ UNCHANGED <<log, tab, shown, missed>>

\* A refetch that was dropped for a newer one ends with it.
CallSettles(c) ==
    /\ c \in calls /\ c.at = "settling"
    /\ \A q \in Query : ~InFlight(q)
    /\ calls' = calls \ {c}
    /\ UNCHANGED <<log, tab, cacheVars, historyVars>>

\* Another tab or page: the calls go on, but the buttons will not know of them.
Show(t) ==
    /\ t # tab
    /\ tab' = t
    /\ calls' = {[c EXCEPT !.here = FALSE] : c \in {c \in calls : c.at = "answered"}}
    /\ ran' = 0
    /\ UNCHANGED <<log, cacheVars, acked>>

-----------------------------------------------------------------------------
Next ==
    \/ OthersWrite
    \/ \E q \in Query : Poll(q) \/ FetchArrives(q) \/ FetchFails(q)
    \/ \E j \in Job :
        \/ \E hook \in Hook : Decide(hook, j)
        \/ BulkApprove(j) \/ RunAnalysis(j)
        \/ ExecuteNext(j) \/ ExecuteAll(j) \/ ClearQueue(j) \/ ClearHistory(j)
    \/ \E c \in calls : CallAnswered(c) \/ CallSettles(c)
    \/ \E t \in {"suggestions", "execution", "away"} : Show(t)

Spec == Init /\ [][Next]_vars

\* The page polls while it is open, and not every fetch fails.
Fairness == \A q \in Query : WF_vars(Poll(q)) /\ SF_vars(FetchArrives(q))
FairSpec == Spec /\ Fairness

-----------------------------------------------------------------------------
(* Properties.                                                             *)

\* What a query shows, or is about to show, takes in every own change the page has
\* been told of, unless the reading has failed: a poll that started before the change
\* never lands after it (the onSuccess of the mutations).
OwnWritesShow ==
    \A q \in Query \ missed : (IF InFlight(q) THEN fetch[q] ELSE shown[q]) >= acked[q]

\* When Execute Next can be clicked again, the list is newer than the last click, so
\* that the first approved job in it is not the one just queued.
NextIsFresh == ~Pending("execute") /\ "list" \notin missed => shown["list"] >= ran

\* Whatever happens to the rows, also behind the page's back, an open page soon shows
\* it, in the list and in the summary.
PageCatchesUp ==
    \A v \in 2 .. MaxWrites + 1 :
        (OnPage /\ Now >= v) ~> (~OnPage \/ \A q \in Query : shown[q] >= v)
=============================================================================
