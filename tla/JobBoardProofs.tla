--------------------------- MODULE JobBoardProofs ---------------------------
(***************************************************************************)
(* Proofs about JobBoard for any number of jobs, changes and calls: what   *)
(* the page shows takes in its own changes, and Execute Next waits for a   *)
(* list newer than its last click.                                         *)
(***************************************************************************)
EXTENDS JobBoard, TLAPS

\* A fetch brings every own change that was invalidated for; without one it is shown.
FetchesOwn ==
    \A q \in Query : IF InFlight(q) THEN fetch[q] >= acked[q]
                     ELSE q \notin missed => shown[q] >= acked[q]

\* A call knows a change that has been made; it is here only while the page is, and
\* Execute Next only where a list is shown.
CallsKnown ==
    \A c \in calls :
        /\ c.change <= Now
        /\ c.here => OnPage
        /\ c.hook = "execute" /\ c.here => shown["list"] # 0

\* The list has been invalidated for the last click of Execute Next.
RanIsAcked == ran <= acked["list"]

IInv == TypeOK /\ FetchesOwn /\ CallsKnown /\ RanIsAcked /\ NextIsFresh

-----------------------------------------------------------------------------
(* The rows.                                                               *)

\* A request leaves rows.
LEMMA AfterRows ==
    ASSUME NEW rows \in Rows, NEW j \in Job, NEW hook \in Hook
    PROVE  After(hook, j, rows) \subseteq Rows
BY DEF After, Hook, Rows, Status, Recommended, Step, BulkApproved, AllExecuted, QueueCleared, Move

\* So does the runner.
LEMMA StepRows ==
    ASSUME NEW rows \in Rows, NEW j \in Job, NEW from, NEW to \in Status
    PROVE  Step(rows, j, from, to) \subseteq Rows
BY DEF Step, Rows

\* The log is not empty.
LEMMA LogTyped ==
    ASSUME TypeOK
    PROVE  Now \in Nat /\ Now >= 1 /\ Present \in Rows
BY DEF TypeOK, Now, Present

\* A change lengthens the log by one.
LEMMA BecomesTyped ==
    ASSUME TypeOK, NEW rows \in Rows, Becomes(rows)
    PROVE  /\ log' \in Seq(Rows) /\ Len(log') \in 1 .. MaxWrites + 1
           /\ Now' = Now + 1 /\ Now' \in 2 .. MaxWrites + 1
BY BoundAssumption DEF TypeOK, Becomes, Now

\* Values up to the present stay in range as the log grows.
LEMMA Ranges ==
    ASSUME TypeOK, log' \in Seq(Rows), Now' >= Now
    PROVE  /\ shown \in [Query -> 0 .. Len(log')] /\ fetch \in [Query -> 0 .. Len(log')]
           /\ acked \in [Query -> 0 .. Len(log')] /\ ran \in 0 .. Len(log')
BY DEF TypeOK, Now

-----------------------------------------------------------------------------
(* Steps of a kind.                                                        *)

\* Rows change, and the page may learn of it.
LEMMA WriteKeeps ==
    ASSUME IInv, NEW rows \in Rows, Becomes(rows),
           UNCHANGED <<tab, cacheVars, historyVars>>,
           calls' = calls \/ \E hook \in Hook :
                /\ OnPage /\ (hook = "execute" => shown["list"] # 0)
                /\ calls' = calls \cup
                      {[hook |-> hook, at |-> "answered", change |-> Now', here |-> TRUE]}
    PROVE  IInv'
<1>1. /\ log' \in Seq(Rows) /\ Len(log') \in 1 .. MaxWrites + 1
      /\ Now' = Now + 1 /\ Now' \in 2 .. MaxWrites + 1 /\ Now \in Nat
  BY BecomesTyped, LogTyped DEF IInv
<1>2. UNCHANGED <<tab, shown, fetch, missed, acked, ran>>
  BY DEF cacheVars, historyVars
<1>3. calls' \subseteq Call
  <2>1. calls \subseteq Call
    BY DEF IInv, TypeOK
  <2>2. \A hook \in Hook :
          [hook |-> hook, at |-> "answered", change |-> Now', here |-> TRUE] \in Call
    BY <1>1 DEF Call
  <2> QED
    BY <2>1, <2>2
<1>4. TypeOK'
  BY <1>1, <1>2, <1>3, Ranges DEF IInv, TypeOK
<1>5. CallsKnown'
  <2>1. \A c \in calls : c.change \in Nat
    BY DEF IInv, TypeOK, Call
  <2> QED
    BY <1>1, <1>2, <2>1 DEF IInv, CallsKnown, OnPage
<1>6. FetchesOwn' /\ RanIsAcked'
  BY <1>2 DEF IInv, FetchesOwn, InFlight, RanIsAcked
<1>7. NextIsFresh'
  BY <1>2 DEF IInv, NextIsFresh, Pending
<1> QED
  BY <1>4, <1>5, <1>6, <1>7 DEF IInv

\* A button sends its request.
LEMMA SendKeeps ==
    ASSUME IInv, NEW hook \in Hook, NEW j \in Job, OnPage,
           hook = "execute" => shown["list"] # 0, Send(hook, j)
    PROVE  IInv'
<1>1. PICK rows \in Rows : Becomes(rows)
  BY AfterRows, LogTyped DEF Send, IInv
<1> QED
  BY <1>1, WriteKeeps DEF Send

\* The queries are fetched.
LEMMA FetchKeeps ==
    ASSUME IInv, NEW q \in Query, Poll(q) \/ FetchArrives(q) \/ FetchFails(q)
    PROVE  IInv'
<1>1. Now \in Nat /\ Now >= 1 /\ UNCHANGED <<log, tab, calls, acked, ran>>
  BY LogTyped DEF IInv, Poll, FetchArrives, FetchFails, historyVars
<1>2. fetch[q] \in Nat /\ shown[q] \in Nat /\ acked[q] \in Nat /\ acked[q] <= Now
  BY DEF IInv, TypeOK, Now
<1>3. TypeOK'
  <2> USE DEF IInv, TypeOK, Now
  <2>1. CASE Poll(q)
    BY <1>1, <2>1 DEF Poll
  <2>2. CASE FetchArrives(q)
    BY <1>1, <2>2 DEF FetchArrives
  <2>3. CASE FetchFails(q)
    BY <1>1, <2>3 DEF FetchFails
  <2> QED
    BY <2>1, <2>2, <2>3
<1>4. FetchesOwn'
  <2> USE DEF IInv, TypeOK, FetchesOwn, InFlight
  <2>1. CASE Poll(q)
    BY <1>1, <1>2, <2>1 DEF Poll
  <2>2. CASE FetchArrives(q)
    BY <1>1, <1>2, <2>2 DEF FetchArrives
  <2>3. CASE FetchFails(q)
    BY <1>1, <1>2, <2>3 DEF FetchFails
  <2> QED
    BY <2>1, <2>2, <2>3
<1>5. \/ shown'["list"] = shown["list"]
      \/ shown'["list"] = fetch["list"] /\ InFlight("list")
  <2>1. shown \in [Query -> 0 .. Len(log)] /\ "list" \in Query
    BY DEF IInv, TypeOK, Query
  <2>2. CASE FetchArrives(q) /\ q = "list"
    BY <2>1, <2>2 DEF FetchArrives
  <2>3. CASE FetchArrives(q) /\ q # "list"
    BY <2>1, <2>3 DEF FetchArrives
  <2>4. CASE Poll(q)
    BY <2>4 DEF Poll
  <2>5. CASE FetchFails(q)
    BY <2>5 DEF FetchFails
  <2> QED
    BY <2>2, <2>3, <2>4, <2>5
<1>6. CallsKnown'
  BY <1>1, <1>5 DEF IInv, CallsKnown, OnPage, Now, InFlight
<1>7. RanIsAcked'
  BY <1>1 DEF IInv, RanIsAcked
<1>8. NextIsFresh'
  <2>1. SUFFICES ASSUME ~Pending("execute")', "list" \notin missed' PROVE shown'["list"] >= ran
    BY <1>1 DEF NextIsFresh
  <2>2. ~Pending("execute")
    BY <1>1, <2>1 DEF Pending
  <2>3. shown["list"] \in Nat /\ fetch["list"] \in Nat /\ acked["list"] \in Nat /\ ran \in Nat
    BY DEF IInv, TypeOK, Query
  <2>4. CASE q = "list" /\ FetchArrives(q)
    BY <2>3, <2>4 DEF FetchArrives, IInv, TypeOK, FetchesOwn, RanIsAcked
  <2>5. CASE ~(q = "list" /\ FetchArrives(q))
    <3>1. shown'["list"] = shown["list"] /\ "list" \notin missed
      BY <2>1, <2>5 DEF Poll, FetchArrives, FetchFails, IInv, TypeOK, Query
    <3> QED
      BY <2>2, <3>1 DEF IInv, NextIsFresh
  <2> QED
    BY <2>4, <2>5
<1> QED
  BY <1>3, <1>4, <1>6, <1>7, <1>8 DEF IInv

\* The queries are read again for a change the page has been told of.
LEMMA InvalidateKeeps ==
    ASSUME TypeOK, FetchesOwn, NEW change \in 1 .. Now, Invalidate(change),
           UNCHANGED <<log, tab, shown, missed>>
    PROVE  /\ fetch' \in [Query -> 0 .. Len(log)] /\ acked' \in [Query -> 0 .. Len(log)]
           /\ FetchesOwn'
           /\ \A q \in Query : acked'[q] >= acked[q]
           /\ \A q \in Query : OnPage /\ shown[q] # 0 => acked'[q] >= change
<1>1. Now \in Nat /\ Now >= 1 /\ Now = Len(log)
  BY LogTyped DEF Now
<1>2. \A q \in Query : acked[q] \in 0 .. Now /\ fetch[q] \in 0 .. Now /\ shown[q] \in 0 .. Now
  BY DEF TypeOK, Now
<1>3. /\ fetch' = [q \in Query |-> IF Restarts(q) THEN Now ELSE fetch[q]]
      /\ acked' = [q \in Query |-> IF Restarts(q) /\ change > acked[q] THEN change ELSE acked[q]]
  BY DEF Invalidate
<1>4. fetch' \in [Query -> 0 .. Now] /\ acked' \in [Query -> 0 .. Now]
  BY <1>1, <1>2, <1>3
<1>5. FetchesOwn'
  <2>1. SUFFICES ASSUME NEW q \in Query
                 PROVE  IF fetch'[q] # 0 THEN fetch'[q] >= acked'[q]
                        ELSE q \notin missed => shown[q] >= acked'[q]
    BY DEF FetchesOwn, InFlight
  <2>2. CASE Restarts(q)
    BY <1>1, <1>2, <1>3, <2>2
  <2>3. CASE ~Restarts(q)
    <3>1. fetch'[q] = fetch[q] /\ acked'[q] = acked[q]
      BY <1>3, <2>3
    <3> QED
      BY <3>1 DEF FetchesOwn, InFlight
  <2> QED
    BY <2>2, <2>3
<1>6. \A q \in Query : acked'[q] >= acked[q]
  BY <1>2, <1>3
<1>7. ASSUME NEW q \in Query, OnPage, shown[q] # 0 PROVE acked'[q] >= change
  BY <1>2, <1>3, <1>7 DEF Restarts
<1> QED
  BY <1>1, <1>4, <1>5, <1>6, <1>7

\* A call has been answered.
LEMMA AnsweredKeeps ==
    ASSUME IInv, NEW c \in calls, CallAnswered(c)
    PROVE  IInv'
<1>1. /\ c.at = "answered" /\ Invalidate(c.change) /\ UNCHANGED <<log, tab, shown, missed>>
      /\ ran' = IF c.hook = "execute" /\ c.here THEN c.change ELSE ran
      /\ calls' = (calls \ {c}) \cup
             IF ReturnsAtOnce(c.hook) \/ ~c.here THEN {} ELSE {[c EXCEPT !.at = "settling"]}
  BY DEF CallAnswered
<1>2. c \in Call /\ c.change \in 1 .. Now /\ Now = Len(log)
  BY DEF IInv, TypeOK, CallsKnown, Call, Now
<1>3. /\ fetch' \in [Query -> 0 .. Len(log)] /\ acked' \in [Query -> 0 .. Len(log)]
      /\ FetchesOwn'
      /\ \A q \in Query : acked'[q] >= acked[q]
      /\ \A q \in Query : OnPage /\ shown[q] # 0 => acked'[q] >= c.change
  BY <1>1, <1>2, InvalidateKeeps DEF IInv
<1> DEFINE next == [c EXCEPT !.at = "settling"]
<1>4. /\ next \in Call /\ next.hook = c.hook /\ next.change = c.change /\ next.here = c.here
  BY <1>2 DEF Call
<1> HIDE DEF next
<1>5. calls' \subseteq calls \cup {next}
  BY <1>1 DEF next
<1>6. TypeOK'
  <2>0. ran \in 0 .. Len(log) /\ calls \subseteq Call
    BY DEF IInv, TypeOK
  <2>1. ran' \in 0 .. Len(log) /\ calls' \subseteq Call
    <3>1. Len(log) \in Nat
      BY LogTyped DEF IInv, Now
    <3>2. ran' = c.change \/ ran' = ran
      BY <1>1
    <3>3. ran' \in 0 .. Len(log)
      BY <1>2, <2>0, <3>1, <3>2
    <3> QED
      BY <1>4, <1>5, <2>0, <3>3
  <2>2. log' = log /\ tab' = tab /\ shown' = shown /\ missed' = missed
    BY <1>1
  <2> HIDE <1>1
  <2> QED
    BY <1>3, <2>1, <2>2 DEF IInv, TypeOK
<1>7. CallsKnown'
  BY <1>1, <1>4, <1>5 DEF IInv, CallsKnown, OnPage, Now
<1>8. RanIsAcked'
  <2>1. acked'["list"] \in Nat /\ acked["list"] \in Nat /\ ran \in Nat /\ acked'["list"] >= acked["list"]
    BY <1>3 DEF IInv, TypeOK, Query
  <2>2. CASE c.hook = "execute" /\ c.here
    BY <1>1, <1>3, <2>2 DEF RanIsAcked, IInv, CallsKnown, Query
  <2>3. CASE ~(c.hook = "execute" /\ c.here)
    BY <1>1, <2>1, <2>3 DEF RanIsAcked, IInv
  <2> QED
    BY <2>2, <2>3
<1>9. NextIsFresh'
  <2>1. CASE c.hook = "execute" /\ c.here
    <3>1. next \in calls'
      BY <1>1, <2>1 DEF ReturnsAtOnce, next
    <3> QED
      BY <1>4, <2>1, <3>1 DEF NextIsFresh, Pending
  <2>2. CASE ~(c.hook = "execute" /\ c.here)
    <3>1. ran' = ran /\ (Pending("execute") => Pending("execute")')
      BY <1>1, <2>2 DEF Pending
    <3> QED
      BY <1>1, <3>1 DEF IInv, NextIsFresh
  <2> QED
    BY <2>1, <2>2
<1> QED
  BY <1>3, <1>6, <1>7, <1>8, <1>9 DEF IInv

\* A call has waited for the queries.
LEMMA SettlesKeeps ==
    ASSUME IInv, NEW c \in calls, CallSettles(c)
    PROVE  IInv'
<1>1. /\ \A q \in Query : ~InFlight(q)
      /\ calls' = calls \ {c} /\ UNCHANGED <<log, tab, shown, fetch, missed, acked, ran>>
  BY DEF CallSettles, cacheVars, historyVars
<1>2. TypeOK' /\ FetchesOwn' /\ RanIsAcked'
  BY <1>1 DEF IInv, TypeOK, FetchesOwn, RanIsAcked, InFlight
<1>3. CallsKnown'
  BY <1>1 DEF IInv, CallsKnown, OnPage, Now
<1>4. NextIsFresh'
  <2>1. shown["list"] \in Nat /\ acked["list"] \in Nat /\ ran \in Nat /\ "list" \in Query
    BY DEF IInv, TypeOK, Query
  <2> QED
    BY <1>1, <2>1 DEF IInv, FetchesOwn, RanIsAcked, NextIsFresh
<1> QED
  BY <1>2, <1>3, <1>4 DEF IInv

\* Another tab is shown.
LEMMA ShowKeeps ==
    ASSUME IInv, NEW t \in {"suggestions", "execution", "away"}, Show(t)
    PROVE  IInv'
<1>1. /\ tab' = t /\ ran' = 0 /\ UNCHANGED <<log, shown, fetch, missed, acked>>
      /\ calls' = {[c EXCEPT !.here = FALSE] : c \in {c \in calls : c.at = "answered"}}
  BY DEF Show, cacheVars
<1>2. \A c \in calls : /\ [c EXCEPT !.here = FALSE] \in Call
                       /\ [c EXCEPT !.here = FALSE].change = c.change
                       /\ ~[c EXCEPT !.here = FALSE].here
  BY DEF IInv, TypeOK, Call
<1>3. \A d \in calls' : d \in Call /\ ~d.here /\ \E c \in calls : d.change = c.change
  BY <1>1, <1>2
<1>4. TypeOK'
  BY <1>1, <1>3 DEF IInv, TypeOK
<1>5. FetchesOwn' /\ CallsKnown'
  BY <1>1, <1>3 DEF IInv, FetchesOwn, InFlight, CallsKnown, Now
<1>6. RanIsAcked' /\ NextIsFresh'
  BY <1>1 DEF IInv, TypeOK, RanIsAcked, NextIsFresh, Query
<1> QED
  BY <1>4, <1>5, <1>6 DEF IInv

-----------------------------------------------------------------------------
(* The invariant and the theorems.                                         *)

\* The page is closed at first, and shows nothing.
LEMMA InitKeeps == Init => IInv
<1> SUFFICES ASSUME Init PROVE IInv
  OBVIOUS
<1>1. log \in Seq(Rows) /\ Len(log) = 1
  BY DEF Init, Rows, Status
<1>2. TypeOK
  BY <1>1, BoundAssumption DEF Init, TypeOK
<1> QED
  BY <1>2 DEF Init, IInv, FetchesOwn, InFlight, CallsKnown, RanIsAcked, NextIsFresh, Query

\* A row that is listed comes from a list.
LEMMA ListedIsShown ==
    ASSUME NEW j \in Job, Listed[j] # "none"
    PROVE  shown["list"] # 0
BY DEF Listed

\* Every step keeps the invariant.
LEMMA StepKeeps == IInv /\ [Next]_vars => IInv'
<1> SUFFICES ASSUME IInv, [Next]_vars PROVE IInv'
  OBVIOUS
<1>1. CASE OthersWrite
  <2>1. PICK j \in Job, hook \in Hook :
           \E rows \in After(hook, j, Present) \cup Step(Present, j, "queued", "executing")
                         \cup Step(Present, j, "executing", "ended") : Becomes(rows)
    BY <1>1 DEF OthersWrite
  <2>2. PICK rows \in Rows : Becomes(rows)
    BY <2>1, AfterRows, StepRows, LogTyped DEF IInv, Status
  <2> QED
    BY <1>1, <2>2, WriteKeeps DEF OthersWrite
<1>2. ASSUME NEW q \in Query, Poll(q) \/ FetchArrives(q) \/ FetchFails(q) PROVE IInv'
  BY <1>2, FetchKeeps
<1>3. ASSUME NEW j \in Job, NEW hook \in Hook, Decide(hook, j) PROVE IInv'
  BY <1>3, SendKeeps DEF Decide, OnPage
<1>4. ASSUME NEW j \in Job, BulkApprove(j) \/ RunAnalysis(j) PROVE IInv'
  BY <1>4, SendKeeps DEF BulkApprove, RunAnalysis, OnPage, Hook
<1>5. ASSUME NEW j \in Job, ExecuteNext(j) PROVE IInv'
  BY <1>5, SendKeeps, ListedIsShown DEF ExecuteNext, OnPage, Hook
<1>6. ASSUME NEW j \in Job, ExecuteAll(j) \/ ClearQueue(j) \/ ClearHistory(j) PROVE IInv'
  BY <1>6, SendKeeps DEF ExecuteAll, ClearQueue, ClearHistory, OnPage, Hook
<1>7. ASSUME NEW c \in calls, CallAnswered(c) \/ CallSettles(c) PROVE IInv'
  BY <1>7, AnsweredKeeps, SettlesKeeps
<1>8. ASSUME NEW t \in {"suggestions", "execution", "away"}, Show(t) PROVE IInv'
  BY <1>8, ShowKeeps
<1>9. CASE UNCHANGED vars
  BY <1>9 DEF vars, cacheVars, historyVars, IInv, TypeOK, FetchesOwn, InFlight, CallsKnown,
              OnPage, Now, RanIsAcked, NextIsFresh, Pending
<1> QED
  BY <1>1, <1>2, <1>3, <1>4, <1>5, <1>6, <1>7, <1>8, <1>9 DEF Next

\* The invariant holds in every behaviour.
LEMMA Invariance == FairSpec => []IInv
BY InitKeeps, StepKeeps, PTL DEF Spec, FairSpec

\* Every variable of the page keeps its type.
THEOREM TypeCorrect == FairSpec => []TypeOK
<1>1. IInv => TypeOK
  BY DEF IInv
<1> QED
  BY <1>1, Invariance, PTL

\* What a query shows or is about to show takes in every own change.
THEOREM OwnWritesAreShown == FairSpec => []OwnWritesShow
<1>1. IInv => OwnWritesShow
  BY DEF IInv, FetchesOwn, OwnWritesShow
<1> QED
  BY <1>1, Invariance, PTL

\* When Execute Next can be clicked again, the list is newer than the last click.
THEOREM NextIsAlwaysFresh == FairSpec => []NextIsFresh
<1>1. IInv => NextIsFresh
  BY DEF IInv
<1> QED
  BY <1>1, Invariance, PTL
=============================================================================
