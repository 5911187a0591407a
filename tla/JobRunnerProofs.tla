-------------------------- MODULE JobRunnerProofs --------------------------
(***************************************************************************)
(* Proofs about JobRunner for every set of jobs and of requests, every     *)
(* number of slots, every set of endpoints and faults.  First the          *)
(* semaphore; then, as long as no two requests are about to write the same *)
(* row, the rows: rows and executors live by JobLifecycle; no job is left  *)
(* in flight where nothing is cancelled and nothing fails; and no index    *)
(* has two jobs in flight where execute-all alone starts them.             *)
(***************************************************************************)
EXTENDS JobRunner, FiniteSetTheorems, SequenceTheorems, TLAPS

-----------------------------------------------------------------------------
(* Facts about the operators of the semaphore.                             *)

\* Any set of jobs is finite and has a natural number of elements.
LEMMA JobSetFinite ==
    ASSUME NEW S \in SUBSET Job
    PROVE  IsFiniteSet(S) /\ Cardinality(S) \in Nat
BY JobAssumption, FS_Subset, FS_CardinalityType

\* Leaving the queue keeps it a sequence of jobs.
LEMMA WithoutType ==
    ASSUME NEW w \in Seq(Job), NEW j
    PROVE  Without(w, j) \in Seq(Job)
<1> DEFINE i == CHOOSE k \in DOMAIN w : w[k] = j
           f == [k \in 1 .. Len(w) - 1 |-> IF k < i THEN w[k] ELSE w[k + 1]]
<1>1. Len(w) \in Nat /\ DOMAIN w = 1 .. Len(w)
  BY LenProperties
<1>2. \A k \in 1 .. Len(w) - 1 : f[k] \in Job
  BY <1>1, ElementOfSeq
<1>3. CASE Len(w) = 0
  <2>1. f = << >>
    BY <1>1, <1>3
  <2> QED BY <2>1 DEF Without
<1>4. CASE Len(w) # 0
  <2>1. Len(w) - 1 \in Nat
    BY <1>1, <1>4
  <2>2. f \in [1 .. Len(w) - 1 -> Job]
    BY <1>2
  <2> HIDE DEF f
  <2>3. f \in Seq(Job)
    BY <2>1, <2>2, IsASeq
  <2> QED BY <2>3 DEF Without, f
<1> QED BY <1>3, <1>4

\* Waking n waiters wakes a set of at most n jobs, all of them waiting.
LEMMA WokenBounds ==
    ASSUME NEW W \in SUBSET Job, NEW n \in Nat, NEW S \in SUBSET Job, NEW w,
           Woken(W, n, S, w)
    PROVE  W \subseteq S /\ Cardinality(W) \in 0 .. n
<1>1. Cardinality(S) \in Nat /\ Cardinality(W) \in Nat
  BY JobSetFinite
<1> QED BY <1>1 DEF Woken

\* The cardinality of a set of jobs from which D goes and to which A comes.
LEMMA CardinalityExchange ==
    ASSUME NEW H \in SUBSET Job, NEW D \in SUBSET H, NEW A \in SUBSET Job,
           A \cap H = {}
    PROVE  Cardinality((H \ D) \cup A)
             = Cardinality(H) - Cardinality(D) + Cardinality(A)
<1>1. IsFiniteSet(H) /\ IsFiniteSet(D) /\ IsFiniteSet(A) /\ IsFiniteSet(H \ D)
  BY JobSetFinite
<1>2. /\ Cardinality(H) \in Nat /\ Cardinality(D) \in Nat
      /\ Cardinality(A) \in Nat /\ Cardinality(H \ D) \in Nat
  BY JobSetFinite
<1>3. Cardinality(H \ D) = Cardinality(H) - Cardinality(D)
  <2>1. H \cap D = D
    OBVIOUS
  <2> QED BY <1>1, <2>1, FS_Difference
<1>4. (H \ D) \cap A = {}
  OBVIOUS
<1>5. Cardinality((H \ D) \cap A) = 0
  BY <1>4, FS_EmptySet
<1>6. Cardinality((H \ D) \cup A)
        = Cardinality(H \ D) + Cardinality(A) - Cardinality((H \ D) \cap A)
  BY <1>1, FS_Union
<1> QED BY <1>2, <1>3, <1>5, <1>6

-----------------------------------------------------------------------------
(* Type correctness and the conservation of slots.                         *)
(*                                                                         *)
(* Neither is inductive alone: the free slots stay within 0..MaxConcurrent *)
(* only because each is either free or held, and a row keeps its type      *)
(* because a task persists an outcome only once it has one.                *)

\* A task that is about to persist an outcome has one.
Reporting == {"finishing", "finalizing"}
OutcomeKnown == \A j \in Job : task[j] \in Reporting => outcome[j] # "none"

Accounted == TypeOK /\ OutcomeKnown /\ SlotsConserved

Holding == Slotted \cup {"granted"}

\* A step that leaves the free slots and the holders alone keeps the account.
LEMMA QuietStep ==
    ASSUME Accounted, slots' = slots,
           \A k \in Job : task'[k] \in Holding <=> task[k] \in Holding
    PROVE  SlotsConserved'
<1>1. Holders' = Holders
  BY DEF Holders, Holding
<1> QED BY <1>1 DEF Accounted, SlotsConserved

\* A task that takes the free slot it has found becomes a holder.
LEMMA TakeStep ==
    ASSUME Accounted, NEW j \in Job, task[j] \notin Holding, slots # 0,
           slots' = slots - 1, task' = [task EXCEPT ![j] = "slotted"]
    PROVE  SlotsConserved' /\ slots' \in 0 .. MaxConcurrent
<1> USE MaxConcurrentAssumption
<1>1. Holders' = (Holders \ {}) \cup {j}
  BY DEF Holders, Holding, Slotted, Accounted, TypeOK
<1>2. Holders \in SUBSET Job /\ Holders \cap {j} = {}
  BY DEF Holders, Holding
<1>3. Cardinality(Holders') = Cardinality(Holders) - 0 + 1
  <2>1. Cardinality((Holders \ {}) \cup {j})
          = Cardinality(Holders) - Cardinality({}) + Cardinality({j})
    BY <1>2, CardinalityExchange
  <2>2. Cardinality({}) = 0 /\ Cardinality({j}) = 1
    BY FS_EmptySet, FS_Singleton
  <2> QED BY <1>1, <2>1, <2>2
<1>4. Cardinality(Holders) \in Nat
  BY <1>2, JobSetFinite
<1> QED BY <1>3, <1>4 DEF Accounted, SlotsConserved, TypeOK

\* The end of a task frees its slot, or hands it to the waiter it wakes.
LEMMA ReleaseStep ==
    ASSUME Accounted, NEW j \in Job, task[j] \in Slotted, Release(j)
    PROVE  /\ SlotsConserved'
           /\ slots' \in 0 .. MaxConcurrent
           /\ task' \in [Job -> Phase]
           /\ waiters' \in Seq(Job)
           /\ \A k \in Job : task'[k] \in Reporting => k # j /\ task[k] \in Reporting
<1> USE MaxConcurrentAssumption
<1> DEFINE S == Sleeping(task, interrupted)
<1>1. PICK W \in SUBSET Job :
          /\ Woken(W, 1, S, waiters)
          /\ task' = [k \in Job |-> IF k = j THEN "ended"
                                    ELSE IF k \in W THEN "granted" ELSE task[k]]
          /\ slots' = slots + 1 - Cardinality(W)
  BY DEF Release
<1>2. S \in SUBSET Job
  BY DEF Sleeping
<1>3. W \subseteq S /\ Cardinality(W) \in 0 .. 1
  BY <1>1, <1>2, WokenBounds
<1>4. Holders \in SUBSET Job /\ {j} \in SUBSET Holders /\ W \cap Holders = {}
  BY <1>3 DEF Holders, Sleeping, Slotted
<1>5. Holders' = (Holders \ {j}) \cup W
  <2> SUFFICES ASSUME NEW k \in Job
               PROVE  k \in Holders' <=> k \in (Holders \ {j}) \cup W
    BY DEF Holders
  <2>1. k \in Holders' <=> task'[k] \in Slotted \cup {"granted"}
    BY DEF Holders
  <2> QED BY <1>1, <1>4, <2>1 DEF Holders, Slotted
<1>6. Cardinality(Holders') = Cardinality(Holders) - 1 + Cardinality(W)
  <2>1. Cardinality((Holders \ {j}) \cup W)
          = Cardinality(Holders) - Cardinality({j}) + Cardinality(W)
    BY <1>4, CardinalityExchange
  <2>2. Cardinality({j}) = 1
    BY FS_Singleton
  <2> QED BY <1>5, <2>1, <2>2
<1>7. Cardinality(Holders) \in Nat /\ Cardinality(Holders') \in Nat
  BY <1>4, <1>5, JobSetFinite
<1>8. SlotsConserved'
  BY <1>1, <1>3, <1>6, <1>7 DEF Accounted, SlotsConserved, TypeOK
<1>9. slots' \in 0 .. MaxConcurrent
  BY <1>1, <1>3, <1>7, <1>8 DEF Accounted, SlotsConserved, TypeOK
<1>10. task' \in [Job -> Phase]
  BY <1>1 DEF Accounted, TypeOK, Phase
<1>11. waiters' \in Seq(Job)
  BY DEF Release, Accounted, TypeOK
<1>12. \A k \in Job : task'[k] \in Reporting => k # j /\ task[k] \in Reporting
  BY <1>1 DEF Reporting
<1> QED BY <1>8, <1>9, <1>10, <1>11, <1>12

\* A waiter that leaves the queue with its slot, or gives its slot back, passes
\* on what is free to the next waiters.
LEMMA LeaveStep ==
    ASSUME Accounted, NEW j \in Job, NEW p \in {"slotted", "reporting"},
           NEW n, LeaveQueue(j, p, n),
           \/ p = "slotted" /\ task[j] = "granted" /\ n = slots
           \/ p = "reporting" /\ task[j] = "granted" /\ n = slots + 1
           \/ p = "reporting" /\ task[j] = "waiting" /\ n = slots
    PROVE  /\ SlotsConserved'
           /\ slots' \in 0 .. MaxConcurrent
           /\ task' \in [Job -> Phase]
           /\ waiters' \in Seq(Job)
           /\ \A k \in Job : task'[k] \in Reporting => k # j /\ task[k] \in Reporting
<1> USE MaxConcurrentAssumption
<1> DEFINE S == Sleeping(task, interrupted) \ {j}
           D == IF n = slots THEN {} ELSE {j}
<1>1. PICK W \in SUBSET Job :
          /\ Woken(W, n, S, waiters)
          /\ task' = [k \in Job |-> IF k = j THEN p
                                    ELSE IF k \in W THEN "granted" ELSE task[k]]
          /\ slots' = n - Cardinality(W)
  BY DEF LeaveQueue
<1>2. S \in SUBSET Job
  BY DEF Sleeping
<1>3. n \in Nat
  BY DEF Accounted, TypeOK
<1>4. W \subseteq S /\ Cardinality(W) \in 0 .. n
  BY <1>1, <1>2, <1>3, WokenBounds
<1>5. slots + 1 # slots
  BY DEF Accounted, TypeOK
<1>6. Holders \in SUBSET Job /\ D \in SUBSET Holders /\ W \cap Holders = {}
  BY <1>4, <1>5 DEF Holders, Sleeping, Slotted
<1>7. Holders' = (Holders \ D) \cup W
  <2> SUFFICES ASSUME NEW k \in Job
               PROVE  k \in Holders' <=> k \in (Holders \ D) \cup W
    BY <1>6 DEF Holders
  <2>1. k \in Holders' <=> task'[k] \in Slotted \cup {"granted"}
    BY DEF Holders
  <2>2. k = j => k \notin W
    BY <1>4
  <2> QED BY <1>1, <1>4, <1>5, <1>6, <2>1, <2>2 DEF Holders, Slotted
<1>8. Cardinality(D) = n - slots
  <2>1. CASE n = slots
    <3>1. D = {} /\ Cardinality({}) = 0
      BY <2>1, FS_EmptySet
    <3> QED BY <2>1, <3>1, <1>3
  <2>2. CASE n = slots + 1
    <3>1. D = {j} /\ Cardinality({j}) = 1
      BY <2>2, <1>5, FS_Singleton
    <3> QED BY <2>2, <3>1 DEF Accounted, TypeOK
  <2> QED BY <2>1, <2>2
<1>9. Cardinality(Holders') = Cardinality(Holders) - Cardinality(D) + Cardinality(W)
  BY <1>6, <1>7, CardinalityExchange
<1>10. Cardinality(Holders) \in Nat /\ Cardinality(Holders') \in Nat
  BY <1>6, <1>7, JobSetFinite
<1>11. SlotsConserved'
  BY <1>1, <1>3, <1>4, <1>8, <1>9, <1>10 DEF Accounted, SlotsConserved, TypeOK
<1>12. slots' \in 0 .. MaxConcurrent
  BY <1>1, <1>3, <1>4, <1>10, <1>11 DEF Accounted, SlotsConserved, TypeOK
<1>13. task' \in [Job -> Phase]
  BY <1>1 DEF Accounted, TypeOK, Phase, Slotted
<1>14. waiters' \in Seq(Job)
  BY WithoutType DEF LeaveQueue, Accounted, TypeOK
<1>15. \A k \in Job : task'[k] \in Reporting => k # j /\ task[k] \in Reporting
  BY <1>1 DEF Reporting
<1> QED BY <1>11, <1>12, <1>13, <1>14, <1>15

\* Every step of a task keeps the account.
LEMMA TaskAccounted ==
    ASSUME Accounted, NEW j \in Job, TaskStep(j) \/ ExecutorEnds(j)
    PROVE  Accounted'
<1> USE DEF Accounted, TypeOK, OutcomeKnown, Reporting, Holding, Slotted, Phase, At, Resumes, Goto, Write,
        Status, InFlight, Terminal, Gone, Outcomes, processVars
<1>1. CASE Acquire(j)
  <2>1. CASE Locked
    <3>1. waiters' \in Seq(Job)
      BY <1>1, <2>1, AppendProperties DEF Acquire
    <3>2. task' \in [Job -> Phase]
      BY <1>1, <2>1 DEF Acquire
    <3>3. TypeOK' /\ OutcomeKnown'
      BY <1>1, <2>1, <3>1, <3>2 DEF Acquire
    <3>4. slots' = slots /\ \A k \in Job : task'[k] \in Holding <=> task[k] \in Holding
      BY <1>1, <2>1 DEF Acquire
    <3> QED BY <3>3, <3>4, QuietStep
  <2>2. CASE ~ Locked
    <3>1. /\ task[j] \notin Holding /\ slots # 0 /\ slots' = slots - 1
          /\ task' = [task EXCEPT ![j] = "slotted"]
      BY <1>1, <2>2 DEF Acquire, Locked
    <3>2. SlotsConserved' /\ slots' \in 0 .. MaxConcurrent
      BY <3>1, TakeStep
    <3>3. TypeOK' /\ OutcomeKnown'
      BY <1>1, <2>2, <3>2 DEF Acquire
    <3> QED BY <3>2, <3>3
  <2> QED BY <2>1, <2>2
<1>2. CASE Granted(j)
  <2>1. LeaveQueue(j, "slotted", slots) /\ task[j] = "granted"
    BY <1>2 DEF Granted
  <2>2. SlotsConserved' /\ slots' \in 0 .. MaxConcurrent
        /\ task' \in [Job -> Phase] /\ waiters' \in Seq(Job)
        /\ \A k \in Job : task'[k] \in Reporting => k # j /\ task[k] \in Reporting
    BY <2>1, LeaveStep
  <2> QED BY <1>2, <2>2 DEF Granted
<1>3. CASE ReadRow(j)
  <2>1. TypeOK' /\ OutcomeKnown'
    BY <1>3 DEF ReadRow
  <2>2. SlotsConserved'
    <3>1. slots' = slots /\ \A k \in Job : task'[k] \in Holding <=> task[k] \in Holding
      BY <1>3 DEF ReadRow
    <3> QED BY <3>1, QuietStep
  <2> QED BY <2>1, <2>2
<1>4. CASE FlipCommit(j)
  <2>1. TypeOK' /\ OutcomeKnown'
    BY <1>4 DEF FlipCommit
  <2>2. SlotsConserved'
    <3>1. slots' = slots /\ \A k \in Job : task'[k] \in Holding <=> task[k] \in Holding
      BY <1>4 DEF FlipCommit
    <3> QED BY <3>1, QuietStep
  <2> QED BY <2>1, <2>2
<1>5. CASE FlipFails(j)
  <2>1. task[j] \in Slotted /\ Release(j)
    BY <1>5 DEF FlipFails, Slotted
  <2>2. SlotsConserved' /\ slots' \in 0 .. MaxConcurrent
        /\ task' \in [Job -> Phase] /\ waiters' \in Seq(Job)
        /\ \A k \in Job : task'[k] \in Reporting => k # j /\ task[k] \in Reporting
    BY <2>1, ReleaseStep
  <2> QED BY <1>5, <2>2 DEF FlipFails
<1>6. CASE EnterExecutor(j)
  <2>1. TypeOK' /\ OutcomeKnown'
    BY <1>6 DEF EnterExecutor
  <2>2. SlotsConserved'
    <3>1. slots' = slots /\ \A k \in Job : task'[k] \in Holding <=> task[k] \in Holding
      BY <1>6 DEF EnterExecutor
    <3> QED BY <3>1, QuietStep
  <2> QED BY <2>1, <2>2
<1>7. CASE FactoryFails(j)
  <2>1. task[j] \in Slotted /\ Release(j)
    BY <1>7 DEF FactoryFails, Slotted
  <2>2. SlotsConserved' /\ slots' \in 0 .. MaxConcurrent
        /\ task' \in [Job -> Phase] /\ waiters' \in Seq(Job)
        /\ \A k \in Job : task'[k] \in Reporting => k # j /\ task[k] \in Reporting
    BY <2>1, ReleaseStep
  <2> QED BY <1>7, <2>2 DEF FactoryFails
<1>8. CASE ExecutorEnds(j)
  <2>1. TypeOK' /\ OutcomeKnown'
    BY <1>8 DEF ExecutorEnds
  <2>2. SlotsConserved'
    <3>1. slots' = slots /\ \A k \in Job : task'[k] \in Holding <=> task[k] \in Holding
      BY <1>8 DEF ExecutorEnds
    <3> QED BY <3>1, QuietStep
  <2> QED BY <2>1, <2>2
<1>9. CASE FinalizeRead(j)
  <2>1. TypeOK' /\ OutcomeKnown'
    BY <1>9 DEF FinalizeRead
  <2>2. SlotsConserved'
    <3>1. slots' = slots /\ \A k \in Job : task'[k] \in Holding <=> task[k] \in Holding
      BY <1>9 DEF FinalizeRead
    <3> QED BY <3>1, QuietStep
  <2> QED BY <2>1, <2>2
<1>10. CASE FinalizeCommit(j)
  <2>1. TypeOK' /\ OutcomeKnown'
    BY <1>10 DEF FinalizeCommit
  <2>2. SlotsConserved'
    <3>1. slots' = slots /\ \A k \in Job : task'[k] \in Holding <=> task[k] \in Holding
      BY <1>10 DEF FinalizeCommit
    <3> QED BY <3>1, QuietStep
  <2> QED BY <2>1, <2>2
<1>11. CASE Close(j)
  <2>1. task[j] \in Slotted /\ Release(j)
    BY <1>11 DEF Close, Slotted
  <2>2. SlotsConserved' /\ slots' \in 0 .. MaxConcurrent
        /\ task' \in [Job -> Phase] /\ waiters' \in Seq(Job)
        /\ \A k \in Job : task'[k] \in Reporting => k # j /\ task[k] \in Reporting
    BY <2>1, ReleaseStep
  <2> QED BY <1>11, <2>2 DEF Close
<1>12. CASE MarkRead(j)
  <2>1. TypeOK' /\ OutcomeKnown'
    BY <1>12 DEF MarkRead
  <2>2. SlotsConserved'
    <3>1. slots' = slots /\ \A k \in Job : task'[k] \in Holding <=> task[k] \in Holding
      BY <1>12 DEF MarkRead
    <3> QED BY <3>1, QuietStep
  <2> QED BY <2>1, <2>2
<1>13. CASE MarkCommit(j)
  <2>1. TypeOK' /\ OutcomeKnown'
    BY <1>13 DEF MarkCommit
  <2>2. SlotsConserved'
    <3>1. slots' = slots /\ \A k \in Job : task'[k] \in Holding <=> task[k] \in Holding
      BY <1>13 DEF MarkCommit
    <3> QED BY <3>1, QuietStep
  <2> QED BY <2>1, <2>2
<1>14. CASE Evict(j)
  <2>1. TypeOK' /\ OutcomeKnown'
    BY <1>14 DEF Evict
  <2>2. SlotsConserved'
    <3>1. slots' = slots /\ \A k \in Job : task'[k] \in Holding <=> task[k] \in Holding
      BY <1>14 DEF Evict
    <3> QED BY <3>1, QuietStep
  <2> QED BY <2>1, <2>2
<1>15. CASE CancelUnstarted(j)
  <2>1. TypeOK' /\ OutcomeKnown'
    BY <1>15 DEF CancelUnstarted
  <2>2. SlotsConserved'
    <3>1. slots' = slots /\ \A k \in Job : task'[k] \in Holding <=> task[k] \in Holding
      BY <1>15 DEF CancelUnstarted
    <3> QED BY <3>1, QuietStep
  <2> QED BY <2>1, <2>2
<1>16. CASE CancelWaiting(j)
  <2>1. /\ LeaveQueue(j, "reporting", slots + Regained(j))
        /\ \/ task[j] = "granted" /\ slots + Regained(j) = slots + 1
           \/ task[j] = "waiting" /\ slots + Regained(j) = slots
    BY <1>16 DEF CancelWaiting, Regained
  <2>2. SlotsConserved' /\ slots' \in 0 .. MaxConcurrent
        /\ task' \in [Job -> Phase] /\ waiters' \in Seq(Job)
        /\ \A k \in Job : task'[k] \in Reporting => k # j /\ task[k] \in Reporting
    BY <2>1, LeaveStep
  <2> QED BY <1>16, <2>2 DEF CancelWaiting
<1>17. CASE CancelReporting(j)
  <2>1. TypeOK' /\ OutcomeKnown'
    BY <1>17 DEF CancelReporting
  <2>2. SlotsConserved'
    <3>1. slots' = slots /\ \A k \in Job : task'[k] \in Holding <=> task[k] \in Holding
      BY <1>17 DEF CancelReporting
    <3> QED BY <3>1, QuietStep
  <2> QED BY <2>1, <2>2
<1>18. CASE CancelInSession(j)
  <2>1. task[j] \in Slotted /\ Release(j)
    BY <1>18 DEF CancelInSession, Slotted
  <2>2. SlotsConserved' /\ slots' \in 0 .. MaxConcurrent
        /\ task' \in [Job -> Phase] /\ waiters' \in Seq(Job)
        /\ \A k \in Job : task'[k] \in Reporting => k # j /\ task[k] \in Reporting
    BY <2>1, ReleaseStep
  <2> QED BY <1>18, <2>2 DEF CancelInSession
<1>19. CASE CancelExecutor(j)
  <2>1. TypeOK' /\ OutcomeKnown'
    BY <1>19 DEF CancelExecutor
  <2>2. SlotsConserved'
    <3>1. slots' = slots /\ \A k \in Job : task'[k] \in Holding <=> task[k] \in Holding
      BY <1>19 DEF CancelExecutor
    <3> QED BY <3>1, QuietStep
  <2> QED BY <2>1, <2>2
<1>20. CASE ReadFails(j)
  <2>1. task[j] \in Slotted /\ Release(j)
    BY <1>20 DEF ReadFails, Slotted
  <2>2. SlotsConserved' /\ slots' \in 0 .. MaxConcurrent
        /\ task' \in [Job -> Phase] /\ waiters' \in Seq(Job)
        /\ \A k \in Job : task'[k] \in Reporting => k # j /\ task[k] \in Reporting
    BY <2>1, ReleaseStep
  <2> QED BY <1>20, <2>2 DEF ReadFails
<1>21. CASE MarkFails(j)
  <2>1. TypeOK' /\ OutcomeKnown'
    BY <1>21 DEF MarkFails
  <2>2. SlotsConserved'
    <3>1. slots' = slots /\ \A k \in Job : task'[k] \in Holding <=> task[k] \in Holding
      BY <1>21 DEF MarkFails
    <3> QED BY <3>1, QuietStep
  <2> QED BY <2>1, <2>2
<1> QED
  BY <1>1, <1>2, <1>3, <1>4, <1>5, <1>6, <1>7, <1>8, <1>9, <1>10, <1>11, <1>12, <1>13, <1>14, <1>15,
     <1>16, <1>17, <1>18, <1>19, <1>20, <1>21 DEF TaskStep

\* Requests write rows, create tasks and interrupt them; none touches a slot.
LEMMA RequestAccounted ==
    ASSUME Accounted, NEW h \in Request, RequestBegins(h) \/ RequestContinues(h)
    PROVE  Accounted'
<1> USE DEF Accounted, TypeOK, OutcomeKnown, Reporting, Holding, Slotted, Phase, Status, InFlight, Terminal,
        Gone, AllOps, runnerVars, processVars, Free, Doing, Become, Done, Idle,
        WithStatus, WriteAll, Write
<1> DEFINE Quiet == /\ TypeOK' /\ OutcomeKnown' /\ slots' = slots
                    /\ \A k \in Job : task'[k] \in Holding <=> task[k] \in Holding
<1>1. SUFFICES Quiet
  BY QuietStep
<1>2. ASSUME NEW j \in Job, ReadApprove(h, j) PROVE Quiet
  BY <1>2 DEF ReadApprove, ReadJob
<1>3. ASSUME NEW j \in Job, ReadReject(h, j) PROVE Quiet
  BY <1>3 DEF ReadReject, ReadJob
<1>4. ASSUME NEW j \in Job, ReadExecute(h, j) PROVE Quiet
  BY <1>4 DEF ReadExecute, ReadJob
<1>5. ASSUME NEW j \in Job, ReadCancel(h, j) PROVE Quiet
  BY <1>5 DEF ReadCancel, ReadJob
<1>6. ASSUME NEW j \in Job, CommitCreate(h, j) PROVE Quiet
  BY <1>6 DEF CommitCreate
<1>7. CASE ReadRecommend(h)
  BY <1>7 DEF ReadRecommend, ReadRows
<1>8. CASE ReadBulkApprove(h)
  BY <1>8 DEF ReadBulkApprove, ReadRows
<1>9. CASE ReadExecuteAll(h)
  BY <1>9 DEF ReadExecuteAll, ReadRows
<1>10. CASE ReadClearQueue(h)
  BY <1>10 DEF ReadClearQueue
<1>11. CASE ClearHistory(h)
  BY <1>11 DEF ClearHistory
<1>12. CASE GateExecuteAll(h)
  BY <1>12 DEF GateExecuteAll, Batches
<1>13. CASE CommitApprove(h)
  BY <1>13 DEF CommitApprove
<1>14. CASE CommitReject(h)
  BY <1>14 DEF CommitReject
<1>15. CASE CommitRecommend(h)
  BY <1>15 DEF CommitRecommend
<1>16. CASE CommitExecute(h)
  BY <1>16 DEF CommitExecute
<1>17. CASE CommitClearQueue(h)
  BY <1>17 DEF CommitClearQueue, Dequeued
<1>18. CASE SubmitJobs(h)
  BY <1>18 DEF SubmitJobs, Submit
<1>19. CASE CancelTasks(h)
  BY <1>19 DEF CancelTasks, Interrupt
<1>20. CASE RequestFails(h)
  BY <1>20 DEF RequestFails
<1> QED BY <1>2, <1>3, <1>4, <1>5, <1>6, <1>7, <1>8, <1>9, <1>10, <1>11, <1>12, <1>13, <1>14, <1>15, <1>16, <1>17, <1>18, <1>19, <1>20 DEF RequestBegins, RequestContinues

\* A new process starts with every slot free and no task.
LEMMA LostAccounted ==
    ASSUME Accounted, Lost, process' \in {"up", "stopping", "down"},
           crashes' \in 0 .. MaxCrashes
    PROVE  Accounted'
<1>1. TypeOK' /\ OutcomeKnown'
  BY MaxConcurrentAssumption, EmptySeq
     DEF Accounted, TypeOK, OutcomeKnown, Reporting, Lost, Phase, Outcomes, Idle
<1>2. Holders' = {}
  BY DEF Lost, Holders, Slotted
<1>3. Cardinality(Holders') = 0
  BY <1>2, FS_EmptySet
<1>4. SlotsConserved'
  BY <1>3, MaxConcurrentAssumption DEF SlotsConserved, Lost
<1> QED BY <1>1, <1>4 DEF Accounted

\* Crash, shutdown and restart keep the account.
LEMMA ProcessAccounted ==
    ASSUME Accounted, Crash \/ StopAll \/ Stopped \/ Recover
    PROVE  Accounted'
<1>1. CASE Crash
  BY <1>1, LostAccounted, BoundAssumption DEF Crash, Lost, Accounted, TypeOK
<1>2. CASE StopAll
  <2>1. TypeOK' /\ OutcomeKnown'
    BY <1>2, BoundAssumption
       DEF StopAll, Interrupt, Accounted, TypeOK, OutcomeKnown, Reporting
  <2>2. SlotsConserved'
    BY <1>2, QuietStep DEF StopAll
  <2> QED BY <2>1, <2>2 DEF Accounted
<1>3. CASE Stopped
  BY <1>3, LostAccounted DEF Stopped, Lost, Accounted, TypeOK
<1>4. CASE Recover
  <2>1. TypeOK' /\ OutcomeKnown'
    BY <1>4 DEF Recover, Submit, Requeued, Resumed, Accounted, TypeOK,
                OutcomeKnown, Reporting, Phase, Status, InFlight
  <2>2. slots' = slots /\ \A k \in Job : task'[k] \in Holding <=> task[k] \in Holding
    BY <1>4 DEF Recover, Submit, Accounted, TypeOK, Holding, Slotted
  <2> QED BY <2>1, <2>2, QuietStep DEF Accounted
<1> QED BY <1>1, <1>2, <1>3, <1>4

\* Initially every slot is free.
LEMMA InitAccounted == Init => Accounted
<1> SUFFICES ASSUME Init PROVE Accounted
  OBVIOUS
<1>1. TypeOK /\ OutcomeKnown
  BY MaxConcurrentAssumption, BoundAssumption, EmptySeq
     DEF Init, TypeOK, OutcomeKnown, Reporting, Phase, Outcomes, Gone, Idle
<1>2. Holders = {}
  BY DEF Init, Holders, Slotted
<1>3. Cardinality(Holders) = 0
  BY <1>2, FS_EmptySet
<1> QED BY <1>1, <1>3, MaxConcurrentAssumption DEF Accounted, SlotsConserved, Init

\* Every step.
LEMMA NextAccounted == Accounted /\ [Next]_vars => Accounted'
<1> SUFFICES ASSUME Accounted, [Next]_vars PROVE Accounted'
  OBVIOUS
<1>1. CASE Next
  BY <1>1, TaskAccounted, RequestAccounted, ProcessAccounted DEF Next
<1>2. CASE UNCHANGED vars
  <2>1. TypeOK' /\ OutcomeKnown'
    BY <1>2 DEF vars, runnerVars, processVars, Accounted, TypeOK, OutcomeKnown
  <2>2. SlotsConserved'
    BY <1>2, QuietStep DEF vars, runnerVars
  <2> QED BY <2>1, <2>2 DEF Accounted
<1> QED BY <1>1, <1>2

\* Free slots and holders always make up the cap.
THEOREM AlwaysAccounted == Spec => []Accounted
BY InitAccounted, NextAccounted, PTL DEF Spec

\* Every variable of the runner keeps its type; in particular the semaphore's
\* value never leaves 0..max_concurrent.
THEOREM TypeCorrect == Spec => []TypeOK
<1>1. Accounted => TypeOK
  BY DEF Accounted
<1> QED BY <1>1, AlwaysAccounted, PTL

\* No slot is lost or handed out twice, however tasks are cancelled, fail or
\* are restarted and however requests overlap.
THEOREM SlotsAreConserved == Spec => []SlotsConserved
<1>1. Accounted => SlotsConserved
  BY DEF Accounted
<1> QED BY <1>1, AlwaysAccounted, PTL

\* At most max_concurrent executors run at any moment, in any deployment.
THEOREM ExecutorsStayWithinCap == Spec => []ExecutorsWithinCap
<1>1. Accounted => ExecutorsWithinCap
  <2> SUFFICES ASSUME Accounted PROVE ExecutorsWithinCap
    OBVIOUS
  <2>1. Running \subseteq Holders /\ Holders \in SUBSET Job
    BY DEF Running, Holders, Slotted
  <2>2. Cardinality(Running) <= Cardinality(Holders)
    BY <2>1, JobSetFinite, FS_Subset
  <2>3. Cardinality(Holders) \in Nat /\ Cardinality(Running) \in Nat
    BY <2>1, JobSetFinite
  <2> QED BY <2>2, <2>3, MaxConcurrentAssumption
          DEF Accounted, SlotsConserved, TypeOK, ExecutorsWithinCap
<1> QED BY <1>1, AlwaysAccounted, PTL

-----------------------------------------------------------------------------
(* No wake-up is lost.                                                     *)
(*                                                                         *)
(* acquire() queues behind a waiter even when a slot is free, so the proof *)
(* needs that every queued future belongs to a task that still waits or    *)
(* has been granted a slot.                                                *)

InQueue == {"waiting", "granted"}

QueueSound ==
    /\ \A i, k \in DOMAIN waiters : waiters[i] = waiters[k] => i = k
    /\ \A i \in DOMAIN waiters : task[waiters[i]] \in InQueue
    /\ \A j \in Job : task[j] \in InQueue => \E i \in DOMAIN waiters : waiters[i] = j

Awake == QueueSound /\ NoLostWakeup

\* Removing a queued j from a queue without duplicates leaves the others, once
\* each.
LEMMA WithoutSound ==
    ASSUME NEW w \in Seq(Job), NEW j,
           \A i, k \in DOMAIN w : w[i] = w[k] => i = k,
           \E k \in DOMAIN w : w[k] = j
    PROVE  /\ \A i \in DOMAIN Without(w, j) :
                  \E k \in DOMAIN w : Without(w, j)[i] = w[k] /\ w[k] # j
           /\ \A k \in DOMAIN w : w[k] # j =>
                  \E i \in DOMAIN Without(w, j) : Without(w, j)[i] = w[k]
           /\ \A i, k \in DOMAIN Without(w, j) :
                  Without(w, j)[i] = Without(w, j)[k] => i = k
<1> DEFINE c == CHOOSE k \in DOMAIN w : w[k] = j
           f == [k \in 1 .. Len(w) - 1 |-> IF k < c THEN w[k] ELSE w[k + 1]]
           at(k) == IF k < c THEN k ELSE k + 1
           from(k) == IF k < c THEN k ELSE k - 1
<1>1. Len(w) \in Nat /\ DOMAIN w = 1 .. Len(w)
  BY LenProperties
<1>2. c \in 1 .. Len(w) /\ w[c] = j
  BY <1>1
<1>3. DOMAIN f = 1 .. Len(w) - 1 /\ Without(w, j) = f
  BY DEF Without
<1> HIDE DEF c
<1>4. \A k \in 1 .. Len(w) - 1 :
         at(k) \in DOMAIN w /\ at(k) # c /\ f[k] = w[at(k)]
  BY <1>1, <1>2
<1>5. \A k \in 1 .. Len(w) - 1 : w[at(k)] # j
  BY <1>1, <1>2, <1>4
<1>6. \A i, k \in 1 .. Len(w) - 1 : at(i) = at(k) => i = k
  BY <1>1, <1>2
<1>7. \A k \in 1 .. Len(w) : k # c =>
         from(k) \in 1 .. Len(w) - 1 /\ at(from(k)) = k
  BY <1>1, <1>2
<1> HIDE DEF f, at, from
<1>8. \A i \in DOMAIN f : \E k \in DOMAIN w : f[i] = w[k] /\ w[k] # j
  BY <1>3, <1>4, <1>5
<1>9. \A k \in DOMAIN w : w[k] # j => \E i \in DOMAIN f : f[i] = w[k]
  BY <1>1, <1>2, <1>3, <1>4, <1>7
<1>10. \A i, k \in DOMAIN f : f[i] = f[k] => i = k
  BY <1>3, <1>4, <1>6
<1> QED BY <1>3, <1>8, <1>9, <1>10

\* A step that leaves the queue and its tasks alone, frees no slot and calms no
\* interrupted waiter loses no wake-up.
LEMMA QuietQueue ==
    ASSUME Accounted, Awake, slots' \in 0 .. slots, waiters' = waiters,
           \A k \in Job : task'[k] # task[k] => {task[k], task'[k]} \cap InQueue = {},
           \A k \in Job : task[k] = "waiting" /\ k \in interrupted
                           => k \in interrupted'
    PROVE  Awake'
<1>1. \A i \in DOMAIN waiters : waiters[i] \in Job
  BY LenProperties, ElementOfSeq DEF Accounted, TypeOK
<1>2. QueueSound'
  BY <1>1 DEF Awake, QueueSound
<1>3. NoLostWakeup'
  <2> SUFFICES ASSUME slots' > 0, Sleeping(task', interrupted') # {}
               PROVE  \E k \in Job : task'[k] = "granted"
    BY DEF NoLostWakeup
  <2>1. slots > 0
    BY DEF Accounted, TypeOK
  <2>2. Sleeping(task, interrupted) # {}
    BY DEF Sleeping, InQueue
  <2>3. PICK k \in Job : task[k] = "granted"
    BY <2>1, <2>2 DEF Awake, NoLostWakeup
  <2> QED BY <2>3 DEF InQueue
<1> QED BY <1>2, <1>3 DEF Awake

\* If n slots are offered and some are left over, every sleeper was woken.
LEMMA WokenAll ==
    ASSUME NEW n \in Nat, NEW S \in SUBSET Job, NEW W \in SUBSET Job, NEW w,
           Woken(W, n, S, w), Cardinality(W) # n
    PROVE  W = S
<1>1. IsFiniteSet(S) /\ W \subseteq S
  BY JobSetFinite DEF Woken
<1>2. Cardinality(W) = Cardinality(S)
  BY DEF Woken
<1> QED BY <1>1, <1>2, FS_Subset

\* The end of a task wakes a waiter if there is one asleep.
LEMMA ReleaseAwake ==
    ASSUME Accounted, Awake, NEW j \in Job, task[j] \in Slotted, Release(j),
           interrupted \ {j} \subseteq interrupted'
    PROVE  Awake'
<1> DEFINE S == Sleeping(task, interrupted)
<1>1. PICK W \in SUBSET Job :
          /\ Woken(W, 1, S, waiters)
          /\ task' = [k \in Job |-> IF k = j THEN "ended"
                                    ELSE IF k \in W THEN "granted" ELSE task[k]]
          /\ slots' = slots + 1 - Cardinality(W)
  BY DEF Release
<1>2. W \subseteq S /\ S \in SUBSET Job /\ j \notin W
  BY <1>1 DEF Woken, Sleeping, Slotted
<1>3. \A i \in DOMAIN waiters : waiters[i] \in Job
  BY LenProperties, ElementOfSeq DEF Accounted, TypeOK
<1>4. QueueSound'
  BY <1>1, <1>2, <1>3 DEF Awake, QueueSound, InQueue, Release, Sleeping, Slotted
<1>5. NoLostWakeup'
  <2> SUFFICES ASSUME Sleeping(task', interrupted') # {}
               PROVE  \E k \in Job : task'[k] = "granted"
    BY DEF NoLostWakeup
  <2>1. W # {}
    <3>1. SUFFICES ASSUME W = {} PROVE FALSE
      OBVIOUS
    <3>2. Cardinality(W) = 0
      BY <3>1, FS_EmptySet
    <3>3. S = {}
      BY <1>1, <1>2, <3>1, <3>2, WokenAll
    <3> QED BY <1>1, <3>1, <3>3 DEF Sleeping
  <2> QED BY <1>1, <1>2, <2>1
<1> QED BY <1>4, <1>5 DEF Awake

\* A waiter that leaves the queue leaves no sleeper beside a free slot.
LEMMA LeaveAwake ==
    ASSUME Accounted, Awake, NEW j \in Job, NEW p \in {"slotted", "reporting"},
           NEW n \in Nat, LeaveQueue(j, p, n), task[j] \in InQueue,
           interrupted \ {j} \subseteq interrupted'
    PROVE  Awake'
<1> DEFINE S == Sleeping(task, interrupted) \ {j}
<1>1. PICK W \in SUBSET Job :
          /\ Woken(W, n, S, waiters)
          /\ task' = [k \in Job |-> IF k = j THEN p
                                    ELSE IF k \in W THEN "granted" ELSE task[k]]
          /\ slots' = n - Cardinality(W)
  BY DEF LeaveQueue
<1>2. W \subseteq S /\ S \in SUBSET Job /\ j \notin W
  BY <1>1 DEF Woken, Sleeping
<1>3. waiters' = Without(waiters, j) /\ waiters \in Seq(Job)
  BY DEF LeaveQueue, Accounted, TypeOK
<1>4. /\ \A i \in DOMAIN waiters' :
            \E k \in DOMAIN waiters : waiters'[i] = waiters[k] /\ waiters[k] # j
      /\ \A k \in DOMAIN waiters : waiters[k] # j =>
            \E i \in DOMAIN waiters' : waiters'[i] = waiters[k]
      /\ \A i, k \in DOMAIN waiters' : waiters'[i] = waiters'[k] => i = k
  BY <1>3, WithoutSound DEF Awake, QueueSound
<1>5. \A i \in DOMAIN waiters : waiters[i] \in Job
  BY <1>3, LenProperties, ElementOfSeq
<1>6. \A k \in Job : task'[k] \in InQueue <=> k # j /\ task[k] \in InQueue
  BY <1>1, <1>2 DEF InQueue, Sleeping
<1>7. QueueSound'
  <2>1. \A i \in DOMAIN waiters' : task'[waiters'[i]] \in InQueue
    BY <1>4, <1>5, <1>6 DEF Awake, QueueSound
  <2>2. \A k \in Job : task'[k] \in InQueue =>
           \E i \in DOMAIN waiters' : waiters'[i] = k
    BY <1>4, <1>6 DEF Awake, QueueSound
  <2> QED BY <1>4, <2>1, <2>2 DEF QueueSound
<1>8. NoLostWakeup'
  <2> SUFFICES ASSUME slots' > 0 PROVE Sleeping(task', interrupted') = {}
    BY DEF NoLostWakeup
  <2>1. Cardinality(W) # n
    BY <1>1
  <2>2. W = S
    BY <1>1, <1>2, <2>1, WokenAll
  <2> QED BY <1>1, <2>2 DEF Sleeping
<1> QED BY <1>7, <1>8 DEF Awake

\* The phases of tasks.
LEMMA TaskType == Accounted => task \in [Job -> Phase]
BY DEF Accounted, TypeOK

\* A task that has to wait joins the end of the queue.
LEMMA AcquireAwake ==
    ASSUME Accounted, Awake, NEW j \in Job, Acquire(j)
    PROVE  Awake'
<1> USE DEF Acquire, Resumes, At, Goto
<1>1. CASE ~ Locked
  <2>1. slots' \in 0 .. slots /\ waiters' = waiters
    BY <1>1 DEF Locked, Accounted, TypeOK
  <2>2. \A k \in Job : task'[k] # task[k] => {task[k], task'[k]} \cap InQueue = {}
    BY <1>1, TaskType DEF InQueue
  <2> QED BY <2>1, <2>2, QuietQueue
<1>2. CASE Locked
  <2>1. /\ waiters' = Append(waiters, j) /\ slots' = slots
        /\ task' = [task EXCEPT ![j] = "waiting"] /\ interrupted' = interrupted
    BY <1>2
  <2>2. waiters \in Seq(Job) /\ Len(waiters) \in Nat /\ DOMAIN waiters = 1 .. Len(waiters)
    BY LenProperties DEF Accounted, TypeOK
  <2>3. \A i \in DOMAIN waiters : waiters[i] \in Job
    BY <2>2, ElementOfSeq
  <2>4. /\ DOMAIN waiters' = 1 .. Len(waiters) + 1
        /\ \A i \in 1 .. Len(waiters) : waiters'[i] = waiters[i]
        /\ waiters'[Len(waiters) + 1] = j
    <3>1. waiters' \in Seq(Job) /\ Len(waiters') = Len(waiters) + 1
      BY <2>1, <2>2, AppendProperties
    <3>2. DOMAIN waiters' = 1 .. Len(waiters')
      BY <3>1, LenProperties
    <3> DEFINE q == Append(waiters, j)
    <3>3. (\A i \in 1 .. Len(waiters) : q[i] = waiters[i]) /\ q[Len(waiters) + 1] = j
      BY <2>2, AppendProperties
    <3>4. waiters' = q
      BY <2>1
    <3> HIDE DEF q
    <3>5. \A i \in 1 .. Len(waiters) : waiters'[i] = waiters[i]
      BY <3>3, <3>4
    <3>6. waiters'[Len(waiters) + 1] = j
      BY <3>3, <3>4
    <3> QED BY <3>1, <3>2, <3>5, <3>6
  <2>5. \A i \in DOMAIN waiters : waiters[i] # j
    BY DEF Awake, QueueSound, InQueue
  <2>6. task[j] = "created" /\ task \in [Job -> Phase]
    BY DEF Accounted, TypeOK
  <2>7. \A k \in Job : task'[k] = IF k = j THEN "waiting" ELSE task[k]
    BY <2>1, <2>6
  <2>8. QueueSound'
    <3>1. \A i, k \in DOMAIN waiters' : waiters'[i] = waiters'[k] => i = k
      BY <2>2, <2>4, <2>5 DEF Awake, QueueSound
    <3>2. \A i \in DOMAIN waiters' : task'[waiters'[i]] \in InQueue
      BY <2>2, <2>3, <2>4, <2>7 DEF Awake, QueueSound, InQueue
    <3>3. \A k \in Job : task'[k] \in InQueue =>
             \E i \in DOMAIN waiters' : waiters'[i] = k
      BY <2>2, <2>4, <2>7 DEF Awake, QueueSound
    <3> QED BY <3>1, <3>2, <3>3 DEF QueueSound
  <2>9. NoLostWakeup'
    <3> SUFFICES ASSUME slots' > 0
                 PROVE  \E k \in Job : task'[k] = "granted"
      BY DEF NoLostWakeup
    <3>1. PICK i \in DOMAIN waiters :
             ~ (task[waiters[i]] = "waiting" /\ waiters[i] \in interrupted)
      BY <1>2, <2>1 DEF Locked, Accounted, TypeOK
    <3>2. task[waiters[i]] \in InQueue
      BY <3>1 DEF Awake, QueueSound
    <3>3. \E k \in Job : task[k] = "granted"
      BY <2>1, <2>3, <3>1, <3>2 DEF Awake, NoLostWakeup, Sleeping, InQueue
    <3> QED BY <2>6, <2>7, <3>3
  <2> QED BY <2>8, <2>9 DEF Awake
<1> QED BY <1>1, <1>2

\* Every step of a task keeps the queue awake.
LEMMA TaskAwake ==
    ASSUME Accounted, Awake, NEW j \in Job, TaskStep(j) \/ ExecutorEnds(j)
    PROVE  Awake'
<1>1. CASE Acquire(j)
  BY <1>1, AcquireAwake
<1>2. CASE Granted(j)
  <2>1. slots \in Nat
    BY DEF Accounted, TypeOK
  <2> QED BY <1>2, <2>1, LeaveAwake DEF Granted, Resumes, At, InQueue
<1>3. CASE CancelWaiting(j)
  <2>1. slots + Regained(j) \in Nat
    BY DEF Accounted, TypeOK, Regained
  <2> QED BY <1>3, <2>1, LeaveAwake DEF CancelWaiting, At, InQueue
<1>4. CASE FlipFails(j) \/ FactoryFails(j) \/ ReadFails(j) \/ Close(j) \/ CancelInSession(j)
  BY <1>4, ReleaseAwake
     DEF FlipFails, FactoryFails, ReadFails, Close, CancelInSession, Resumes, At, Slotted
<1>5. CASE \/ ReadRow(j) \/ FlipCommit(j) \/ EnterExecutor(j) \/ ExecutorEnds(j)
           \/ FinalizeRead(j) \/ FinalizeCommit(j) \/ MarkRead(j) \/ MarkCommit(j)
           \/ MarkFails(j) \/ Evict(j) \/ CancelUnstarted(j) \/ CancelReporting(j)
           \/ CancelExecutor(j)
  <2> USE DEF ReadRow, FlipCommit, EnterExecutor, ExecutorEnds, FinalizeRead,
              FinalizeCommit, MarkRead, MarkCommit, MarkFails, Evict, CancelUnstarted,
              CancelReporting, CancelExecutor, Resumes, At, Goto
  <2>1. slots' \in 0 .. slots /\ waiters' = waiters
    BY <1>5 DEF Accounted, TypeOK
  <2>2. \A k \in Job : task'[k] # task[k] => {task[k], task'[k]} \cap InQueue = {}
    BY <1>5, TaskType DEF InQueue
  <2>3. \A k \in Job : task[k] = "waiting" /\ k \in interrupted => k \in interrupted'
    BY <1>5
  <2> QED BY <2>1, <2>2, <2>3, QuietQueue
<1> QED BY <1>1, <1>2, <1>3, <1>4, <1>5 DEF TaskStep

\* Requests only create tasks and interrupt them.
LEMMA RequestAwake ==
    ASSUME Accounted, Awake, NEW h \in Request, RequestBegins(h) \/ RequestContinues(h)
    PROVE  Awake'
<1>1. /\ slots' = slots /\ waiters' = waiters /\ interrupted \subseteq interrupted'
      /\ \/ task' = task
         \/ Submit(request[h].ids)
  BY DEF RequestBegins, RequestContinues, ReadApprove, ReadReject, ReadExecute,
         ReadCancel, ReadJob, CommitCreate, ReadRecommend, ReadBulkApprove,
         ReadExecuteAll, ReadRows, ReadClearQueue, ClearHistory, GateExecuteAll,
         CommitApprove, CommitReject, CommitRecommend, CommitExecute,
         CommitClearQueue, SubmitJobs, CancelTasks, RequestFails, Interrupt,
         runnerVars
<1>2. slots' \in 0 .. slots
  BY <1>1 DEF Accounted, TypeOK
<1>3. \A k \in Job : task'[k] # task[k] => {task[k], task'[k]} \cap InQueue = {}
  BY <1>1, TaskType DEF Submit, InQueue
<1> QED BY <1>1, <1>2, <1>3, QuietQueue

\* Nobody sleeps in a process that is gone.
LEMMA LostAwake ==
    ASSUME Lost PROVE Awake'
BY DEF Lost, Awake, QueueSound, NoLostWakeup, InQueue, Sleeping

\* Nor is anybody forgotten at the end of a process or at its start.
LEMMA ProcessAwake ==
    ASSUME Accounted, Awake, Crash \/ StopAll \/ Stopped \/ Recover
    PROVE  Awake'
<1>1. CASE Crash \/ Stopped
  BY <1>1, LostAwake DEF Crash, Stopped
<1>2. CASE StopAll \/ Recover
  <2>1. slots' \in 0 .. slots /\ waiters' = waiters /\ interrupted \subseteq interrupted'
    BY <1>2 DEF StopAll, Recover, Interrupt, Accounted, TypeOK
  <2>2. \A k \in Job : task'[k] # task[k] => {task[k], task'[k]} \cap InQueue = {}
    BY <1>2, TaskType DEF StopAll, Recover, Submit, InQueue
  <2> QED BY <2>1, <2>2, QuietQueue
<1> QED BY <1>1, <1>2

\* No wake-up is lost: a free slot and a sleeping task coexist only while a
\* granted waiter is about to resume and pass the slot on.
THEOREM WakeupsAreNotLost == Spec => []NoLostWakeup
<1>1. Init => Awake
  BY DEF Init, Awake, QueueSound, NoLostWakeup, InQueue, Sleeping
<1>2. Accounted /\ Awake /\ [Next]_vars => Awake'
  <2> SUFFICES ASSUME Accounted, Awake, [Next]_vars PROVE Awake'
    OBVIOUS
  <2>1. CASE Next
    BY <2>1, TaskAwake, RequestAwake, ProcessAwake DEF Next
  <2>2. CASE UNCHANGED vars
    <3>1. /\ slots' \in 0 .. slots /\ waiters' = waiters
          /\ task' = task /\ interrupted' = interrupted
      BY <2>2 DEF vars, runnerVars, Accounted, TypeOK
    <3> QED BY <3>1, QuietQueue
  <2> QED BY <2>1, <2>2
<1>3. Awake => NoLostWakeup
  BY DEF Awake
<1> QED BY <1>1, <1>2, <1>3, AlwaysAccounted, PTL DEF Spec


-----------------------------------------------------------------------------

\* A request that has read the rows it will write and has not written them.
Deciding(h) == request[h].at \in {"gate", "commit"}

\* No two requests are about to write the same row.
Undisturbed ==
    \A g, h \in Request : g # h /\ Deciding(g) /\ Deciding(h) =>
        request[g].rows \cap request[h].rows = {}

\* Only request h goes on.
OthersRest(h) == \A g \in Request : g # h => request'[g] = request[g]

\* What request h writes: rows not in flight, each a step further, and of those that
\* another request may have read only its own.
Writes(h) ==
    \A k \in Job :
        \/ row'[k] = row[k]
        \/ /\ row[k] \notin InFlight /\ row'[k] \in Lifecycle!Successors[row[k]]
           /\ \/ row[k] \notin {"pending", "approved"}
              \/ Deciding(h) /\ k \in request[h].rows

-----------------------------------------------------------------------------
(* Rows follow tasks.                                                      *)

\* The statuses of the rows a request is about to write.
Decides(op) ==
    IF op \in {"execute", "execute-all", "clear-queue"} THEN {"approved"} ELSE {"pending"}

\* A task that has looked at its row finds it as it was, and so does a request.
RowsFollowed ==
    /\ \A j \in Job : task[j] \in {"flipping", "marking"} => row[j] = "queued"
    /\ \A j \in Job :
          task[j] \in {"loading", "running", "finishing", "finalizing"} => row[j] = "executing"
    /\ \A h \in Request : request[h].at \in {"gate", "commit"} =>
          \A j \in request[h].rows : row[j] \in Decides(request[h].op)
    /\ process = "down" => (\A j \in Job : task[j] = "none") /\ \A h \in Request : request[h] = Idle

\* Rows move on as JobLifecycle has it, and none under its executor.
Moves ==
    /\ \A j \in Job : row'[j] \in {row[j]} \cup Lifecycle!Successors[row[j]]
    /\ \A j \in Running : row'[j] = row[j]
    /\ Running' = Running

\* A task leaves the requests alone.
LEMMA TaskLeavesRequests ==
    ASSUME NEW j \in Job, TaskStep(j) \/ ExecutorEnds(j)
    PROVE  request' = request
BY DEF TaskStep, Acquire, Granted, ReadRow, FlipCommit, FlipFails, EnterExecutor, FactoryFails,
       FinalizeRead, FinalizeCommit, Close, MarkRead, MarkCommit, Evict, CancelUnstarted, CancelWaiting,
       ReadFails, MarkFails, CancelReporting, CancelInSession, CancelExecutor, ExecutorEnds

\* Who leaves the semaphore wakes only waiters.
LEMMA Wakes ==
    ASSUME NEW j \in Job, NEW p, NEW n \in Nat,
           (Release(j) /\ p = "ended") \/ LeaveQueue(j, p, n)
    PROVE  /\ task'[j] = p
           /\ \A k \in Job \ {j} : \/ task'[k] = task[k]
                                   \/ task[k] = "waiting" /\ task'[k] = "granted"
<1>1. PICK W \in SUBSET Job, m \in Nat, S \in SUBSET Sleeping(task, interrupted) :
          /\ Woken(W, m, S, waiters)
          /\ task' = [k \in Job |-> IF k = j THEN p ELSE IF k \in W THEN "granted" ELSE task[k]]
  BY DEF Release, LeaveQueue
<1>2. W \subseteq Sleeping(task, interrupted)
  BY <1>1 DEF Woken
<1> QED
  BY <1>1, <1>2 DEF Sleeping

\* A task that writes no row.
LEMMA QuietTask ==
    ASSUME Accounted, RowsFollowed, NEW j \in Job, UNCHANGED <<row, request, process>>,
           process # "down",
           \A k \in Job \ {j} : \/ task'[k] = task[k]
                                \/ task[k] = "waiting" /\ task'[k] = "granted",
           task'[j] \in {"flipping", "marking"} => row[j] = "queued",
           task'[j] \in {"loading", "running", "finishing", "finalizing"} => row[j] = "executing"
    PROVE  RowsFollowed'
BY DEF RowsFollowed

\* A task that neither enters nor leaves its executor.
LEMMA SameRunning ==
    ASSUME NEW j \in Job, task'[j] # "running", task[j] # "running",
           \A k \in Job \ {j} : \/ task'[k] = task[k]
                                \/ task[k] = "waiting" /\ task'[k] = "granted"
    PROVE  Running' = Running
BY DEF Running

\* The statuses a row goes through.
LEMMA SuccessorsAre ==
    /\ Lifecycle!Successors["absent"] = {"pending", "queued"}
    /\ Lifecycle!Successors["pending"] = {"approved", "rejected", "deleted"}
    /\ Lifecycle!Successors["approved"] = {"queued", "deleted"}
    /\ Lifecycle!Successors["queued"] = {"executing", "cancelled"}
    /\ Lifecycle!Successors["executing"] = {"completed", "failed", "cancelled"}
    /\ \A s \in Terminal : Lifecycle!Successors[s] = {"deleted"}
BY DEF Lifecycle!Successors, Terminal

\* A task that leaves the semaphore's queue or releases its slot.
LEMMA SlotStep ==
    ASSUME Accounted, RowsFollowed, NEW j \in Job, task[j] # "running",
           UNCHANGED <<row, request, processVars>>, process # "down",
           Release(j) \/ LeaveQueue(j, "slotted", slots)
              \/ LeaveQueue(j, "reporting", slots + Regained(j))
    PROVE  RowsFollowed' /\ Moves
<1>1. slots \in Nat /\ slots + Regained(j) \in Nat
  BY MaxConcurrentAssumption DEF Accounted, TypeOK, Regained
<1>2. /\ task'[j] \in {"ended", "slotted", "reporting"}
      /\ \A k \in Job \ {j} : \/ task'[k] = task[k]
                              \/ task[k] = "waiting" /\ task'[k] = "granted"
  BY <1>1, Wakes
<1>3. RowsFollowed'
  BY <1>2, QuietTask DEF processVars
<1>4. Running' = Running
  BY <1>2, SameRunning
<1> QED
  BY <1>3, <1>4 DEF Moves

\* A task that goes on by itself, without a look at its row.
LEMMA GotoStep ==
    ASSUME Accounted, RowsFollowed, NEW j \in Job, NEW p \in Phase, Goto(j, p), task[j] # "running",
           \/ p \in {"waiting", "slotted", "closing", "ended", "none"}
           \/ p \in {"flipping", "marking"} /\ row[j] = "queued"
           \/ p = "finalizing" /\ row[j] = "executing",
           UNCHANGED <<row, request, process>>, process # "down"
    PROVE  RowsFollowed' /\ Moves
<1>1. task' = [task EXCEPT ![j] = p] /\ task \in [Job -> Phase]
  BY DEF Goto, Accounted, TypeOK
<1>2. task'[j] = p /\ \A k \in Job \ {j} : task'[k] = task[k]
  BY <1>1
<1>3. RowsFollowed'
  BY <1>2, QuietTask
<1>4. Running' = Running
  BY <1>2, SameRunning
<1> QED
  BY <1>3, <1>4 DEF Moves

\* A task that writes its row.
LEMMA WriteStep ==
    ASSUME Accounted, RowsFollowed, NEW j \in Job, NEW s, task[j] # "running",
           Write(j, s) \/ (s = row[j] /\ UNCHANGED row),
           NEW p \in {"loading", "closing", "ended"}, Goto(j, p),
           p = "loading" => row[j] = "queued" /\ s = "executing",
           \/ s = row[j]
           \/ row[j] \in {"queued", "executing"} /\ s \in Lifecycle!Successors[row[j]],
           UNCHANGED <<request, process>>, process # "down"
    PROVE  RowsFollowed' /\ Moves
<1>1. task' = [task EXCEPT ![j] = p] /\ task \in [Job -> Phase] /\ row \in [Job -> Status \cup Gone]
  BY DEF Goto, Accounted, TypeOK
<1>2. /\ task'[j] = p /\ row'[j] = s
      /\ \A k \in Job \ {j} : task'[k] = task[k] /\ row'[k] = row[k]
  BY <1>1 DEF Write
<1>3. s = row[j] \/ row[j] \notin {"pending", "approved"}
  OBVIOUS
<1>4. ASSUME NEW h \in Request, request[h].at \in {"gate", "commit"}, NEW k \in request[h].rows
      PROVE  row'[k] \in Decides(request[h].op)
  <2>1. row[k] \in Decides(request[h].op) /\ row[k] \in {"pending", "approved"} /\ k \in Job
    BY <1>4 DEF RowsFollowed, Decides, Accounted, TypeOK
  <2> QED
    BY <1>2, <1>3, <2>1
<1>5. RowsFollowed'
  BY <1>2, <1>4 DEF RowsFollowed
<1>6. Running' = Running
  BY <1>2, SameRunning
<1>7. \A k \in Running : row'[k] = row[k]
  BY <1>2 DEF Running
<1> QED
  BY <1>2, <1>5, <1>6, <1>7 DEF Moves

\* A step of a task that is not one of its executor.
LEMMA TaskFollows ==
    ASSUME Accounted, RowsFollowed, NEW j \in Job, TaskStep(j),
           ~EnterExecutor(j), ~CancelExecutor(j)
    PROVE  RowsFollowed' /\ Moves
<1> USE DEF At, Resumes, processVars
<1>1. CASE Acquire(j) \/ ReadRow(j) \/ FinalizeRead(j) \/ MarkRead(j) \/ MarkFails(j)
           \/ Evict(j) \/ CancelUnstarted(j) \/ CancelReporting(j)
  <2>1. /\ task[j] # "running" /\ UNCHANGED <<row, request, process>> /\ process # "down"
        /\ \E p \in Phase :
              /\ Goto(j, p)
              /\ \/ p \in {"waiting", "slotted", "closing", "ended", "none"}
                 \/ p \in {"flipping", "marking"} /\ row[j] = "queued"
                 \/ p = "finalizing" /\ task[j] = "finishing"
    BY <1>1 DEF Acquire, ReadRow, FinalizeRead, MarkRead, MarkFails, Evict, CancelUnstarted,
                CancelReporting, Phase, Slotted
  <2>2. task[j] = "finishing" => row[j] = "executing"
    BY DEF RowsFollowed
  <2>3. PICK p \in Phase : /\ Goto(j, p)
                          /\ \/ p \in {"waiting", "slotted", "closing", "ended", "none"}
                             \/ p \in {"flipping", "marking"} /\ row[j] = "queued"
                             \/ p = "finalizing" /\ row[j] = "executing"
    BY <2>1, <2>2
  <2> QED
    BY <2>1, <2>3, GotoStep
<1>2. CASE \/ Granted(j) \/ FlipFails(j) \/ FactoryFails(j) \/ ReadFails(j) \/ Close(j)
           \/ CancelWaiting(j) \/ CancelInSession(j)
  <2>1. task[j] # "running" /\ UNCHANGED <<row, request, processVars>> /\ process # "down"
    BY <1>2 DEF Granted, FlipFails, FactoryFails, ReadFails, Close, CancelWaiting, CancelInSession
  <2>2. Release(j) \/ LeaveQueue(j, "slotted", slots) \/ LeaveQueue(j, "reporting", slots + Regained(j))
    BY <1>2 DEF Granted, FlipFails, FactoryFails, ReadFails, Close, CancelWaiting, CancelInSession
  <2> QED
    BY <2>1, <2>2, SlotStep
<1>3. CASE FlipCommit(j)
  <2>1. row[j] = "queued"
    BY <1>3 DEF FlipCommit, RowsFollowed
  <2>2. /\ Goto(j, "loading") /\ task[j] # "running"
        /\ UNCHANGED <<request, process>> /\ process # "down"
    BY <1>3 DEF FlipCommit
  <2>3. PICK s \in {"executing"} : Write(j, s) \/ (s = row[j] /\ UNCHANGED row)
    BY <1>3 DEF FlipCommit
  <2>4. \/ s = row[j]
        \/ row[j] \in {"queued", "executing"} /\ s \in Lifecycle!Successors[row[j]]
    BY <2>1, <2>3, SuccessorsAre
  <2> QED
    BY <2>1, <2>2, <2>3, <2>4, WriteStep
<1>4. CASE FinalizeCommit(j)
  <2>1. row[j] = "executing" /\ outcome[j] \in {"completed", "failed", "cancelled"}
    BY <1>4 DEF FinalizeCommit, RowsFollowed, Accounted, TypeOK, Outcomes, OutcomeKnown, Reporting
  <2>2. /\ Goto(j, "closing") /\ task[j] # "running"
        /\ "closing" \in {"loading", "closing", "ended"} /\ "closing" # "loading"
        /\ UNCHANGED <<request, process>> /\ process # "down"
    BY <1>4 DEF FinalizeCommit
  <2>3. PICK s \in {row[j], outcome[j]} : Write(j, s) \/ (s = row[j] /\ UNCHANGED row)
    BY <1>4 DEF FinalizeCommit
  <2>4. \/ s = row[j]
        \/ row[j] \in {"queued", "executing"} /\ s \in Lifecycle!Successors[row[j]]
    BY <2>1, <2>3, SuccessorsAre
  <2> QED
    BY <2>1, <2>2, <2>3, <2>4, WriteStep
<1>5. CASE MarkCommit(j)
  <2>1. row[j] = "queued"
    BY <1>5 DEF MarkCommit, RowsFollowed
  <2>2. /\ Goto(j, "ended") /\ task[j] # "running"
        /\ "ended" \in {"loading", "closing", "ended"} /\ "ended" # "loading"
        /\ UNCHANGED <<request, process>> /\ process # "down"
    BY <1>5 DEF MarkCommit
  <2>3. PICK s \in {row[j], "cancelled"} : Write(j, s) \/ (s = row[j] /\ UNCHANGED row)
    BY <1>5 DEF MarkCommit
  <2>4. \/ s = row[j]
        \/ row[j] \in {"queued", "executing"} /\ s \in Lifecycle!Successors[row[j]]
    BY <2>1, <2>3, SuccessorsAre
  <2> QED
    BY <2>1, <2>2, <2>3, <2>4, WriteStep
<1> QED
  BY <1>1, <1>2, <1>3, <1>4, <1>5 DEF TaskStep

\* An executor is entered, and left.
LEMMA ExecutorFollows ==
    ASSUME Accounted, RowsFollowed, NEW j \in Job,
           EnterExecutor(j) \/ CancelExecutor(j) \/ ExecutorEnds(j)
    PROVE  RowsFollowed' /\ (Lifecycle!BeginExecutor(j) \/ Lifecycle!EndExecutor(j))
<1>1. /\ task[j] \in {"loading", "running"} /\ UNCHANGED <<row, request, process>> /\ process # "down"
      /\ row[j] = "executing" /\ task \in [Job -> Phase]
  BY DEF EnterExecutor, CancelExecutor, ExecutorEnds, At, Resumes, RowsFollowed, processVars,
         Accounted, TypeOK
<1>2. CASE EnterExecutor(j)
  <2>1. task[j] = "loading" /\ task' = [task EXCEPT ![j] = "running"]
    BY <1>2 DEF EnterExecutor, Goto, At, Resumes
  <2>2. RowsFollowed'
    BY <1>1, <2>1, QuietTask
  <2>3. Running' = Running \cup {j} /\ j \notin Running
    BY <1>1, <2>1 DEF Running
  <2>4. Cardinality(Running) < MaxConcurrent
    <3>1. Running \in SUBSET Job /\ Holders \in SUBSET Job /\ Running \cup {j} \in SUBSET Job
      BY DEF Running, Holders
    <3>2. IsFiniteSet(Running) /\ IsFiniteSet(Holders) /\ IsFiniteSet(Running \cup {j})
      BY <3>1, JobSetFinite
    <3>3. Running \cup {j} \subseteq Holders
      BY <2>1 DEF Running, Holders, Slotted
    <3>4. Cardinality(Running \cup {j}) = Cardinality(Running) + 1
      BY <2>3, <3>2, FS_AddElement
    <3>5. Cardinality(Running \cup {j}) <= Cardinality(Holders)
      BY <3>2, <3>3, FS_Subset
    <3>6. Cardinality(Running) \in Nat /\ Cardinality(Holders) \in Nat
      BY <3>1, JobSetFinite
    <3> QED
      BY <3>4, <3>5, <3>6, MaxConcurrentAssumption DEF Accounted, SlotsConserved, TypeOK
  <2>5. Lifecycle!BeginExecutor(j)
    BY <1>1, <2>3, <2>4 DEF Lifecycle!BeginExecutor, Lifecycle!Cardinality, Cardinality
  <2> QED
    BY <2>2, <2>5
<1>3. CASE CancelExecutor(j) \/ ExecutorEnds(j)
  <2>1. task' = [task EXCEPT ![j] = "finishing"]
    BY <1>3 DEF CancelExecutor, ExecutorEnds, Goto
  <2>2. RowsFollowed'
    BY <1>1, <2>1, QuietTask
  <2>3. Running' = Running \ {j}
    <3>1. \A k \in Job : task'[k] = IF k = j THEN "finishing" ELSE task[k]
      BY <1>1, <2>1
    <3> QED
      BY <3>1 DEF Running
  <2>4. Lifecycle!EndExecutor(j)
    BY <1>1, <2>3 DEF Lifecycle!EndExecutor
  <2> QED
    BY <2>2, <2>4
<1> QED
  BY <1>2, <1>3

\* A request that has written what it has decided, or nothing.
LEMMA RequestWrites ==
    ASSUME Accounted, RowsFollowed, Undisturbed, NEW h \in Request, OthersRest(h),
           request'[h].at \notin {"gate", "commit"}, process # "down", process' = process,
           \A k \in Job : task'[k] = task[k] \/ (task[k] = "none" /\ task'[k] = "created"),
           Writes(h)
    PROVE  RowsFollowed' /\ Moves
<1>1. ASSUME NEW g \in Request, request'[g].at \in {"gate", "commit"}, NEW k \in request'[g].rows
      PROVE  row'[k] \in Decides(request'[g].op)
  <2>1. g # h /\ request'[g] = request[g] /\ Deciding(g)
    BY <1>1 DEF OthersRest, Deciding
  <2>2. k \in Job /\ k \in request[g].rows /\ row[k] \in Decides(request[g].op)
    BY <1>1, <2>1 DEF RowsFollowed, Accounted, TypeOK, Deciding
  <2>3. row[k] \in {"pending", "approved"}
    BY <2>2 DEF Decides
  <2>4. ~(Deciding(h) /\ k \in request[h].rows)
    BY <2>1, <2>2 DEF Undisturbed
  <2>5. row'[k] = row[k]
    BY <2>2, <2>3, <2>4 DEF Writes
  <2> QED
    BY <2>1, <2>2, <2>5
<1>2. \A k \in Job : row[k] \in InFlight => row'[k] = row[k]
  BY DEF Writes
<1>3. RowsFollowed'
  BY <1>1, <1>2 DEF RowsFollowed, InFlight
<1>4. Running' = Running /\ \A k \in Running : row'[k] = row[k]
  BY <1>2 DEF Running, RowsFollowed, InFlight
<1> QED
  BY <1>3, <1>4 DEF Moves, Writes

\* A request that has read what it will write.
LEMMA RequestReads ==
    ASSUME Accounted, RowsFollowed, NEW h \in Request, OthersRest(h),
           UNCHANGED <<row, task, process>>, process # "down",
           request'[h].at \in {"gate", "commit"} =>
               \A j \in request'[h].rows : row[j] \in Decides(request'[h].op)
    PROVE  RowsFollowed' /\ Moves
<1>1. ASSUME NEW g \in Request, request'[g].at \in {"gate", "commit"}
      PROVE  \A j \in request'[g].rows : row'[j] \in Decides(request'[g].op)
  <2>1. CASE g = h
    BY <1>1, <2>1
  <2>2. CASE g # h
    BY <1>1, <2>2 DEF OthersRest, RowsFollowed
  <2> QED
    BY <2>1, <2>2
<1>2. RowsFollowed'
  BY <1>1 DEF RowsFollowed
<1> QED
  BY <1>2 DEF Moves, Running

\* What a request asks for is what it has asked for.
LEMMA RequestIs ==
    ASSUME Accounted, NEW h \in Request
    PROVE  /\ \A op, at, rows, ids : Become(h, op, at, rows, ids) =>
                 request'[h] = [op |-> op, at |-> at, rows |-> rows, ids |-> ids]
           /\ Done(h) => request'[h] = Idle
           /\ request[h].rows \subseteq Job
BY DEF Accounted, TypeOK, Become, Done

\* A request goes on alone.
LEMMA RequestAlone ==
    ASSUME Accounted, NEW h \in Request, RequestBegins(h) \/ RequestContinues(h)
    PROVE  OthersRest(h)
<1>1. \/ request' = request \/ Done(h)
      \/ \E op, at, rows, ids : Become(h, op, at, rows, ids)
  BY DEF RequestBegins, ReadApprove, ReadReject, ReadExecute, ReadCancel, ReadJob, CommitCreate,
         ReadRecommend, ReadBulkApprove, ReadExecuteAll, ReadRows, ReadClearQueue, ClearHistory,
         RequestContinues, GateExecuteAll, CommitApprove, CommitReject, CommitRecommend, CommitExecute,
         CommitClearQueue, SubmitJobs, CancelTasks, RequestFails
<1> QED
  BY <1>1 DEF OthersRest, Become, Done, Accounted, TypeOK

\* A request begins: it reads, or is one statement.
LEMMA RequestBeginFollows ==
    ASSUME Accounted, RowsFollowed, Undisturbed, NEW h \in Request, RequestBegins(h)
    PROVE  RowsFollowed' /\ Moves
<1> USE DEF Free, runnerVars, processVars
<1>0. OthersRest(h)
  BY RequestAlone
<1>1. ASSUME NEW j \in Job, NEW op, NEW S, NEW at, ReadJob(h, op, S, at, j),
             at # "signal" => S \subseteq Decides(op)
      PROVE  RowsFollowed' /\ Moves
  <2>1. request'[h] = [op |-> op, at |-> at, rows |-> {j}, ids |-> {j}]
    <3>1. Become(h, op, at, {j}, {j})
      BY <1>1 DEF ReadJob
    <3> QED
      BY <3>1, RequestIs
  <2>2. UNCHANGED <<row, task, process>> /\ process # "down" /\ row[j] \in S
    BY <1>1 DEF ReadJob
  <2> QED
    BY <1>0, <1>1, <2>1, <2>2, RequestReads
<1>2. ASSUME NEW op, NEW S, NEW at, ReadRows(h, op, S, at), S \subseteq Decides(op)
      PROVE  RowsFollowed' /\ Moves
  <2>1. request'[h] = [op |-> op, at |-> at, rows |-> WithStatus(S), ids |-> WithStatus(S)]
    <3>1. Become(h, op, at, WithStatus(S), WithStatus(S))
      BY <1>2 DEF ReadRows
    <3> QED
      BY <3>1, RequestIs
  <2>2. UNCHANGED <<row, task, process>> /\ process # "down"
    BY <1>2 DEF ReadRows
  <2> QED
    BY <1>0, <1>2, <2>1, <2>2, RequestReads DEF WithStatus
<1>3. ASSUME NEW j \in Job, CommitCreate(h, j) PROVE RowsFollowed' /\ Moves
  <2>1. request'[h].at \notin {"gate", "commit"}
    <3>1. Become(h, "create", "signal", {}, {j})
      BY <1>3 DEF CommitCreate
    <3>2. request'[h] = [op |-> "create", at |-> "signal", rows |-> {}, ids |-> {j}]
      BY <3>1, RequestIs
    <3> QED
      BY <3>2
  <2>2. row[j] = "absent" /\ row' = [row EXCEPT ![j] = "queued"] /\ UNCHANGED <<task, process>>
        /\ process # "down"
    BY <1>3 DEF CommitCreate, Write
  <2>3. Writes(h)
    BY <2>2, SuccessorsAre DEF Writes, InFlight, Accounted, TypeOK
  <2>4. /\ process' = process
        /\ \A k \in Job : task'[k] = task[k] \/ (task[k] = "none" /\ task'[k] = "created")
    BY <2>2
  <2> QED
    BY <1>0, <2>1, <2>2, <2>3, <2>4, RequestWrites
<1>4. CASE ReadClearQueue(h)
  <2>1. request'[h] = [op |-> "clear-queue", at |-> "commit", rows |-> WithStatus({"approved"}),
                       ids |-> WithStatus({"queued"})]
    BY <1>4, RequestIs DEF ReadClearQueue
  <2>2. UNCHANGED <<row, task, process>> /\ process # "down"
    BY <1>4 DEF ReadClearQueue
  <2> QED
    BY <1>0, <2>1, <2>2, RequestReads DEF WithStatus, Decides
<1>5. CASE ClearHistory(h)
  <2>1. /\ request' = request /\ request[h] = Idle /\ UNCHANGED <<task, process>> /\ process # "down"
        /\ row' = [k \in Job |-> IF row[k] \in Terminal THEN "deleted" ELSE row[k]]
    BY <1>5 DEF ClearHistory
  <2>2. Writes(h)
    BY <2>1, SuccessorsAre DEF Writes, InFlight, Terminal
  <2>3. request'[h].at \notin {"gate", "commit"}
    BY <2>1 DEF Idle
  <2>4. /\ process' = process
        /\ \A k \in Job : task'[k] = task[k] \/ (task[k] = "none" /\ task'[k] = "created")
    BY <2>1
  <2> QED
    BY <1>0, <2>1, <2>2, <2>3, <2>4, RequestWrites
<1>6. ASSUME NEW j \in Job, ReadApprove(h, j) \/ ReadReject(h, j) \/ ReadExecute(h, j) \/ ReadCancel(h, j)
      PROVE  RowsFollowed' /\ Moves
  BY <1>1, <1>6 DEF ReadApprove, ReadReject, ReadExecute, ReadCancel, Decides
<1>7. CASE ReadRecommend(h) \/ ReadBulkApprove(h) \/ ReadExecuteAll(h)
  BY <1>2, <1>7 DEF ReadRecommend, ReadBulkApprove, ReadExecuteAll, Decides
<1> QED
  BY <1>3, <1>4, <1>5, <1>6, <1>7 DEF RequestBegins

\* A request commits, signals the runner, or fails.
LEMMA RequestGoesOnFollows ==
    ASSUME Accounted, RowsFollowed, Undisturbed, NEW h \in Request, RequestContinues(h)
    PROVE  RowsFollowed' /\ Moves
<1> USE DEF Doing, runnerVars, processVars
<1>0. OthersRest(h)
  BY RequestAlone
<1>1. request[h].at \in {"gate", "commit", "signal"} /\ process' = process
  BY DEF RequestContinues, GateExecuteAll, CommitApprove, CommitReject, CommitRecommend, CommitExecute,
         CommitClearQueue, SubmitJobs, CancelTasks, RequestFails
<1>2. process # "down"
  BY <1>1 DEF RowsFollowed, Idle
<1>3. Done(h) => request'[h].at \notin {"gate", "commit"}
  BY RequestIs DEF Idle
<1>4. CASE GateExecuteAll(h)
  <2>1. PICK S \in SUBSET request[h].rows : Become(h, "execute-all", "commit", S, S)
    BY <1>4 DEF GateExecuteAll, Batches
  <2>2. request'[h] = [op |-> "execute-all", at |-> "commit", rows |-> S, ids |-> S]
    BY <2>1, RequestIs
  <2>3. \A j \in S : row[j] \in Decides("execute-all")
    BY <1>4, <2>1 DEF GateExecuteAll, RowsFollowed
  <2>4. UNCHANGED <<row, task, process>>
    BY <1>4 DEF GateExecuteAll
  <2> QED
    BY <1>0, <1>2, <2>2, <2>3, <2>4, RequestReads
<1>5. ASSUME NEW s, WriteAll(request[h].rows, s), request[h].at = "commit", task' = task,
             request'[h].at \notin {"gate", "commit"},
             \A r \in Decides(request[h].op) : s \in Lifecycle!Successors[r]
      PROVE  RowsFollowed' /\ Moves
  <2>1. \A k \in request[h].rows : row[k] \in Decides(request[h].op) /\ row[k] \notin InFlight
    BY <1>5 DEF RowsFollowed, Decides, InFlight
  <2>2. Writes(h)
    BY <1>5, <2>1 DEF Writes, WriteAll, Deciding
  <2>3. \A k \in Job : task'[k] = task[k] \/ (task[k] = "none" /\ task'[k] = "created")
    BY <1>5
  <2> QED
    BY <1>0, <1>1, <1>2, <1>5, <2>2, <2>3, RequestWrites
<1>6. CASE CommitApprove(h)
  BY <1>3, <1>5, <1>6, SuccessorsAre DEF CommitApprove, Decides
<1>7. CASE CommitReject(h)
  BY <1>3, <1>5, <1>7, SuccessorsAre DEF CommitReject, Decides
<1>8. CASE CommitExecute(h)
  <2>1. PICK op \in {"execute", "execute-all"} :
            Doing(h, op, "commit") /\ Become(h, op, "signal", {}, request[h].ids)
    BY <1>8 DEF CommitExecute
  <2>2. request'[h].at \notin {"gate", "commit"}
    <3>1. request'[h] = [op |-> op, at |-> "signal", rows |-> {}, ids |-> request[h].ids]
      BY <2>1, RequestIs
    <3> QED
      BY <3>1
  <2>3. WriteAll(request[h].rows, "queued") /\ task' = task
    BY <1>8 DEF CommitExecute
  <2> QED
    BY <1>5, <2>1, <2>2, <2>3, SuccessorsAre DEF Decides
<1>9. CASE CommitRecommend(h)
  <2>1. PICK resolved \in SUBSET request[h].rows, new \in SUBSET WithStatus({"absent"}) :
            row' = [j \in Job |-> IF j \in resolved THEN "deleted"
                                  ELSE IF j \in new THEN "pending" ELSE row[j]]
    BY <1>9 DEF CommitRecommend
  <2>2. \A k \in resolved : row[k] = "pending"
    BY <1>9, <2>1 DEF CommitRecommend, RowsFollowed, Decides
  <2>3. Writes(h)
    BY <1>9, <2>1, <2>2, SuccessorsAre DEF CommitRecommend, Writes, WithStatus, InFlight, Deciding
  <2>4. Done(h) /\ \A k \in Job : task'[k] = task[k] \/ (task[k] = "none" /\ task'[k] = "created")
    BY <1>9 DEF CommitRecommend
  <2> QED
    BY <1>0, <1>1, <1>2, <1>3, <2>3, <2>4, RequestWrites
<1>10. CASE CommitClearQueue(h)
  <2>1. /\ row' = [j \in Job |-> IF j \in request[h].rows THEN "deleted" ELSE row[j]]
        /\ Become(h, "clear-queue", "signal", {}, request[h].ids) /\ task' = task
    BY <1>10 DEF CommitClearQueue, Dequeued
  <2>2. \A k \in request[h].rows : row[k] = "approved"
    BY <1>10 DEF CommitClearQueue, RowsFollowed, Decides
  <2>3. Writes(h)
    BY <1>10, <2>1, <2>2, SuccessorsAre DEF CommitClearQueue, Writes, InFlight, Deciding
  <2>4. request'[h].at \notin {"gate", "commit"}
    <3>1. Become(h, "clear-queue", "signal", {}, request[h].ids)
      BY <2>1
    <3>2. request'[h] = [op |-> "clear-queue", at |-> "signal", rows |-> {}, ids |-> request[h].ids]
      BY <3>1, RequestIs
    <3> QED
      BY <3>2
  <2>5. \A k \in Job : task'[k] = task[k] \/ (task[k] = "none" /\ task'[k] = "created")
    BY <2>1
  <2> QED
    BY <1>0, <1>1, <1>2, <2>3, <2>4, <2>5, RequestWrites
<1>11. CASE SubmitJobs(h) \/ CancelTasks(h) \/ RequestFails(h)
  <2>1. row' = row /\ Done(h)
    BY <1>11 DEF SubmitJobs, CancelTasks, RequestFails
  <2>2. \A k \in Job : task'[k] = task[k] \/ (task[k] = "none" /\ task'[k] = "created")
    BY <1>11 DEF SubmitJobs, CancelTasks, RequestFails, Submit
  <2>3. Writes(h)
    BY <2>1 DEF Writes
  <2> QED
    BY <1>0, <1>1, <1>2, <1>3, <2>1, <2>2, <2>3, RequestWrites
<1> QED
  BY <1>4, <1>6, <1>7, <1>8, <1>9, <1>10, <1>11 DEF RequestContinues

-----------------------------------------------------------------------------
(* The process.                                                            *)

\* Rows are followed from the start.
LEMMA InitFollowed == Init => RowsFollowed
BY DEF Init, RowsFollowed, Idle

\* A crash, and the end of a shutdown.
LEMMA LostFollows ==
    ASSUME Accounted, Lost
    PROVE  RowsFollowed' /\ Lifecycle!Die
<1>1. /\ \A j \in Job : task'[j] = "none"
      /\ \A h \in Request : request'[h] = Idle
      /\ row' = row
  BY DEF Lost
<1>2. RowsFollowed'
  BY <1>1 DEF RowsFollowed, Idle
<1>3. Running' = {}
  BY <1>1 DEF Running
<1> QED
  BY <1>1, <1>2, <1>3 DEF Lifecycle!Die

\* A restart.
LEMMA RecoverFollows ==
    ASSUME Accounted, RowsFollowed, Recover
    PROVE  RowsFollowed' /\ Lifecycle!Resume
<1>1. /\ \A j \in Job : task[j] = "none"
      /\ \A h \in Request : request[h] = Idle
  BY DEF Recover, RowsFollowed
<1>2. \A j \in Job : task'[j] \in {"none", "created"}
  BY <1>1 DEF Recover, Submit
<1>3. process' = "up" /\ request' = request
  BY DEF Recover
<1>4. RowsFollowed'
  BY <1>1, <1>2, <1>3 DEF RowsFollowed, Idle
<1>5. Running = {} /\ Running' = {}
  BY <1>1, <1>2 DEF Running
<1>6. row' = [j \in Job |-> IF row[j] = "executing" THEN "queued" ELSE row[j]]
  <2>1. \A j \in Job : Requeued(j) = IF row[j] = "executing" THEN "queued" ELSE row[j]
    BY DEF Requeued, Resumed, WithStatus, InFlight
  <2> QED
    BY <2>1 DEF Recover
<1> QED
  BY <1>4, <1>5, <1>6 DEF Lifecycle!Resume

\* What the rows and the executors do in any step.
LEMMA StepFollows ==
    ASSUME Accounted, RowsFollowed, Undisturbed, [Next]_vars
    PROVE  /\ RowsFollowed'
           /\ \/ Moves
              \/ Lifecycle!Die
              \/ Lifecycle!Resume
              \/ \E j \in Job : Lifecycle!BeginExecutor(j) \/ Lifecycle!EndExecutor(j)
<1>1. ASSUME NEW j \in Job, TaskStep(j) \/ ExecutorEnds(j)
      PROVE  /\ RowsFollowed'
             /\ Moves \/ Lifecycle!BeginExecutor(j) \/ Lifecycle!EndExecutor(j)
  BY <1>1, TaskFollows, ExecutorFollows
<1>2. ASSUME NEW h \in Request, RequestBegins(h) \/ RequestContinues(h)
      PROVE  RowsFollowed' /\ Moves
  BY <1>2, RequestBeginFollows, RequestGoesOnFollows
<1>3. CASE Crash \/ Stopped
  BY <1>3, LostFollows DEF Crash, Stopped
<1>4. CASE StopAll
  <2>1. UNCHANGED <<row, task, request>> /\ process' # "down"
    BY <1>4 DEF StopAll
  <2> QED
    BY <2>1 DEF RowsFollowed, Moves, Running
<1>5. CASE Recover
  BY <1>5, RecoverFollows
<1>6. CASE UNCHANGED vars
  <2>1. UNCHANGED <<row, task, request, process>>
    BY <1>6 DEF vars, runnerVars, processVars
  <2> QED
    BY <2>1 DEF RowsFollowed, Moves, Running
<1> QED
  BY <1>1, <1>2, <1>3, <1>4, <1>5, <1>6 DEF Next

-----------------------------------------------------------------------------
(* What follows.                                                           *)

\* What a task has read of its row stays so until it writes it.
LEMMA AlwaysFollowed == Spec /\ []Undisturbed => [](Accounted /\ RowsFollowed)
<1>1. Init => Accounted /\ RowsFollowed
  BY InitAccounted, InitFollowed
<1>2. Accounted /\ RowsFollowed /\ Undisturbed /\ [Next]_vars => (Accounted /\ RowsFollowed)'
  BY NextAccounted, StepFollows
<1> QED
  BY <1>1, <1>2, PTL DEF Spec

\* Any number of requests that create, cancel and clear leave each other's rows alone:
\* they write in the statement that reads, or write no row that a request may have read.
THEOREM CreatorsAreUndisturbed ==
    ASSUME Ops \subseteq {"create", "cancel", "clear-history"}
    PROVE  Spec => []Undisturbed
<1> DEFINE Undecided == \A h \in Request : ~Deciding(h)
<1>1. Init => Undecided
  BY DEF Init, Idle, Deciding
<1>2. ASSUME Accounted, Undecided, [Next]_vars
      PROVE  Undecided'
  <2>1. ASSUME NEW h \in Request, RequestBegins(h)
        PROVE  Undecided'
    <3>1. OthersRest(h)
      BY <2>1, RequestAlone, <1>2
    <3>2. request'[h] = request[h] \/ request'[h].at = "signal"
      <4>1. \/ \E j \in Job : ReadCancel(h, j) \/ CommitCreate(h, j)
            \/ ClearHistory(h)
        BY <2>1 DEF RequestBegins, ReadApprove, ReadReject, ReadExecute, ReadJob, ReadRecommend,
                    ReadBulkApprove, ReadExecuteAll, ReadRows, ReadClearQueue, Free
      <4>2. \/ request' = request
            \/ \E op, rows, ids : Become(h, op, "signal", rows, ids)
        BY <4>1 DEF ReadCancel, ReadJob, CommitCreate, ClearHistory
      <4>3. ASSUME NEW op, NEW rows, NEW ids, Become(h, op, "signal", rows, ids)
            PROVE  request'[h].at = "signal"
        <5>1. request'[h] = [op |-> op, at |-> "signal", rows |-> rows, ids |-> ids]
          BY <1>2, <4>3, RequestIs
        <5> QED
          BY <5>1
      <4> QED
        BY <4>2, <4>3
    <3> QED
      BY <1>2, <3>1, <3>2 DEF OthersRest, Deciding
  <2>2. ASSUME NEW h \in Request, RequestContinues(h)
        PROVE  Undecided'
    <3>1. OthersRest(h)
      BY <2>2, RequestAlone, <1>2
    <3>2. Done(h)
      BY <1>2, <2>2 DEF Deciding, Doing, RequestContinues, GateExecuteAll, CommitApprove, CommitReject,
         CommitRecommend, CommitExecute, CommitClearQueue, SubmitJobs, CancelTasks, RequestFails
    <3>3. request'[h] = Idle
      BY <1>2, <3>2, RequestIs
    <3> QED
      BY <1>2, <3>1, <3>3 DEF OthersRest, Deciding, Idle
  <2>3. ASSUME NEW j \in Job, TaskStep(j) \/ ExecutorEnds(j)
        PROVE  Undecided'
    <3>1. request' = request
      BY <2>3, TaskLeavesRequests
    <3> QED
      BY <1>2, <3>1 DEF Deciding
  <2>4. CASE Crash \/ Stopped
    <3>1. \A h \in Request : request'[h] = Idle
      BY <2>4 DEF Crash, Stopped, Lost
    <3> QED
      BY <3>1 DEF Deciding, Idle
  <2>5. CASE StopAll \/ Recover \/ UNCHANGED vars
    <3>1. request' = request
      BY <2>5 DEF StopAll, Recover, vars
    <3> QED
      BY <1>2, <3>1 DEF Deciding
  <2> QED
    BY <1>2, <2>1, <2>2, <2>3, <2>4, <2>5 DEF Next
<1>3. Undecided => Undisturbed
  BY DEF Undisturbed
<1> QED
  BY <1>1, <1>2, <1>3, AlwaysAccounted, PTL DEF Spec

\* An executor works only for a row that says "executing", through cancellations,
\* crashes and restarts, as long as no two requests are about to write the same row.
THEOREM ExecutorsWorkForTheirRows ==
    Spec /\ []Undisturbed => []RunningRowIsExecuting
<1>1. RowsFollowed => RunningRowIsExecuting
  BY DEF RowsFollowed, RunningRowIsExecuting, Running
<1> QED
  BY <1>1, AlwaysFollowed, PTL

\* A move is a step of JobLifecycle.
LEMMA MovesAdvance ==
    ASSUME Accounted', Moves
    PROVE  Lifecycle!Advance
<1>1. row' \in [Job -> DOMAIN Lifecycle!Successors]
  <2>1. row' \in [Job -> Status \cup Gone]
    BY DEF Accounted, TypeOK
  <2>2. Status \cup Gone = DOMAIN Lifecycle!Successors
    BY DEF Lifecycle!Successors, Status, Gone, InFlight, Terminal
  <2> QED
    BY <2>1, <2>2
<1> QED
  BY <1>1 DEF Moves, Lifecycle!Advance

\* The runner and its routes keep the promise of JobLifecycle: rows skip no step
\* of their life, none moves under its executor, none comes back from a
\* terminal status and at most MaxConcurrent executors work, for every set of
\* jobs and all faults, as long as no two requests are about to write the same row.
THEOREM KeepsTheLifecycle ==
    Spec /\ []Undisturbed => ImplementsLifecycle
<1>1. Init => Lifecycle!LifecycleInit
  BY DEF Init, Lifecycle!LifecycleInit, Running
<1>2. ASSUME Accounted, RowsFollowed, Accounted', Undisturbed, [Next]_vars
      PROVE  [Lifecycle!LifecycleNext]_(Lifecycle!lifecycleVars)
  <2>1. CASE Moves
    BY <1>2, <2>1, MovesAdvance DEF Lifecycle!LifecycleNext
  <2>2. CASE \/ Lifecycle!Die
             \/ Lifecycle!Resume
             \/ \E j \in Job : Lifecycle!BeginExecutor(j) \/ Lifecycle!EndExecutor(j)
    BY <2>2 DEF Lifecycle!LifecycleNext
  <2> QED
    BY <1>2, <2>1, <2>2, StepFollows
<1> QED
  BY <1>1, <1>2, AlwaysFollowed, PTL DEF Spec, ImplementsLifecycle, Lifecycle!LifecycleSpec

\* A job that has ended does not start again: its row keeps the terminal status until
\* it is deleted, as the comment on job statuses in job_runner.py says.
TerminalStatusIsFinal ==
    [][\A j \in Job : row[j] \in Terminal => row'[j] \in {row[j], "deleted"}]_row

\* This holds through crashes, restarts, cancellations and late commits, as long as no
\* two requests are about to write the same row.
THEOREM TerminalRowsRest ==
    Spec /\ []Undisturbed => TerminalStatusIsFinal
<1>1. ASSUME Accounted, RowsFollowed, Undisturbed, [Next]_vars
      PROVE  \A j \in Job : row[j] \in Terminal => row'[j] \in {row[j], "deleted"}
  <2>1. CASE Moves
    BY <2>1, SuccessorsAre DEF Moves
  <2>2. CASE Lifecycle!Resume
    BY <2>2 DEF Lifecycle!Resume, Terminal
  <2>3. CASE Lifecycle!Die \/ \E j \in Job : Lifecycle!BeginExecutor(j) \/ Lifecycle!EndExecutor(j)
    BY <2>3 DEF Lifecycle!Die, Lifecycle!BeginExecutor, Lifecycle!EndExecutor
  <2> QED
    BY <1>1, <2>1, <2>2, <2>3, StepFollows
<1> QED
  BY <1>1, AlwaysFollowed, PTL DEF Spec, TerminalStatusIsFinal

-----------------------------------------------------------------------------
(* Nothing in flight is left alone, where nothing is cancelled or fails.   *)

\* No request cancels a job, and neither the database nor es_factory fails; the
\* process may crash, shut down and restart.
Calm ==
    /\ Ops \cap {"cancel", "clear-queue"} = {}
    /\ Faults = {}

\* No two requests are about to submit the same job.
SubmitsApart ==
    \A g, h \in Request : g # h /\ request[g].at = "signal" /\ request[h].at = "signal" =>
        request[g].ids \cap request[h].ids = {}

\* A task that waits has a queued row, one that is done a finished row; a job in flight
\* without a task is about to be submitted by the request that queued it.
Driven ==
    /\ process # "stopping" => interrupted = {}
    /\ process = "up" =>
        /\ \A j \in Job :
              /\ task[j] \in {"created", "waiting", "granted", "slotted"} => row[j] = "queued"
              /\ task[j] \in {"closing", "ended"} => row[j] \in Terminal \cup {"deleted"}
              /\ task[j] \notin {"reporting", "marking"}
              /\ task[j] = "none" /\ row[j] \in InFlight =>
                     \E h \in Request : request[h].at = "signal" /\ j \in request[h].ids
        /\ \A h \in Request :
              /\ request[h].op \notin {"cancel", "clear-queue"}
              /\ request[h].op \in {"execute", "execute-all"} /\ request[h].at \in {"gate", "commit"} =>
                     request[h].rows = request[h].ids
              /\ request[h].at = "signal" =>
                     /\ request[h].op \in {"execute", "execute-all", "create"}
                     /\ \A j \in Job : j \in request[h].ids => row[j] = "queued" /\ task[j] = "none"
        /\ SubmitsApart

\* A step of one task, to a phase that its row agrees with.
LEMMA TaskKeepsDriven ==
    ASSUME Driven, process = "up", NEW j \in Job, task[j] # "none",
           UNCHANGED <<request, process>>, interrupted' = {},
           \A k \in Job \ {j} : row'[k] = row[k],
           \A k \in Job \ {j} : \/ task'[k] = task[k]
                                \/ task[k] = "waiting" /\ task'[k] = "granted",
           \/ task'[j] \in {"waiting", "granted", "slotted", "flipping"} /\ row'[j] = "queued"
           \/ task'[j] \in {"loading", "running", "finishing", "finalizing"}
           \/ task'[j] \in {"closing", "ended"} /\ row'[j] \in Terminal \cup {"deleted"}
           \/ task'[j] = "none" /\ row'[j] \notin InFlight
    PROVE  Driven'
<1>1. ASSUME NEW k \in Job
      PROVE  /\ task'[k] \in {"created", "waiting", "granted", "slotted"} => row'[k] = "queued"
             /\ task'[k] \in {"closing", "ended"} => row'[k] \in Terminal \cup {"deleted"}
             /\ task'[k] \notin {"reporting", "marking"}
             /\ task'[k] = "none" /\ row'[k] \in InFlight =>
                    \E h \in Request : request'[h].at = "signal" /\ k \in request'[h].ids
  <2>1. CASE k = j
    BY <2>1
  <2>2. CASE k # j
    BY <2>2 DEF Driven
  <2> QED
    BY <2>1, <2>2
<1>2. ASSUME NEW h \in Request
      PROVE  /\ request'[h].op \notin {"cancel", "clear-queue"}
             /\ request'[h].op \in {"execute", "execute-all"} /\ request'[h].at \in {"gate", "commit"} =>
                    request'[h].rows = request'[h].ids
             /\ request'[h].at = "signal" =>
                    /\ request'[h].op \in {"execute", "execute-all", "create"}
                    /\ \A k \in Job : k \in request'[h].ids => row'[k] = "queued" /\ task'[k] = "none"
  BY DEF Driven
<1>3. SubmitsApart'
  BY DEF Driven, SubmitsApart
<1> QED
  BY <1>1, <1>2, <1>3 DEF Driven

\* A step of a task.
LEMMA TaskDriven ==
    ASSUME Accounted, RowsFollowed, Driven, Calm, process = "up", NEW j \in Job,
           TaskStep(j) \/ ExecutorEnds(j)
    PROVE  Driven'
<1> USE DEF At, Resumes, processVars
<1>1. /\ interrupted = {} /\ Faults = {}
      /\ task \in [Job -> Phase] /\ row \in [Job -> Status \cup Gone]
      /\ MaxConcurrent \in Nat \ {0} /\ slots \in Nat
  BY MaxConcurrentAssumption DEF Driven, Calm, Accounted, TypeOK
<1>2. CASE \/ Acquire(j) \/ ReadRow(j) \/ EnterExecutor(j) \/ ExecutorEnds(j)
           \/ FinalizeRead(j) \/ Evict(j)
  <2>1. UNCHANGED <<row, request, process>> /\ interrupted' = {}
    BY <1>1, <1>2 DEF Acquire, ReadRow, EnterExecutor, ExecutorEnds, FinalizeRead, Evict
  <2>2. \A k \in Job \ {j} : task'[k] = task[k]
    BY <1>1, <1>2 DEF Acquire, ReadRow, EnterExecutor, ExecutorEnds, FinalizeRead, Evict, Goto
  <2>3. task[j] = "finishing" => row[j] = "executing"
    BY DEF RowsFollowed
  <2>4. /\ task[j] # "none"
        /\ \/ task'[j] \in {"waiting", "granted", "slotted", "flipping"} /\ row[j] = "queued"
           \/ task'[j] \in {"loading", "running", "finishing", "finalizing"}
           \/ task'[j] \in {"closing", "ended"} /\ row[j] \in Terminal \cup {"deleted"}
           \/ task'[j] = "none" /\ row[j] \notin InFlight
    <3>1. CASE Acquire(j)
      BY <1>1, <3>1 DEF Acquire, Goto, Driven
    <3>2. CASE ReadRow(j)
      BY <1>1, <3>2 DEF ReadRow, Goto, Driven
    <3>3. CASE EnterExecutor(j) \/ ExecutorEnds(j)
      BY <1>1, <3>3 DEF EnterExecutor, ExecutorEnds, Goto
    <3>4. CASE FinalizeRead(j)
      BY <1>1, <2>3, <3>4 DEF FinalizeRead, Goto, Gone, Terminal
    <3>5. CASE Evict(j)
      BY <1>1, <3>5 DEF Evict, Goto, Driven, Terminal, InFlight
    <3> QED
      BY <1>2, <3>1, <3>2, <3>3, <3>4, <3>5
  <2> QED
    BY <2>1, <2>2, <2>4, TaskKeepsDriven
<1>3. CASE Granted(j) \/ Close(j)
  <2>1. UNCHANGED <<row, request, process>> /\ interrupted' = {}
    BY <1>1, <1>3 DEF Granted, Close
  <2>2. PICK p \in {"slotted", "ended"} :
            /\ (Release(j) /\ p = "ended") \/ LeaveQueue(j, p, slots)
            /\ p = "slotted" => task[j] = "granted"
            /\ p = "ended" => task[j] = "closing"
    BY <1>3 DEF Granted, Close
  <2>3. /\ task'[j] = p
        /\ \A k \in Job \ {j} : \/ task'[k] = task[k]
                                \/ task[k] = "waiting" /\ task'[k] = "granted"
    BY <1>1, <2>2, Wakes
  <2>4. /\ task[j] # "none"
        /\ \/ task'[j] = "slotted" /\ row[j] = "queued"
           \/ task'[j] = "ended" /\ row[j] \in Terminal \cup {"deleted"}
    BY <2>2, <2>3 DEF Driven
  <2> QED
    BY <2>1, <2>3, <2>4, TaskKeepsDriven
<1>4. CASE FlipCommit(j) \/ FinalizeCommit(j)
  <2>1. UNCHANGED <<request, process>> /\ interrupted' = {}
    BY <1>1, <1>4 DEF FlipCommit, FinalizeCommit
  <2>2. /\ \A k \in Job \ {j} : task'[k] = task[k]
        /\ task[j] # "none"
    BY <1>1, <1>4 DEF FlipCommit, FinalizeCommit, Goto
  <2>3. \A k \in Job \ {j} : row'[k] = row[k]
    BY <1>1, <1>4 DEF FlipCommit, FinalizeCommit, Write
  <2>4. \/ task'[j] = "loading"
        \/ task'[j] = "closing" /\ row'[j] \in Terminal
    <3>1. CASE FlipCommit(j)
      BY <1>1, <3>1 DEF FlipCommit, Goto
    <3>2. CASE FinalizeCommit(j)
      <4>1. row[j] = "executing" /\ outcome[j] \in {"completed", "failed", "cancelled"}
        BY <3>2 DEF FinalizeCommit, RowsFollowed, Accounted, TypeOK, Outcomes, OutcomeKnown, Reporting
      <4>2. Write(j, outcome[j]) /\ Goto(j, "closing")
        BY <1>1, <3>2, <4>1 DEF FinalizeCommit, Gone
      <4> QED
        BY <1>1, <4>1, <4>2 DEF Write, Goto, Terminal
    <3> QED
      BY <1>4, <3>1, <3>2
  <2> QED
    BY <2>1, <2>2, <2>3, <2>4, TaskKeepsDriven
<1>5. CASE \/ CancelUnstarted(j) \/ CancelWaiting(j) \/ CancelReporting(j)
           \/ CancelInSession(j) \/ CancelExecutor(j) \/ FactoryFails(j)
           \/ ReadFails(j) \/ MarkFails(j)
  BY <1>1, <1>5 DEF CancelUnstarted, CancelWaiting, CancelReporting, CancelInSession,
                    CancelExecutor, FactoryFails, ReadFails, MarkFails
<1>6. CASE FlipFails(j) \/ MarkRead(j) \/ MarkCommit(j)
  BY <1>1, <1>6 DEF FlipFails, MarkRead, MarkCommit, Driven, RowsFollowed, Gone
<1> QED
  BY <1>2, <1>3, <1>4, <1>5, <1>6 DEF TaskStep

\* A request that queues nothing and is not about to submit.
LEMMA QuietRequest ==
    ASSUME Accounted, Driven, process = "up", NEW h \in Request, OthersRest(h), request[h].at # "signal",
           process' = process, interrupted' = interrupted, task' = task,
           request'[h].at # "signal", request'[h].op \notin {"cancel", "clear-queue"},
           request'[h].op \in {"execute", "execute-all"} => request'[h].rows = request'[h].ids,
           \A k \in Job : \/ row'[k] = row[k]
                          \/ /\ row[k] \notin InFlight \cup {"deleted"} /\ row'[k] \notin InFlight
                             /\ row[k] \in Terminal => row'[k] = "deleted"
    PROVE  Driven'
<1>1. ASSUME NEW k \in Job
      PROVE  /\ task'[k] \in {"created", "waiting", "granted", "slotted"} => row'[k] = "queued"
             /\ task'[k] \in {"closing", "ended"} => row'[k] \in Terminal \cup {"deleted"}
             /\ task'[k] \notin {"reporting", "marking"}
  BY DEF Driven, InFlight
<1>2. ASSUME NEW k \in Job, task'[k] = "none", row'[k] \in InFlight
      PROVE  \E g \in Request : request'[g].at = "signal" /\ k \in request'[g].ids
  <2>1. task[k] = "none" /\ row[k] \in InFlight
    BY <1>2
  <2>2. PICK g \in Request : request[g].at = "signal" /\ k \in request[g].ids
    BY <2>1 DEF Driven
  <2>3. g # h
    BY <2>2
  <2> QED
    BY <2>2, <2>3 DEF OthersRest
<1>3. ASSUME NEW g \in Request
      PROVE  /\ request'[g].op \notin {"cancel", "clear-queue"}
             /\ request'[g].op \in {"execute", "execute-all"} /\ request'[g].at \in {"gate", "commit"} =>
                    request'[g].rows = request'[g].ids
             /\ request'[g].at = "signal" =>
                    /\ request'[g].op \in {"execute", "execute-all", "create"}
                    /\ \A k \in Job : k \in request'[g].ids => row'[k] = "queued" /\ task'[k] = "none"
  <2>1. CASE g = h
    BY <2>1
  <2>2. CASE g # h
    BY <2>2 DEF OthersRest, Driven, InFlight
  <2> QED
    BY <2>1, <2>2
<1>4. SubmitsApart'
  BY DEF Driven, SubmitsApart, OthersRest
<1> QED
  BY <1>1, <1>2, <1>3, <1>4 DEF Driven

\* A request that queues the jobs it will submit.
LEMMA QueueingRequest ==
    ASSUME Accounted, RowsFollowed, Driven, process = "up",
           NEW h \in Request, OthersRest(h), NEW S \in SUBSET Job,
           request[h].at # "signal", process' = process, interrupted' = interrupted, task' = task,
           request'[h].at = "signal", request'[h].op \in {"execute", "execute-all", "create"},
           request'[h].ids = S, \A k \in S : row[k] \in {"absent", "approved"} /\ row'[k] = "queued",
           \A k \in Job \ S : row'[k] = row[k]
    PROVE  Driven'
<1>1. \A k \in S : task[k] = "none"
  <2>1. \A k \in Job : task[k] \in Phase
    BY DEF Accounted, TypeOK
  <2> QED
    BY <2>1 DEF Phase, Slotted, Terminal, Driven, RowsFollowed
<1>2. ASSUME NEW k \in Job
      PROVE  /\ task'[k] \in {"created", "waiting", "granted", "slotted"} => row'[k] = "queued"
             /\ task'[k] \in {"closing", "ended"} => row'[k] \in Terminal \cup {"deleted"}
             /\ task'[k] \notin {"reporting", "marking"}
  <2>1. CASE k \in S
    BY <1>1, <2>1
  <2>2. CASE k \notin S
    BY <2>2 DEF Driven
  <2> QED
    BY <2>1, <2>2
<1>3. ASSUME NEW k \in Job, task'[k] = "none", row'[k] \in InFlight
      PROVE  \E g \in Request : request'[g].at = "signal" /\ k \in request'[g].ids
  <2>1. CASE k \in S
    BY <2>1
  <2>2. CASE k \notin S
    <3>1. task[k] = "none" /\ row[k] \in InFlight
      BY <1>3, <2>2
    <3>2. PICK g \in Request : request[g].at = "signal" /\ k \in request[g].ids
      BY <3>1 DEF Driven
    <3>3. g # h
      BY <3>2
    <3> QED
      BY <3>2, <3>3 DEF OthersRest
  <2> QED
    BY <2>1, <2>2
<1>4. ASSUME NEW g \in Request, g # h, request[g].at = "signal", NEW k \in Job, k \in request[g].ids
      PROVE  k \notin S /\ row'[k] = "queued" /\ task'[k] = "none"
  <2>1. row[k] = "queued" /\ task[k] = "none"
    BY <1>4 DEF Driven
  <2> QED
    BY <2>1
<1>5. ASSUME NEW g \in Request
      PROVE  /\ request'[g].op \notin {"cancel", "clear-queue"}
             /\ request'[g].op \in {"execute", "execute-all"} /\ request'[g].at \in {"gate", "commit"} =>
                    request'[g].rows = request'[g].ids
             /\ request'[g].at = "signal" =>
                    /\ request'[g].op \in {"execute", "execute-all", "create"}
                    /\ \A k \in Job : k \in request'[g].ids => row'[k] = "queued" /\ task'[k] = "none"
  <2>1. CASE g = h
    BY <1>1, <2>1
  <2>2. CASE g # h
    <3>1. request'[g] = request[g]
      BY <2>2 DEF OthersRest
    <3>2. request'[g].at = "signal" =>
              \A k \in Job : k \in request'[g].ids => row'[k] = "queued" /\ task'[k] = "none"
      BY <1>4, <2>2, <3>1
    <3> QED
      BY <3>1, <3>2 DEF Driven
  <2> QED
    BY <2>1, <2>2
<1>6. SubmitsApart'
  <2> SUFFICES ASSUME NEW f \in Request, NEW g \in Request, f # g,
                      request'[f].at = "signal", request'[g].at = "signal",
                      NEW k \in request'[f].ids, k \in request'[g].ids
               PROVE  FALSE
    BY DEF SubmitsApart
  <2>1. \A e \in Request : e # h => request'[e] = request[e] /\ request[e].ids \subseteq Job
    BY DEF OthersRest, Accounted, TypeOK
  <2>2. CASE f = h \/ g = h
    BY <1>4, <2>1, <2>2
  <2>3. CASE f # h /\ g # h
    BY <2>1, <2>3 DEF Driven, SubmitsApart
  <2> QED
    BY <2>2, <2>3
<1> QED
  BY <1>2, <1>3, <1>5, <1>6 DEF Driven

\* A request begins.
LEMMA RequestBeginDriven ==
    ASSUME Accounted, RowsFollowed, Driven, Calm, NEW h \in Request, RequestBegins(h)
    PROVE  Driven'
<1> USE DEF Free, runnerVars, processVars
<1>0. OthersRest(h)
  BY RequestAlone
<1>1. process = "up" /\ request[h] = Idle /\ request[h].at # "signal"
  <2>1. \E op \in AllOps : Free(h, op)
    BY DEF RequestBegins, AllOps, ReadApprove, ReadReject, ReadExecute, ReadCancel, ReadJob, CommitCreate,
         ReadRecommend, ReadBulkApprove, ReadExecuteAll, ReadRows, ReadClearQueue, ClearHistory
  <2> QED
    BY <2>1 DEF Idle
<1>2. ASSUME NEW op, NEW at, NEW S, op \notin {"cancel", "clear-queue"}, at # "signal",
             Become(h, op, at, S, S), UNCHANGED <<row, runnerVars, processVars>>
      PROVE  Driven'
  <2>1. request'[h] = [op |-> op, at |-> at, rows |-> S, ids |-> S]
    BY <1>2, RequestIs
  <2>2. UNCHANGED <<row, task, interrupted, process>>
    BY <1>2
  <2> QED
    BY <1>0, <1>1, <1>2, <2>1, <2>2, QuietRequest
<1>3. CASE \E j \in Job : ReadApprove(h, j) \/ ReadReject(h, j) \/ ReadExecute(h, j)
  <2>1. PICK j \in Job, op \in {"approve", "reject", "execute"} :
            Become(h, op, "commit", {j}, {j}) /\ UNCHANGED <<row, runnerVars, processVars>>
    BY <1>3 DEF ReadApprove, ReadReject, ReadExecute, ReadJob
  <2> QED
    BY <1>2, <2>1
<1>4. CASE ReadRecommend(h) \/ ReadBulkApprove(h) \/ ReadExecuteAll(h)
  <2>1. PICK op \in {"recommend", "bulk-approve", "execute-all"}, at \in {"gate", "commit"},
             S \in {WithStatus({"pending"}), WithStatus({"approved"})} :
            Become(h, op, at, S, S) /\ UNCHANGED <<row, runnerVars, processVars>>
    BY <1>4 DEF ReadRecommend, ReadBulkApprove, ReadExecuteAll, ReadRows
  <2> QED
    BY <1>2, <2>1
<1>5. ASSUME NEW j \in Job, CommitCreate(h, j) PROVE Driven'
  <2>1. Become(h, "create", "signal", {}, {j})
    BY <1>5 DEF CommitCreate
  <2>2. request'[h] = [op |-> "create", at |-> "signal", rows |-> {}, ids |-> {j}]
    BY <2>1, RequestIs
  <2>3. /\ row[j] = "absent" /\ row' = [row EXCEPT ![j] = "queued"]
        /\ UNCHANGED <<task, interrupted, process>>
    BY <1>5 DEF CommitCreate, Write
  <2>4. row'[j] = "queued" /\ \A k \in Job \ {j} : row'[k] = row[k]
    BY <2>3 DEF Accounted, TypeOK
  <2>5. /\ \A k \in {j} : row[k] \in {"absent", "approved"} /\ row'[k] = "queued"
        /\ request'[h].at = "signal" /\ request'[h].ids = {j} /\ {j} \in SUBSET Job
        /\ request'[h].op \in {"execute", "execute-all", "create"}
    BY <2>2, <2>3, <2>4
  <2> QED
    BY <1>0, <1>1, <2>3, <2>4, <2>5, QueueingRequest
<1>6. CASE ClearHistory(h)
  <2>1. /\ request' = request /\ UNCHANGED <<task, interrupted, process>>
        /\ row' = [k \in Job |-> IF row[k] \in Terminal THEN "deleted" ELSE row[k]]
    BY <1>6 DEF ClearHistory
  <2>2. \A k \in Job : \/ row'[k] = row[k]
                       \/ /\ row[k] \notin InFlight \cup {"deleted"} /\ row'[k] \notin InFlight
                          /\ row[k] \in Terminal => row'[k] = "deleted"
    BY <2>1 DEF InFlight, Terminal
  <2>3. /\ request'[h].at # "signal" /\ request'[h].op \notin {"cancel", "clear-queue"}
        /\ request'[h].op \in {"execute", "execute-all"} => request'[h].rows = request'[h].ids
    BY <1>1, <2>1 DEF Idle
  <2> QED
    BY <1>0, <1>1, <2>1, <2>2, <2>3, QuietRequest
<1>7. CASE ReadClearQueue(h) \/ \E j \in Job : ReadCancel(h, j)
  BY <1>7 DEF ReadClearQueue, ReadCancel, ReadJob, Calm
<1> QED
  BY <1>3, <1>4, <1>5, <1>6, <1>7 DEF RequestBegins

\* A request goes on.
LEMMA RequestGoesOnDriven ==
    ASSUME Accounted, RowsFollowed, Driven, Calm, process = "up",
           NEW h \in Request, RequestContinues(h)
    PROVE  Driven'
<1> USE DEF Doing, runnerVars, processVars
<1>0. OthersRest(h)
  BY RequestAlone
<1>1. /\ request[h].op \notin {"cancel", "clear-queue"}
      /\ request[h].rows \subseteq Job /\ request[h].ids \subseteq Job
      /\ row \in [Job -> Status \cup Gone]
  BY DEF Driven, Accounted, TypeOK
<1>2. Done(h) => request'[h] = Idle
  BY RequestIs
<1>3. ASSUME NEW R \in SUBSET Job, NEW N \in SUBSET Job, NEW s, Done(h),
             request[h].at \in {"gate", "commit"}, UNCHANGED <<task, interrupted, process>>,
             s \in {"approved", "rejected", "deleted"},
             \A k \in Job : row'[k] = IF k \in R THEN s ELSE IF k \in N THEN "pending" ELSE row[k],
             \A k \in R : row[k] = "pending", \A k \in N : row[k] = "absent"
      PROVE  Driven'
  <2>1. \A k \in Job : \/ row'[k] = row[k]
                       \/ /\ row[k] \notin InFlight \cup {"deleted"} /\ row'[k] \notin InFlight
                          /\ row[k] \in Terminal => row'[k] = "deleted"
    <3>1. ASSUME NEW k \in Job, row'[k] # row[k]
          PROVE  row[k] \in {"pending", "absent"} /\ row'[k] \in {"approved", "rejected", "deleted", "pending"}
      BY <1>3, <3>1
    <3> QED
      BY <3>1 DEF InFlight, Terminal
  <2>2. /\ request'[h].at # "signal" /\ request'[h].op \notin {"cancel", "clear-queue"}
        /\ request'[h].op \in {"execute", "execute-all"} => request'[h].rows = request'[h].ids
    BY <1>2, <1>3 DEF Idle
  <2> QED
    BY <1>0, <1>3, <2>1, <2>2, QuietRequest
<1>4. CASE GateExecuteAll(h)
  <2>1. PICK S \in SUBSET request[h].rows : Become(h, "execute-all", "commit", S, S)
    BY <1>4 DEF GateExecuteAll, Batches
  <2>2. request'[h] = [op |-> "execute-all", at |-> "commit", rows |-> S, ids |-> S]
    BY <2>1, RequestIs
  <2>3. UNCHANGED <<row, task, interrupted, process>> /\ request[h].at # "signal"
    BY <1>4 DEF GateExecuteAll
  <2> QED
    BY <1>0, <2>2, <2>3, QuietRequest
<1>5. CASE CommitApprove(h) \/ CommitReject(h)
  <2>1. PICK s \in {"approved", "rejected"} : WriteAll(request[h].rows, s)
    BY <1>5 DEF CommitApprove, CommitReject
  <2>2. /\ Done(h) /\ request[h].at = "commit" /\ UNCHANGED <<task, interrupted, process>>
        /\ request[h].op \in {"approve", "bulk-approve", "reject"}
    BY <1>5 DEF CommitApprove, CommitReject
  <2>3. \A k \in request[h].rows : row[k] = "pending"
    BY <2>2 DEF RowsFollowed, Decides
  <2>4. PICK N \in SUBSET Job : N = {}
    OBVIOUS
  <2>5. \A k \in Job : row'[k] = IF k \in request[h].rows THEN s
                                 ELSE IF k \in N THEN "pending" ELSE row[k]
    BY <2>1, <2>4 DEF WriteAll
  <2>6. \A k \in N : row[k] = "absent"
    BY <2>4
  <2>7. request[h].rows \in SUBSET Job /\ request[h].at \in {"gate", "commit"}
    BY <1>1, <2>2
  <2> QED
    BY <1>3, <2>2, <2>3, <2>5, <2>6, <2>7
<1>6. CASE CommitRecommend(h)
  <2>1. PICK R \in SUBSET request[h].rows, N \in SUBSET WithStatus({"absent"}) :
            row' = [j \in Job |-> IF j \in R THEN "deleted" ELSE IF j \in N THEN "pending" ELSE row[j]]
    BY <1>6 DEF CommitRecommend
  <2>2. /\ Done(h) /\ request[h].at = "commit" /\ UNCHANGED <<task, interrupted, process>>
        /\ request[h].op = "recommend"
    BY <1>6 DEF CommitRecommend
  <2>3. /\ \A k \in R : row[k] = "pending"
        /\ \A k \in N : row[k] = "absent"
    BY <2>1, <2>2 DEF RowsFollowed, Decides, WithStatus
  <2>4. R \in SUBSET Job /\ N \in SUBSET Job
    BY <1>1 DEF WithStatus
  <2>5. \A k \in Job : row'[k] = IF k \in R THEN "deleted" ELSE IF k \in N THEN "pending" ELSE row[k]
    BY <2>1
  <2> QED
    BY <1>3, <2>2, <2>3, <2>4, <2>5
<1>7. CASE CommitExecute(h)
  <2>1. PICK op \in {"execute", "execute-all"} :
            Doing(h, op, "commit") /\ Become(h, op, "signal", {}, request[h].ids)
    BY <1>7 DEF CommitExecute
  <2>2. request'[h] = [op |-> op, at |-> "signal", rows |-> {}, ids |-> request[h].ids]
    <3>1. Become(h, op, "signal", {}, request[h].ids)
      BY <2>1
    <3> QED
      BY <3>1, RequestIs
  <2>3. request[h].rows = request[h].ids
    BY <2>1 DEF Driven
  <2>4. \A k \in request[h].rows : row[k] = "approved"
    BY <2>1 DEF RowsFollowed, Decides
  <2>5. WriteAll(request[h].rows, "queued") /\ UNCHANGED <<task, interrupted, process>>
    BY <1>7 DEF CommitExecute
  <2>6. \A k \in Job : row'[k] = IF k \in request[h].ids THEN "queued" ELSE row[k]
    BY <2>3, <2>5 DEF WriteAll
  <2>7. /\ \A k \in request[h].ids : row[k] \in {"absent", "approved"} /\ row'[k] = "queued"
        /\ \A k \in Job \ request[h].ids : row'[k] = row[k]
    BY <1>1, <2>3, <2>4, <2>6
  <2>8. /\ request'[h].at = "signal" /\ request'[h].ids = request[h].ids
        /\ request'[h].op \in {"execute", "execute-all", "create"} /\ request[h].at # "signal"
    BY <2>1, <2>2
  <2> QED
    BY <1>0, <1>1, <2>5, <2>7, <2>8, QueueingRequest
<1>8. CASE SubmitJobs(h)
  <2>1. request'[h] = Idle /\ UNCHANGED <<row, interrupted, process>> /\ request[h].at = "signal"
    BY <1>2, <1>8 DEF SubmitJobs
  <2>2. \A k \in Job : /\ task[k] # "none" => task'[k] = task[k]
                       /\ task[k] = "none" /\ k \notin request[h].ids => task'[k] = "none"
                       /\ task[k] = "none" /\ k \in request[h].ids => task'[k] = "created"
    BY <1>8 DEF SubmitJobs, Submit
  <2>3. \A k \in request[h].ids : row[k] = "queued" /\ task[k] = "none"
    BY <1>1, <2>1 DEF Driven
  <2>4. ASSUME NEW k \in Job
        PROVE  /\ task'[k] \in {"created", "waiting", "granted", "slotted"} => row'[k] = "queued"
               /\ task'[k] \in {"closing", "ended"} => row'[k] \in Terminal \cup {"deleted"}
               /\ task'[k] \notin {"reporting", "marking"}
    <3>1. CASE task[k] = "none"
      BY <2>1, <2>2, <2>3, <3>1
    <3>2. CASE task[k] # "none"
      BY <2>1, <2>2, <3>2 DEF Driven
    <3> QED
      BY <3>1, <3>2
  <2>5. ASSUME NEW k \in Job, task'[k] = "none", row'[k] \in InFlight
        PROVE  \E g \in Request : request'[g].at = "signal" /\ k \in request'[g].ids
    <3>1. task[k] = "none" /\ row[k] \in InFlight /\ k \notin request[h].ids
      BY <2>1, <2>2, <2>5
    <3>2. PICK g \in Request : request[g].at = "signal" /\ k \in request[g].ids
      BY <3>1 DEF Driven
    <3>3. g # h
      BY <3>1, <3>2
    <3> QED
      BY <1>0, <3>2, <3>3 DEF OthersRest
  <2>6. ASSUME NEW g \in Request, g # h, request[g].at = "signal", NEW k \in Job, k \in request[g].ids
        PROVE  row'[k] = "queued" /\ task'[k] = "none"
    <3>1. row[k] = "queued" /\ task[k] = "none" /\ k \notin request[h].ids
      BY <2>1, <2>6 DEF Driven, SubmitsApart
    <3> QED
      BY <2>1, <2>2, <3>1
  <2>7. ASSUME NEW g \in Request
        PROVE  /\ request'[g].op \notin {"cancel", "clear-queue"}
               /\ request'[g].op \in {"execute", "execute-all"} /\ request'[g].at \in {"gate", "commit"} =>
                      request'[g].rows = request'[g].ids
               /\ request'[g].at = "signal" =>
                      /\ request'[g].op \in {"execute", "execute-all", "create"}
                      /\ \A k \in Job : k \in request'[g].ids => row'[k] = "queued" /\ task'[k] = "none"
    <3>1. CASE g = h
      BY <2>1, <3>1 DEF Idle
    <3>2. CASE g # h
      <4>1. request'[g] = request[g]
        BY <1>0, <3>2 DEF OthersRest
      <4>2. request'[g].at = "signal" =>
                \A k \in Job : k \in request'[g].ids => row'[k] = "queued" /\ task'[k] = "none"
        BY <2>6, <3>2, <4>1
      <4> QED
        BY <4>1, <4>2 DEF Driven
    <3> QED
      BY <3>1, <3>2
  <2>8. SubmitsApart'
    BY <1>0, <2>1 DEF Driven, SubmitsApart, OthersRest, Idle
  <2> QED
    BY <2>1, <2>4, <2>5, <2>7, <2>8 DEF Driven
<1>9. CASE RequestFails(h)
  <2>1. UNCHANGED <<row, task, interrupted, process>> /\ Done(h)
    BY <1>9 DEF RequestFails
  <2>2. request[h].at # "signal"
    BY <1>1, <1>9 DEF RequestFails, Calm, Driven, WithStatus, Gone
  <2>3. /\ request'[h].at # "signal" /\ request'[h].op \notin {"cancel", "clear-queue"}
        /\ request'[h].op \in {"execute", "execute-all"} => request'[h].rows = request'[h].ids
    BY <1>2, <2>1 DEF Idle
  <2> QED
    BY <1>0, <2>1, <2>2, <2>3, QuietRequest
<1>10. CASE CommitClearQueue(h) \/ CancelTasks(h)
  BY <1>1, <1>10 DEF CommitClearQueue, CancelTasks
<1> QED
  BY <1>4, <1>5, <1>6, <1>7, <1>8, <1>9, <1>10 DEF RequestContinues

\* A restart submits all that is in flight.
LEMMA RecoverDriven ==
    ASSUME Accounted, RowsFollowed, Driven, Recover
    PROVE  Driven'
<1>1. /\ \A j \in Job : task[j] = "none"
      /\ \A h \in Request : request[h] = Idle
      /\ interrupted = {} /\ UNCHANGED <<interrupted, request>> /\ process' = "up"
  BY DEF Recover, RowsFollowed, Driven
<1>2. ASSUME NEW j \in Job
      PROVE  /\ j \in Resumed => row'[j] = "queued" /\ task'[j] = "created"
             /\ j \notin Resumed => row'[j] \notin InFlight /\ task'[j] = "none"
  BY <1>1 DEF Recover, Requeued, Resumed, WithStatus, Submit
<1> QED
  BY <1>1, <1>2 DEF Driven, SubmitsApart, Idle

\* Every step.
LEMMA StepDriven ==
    ASSUME Accounted, RowsFollowed, Driven, Calm, [Next]_vars
    PROVE  Driven'
<1>1. ASSUME NEW j \in Job, TaskStep(j) \/ ExecutorEnds(j)
      PROVE  Driven'
  <2>1. process # "down" /\ process' = process
    BY <1>1 DEF TaskStep, Acquire, Granted, ReadRow, FlipCommit, FlipFails, EnterExecutor, FactoryFails,
          FinalizeRead, FinalizeCommit, Close, MarkRead, MarkCommit, Evict, CancelUnstarted, CancelWaiting,
          ReadFails, MarkFails, CancelReporting, CancelInSession, CancelExecutor, ExecutorEnds, At, Resumes,
          processVars
  <2>2. CASE process = "up"
    BY <1>1, <2>2, TaskDriven
  <2>3. CASE process = "stopping"
    BY <2>1, <2>3 DEF Driven
  <2> QED
    BY <2>1, <2>2, <2>3 DEF Accounted, TypeOK
<1>2. ASSUME NEW h \in Request, RequestContinues(h)
      PROVE  Driven'
  <2>1. request[h].at # "idle" /\ process' = process
    BY <1>2 DEF RequestContinues, GateExecuteAll, CommitApprove, CommitReject, CommitRecommend,
          CommitExecute, CommitClearQueue, SubmitJobs, CancelTasks, RequestFails, Doing, processVars
  <2>2. process # "down"
    BY <2>1 DEF RowsFollowed, Idle
  <2>3. CASE process = "up"
    BY <1>2, <2>3, RequestGoesOnDriven
  <2>4. CASE process = "stopping"
    BY <2>1, <2>4 DEF Driven
  <2> QED
    BY <2>2, <2>3, <2>4 DEF Accounted, TypeOK
<1>3. ASSUME NEW h \in Request, RequestBegins(h)
      PROVE  Driven'
  BY <1>3, RequestBeginDriven
<1>4. CASE Crash \/ Stopped
  BY <1>4 DEF Crash, Stopped, Lost, Driven
<1>5. CASE StopAll
  BY <1>5 DEF StopAll, Driven
<1>6. CASE Recover
  BY <1>6, RecoverDriven
<1>7. CASE UNCHANGED vars
  <2>1. UNCHANGED <<row, task, interrupted, request, process>>
    BY <1>7 DEF vars, runnerVars, processVars
  <2> QED
    BY <2>1 DEF Driven, SubmitsApart
<1> QED
  BY <1>1, <1>2, <1>3, <1>4, <1>5, <1>6, <1>7 DEF Next

\* What is in flight is driven, always.
LEMMA AlwaysDriven ==
    ASSUME Calm
    PROVE  Spec /\ []Undisturbed => [](Accounted /\ RowsFollowed /\ Driven)
<1>1. Init => Accounted /\ RowsFollowed /\ Driven
  <2>1. Init => Driven
    BY DEF Init, Driven, SubmitsApart, Idle, InFlight
  <2> QED
    BY <2>1, InitAccounted, InitFollowed
<1>2. Accounted /\ RowsFollowed /\ Driven /\ Undisturbed /\ [Next]_vars =>
          (Accounted /\ RowsFollowed /\ Driven)'
  BY NextAccounted, StepFollows, StepDriven
<1> QED
  BY <1>1, <1>2, PTL DEF Spec

\* Whatever the process goes through, no job is left queued or executing with nothing
\* to write it, as long as no two requests are about to write the same row, none cancels
\* and nothing fails.
THEOREM NothingIsLeftInFlight ==
    ASSUME Calm
    PROVE  Spec /\ []Undisturbed => []InFlightIsDriven
<1>1. Accounted /\ RowsFollowed /\ Driven => InFlightIsDriven
  <2> SUFFICES ASSUME Accounted, RowsFollowed, Driven, process = "up",
                      NEW j \in Job, row[j] \in InFlight
               PROVE  \/ task[j] \notin {"none", "closing", "ended"}
                      \/ \E h \in Request :
                            /\ request[h].op \in {"execute", "execute-all", "create"}
                            /\ request[h].at = "signal"
                            /\ j \in request[h].ids
    BY DEF InFlightIsDriven, WithStatus
  <2>1. task[j] \notin {"closing", "ended"}
    BY DEF Driven, InFlight, Terminal
  <2>2. CASE task[j] = "none"
    BY <2>2 DEF Driven
  <2> QED
    BY <2>1, <2>2
<1> QED
  BY <1>1, AlwaysDriven, PTL

\* Then the rows keep the cap as well: at most max_concurrent of them say "executing".
THEOREM RowsStayWithinCap ==
    ASSUME Calm
    PROVE  Spec /\ []Undisturbed => []ExecutingRowsWithinCap
<1>1. Accounted /\ RowsFollowed /\ Driven => ExecutingRowsWithinCap
  <2> SUFFICES ASSUME Accounted, RowsFollowed, Driven, process = "up"
               PROVE  Cardinality(WithStatus({"executing"})) <= MaxConcurrent
    BY DEF ExecutingRowsWithinCap
  <2>1. ASSUME NEW j \in Job, row[j] = "executing" PROVE task[j] \in Slotted
    <3>1. task[j] \in Phase
      BY DEF Accounted, TypeOK
    <3>2. task[j] # "none"
      BY <2>1 DEF Driven, InFlight
    <3>3. task[j] \notin {"created", "waiting", "granted", "slotted", "closing", "ended",
                          "reporting", "marking"}
      BY <2>1 DEF Driven, Terminal
    <3> QED
      BY <3>1, <3>2, <3>3 DEF Phase
  <2>2. WithStatus({"executing"}) \subseteq Holders /\ Holders \in SUBSET Job
    BY <2>1 DEF WithStatus, Holders
  <2>3. IsFiniteSet(Holders) /\ Cardinality(Holders) \in Nat
    BY <2>2, JobSetFinite
  <2>4. /\ Cardinality(WithStatus({"executing"})) <= Cardinality(Holders)
        /\ Cardinality(WithStatus({"executing"})) \in Nat
    BY <2>2, <2>3, FS_Subset, FS_CardinalityType
  <2> QED
    BY <2>3, <2>4, MaxConcurrentAssumption DEF Accounted, SlotsConserved, TypeOK
<1> QED
  BY <1>1, AlwaysDriven, PTL
=============================================================================
