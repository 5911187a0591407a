----------------------------- MODULE DrainProofs -----------------------------
(***************************************************************************)
(* Proofs about Drain for any number of nodes, shards, jobs, slots, faults *)
(* and restarts, and any overlap of the reads and writes of the setting:   *)
(* what no overlap can undo, and that persistent exclusions survive.       *)
(***************************************************************************)
EXTENDS Drain, TLAPS

-----------------------------------------------------------------------------
(* Type correctness.                                                       *)

\* Every step keeps the types of the variables.
LEMMA StepTyped == TypeOK /\ [Next]_vars => TypeOK'
<1> SUFFICES ASSUME TypeOK, [Next]_vars PROVE TypeOK'
  OBVIOUS
<1> USE JobAssumption, SettingAssumption, PlaceAssumption
        DEF TypeOK, Phase, Executing, Terminal, ExcludeSet
<1>1. ASSUME NEW j \in Job, Submit(j) \/ ReadExcluded(j) \/ WriteExcluded(j) \/ Drained(j) \/ Fail(j)
      PROVE  TypeOK'
  BY <1>1 DEF Submit, ReadExcluded, WriteExcluded, Drained, Fail, esVars, cancelVars
<1>2. ASSUME NEW j \in Job, AskCancel(j) \/ UndrainRead(j) \/ UndrainWrite(j)
      PROVE  TypeOK'
  BY <1>2 DEF AskCancel, UndrainRead, UndrainWrite, esVars, jobVars
<1>3. ASSUME NEW j \in Job, Interrupt(j) \/ CancelFails(j)
      PROVE  TypeOK'
  BY <1>3 DEF Interrupt, CancelFails, Abandoned, esVars, jobVars
<1>4. ASSUME NEW s \in Shard, NEW n \in Node, StartMove(s, n) PROVE TypeOK'
  BY <1>4 DEF StartMove, jobVars, cancelVars
<1>5. ASSUME NEW s \in Shard, FinishMove(s) PROVE TypeOK'
  BY <1>5 DEF FinishMove, jobVars, cancelVars
<1>6. CASE Restart
  <2>1. crashes' \in 0 .. MaxCrashes
    BY <1>6, BoundAssumption DEF Restart
  <2> QED BY <1>6, <2>1 DEF Restart, Abandoned, esVars
<1>7. CASE UNCHANGED vars
  BY <1>7 DEF vars, esVars, jobVars, cancelVars
<1> QED BY <1>1, <1>2, <1>3, <1>4, <1>5, <1>6, <1>7 DEF Next, Drive, Answer

\* The variables have their types initially.
LEMMA InitTyped == Init => TypeOK
BY PlaceAssumption, BoundAssumption DEF Init, TypeOK, Phase, Executing, Terminal

\* Every variable of a drain keeps its type, whatever fails or overlaps.
THEOREM TypeCorrect == Spec => []TypeOK
BY InitTyped, StepTyped, PTL DEF Spec

-----------------------------------------------------------------------------
(* What overlapping drains and undrains cannot undo.                       *)

\* The steps that neither read the setting nor write it.
LEMMA OthersReadNothing ==
    ASSUME TypeOK, [Next]_vars,
           \A j \in Job : ~ (\/ ReadExcluded(j) \/ WriteExcluded(j)
                            \/ UndrainRead(j) \/ UndrainWrite(j))
    PROVE  /\ transient' = transient
           /\ \A j \in Job : at'[j] = "write" => at[j] = "write" /\ read'[j] = read[j]
           /\ \A j \in Job : cancel'[j] = "read" => cancel[j] = "read" /\ undrain'[j] = undrain[j]
<1> USE DEF TypeOK
<1>1. ASSUME NEW j \in Job, Submit(j) \/ Drained(j) \/ Fail(j)
      PROVE  /\ transient' = transient /\ UNCHANGED cancelVars
             /\ \A k \in Job : at'[k] = "write" => at[k] = "write" /\ read'[k] = read[k]
  BY <1>1 DEF Submit, Drained, Fail, esVars, Executing
<1>2. ASSUME NEW j \in Job, AskCancel(j) \/ Interrupt(j) \/ CancelFails(j)
      PROVE  /\ transient' = transient
             /\ \A k \in Job : at'[k] = "write" => at[k] = "write" /\ read'[k] = read[k]
             /\ \A k \in Job : cancel'[k] = "read" => cancel[k] = "read" /\ undrain'[k] = undrain[k]
  BY <1>2 DEF AskCancel, Interrupt, CancelFails, Abandoned, esVars, jobVars, Terminal
<1>3. CASE Restart
  BY <1>3 DEF Restart, Abandoned, esVars, Executing
<1>4. CASE \/ \E s \in Shard : FinishMove(s) \/ \E n \in Node : StartMove(s, n)
           \/ UNCHANGED vars
  <2>1. UNCHANGED <<transient, jobVars, cancelVars>>
    BY <1>4 DEF FinishMove, StartMove, vars, esVars
  <2> QED
    BY <2>1 DEF jobVars, cancelVars
<1> QED
  BY <1>1, <1>2, <1>3, <1>4 DEF Next, Drive, Answer, cancelVars

\* Only the undrain of its own node unsettles an exclusion.
LEMMA StepSettles ==
    ASSUME TypeOK, [Next]_vars, NEW n \in Node, Settled(n),
           \A j \in Job : UndrainWrite(j) => NodeOf[j] # n
    PROVE  Settled(n)'
<1> USE DEF TypeOK, Settled
<1>1. n \in ExcludeSet /\ (n \in transient' => n \in Effective')
  BY DEF ExcludeSet, Effective
<1>2. ASSUME NEW j \in Job, ReadExcluded(j) PROVE Settled(n)'
  BY <1>1, <1>2 DEF ReadExcluded, esVars, cancelVars, Effective
<1>3. ASSUME NEW j \in Job, UndrainRead(j) PROVE Settled(n)'
  BY <1>1, <1>3 DEF UndrainRead, esVars, jobVars, Effective
<1>4. ASSUME NEW j \in Job, WriteExcluded(j) PROVE Settled(n)'
  <2>1. n \in Effective'
    BY <1>1, <1>4 DEF WriteExcluded
  <2> QED
    BY <1>4, <2>1 DEF WriteExcluded, cancelVars
<1>5. ASSUME NEW j \in Job, UndrainWrite(j) PROVE Settled(n)'
  <2>1. n \in Effective'
    BY <1>1, <1>5 DEF UndrainWrite
  <2> QED
    BY <1>5, <2>1 DEF UndrainWrite, jobVars
<1>6. CASE \A j \in Job : ~ (\/ ReadExcluded(j) \/ WriteExcluded(j)
                             \/ UndrainRead(j) \/ UndrainWrite(j))
  <2>1. Effective' = Effective
    BY <1>6, OthersReadNothing DEF Effective
  <2> QED
    BY <1>6, <2>1, OthersReadNothing
<1> QED
  BY <1>2, <1>3, <1>4, <1>5, <1>6

\* Only the start of a drain of its own node takes a released node.
LEMMA StepReleases ==
    ASSUME TypeOK, [Next]_vars, NEW n \in Node, Released(n),
           \A j \in Job : ReadExcluded(j) => NodeOf[j] # n
    PROVE  Released(n)'
<1> USE DEF TypeOK, Released, ExcludeSet
<1>1. ASSUME NEW j \in Job, ReadExcluded(j) PROVE Released(n)'
  BY <1>1 DEF ReadExcluded, esVars, cancelVars
<1>2. ASSUME NEW j \in Job, UndrainRead(j) PROVE Released(n)'
  BY <1>2 DEF UndrainRead, esVars, jobVars
<1>3. ASSUME NEW j \in Job, WriteExcluded(j) PROVE Released(n)'
  BY <1>3 DEF WriteExcluded, cancelVars
<1>4. ASSUME NEW j \in Job, UndrainWrite(j) PROVE Released(n)'
  BY <1>4 DEF UndrainWrite, jobVars
<1>5. CASE \A j \in Job : ~ (\/ ReadExcluded(j) \/ WriteExcluded(j)
                             \/ UndrainRead(j) \/ UndrainWrite(j))
  BY <1>5, OthersReadNothing
<1> QED
  BY <1>1, <1>2, <1>3, <1>4, <1>5

\* However drains, undrains, failures and restarts overlap, an exclusion that is in force
\* and in every copy in hand stays until an undrain of that very node is written.
THEOREM SettledNodesStay == Spec => SettledStays
<1> DEFINE A == \A n \in Node : Settled(n) /\ ~ Settled(n)' =>
         \E j \in Job : NodeOf[j] = n /\ cancel[j] = "read" /\ cancel'[j] = "undrained"
<1>1. ASSUME TypeOK, [Next]_vars, NEW n \in Node, Settled(n), ~ Settled(n)'
      PROVE  \E j \in Job : NodeOf[j] = n /\ cancel[j] = "read" /\ cancel'[j] = "undrained"
  <2>1. PICK j \in Job : UndrainWrite(j) /\ NodeOf[j] = n
    BY <1>1, StepSettles
  <2>2. cancel[j] = "read" /\ cancel'[j] = "undrained"
    BY <1>1, <2>1 DEF UndrainWrite, TypeOK
  <2> QED
    BY <2>1, <2>2
<1>2. TypeOK /\ [Next]_vars => [A]_vars
  BY <1>1
<1> QED
  BY <1>2, TypeCorrect, PTL DEF Spec, SettledStays

\* Likewise a node that is in no setting, no copy in hand and no starting drain stays
\* available for shards until a drain of that very node starts.
THEOREM ReleasedNodesStay == Spec => ReleasedStays
<1> DEFINE A == \A n \in Node : Released(n) /\ ~ Released(n)' =>
         \E j \in Job : NodeOf[j] = n /\ at[j] = "queued" /\ at'[j] = "write"
<1>1. ASSUME TypeOK, [Next]_vars, NEW n \in Node, Released(n), ~ Released(n)'
      PROVE  \E j \in Job : NodeOf[j] = n /\ at[j] = "queued" /\ at'[j] = "write"
  <2>1. PICK j \in Job : ReadExcluded(j) /\ NodeOf[j] = n
    BY <1>1, StepReleases
  <2>2. at[j] = "queued" /\ at'[j] = "write"
    BY <1>1, <2>1 DEF ReadExcluded, TypeOK
  <2> QED
    BY <2>1, <2>2
<1>2. TypeOK /\ [Next]_vars => [A]_vars
  BY <1>1
<1> QED
  BY <1>2, TypeCorrect, PTL DEF Spec, ReleasedStays

-----------------------------------------------------------------------------
(* The persistent setting, if nobody drains one of its nodes.              *)

NoneIsPersistent == \A j \in Job : NodeOf[j] \notin Persistent

\* The transient setting, where it is set, contains the persistent one.
Copied == transient # {} => Persistent \subseteq transient

\* So does every copy that will be written to it, however old.
CopiesCopied ==
    \A j \in Job : /\ at[j] = "write" => Persistent \subseteq read[j]
                   /\ cancel[j] = "read" => Persistent \subseteq undrain[j]

\* Every step copies the persistent setting along.
LEMMA StepCopies ==
    ASSUME TypeOK, Copied, CopiesCopied, NoneIsPersistent, [Next]_vars
    PROVE  Copied' /\ CopiesCopied'
<1> USE DEF TypeOK, Copied, CopiesCopied
<1>1. ASSUME NEW j \in Job, Submit(j) \/ Drive(j) \/ Fail(j)
      PROVE  Copied' /\ CopiesCopied'
  <2>1. CASE Submit(j) \/ Drained(j) \/ Fail(j)
    BY <2>1 DEF Submit, Drained, Fail, esVars, cancelVars
  <2>2. CASE ReadExcluded(j)
    BY <2>2 DEF ReadExcluded, ExcludeSet, esVars, cancelVars
  <2>3. CASE WriteExcluded(j)
    BY <2>3 DEF WriteExcluded, cancelVars
  <2> QED BY <1>1, <2>1, <2>2, <2>3 DEF Drive
<1>2. ASSUME NEW j \in Job, AskCancel(j) \/ Answer(j) \/ CancelFails(j)
      PROVE  Copied' /\ CopiesCopied'
  <2>1. CASE AskCancel(j) \/ Interrupt(j) \/ CancelFails(j)
    BY <2>1 DEF AskCancel, Interrupt, CancelFails, Abandoned, esVars, jobVars, Terminal
  <2>2. CASE UndrainRead(j)
    BY <2>2 DEF UndrainRead, ExcludeSet, esVars, jobVars
  <2>3. CASE UndrainWrite(j)
    BY <2>3 DEF UndrainWrite, NoneIsPersistent, jobVars
  <2> QED BY <1>2, <2>1, <2>2, <2>3 DEF Answer
<1>3. CASE \/ \E s \in Shard : FinishMove(s) \/ \E n \in Node : StartMove(s, n)
           \/ UNCHANGED vars
  <2>1. UNCHANGED <<transient, jobVars, cancelVars>>
    BY <1>3 DEF FinishMove, StartMove, vars, esVars
  <2> QED BY <2>1 DEF jobVars, cancelVars
<1>4. CASE Restart
  BY <1>4 DEF Restart, Abandoned, esVars, Executing
<1> QED BY <1>1, <1>2, <1>3, <1>4 DEF Next

\* Drains and undrains never hide a persistent exclusion, not even those that overlap and
\* undo each other, as long as none of them is of a persistently excluded node.
THEOREM PersistentIsKept == ASSUME NoneIsPersistent PROVE Spec => []PersistentKept
<1>1. Init => Copied /\ CopiesCopied
  BY DEF Init, Copied, CopiesCopied
<1>2. TypeOK /\ Copied /\ CopiesCopied /\ [Next]_vars => Copied' /\ CopiesCopied'
  BY StepCopies
<1>3. Copied => PersistentKept
  BY DEF Copied, PersistentKept, Effective
<1> QED BY <1>1, <1>2, <1>3, TypeCorrect, PTL DEF Spec
=============================================================================
