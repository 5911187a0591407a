------------------------- MODULE InPlaceResizeProofs -------------------------
(***************************************************************************)
(* Proofs about InPlaceResize for every set of documents, whatever calls   *)
(* fail, wherever the job is cancelled or the process dies, whenever       *)
(* clients write, and for any number of runs, of one job or of several.    *)
(***************************************************************************)
EXTENDS InPlaceResize, FiniteSetTheorems, TLAPS

\* Steps of a run before the source is deleted.
Preparing == {"dropStale", "block", "copy", "settle", "restore", "countTemp",
              "countSource", "dropCopy", "deleteSource"}

\* Those of them from the copy on.
Copied == {"settle", "countTemp", "countSource", "dropCopy", "deleteSource"}

\* Where the documents are.
Stock ==
    /\ \A n \in Name : docs[n] \subseteq acked
    /\ \A n \in Name \ exists : docs[n] = {}
    /\ left \subseteq acked
    /\ unseen \subseteq docs["source"]
    /\ uncounted \subseteq acked
    /\ reindexing => "temp" \in exists

\* What the executor's step says of its copy and of the counts it compares.
Verified ==
    /\ at \in Copied \/ (at = "restore" /\ pending = "none") =>
         exists = Name /\ ~ reindexing /\ docs["temp"] \subseteq docs["source"]
    /\ pending # "none" => at = "restore"
    /\ at = "countSource" => counted = Cardinality(docs["temp"])
    /\ at = "deleteSource" => Cardinality(docs["source"] \ docs["temp"]) <= Cardinality(uncounted)
    /\ at = "recountTemp" => counted <= Cardinality(docs["source"])
    /\ at = "dropTemp" => Cardinality(docs["temp"]) <= Cardinality(docs["source"])

CInv == TypeOK /\ Stock /\ Verified

-----------------------------------------------------------------------------
(* Facts about counting documents.                                         *)

\* Any set of documents is finite and can be counted.
LEMMA DocsFinite ==
    ASSUME NEW S \in SUBSET Doc
    PROVE  IsFiniteSet(S) /\ Cardinality(S) \in Nat
BY DocAssumption, FS_Subset, FS_CardinalityType

\* What is left of a set of documents when a part of it is taken out.
LEMMA CountRest ==
    ASSUME NEW S \in SUBSET Doc, NEW T \in SUBSET S
    PROVE  /\ Cardinality(S) \in Nat /\ Cardinality(T) \in Nat /\ Cardinality(S \ T) \in Nat
           /\ Cardinality(S) = Cardinality(S \ T) + Cardinality(T)
<1>1. IsFiniteSet(S) /\ Cardinality(S) \in Nat
  BY DocsFinite
<1>2. Cardinality(T) \in Nat /\ Cardinality(S \ T) \in Nat
  BY DocsFinite
<1>3. Cardinality(S \ T) = Cardinality(S) - Cardinality(S \cap T)
  BY <1>1, FS_Difference
<1>4. S \cap T = T
  OBVIOUS
<1> QED
  BY <1>1, <1>2, <1>3, <1>4

\* Of two sets of documents the larger one lacks less of the smaller one than the
\* other way round.
LEMMA LacksLess ==
    ASSUME NEW S \in SUBSET Doc, NEW T \in SUBSET Doc, Cardinality(T) <= Cardinality(S)
    PROVE  Cardinality(T \ S) <= Cardinality(S \ T)
<1>1. S \cap T \in SUBSET S /\ S \cap T \in SUBSET T
  OBVIOUS
<1>2. S \ (S \cap T) = S \ T /\ T \ (S \cap T) = T \ S
  OBVIOUS
<1>3. PICK B \in SUBSET S : B \in SUBSET T /\ S \ B = S \ T /\ T \ B = T \ S
  BY <1>1, <1>2
<1>4. /\ Cardinality(B) \in Nat
      /\ Cardinality(S \ T) \in Nat /\ Cardinality(S) = Cardinality(S \ T) + Cardinality(B)
  BY <1>3, CountRest
<1>5. Cardinality(T \ S) \in Nat /\ Cardinality(T) = Cardinality(T \ S) + Cardinality(B)
  BY <1>3, CountRest
<1> QED
  BY <1>4, <1>5

\* A part of a set of documents is no larger.
LEMMA PartIsLess ==
    ASSUME NEW S \in SUBSET Doc, NEW T \in SUBSET S
    PROVE  Cardinality(T) <= Cardinality(S)
BY DocsFinite, FS_Subset

-----------------------------------------------------------------------------
(* Type correctness.                                                       *)

\* The variables have their types initially ...
LEMMA InitTyped == Init => TypeOK
<1> SUFFICES ASSUME Init PROVE TypeOK
  OBVIOUS
<1>1. docs \in [Name -> SUBSET Doc]
  BY DocAssumption DEF Init
<1>2. 1 \in 1 .. MaxAttempts
  BY AttemptAssumption
<1> QED BY <1>1, <1>2, DocAssumption DEF Init, TypeOK, Name, Step, Result

\* ... and every step keeps them.
LEMMA StepTyped == TypeOK /\ [Next]_vars => TypeOK'
<1> SUFFICES ASSUME TypeOK, [Next]_vars PROVE TypeOK'
  OBVIOUS
<1> USE DEF TypeOK
<1>0. \A n \in Name : Count(n) \in Nat
  BY DocsFinite DEF Count, Visible
<1>1. CASE ProbeSource \/ ProbeTemp
  BY <1>1 DEF ProbeSource, ProbeTemp, Seen, Resume, esVars, clientVars, Name, Step, Result
<1>2. CASE DropStale \/ DropCopy \/ DeleteSource \/ DropTemp
  BY <1>2 DEF DropStale, DropCopy, DeleteSource, DropTemp, Delete, Goto, End, Name, Step, Result
<1>3. CASE Block \/ Copy \/ Settle \/ Create
  BY <1>3 DEF Block, Copy, Settle, Create, Goto, esVars, clientVars, Name, Step
<1>4. CASE Restore
  BY <1>4 DEF Restore, Goto, End, clientVars, Name, Step, Result
<1>5. CASE CountTemp \/ CountSource \/ RecountSource \/ RecountTemp
  BY <1>0, <1>5 DEF CountTemp, CountSource, RecountSource, RecountTemp, Goto, End, esVars,
                    clientVars, Name, Step, Result
<1>6. CASE StartReindex \/ Poll
  BY <1>6 DEF StartReindex, Poll, Goto, esVars, clientVars, Name, Step
<1>7. CASE CallRefused \/ CallFails \/ Cancel \/ Crash
  BY <1>7 DEF CallRefused, CallFails, Cancel, Crash, Unwind, End, esVars, clientVars,
                    Name, Step, Result
<1>8. CASE Again
  <2>1. resized' \in BOOLEAN
    BY <1>8 DEF Again
  <2>2. attempt' \in 1 .. MaxAttempts
    BY <1>8, AttemptAssumption DEF Again
  <2> QED
    BY <1>8, <2>1, <2>2 DEF Again, clientVars, Name, Step, Result
<1>9. CASE ReindexTask
  <2>1. UNCHANGED <<exists, blocked, resized, acked, uncounted, jobVars>> /\ reindexing' \in BOOLEAN
    BY <1>9 DEF ReindexTask
  <2>2. \/ UNCHANGED <<docs, left, unseen>>
        \/ \E d \in left : /\ docs' = [docs EXCEPT !["source"] = @ \cup {d}]
                           /\ unseen' = unseen \cup ({d} \ docs["source"])
                           /\ left' = left \ {d}
    BY <1>9 DEF ReindexTask
  <2>3. docs' \in [Name -> SUBSET Doc] /\ left' \subseteq Doc /\ unseen' \subseteq Doc
    BY <2>2 DEF Name
  <2> QED
    BY <2>1, <2>3 DEF jobVars
<1>10. ASSUME NEW d \in Doc, ClientWrite(d) \/ Refresh(d) PROVE TypeOK'
  <2>1. CASE ClientWrite(d)
    <3>1. docs' \in [Name -> SUBSET Doc] /\ resized' \in BOOLEAN
      BY <2>1 DEF ClientWrite, Name
    <3> QED
      BY <2>1, <3>1 DEF ClientWrite, jobVars, Name
  <2>2. CASE Refresh(d)
    BY <2>2 DEF Refresh, jobVars
  <2> QED
    BY <1>10, <2>1, <2>2
<1>11. CASE UNCHANGED vars
  BY <1>11 DEF vars, esVars, clientVars, jobVars
<1> QED BY <1>1, <1>2, <1>3, <1>4, <1>5, <1>6, <1>7, <1>8, <1>9, <1>10, <1>11
        DEF Next, Execute

\* Every variable keeps its type, whatever fails and whoever writes when.
THEOREM TypeCorrect == Spec => []TypeOK
BY InitTyped, StepTyped, PTL DEF Spec

-----------------------------------------------------------------------------
(* What is destroyed has been counted.                                     *)

\* The job starts from one source.
LEMMA Start == Init => CInv
<1> SUFFICES ASSUME Init PROVE CInv
  OBVIOUS
<1>1. TypeOK
  BY InitTyped
<1> QED
  BY <1>1 DEF Init, CInv, Stock, Verified, Copied, Name

\* The lookups of the resume guard, and the ends of a run, touch no document.
LEMMA EndKeeps ==
    ASSUME CInv, TypeOK',
           \/ ProbeSource \/ ProbeTemp \/ CallRefused \/ CallFails \/ Cancel \/ Crash \/ Again
    PROVE  CInv'
<1> USE DEF CInv, Stock, Verified, Copied
<1>1. CASE ProbeSource
  BY <1>1 DEF ProbeSource, esVars, clientVars
<1>2. CASE ProbeTemp
  <2>1. PICK t \in Seen("temp") : at' = Resume(found \cup t)
    BY <1>2 DEF ProbeTemp
  <2>2. t \subseteq {"temp"} /\ found \subseteq Name
    BY <2>1 DEF Seen, TypeOK
  <2>3. at' \in {"create", "idle", "dropStale", "block"}
    BY <2>1, <2>2 DEF Resume, Name
  <2> QED
    BY <1>2, <2>3 DEF ProbeTemp, esVars, clientVars
<1>3. CASE CallRefused \/ CallFails \/ Cancel \/ Crash
  <2>1. UNCHANGED esVars
    BY <1>3 DEF CallRefused, CallFails, Cancel, Crash
  <2>2. \/ at' = "restore" /\ pending' \in {"failed", "cancelled"}
        \/ at' = "idle" /\ pending' = "none"
    BY <1>3 DEF CallRefused, CallFails, Cancel, Crash, Unwind, End
  <2> QED
    BY <2>1, <2>2 DEF esVars, clientVars
<1>4. CASE Again
  BY <1>4 DEF Again, clientVars
<1> QED
  BY <1>1, <1>2, <1>3, <1>4

\* A deletion takes the documents of one index and what is known of them.
LEMMA DeletionKeeps ==
    ASSUME CInv, TypeOK', DropStale \/ DropCopy \/ DeleteSource \/ DropTemp
    PROVE  CInv'
<1> USE DEF CInv, Stock, Verified, Copied, TypeOK, Name
<1>1. CASE DropStale \/ DropCopy \/ DropTemp
  <2>1. /\ docs' = [docs EXCEPT !["temp"] = {}] /\ exists' = exists \ {"temp"}
        /\ UNCHANGED <<acked, left, unseen, uncounted>> /\ ~ reindexing'
        /\ at' \in {"block", "idle"} /\ (pending' = pending \/ pending' = "none")
        /\ at # "restore"
    BY <1>1 DEF DropStale, DropCopy, DropTemp, Delete, Goto, End
  <2> QED
    BY <2>1
<1>2. CASE DeleteSource
  <2>1. /\ docs' = [docs EXCEPT !["source"] = {}] /\ exists' = exists \ {"source"}
        /\ UNCHANGED <<acked, left>> /\ unseen' = {} /\ uncounted' = {}
        /\ at = "deleteSource" /\ at' = "create" /\ pending' = pending
        /\ reindexing' = reindexing
    BY <1>2 DEF DeleteSource, Delete, Goto
  <2> QED
    BY <2>1
<1> QED
  BY <1>1, <1>2

\* Steps that change settings, and the copy.
LEMMA SettingKeeps ==
    ASSUME CInv, TypeOK',
           Block \/ Copy \/ Settle \/ Restore \/ Create \/ StartReindex \/ Poll
    PROVE  CInv'
<1> USE DEF CInv, Stock, Verified, Copied
<1>1. CASE Block \/ Settle \/ Poll
  BY <1>1 DEF Block, Settle, Poll, Goto, esVars, clientVars
<1>2. CASE Copy
  BY <1>2 DEF Copy, Goto, clientVars, TypeOK, Name
<1>3. CASE Restore
  BY <1>3 DEF Restore, Goto, End, clientVars
<1>4. CASE Create
  BY <1>4 DEF Create, Goto, clientVars
<1>5. CASE StartReindex
  BY <1>5 DEF StartReindex, Goto, clientVars, Name
<1> QED
  BY <1>1, <1>2, <1>3, <1>4, <1>5

\* Equal counts: what temp lacks is what the count has not seen, and a source that
\* counts as many as temp is no smaller.
LEMMA CountKeeps ==
    ASSUME CInv, TypeOK', CountTemp \/ CountSource \/ RecountSource \/ RecountTemp
    PROVE  CInv'
<1> USE DEF CInv, Stock, Verified, Copied
<1>0. docs["source"] \in SUBSET Doc /\ docs["temp"] \in SUBSET Doc /\ unseen \in SUBSET docs["source"]
  BY DEF TypeOK, Name
<1>1. CASE CountTemp
  BY <1>1 DEF CountTemp, Count, Visible, esVars, clientVars
<1>2. CASE CountSource
  <2>1. UNCHANGED <<exists, docs, left, acked, unseen, reindexing, pending>>
    BY <1>2 DEF CountSource, Goto
  <2>2. CASE counted # Count("source")
    BY <1>2, <2>1, <2>2 DEF CountSource, Goto
  <2>3. CASE counted = Count("source")
    <3>1. docs["temp"] \in SUBSET docs["source"]
          /\ Cardinality(docs["temp"]) = Cardinality(docs["source"] \ unseen)
      BY <1>2, <2>3 DEF CountSource, Count, Visible
    <3>2. Cardinality(docs["source"] \ docs["temp"]) = Cardinality(unseen)
      <4>1. /\ Cardinality(docs["source"] \ unseen) \in Nat /\ Cardinality(unseen) \in Nat
            /\ Cardinality(docs["source"]) = Cardinality(docs["source"] \ unseen) + Cardinality(unseen)
        BY <1>0, CountRest
      <4>2. /\ Cardinality(docs["source"] \ docs["temp"]) \in Nat
            /\ Cardinality(docs["source"])
                   = Cardinality(docs["source"] \ docs["temp"]) + Cardinality(docs["temp"])
        BY <1>0, <3>1, CountRest
      <4> QED
        BY <3>1, <4>1, <4>2
    <3>3. at' = "deleteSource" /\ uncounted' = unseen /\ Cardinality(unseen) \in Nat
      BY <1>0, <1>2, <2>3, CountRest DEF CountSource, Goto
    <3> QED
      BY <1>2, <2>1, <3>2, <3>3 DEF CountSource, Goto, TypeOK, Name
  <2> QED
    BY <2>2, <2>3
<1>3. CASE RecountSource
  <2>1. Cardinality(docs["source"] \ unseen) <= Cardinality(docs["source"])
    BY <1>0, PartIsLess
  <2> QED
    BY <1>3, <2>1 DEF RecountSource, Count, Visible, esVars, clientVars
<1>4. CASE RecountTemp
  BY <1>4 DEF RecountTemp, Count, Visible, Goto, End, esVars, clientVars
<1> QED
  BY <1>1, <1>2, <1>3, <1>4

\* The reindex task only adds to the source.
LEMMA ReindexKeeps ==
    ASSUME CInv, TypeOK', ReindexTask
    PROVE  CInv'
<1> USE DEF CInv, Stock, Verified, Copied
<1>1. \/ docs' = docs /\ left' = left /\ unseen' = unseen
      \/ \E d \in left : /\ docs' = [docs EXCEPT !["source"] = @ \cup {d}]
                         /\ unseen' = unseen \cup ({d} \ docs["source"])
                         /\ left' = left \ {d}
  BY DEF ReindexTask
<1>2. /\ docs["source"] \in SUBSET docs'["source"] /\ docs'["source"] \in SUBSET acked
      /\ docs'["temp"] = docs["temp"] /\ left' \subseteq acked /\ unseen' \subseteq docs'["source"]
  BY <1>1 DEF TypeOK, Name
<1>3. /\ reindexing /\ "source" \in exists /\ (reindexing' => reindexing)
      /\ UNCHANGED <<exists, acked, uncounted, at, counted, pending>>
  BY DEF ReindexTask, jobVars
<1>4. docs'["source"] \in SUBSET Doc /\ docs["source"] \in SUBSET Doc /\ docs["temp"] \in SUBSET Doc
      /\ counted \in Nat
  BY <1>2 DEF TypeOK, Name
<1>5. /\ Cardinality(docs["source"]) <= Cardinality(docs'["source"])
      /\ Cardinality(docs["source"]) \in Nat /\ Cardinality(docs'["source"]) \in Nat
      /\ Cardinality(docs["temp"]) \in Nat
  BY <1>2, <1>4, PartIsLess, DocsFinite
<1>6. Stock'
  BY <1>2, <1>3 DEF Name
<1>7. at = "recountTemp" => counted <= Cardinality(docs'["source"])
  BY <1>4, <1>5
<1>8. at = "dropTemp" => Cardinality(docs'["temp"]) <= Cardinality(docs'["source"])
  BY <1>2, <1>5
<1> QED
  BY <1>2, <1>3, <1>6, <1>7, <1>8

\* So do clients; what they write after the count is not counted.
LEMMA WriteKeeps ==
    ASSUME CInv, TypeOK', NEW d \in Doc, ClientWrite(d)
    PROVE  CInv'
<1> USE DEF CInv, Stock, Verified, Copied
<1>1. /\ docs'["source"] = docs["source"] \cup {d} /\ docs'["temp"] = docs["temp"]
      /\ acked' = acked \cup {d} /\ unseen' = unseen \cup {d}
      /\ exists' = exists \cup {"source"} /\ d \notin acked
      /\ UNCHANGED <<left, reindexing, at, counted, pending>>
      /\ uncounted' = IF at = "deleteSource" THEN uncounted \cup {d} ELSE uncounted
  BY DEF ClientWrite, jobVars, TypeOK, Name
<1>2. docs["source"] \in SUBSET docs'["source"] /\ docs'["source"] \in SUBSET Doc
      /\ docs["source"] \in SUBSET Doc /\ docs["temp"] \in SUBSET Doc /\ counted \in Nat
      /\ uncounted \in SUBSET Doc
  BY <1>1 DEF TypeOK, Name
<1>3. /\ Cardinality(docs["source"]) <= Cardinality(docs'["source"])
      /\ Cardinality(docs["source"]) \in Nat /\ Cardinality(docs'["source"]) \in Nat
      /\ Cardinality(docs["temp"]) \in Nat
  BY <1>2, PartIsLess, DocsFinite
<1>4. Stock'
  BY <1>1 DEF TypeOK, Name
<1>5. at = "deleteSource" =>
          Cardinality(docs'["source"] \ docs'["temp"]) <= Cardinality(uncounted')
  <2> SUFFICES ASSUME at = "deleteSource"
               PROVE  Cardinality(docs'["source"] \ docs'["temp"]) <= Cardinality(uncounted')
    OBVIOUS
  <2>1. PICK M \in SUBSET Doc : M = docs["source"] \ docs["temp"]
    BY <1>2
  <2>2. d \notin M /\ d \notin uncounted
    BY <1>1, <2>1 DEF Name
  <2>3. docs'["source"] \ docs'["temp"] = M \cup {d} /\ uncounted' = uncounted \cup {d}
    BY <1>1, <2>1 DEF Name
  <2>4. /\ IsFiniteSet(M) /\ Cardinality(M) \in Nat
        /\ IsFiniteSet(uncounted) /\ Cardinality(uncounted) \in Nat
    BY <1>2, <2>1, DocsFinite
  <2>5. /\ Cardinality(M \cup {d}) = Cardinality(M) + 1
        /\ Cardinality(uncounted \cup {d}) = Cardinality(uncounted) + 1
    BY <2>2, <2>4, FS_AddElement
  <2>6. Cardinality(M) <= Cardinality(uncounted)
    BY <2>1
  <2>7. Cardinality(M \cup {d}) <= Cardinality(uncounted \cup {d})
    BY <2>4, <2>5, <2>6
  <2> QED
    BY <2>3, <2>7
<1>6. at = "recountTemp" => counted <= Cardinality(docs'["source"])
  BY <1>2, <1>3
<1>7. at = "dropTemp" => Cardinality(docs'["temp"]) <= Cardinality(docs'["source"])
  BY <1>1, <1>3
<1>8. exists = Name => exists' = Name
  BY <1>1 DEF Name
<1> QED
  BY <1>1, <1>2, <1>4, <1>5, <1>6, <1>7, <1>8

\* Every step keeps the inductive invariant.
LEMMA StepKeeps == CInv /\ TypeOK' /\ [Next]_vars => CInv'
<1> SUFFICES ASSUME CInv, TypeOK', [Next]_vars PROVE CInv'
  OBVIOUS
<1>1. CASE UNCHANGED vars
  BY <1>1 DEF vars, esVars, clientVars, jobVars, CInv, Stock, Verified, Copied
<1>2. ASSUME NEW d \in Doc, Refresh(d) PROVE CInv'
  BY <1>2 DEF Refresh, jobVars, CInv, Stock, Verified, Copied
<1> QED
  BY <1>1, <1>2, WriteKeeps, EndKeeps, DeletionKeeps, SettingKeeps, CountKeeps, ReindexKeeps
     DEF Next, Execute

\* The inductive invariant holds throughout.
LEMMA AlwaysVerified == Spec => []CInv
<1>1. CInv /\ [Next]_vars => TypeOK'
  BY StepTyped DEF CInv
<1> QED
  BY <1>1, Start, StepKeeps, PTL DEF Spec

\* Only these steps delete an index, each one of its own.
LEMMA Deletions ==
    ASSUME [Next]_vars, NEW n \in exists \ exists'
    PROVE  \/ n = "temp" /\ (DropStale \/ DropCopy \/ DropTemp)
           \/ n = "source" /\ DeleteSource
<1>1. DropStale \/ DropCopy \/ DropTemp \/ DeleteSource
  BY DEF Next, Execute, ProbeSource, ProbeTemp, Block, Copy, Settle, Restore, CountTemp, CountSource,
         Create, StartReindex, Poll, RecountSource, RecountTemp, CallRefused, CallFails, Cancel,
         Crash, Again, ReindexTask, ClientWrite, Refresh, vars, esVars
<1> QED
  BY <1>1 DEF DropStale, DropCopy, DropTemp, DeleteSource, Delete

\* Whatever fails, dies or is run again, and whenever clients write, the executor
\* deletes the source only with a copy of all that its count could include.
THEOREM SourcesAreCopied == Spec => SourceIsCopied
<1> DEFINE A == at = "deleteSource" /\ "source" \in exists \ exists' =>
                   Cardinality(docs["source"] \ docs["temp"]) <= Cardinality(uncounted)
<1>1. CInv /\ [Next]_vars => [A]_vars
  BY DEF CInv, Verified
<1> QED
  BY <1>1, AlwaysVerified, PTL DEF Spec, SourceIsCopied

\* Likewise it deletes temp after a verified refill, or after a copy that failed, only
\* when the source lacks no more of it than clients have added to the source.
THEOREM TempsAreCopied == Spec => TempIsCopied
<1> DEFINE A == at # "dropStale" /\ "temp" \in exists \ exists' =>
                   Cardinality(docs["temp"] \ docs["source"])
                       <= Cardinality(docs["source"] \ docs["temp"])
<1>1. ASSUME CInv, [Next]_vars, at # "dropStale", "temp" \in exists \ exists'
      PROVE  Cardinality(docs["temp"] \ docs["source"])
                 <= Cardinality(docs["source"] \ docs["temp"])
  <2>1. docs["source"] \in SUBSET Doc /\ docs["temp"] \in SUBSET Doc
    BY <1>1 DEF CInv, TypeOK, Name
  <2>2. at \in {"dropCopy", "dropTemp"}
    BY <1>1, Deletions DEF DropStale, DropCopy, DropTemp
  <2>3. CASE at = "dropCopy"
    <3>1. docs["temp"] \in SUBSET docs["source"]
      BY <1>1, <2>3 DEF CInv, Verified, Copied
    <3>2. docs["temp"] \ docs["source"] = {} /\ Cardinality(docs["source"] \ docs["temp"]) \in Nat
      BY <2>1, <3>1, CountRest
    <3> QED
      BY <3>2, FS_EmptySet
  <2>4. CASE at = "dropTemp"
    BY <1>1, <2>1, <2>4, LacksLess DEF CInv, Verified
  <2> QED
    BY <2>2, <2>3, <2>4
<1>2. CInv /\ [Next]_vars => [A]_vars
  BY <1>1
<1> QED
  BY <1>2, AlwaysVerified, PTL DEF Spec, TempIsCopied

-----------------------------------------------------------------------------
(* A completed resize is whole.                                            *)

\* What the last steps of a run rest on, if the lookups of the resume guard do not fail.
Refilled ==
    /\ "source" \notin exists => ~ blocked
    /\ at = "probeTemp" /\ "source" \notin found => "source" \notin exists
    /\ at = "create" => "source" \notin exists
    /\ at \in Reindexing \cup {"dropTemp"} => "source" \in exists /\ resized /\ ~ blocked
    /\ result = "completed" => at = "idle" /\ CompletedIsWhole

\* The first lookup, and where the second one leads.
LEMMA ProbeRefills ==
    ASSUME TypeOK, "probe" \notin Faults, Refilled, ProbeSource \/ ProbeTemp
    PROVE  Refilled'
<1>1. UNCHANGED esVars
  BY DEF ProbeSource, ProbeTemp
<1>2. CASE ProbeSource
  BY <1>1, <1>2 DEF ProbeSource, Seen, esVars, clientVars, Refilled, CompletedIsWhole, Reindexing
<1>3. CASE ProbeTemp
  <2>1. PICK t \in Seen("temp") :
            /\ at' = Resume(found \cup t)
            /\ result' = IF found \cup t = {} THEN "failed" ELSE result
    BY <1>3 DEF ProbeTemp
  <2>2. t \subseteq {"temp"} /\ found \subseteq Name
    BY <2>1 DEF Seen, TypeOK
  <2>3. at' \in {"create", "idle", "dropStale", "block"} /\ (at' = "create" => "source" \notin found)
    BY <2>1, <2>2 DEF Resume, Name
  <2>4. result # "completed" /\ result' # "completed"
    BY <1>3, <2>1 DEF ProbeTemp, Refilled
  <2> QED
    BY <1>1, <1>3, <2>3, <2>4 DEF ProbeTemp, esVars, clientVars, Refilled, Reindexing
<1> QED
  BY <1>2, <1>3

\* The executor goes through the refill to its end.
LEMMA StepRefills ==
    ASSUME TypeOK, {"probe", "autocreate"} \cap Faults = {}, Refilled, [Next]_vars
    PROVE  Refilled'
<1> USE DEF Refilled, CompletedIsWhole, Reindexing
<1>1. CASE DropStale \/ DropCopy \/ DeleteSource
  BY <1>1 DEF DropStale, DropCopy, DeleteSource, Delete, Goto, End
<1>2. CASE Block \/ Copy \/ Settle \/ Restore
  BY <1>2 DEF Block, Copy, Settle, Restore, Goto, End, esVars, TypeOK
<1>3. CASE CountTemp \/ CountSource
  BY <1>3 DEF CountTemp, CountSource, Goto, esVars
<1>4. CASE Create \/ StartReindex \/ Poll \/ RecountSource \/ RecountTemp
  BY <1>4 DEF Create, StartReindex, Poll, RecountSource, RecountTemp, Goto, End, esVars
<1>5. CASE DropTemp
  BY <1>5 DEF DropTemp, Delete, End, TypeOK, Name
<1>6. CASE CallRefused \/ CallFails \/ Cancel \/ Crash
  <2>1. UNCHANGED esVars /\ at # "idle"
    BY <1>6 DEF CallRefused, CallFails, Cancel, Crash
  <2>2. \/ at' = "idle" /\ result' # "completed"
        \/ at' = "restore" /\ result' = result
    BY <1>6 DEF CallRefused, CallFails, Cancel, Crash, Unwind, End
  <2> QED
    BY <2>1, <2>2 DEF esVars
<1>7. CASE Again
  BY <1>7 DEF Again
<1>8. CASE ReindexTask
  BY <1>8 DEF ReindexTask, jobVars
<1>9. ASSUME NEW d \in Doc, ClientWrite(d) \/ Refresh(d) PROVE Refilled'
  <2>1. /\ exists' = exists /\ resized' = resized
        /\ UNCHANGED <<at, found, result, blocked>>
    BY <1>9 DEF ClientWrite, Refresh, jobVars
  <2> QED
    BY <2>1
<1>10. CASE UNCHANGED vars
  BY <1>10 DEF vars, esVars, jobVars
<1> QED
  BY <1>1, <1>2, <1>3, <1>4, <1>5, <1>6, <1>7, <1>8, <1>9, <1>10, ProbeRefills DEF Next, Execute

\* If no lookup fails and Elasticsearch creates no index by itself, a resize that
\* completes leaves one writable index of the new shard count, whatever the runs before
\* it have left behind.
THEOREM CompletedIsAlwaysWhole ==
    ASSUME {"probe", "autocreate"} \cap Faults = {}
    PROVE  Spec => []CompletedIsWhole
<1>1. Init => Refilled
  BY DEF Init, Refilled, Reindexing
<1>2. TypeOK /\ Refilled /\ [Next]_vars => Refilled'
  BY StepRefills
<1>3. Refilled => CompletedIsWhole
  BY DEF Refilled, CompletedIsWhole
<1> QED
  BY <1>1, <1>2, <1>3, TypeCorrect, PTL DEF Spec

-----------------------------------------------------------------------------
(* An aborted resize leaves the source writable.                           *)

\* What is known of a first run.
FirstRun ==
    attempt = 1 =>
        /\ at \in Preparing \cup {"probeSource", "probeTemp"} => "source" \in exists
        /\ blocked => at \in {"copy", "settle", "restore"} \/ (at = "idle" /\ result = "crashed")
        /\ result = "none" \/ at = "idle"

\* The block is lifted before a first run ends, unless the process dies.
LEMMA FirstRunKeeps ==
    ASSUME TypeOK, {"restore", "probe"} \cap Faults = {}, "restore" \notin CancelAt, FirstRun, [Next]_vars
    PROVE  FirstRun'
<1> USE DEF FirstRun, Preparing
<1>1. CASE ProbeSource \/ ProbeTemp
  <2>1. UNCHANGED <<esVars, attempt>> /\ at \in {"probeSource", "probeTemp"}
    BY <1>1 DEF ProbeSource, ProbeTemp
  <2>2. at' = "idle" \/ result' = result
    BY <1>1 DEF ProbeSource, ProbeTemp, Resume
  <2> QED
    BY <2>1, <2>2 DEF esVars
<1>2. CASE DropStale \/ DropCopy \/ DeleteSource \/ DropTemp
  BY <1>2 DEF DropStale, DropCopy, DeleteSource, DropTemp, Delete, Goto, End
<1>3. CASE Block \/ Copy \/ Settle
  BY <1>3 DEF Block, Copy, Settle, Goto, esVars
<1>4. CASE Restore
  BY <1>4 DEF Restore, Goto, End, TypeOK
<1>5. CASE CountTemp \/ CountSource \/ Create \/ StartReindex \/ Poll \/ RecountSource \/ RecountTemp
  BY <1>5 DEF CountTemp, CountSource, Create, StartReindex, Poll, RecountSource, RecountTemp,
              Goto, End, esVars
<1>6. CASE CallRefused \/ CallFails \/ Cancel \/ Crash
  <2>1. UNCHANGED esVars /\ at # "idle" /\ attempt' = attempt
    BY <1>6 DEF CallRefused, CallFails, Cancel, Crash, Unwind, End
  <2>2. \/ at' = "restore" /\ at \in Guarded /\ result' = result
        \/ at' = "idle" /\ result' = "crashed"
        \/ at' = "idle" /\ at \notin Guarded /\ at # "restore"
    BY <1>6 DEF CallRefused, CallFails, Cancel, Crash, Unwind, End, Guarded
  <2> QED
    BY <2>1, <2>2 DEF esVars, Guarded
<1>7. CASE Again
  BY <1>7 DEF Again, TypeOK
<1>8. CASE ReindexTask
  BY <1>8 DEF ReindexTask, jobVars
<1>9. ASSUME NEW d \in Doc, ClientWrite(d) \/ Refresh(d) PROVE FirstRun'
  BY <1>9 DEF ClientWrite, Refresh, jobVars
<1>10. CASE UNCHANGED vars
  BY <1>10 DEF vars, esVars, jobVars
<1> QED
  BY <1>1, <1>2, <1>3, <1>4, <1>5, <1>6, <1>7, <1>8, <1>9, <1>10 DEF Next, Execute

\* A first run that fails or is cancelled leaves no write block behind, if the
\* finally block of _resize_in_place finds the source and can lift it uncancelled.
THEOREM AbortsLeaveWritable ==
    ASSUME {"restore", "probe"} \cap Faults = {}, "restore" \notin CancelAt
    PROVE  Spec => []AbortLeavesWritable
<1>1. Init => FirstRun
  BY DEF Init, FirstRun
<1>2. TypeOK /\ FirstRun /\ [Next]_vars => FirstRun'
  BY FirstRunKeeps
<1>3. FirstRun => AbortLeavesWritable
  BY DEF FirstRun, AbortLeavesWritable
<1> QED
  BY <1>1, <1>2, <1>3, TypeCorrect, PTL DEF Spec
=============================================================================
