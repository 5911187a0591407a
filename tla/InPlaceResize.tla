---------------------------- MODULE InPlaceResize ----------------------------
(***************************************************************************)
(* The in-place change of an index's shard count: _resize_in_place and     *)
(* _reindex_temp_into_source of services/executor.py, run by the           *)
(* reduce_shards and split_shards jobs.                                    *)
(*                                                                         *)
(* The executor copies the write-blocked source into a temp index, deletes *)
(* the source, recreates it with the new shard count, reindexes temp back  *)
(* into it and drops temp.  Each action below is one Elasticsearch call of *)
(* the executor; calls may fail, the job may be cancelled at any of them,  *)
(* the process may die between two of them, the job be re-run from the     *)
(* start or another one run after it, while clients write to the source    *)
(* and Elasticsearch works on the reindex task by itself.  A count sees    *)
(* what has become searchable, which follows a write some time later.      *)
(***************************************************************************)
EXTENDS Integers, FiniteSets

CONSTANTS
    Doc,            \* documents
    Stored,         \* those the source holds before the job
    Faults,         \* what may go wrong in Elasticsearch, see Fault
    CrashAt,        \* steps at which the process may die
    CancelAt,       \* steps at which a cancellation may arrive
    WriteAt,        \* steps during which clients may write a new document
    MaxAttempts     \* bound on the runs, of one job or of several

Name == {"source", "temp"}
Step == {"probeSource", "probeTemp", "dropStale", "block", "copy", "settle",
         "restore", "countTemp", "countSource", "dropCopy", "deleteSource",
         "create", "startReindex", "poll", "recountSource", "recountTemp",
         "dropTemp", "idle"}
Fault == {"probe",          \* a lookup of an index fails
          "restore",        \* lifting the write block fails
          "work",           \* any other call, or the reindex task, fails
          "autocreate"}     \* a write to a missing index creates it

\* Steps between the deletion of the source and the end of its replacement.
Reindexing == {"startReindex", "poll", "recountSource", "recountTemp"}
Replacing == Reindexing \cup {"create", "dropTemp"}

Result == {"none", "completed", "failed", "cancelled", "crashed"}

ASSUME DocAssumption == IsFiniteSet(Doc) /\ Stored \subseteq Doc
ASSUME AttemptAssumption == MaxAttempts \in Nat \ {0}
ASSUME WindowAssumption ==
    /\ Faults \subseteq Fault
    /\ CrashAt \subseteq Step /\ CancelAt \subseteq Step /\ WriteAt \subseteq Step

VARIABLES
    exists,         \* the indices that exist
    docs,           \* the documents of each index
    blocked,        \* the source has the write block (and the shrink pin)
    resized,        \* the source has the target shard count
    reindexing,     \* an ES reindex task copies temp into the source
    left,           \* the documents it has still to copy
    acked,          \* documents clients were told are stored
    unseen,         \* those of the source that are not searchable yet
    uncounted,      \* those the count before the deletion could not include
    at,             \* the executor's next step
    found,          \* what the resume guard has seen of the two indices
    counted,        \* the first of the two counts being compared
    pending,        \* the exception that waits for the finally block to end
    result,         \* how the job ended
    attempt         \* number of this run of the job

clientVars == <<acked, unseen, uncounted>>
esVars == <<exists, docs, blocked, resized, reindexing, left, clientVars>>
jobVars == <<at, found, counted, pending, result, attempt>>
vars == <<esVars, jobVars>>

TypeOK ==
    /\ exists \subseteq Name
    /\ docs \in [Name -> SUBSET Doc]
    /\ blocked \in BOOLEAN
    /\ resized \in BOOLEAN
    /\ reindexing \in BOOLEAN
    /\ left \subseteq Doc
    /\ acked \subseteq Doc
    /\ unseen \subseteq Doc
    /\ uncounted \subseteq Doc
    /\ at \in Step
    /\ found \subseteq Name
    /\ counted \in Nat
    /\ pending \in {"none", "failed", "cancelled"}
    /\ result \in Result
    /\ attempt \in 1 .. MaxAttempts

Init ==
    /\ exists = {"source"}
    /\ docs = [n \in Name |-> IF n = "source" THEN Stored ELSE {}]
    /\ blocked = FALSE
    /\ resized = FALSE
    /\ reindexing = FALSE
    /\ left = {}
    /\ acked = Stored
    /\ unseen = {}
    /\ uncounted = {}
    /\ at = "probeSource"
    /\ found = {}
    /\ counted = 0
    /\ pending = "none"
    /\ result = "none"
    /\ attempt = 1

-----------------------------------------------------------------------------
(* Elasticsearch.                                                          *)

\* A count sees what is searchable; temp is not written to after the copy.
Visible(n) == IF n = "source" THEN docs[n] \ unseen ELSE docs[n]
Count(n) == Cardinality(Visible(n))

\* A document of the source becomes searchable; each shard refreshes by itself.
Refresh(d) ==
    /\ d \in unseen
    /\ unseen' = unseen \ {d}
    /\ UNCHANGED <<exists, docs, blocked, resized, reindexing, left, acked, uncounted, jobVars>>

\* DELETE of an existing index; the reindex task reads temp and dies with it.
Delete(n) ==
    /\ n \in exists
    /\ exists' = exists \ {n}
    /\ docs' = [docs EXCEPT ![n] = {}]
    /\ reindexing' = (reindexing /\ n # "temp")
    /\ unseen' = IF n = "source" THEN {} ELSE unseen
    /\ UNCHANGED <<left, acked>>

\* The reindex task copies a document, or ends; on a failure, such as a write
\* block, it ends early and still reports itself completed.
ReindexTask ==
    /\ reindexing
    /\ \/ \E d \in left :
            /\ ~ blocked
            /\ docs' = [docs EXCEPT !["source"] = @ \cup {d}]
            /\ unseen' = unseen \cup ({d} \ docs["source"])
            /\ left' = left \ {d}
            /\ UNCHANGED reindexing
       \/ /\ left = {} \/ blocked \/ "work" \in Faults
          /\ reindexing' = FALSE
          /\ UNCHANGED <<docs, left, unseen>>
    /\ "source" \in exists
    /\ UNCHANGED <<exists, blocked, resized, acked, uncounted, jobVars>>

\* A client stores a new document; where Elasticsearch auto-creates indices, a
\* missing one comes back with whatever shard count its template says.
ClientWrite(d) ==
    /\ d \notin acked
    /\ at \in WriteAt
    /\ ~ blocked
    /\ "autocreate" \notin Faults => "source" \in exists
    /\ exists' = exists \cup {"source"}
    /\ docs' = [docs EXCEPT !["source"] = @ \cup {d}]
    /\ acked' = acked \cup {d}
    /\ unseen' = unseen \cup {d}
    /\ uncounted' = IF at = "deleteSource" THEN uncounted \cup {d} ELSE uncounted
    /\ IF "source" \in exists THEN UNCHANGED resized ELSE resized' \in BOOLEAN
    /\ UNCHANGED <<blocked, reindexing, left, jobVars>>

-----------------------------------------------------------------------------
(* The executor.                                                           *)

Goto(s) == at' = s /\ UNCHANGED <<found, counted, pending, result, attempt>>
End(r) == /\ at' = "idle" /\ result' = r /\ pending' = "none"
          /\ UNCHANGED <<found, counted, attempt>>

\* _index_exists: any failure of the lookup reads as "absent".
Seen(n) == IF "probe" \in Faults THEN {{}, {n} \cap exists} ELSE {{n} \cap exists}

ProbeSource ==
    /\ at = "probeSource"
    /\ found' \in Seen("source")
    /\ at' = "probeTemp"
    /\ UNCHANGED <<esVars, counted, pending, result, attempt>>

\* Mutant: a temp that is found is always taken for a verified copy.
ResumeTrusting(seen) ==
    IF "temp" \in seen THEN "create" ELSE IF seen = {} THEN "idle" ELSE "block"

\* The resume guard: what the two lookups say decides where to go on.
Resume(seen) ==
    CASE seen = {"temp"} -> "create"
      [] seen = {} -> "idle"
      [] seen = {"source", "temp"} -> "dropStale"
      [] seen = {"source"} -> "block"

ProbeTemp ==
    /\ at = "probeTemp"
    /\ \E t \in Seen("temp") :
        /\ found' = found \cup t
        /\ at' = Resume(found \cup t)
        /\ result' = IF found \cup t = {} THEN "failed" ELSE result
    /\ UNCHANGED <<esVars, counted, pending, attempt>>

\* A temp beside a source counts as left over from an aborted run.
DropStale ==
    /\ at = "dropStale"
    /\ Delete("temp")
    /\ Goto("block")
    /\ UNCHANGED <<blocked, resized, uncounted>>

\* Write block; shrink also pins the source to one node and waits for it.
Block ==
    /\ at = "block"
    /\ "source" \in exists
    /\ blocked' = TRUE
    /\ Goto("copy")
    /\ UNCHANGED <<exists, docs, resized, reindexing, left, clientVars>>

\* _split or _shrink into temp: only from an index that has not the target
\* shard count yet, into a name that is free.
Copy ==
    /\ at = "copy"
    /\ exists = {"source"} /\ ~ resized
    /\ exists' = {"source", "temp"}
    /\ docs' = [docs EXCEPT !["temp"] = docs["source"]]
    /\ Goto("settle")
    /\ UNCHANGED <<blocked, resized, reindexing, left, clientVars>>

\* temp is green.
Settle ==
    /\ at = "settle"
    /\ Goto("restore")
    /\ UNCHANGED esVars

\* The finally block lifts the block if it finds the source, suppressing any
\* error; then the pending exception goes on, or the copy is verified.
Restore ==
    /\ at = "restore"
    /\ blocked' \in IF {"restore", "probe"} \cap Faults # {} \/ "source" \notin exists
                    THEN {blocked, FALSE} ELSE {FALSE}
    /\ IF pending = "none" THEN Goto("countTemp") ELSE End(pending)
    /\ UNCHANGED <<exists, docs, resized, reindexing, left, clientVars>>

\* The copy is verified: count(temp) is read first, then count(source).
CountTemp ==
    /\ at = "countTemp"
    /\ "temp" \in exists
    /\ counted' = Count("temp")
    /\ at' = "countSource"
    /\ UNCHANGED <<esVars, found, pending, result, attempt>>

\* Mutant: the copy is taken for complete.
CountSourceUnverified ==
    /\ at = "countSource"
    /\ "source" \in exists
    /\ uncounted' = unseen
    /\ Goto("deleteSource")
    /\ UNCHANGED <<exists, docs, blocked, resized, reindexing, left, acked, unseen>>

CountSource ==
    /\ at = "countSource"
    /\ "source" \in exists
    /\ IF counted = Count("source")
       THEN Goto("deleteSource") /\ uncounted' = unseen
       ELSE Goto("dropCopy") /\ UNCHANGED uncounted
    /\ UNCHANGED <<exists, docs, blocked, resized, reindexing, left, acked, unseen>>

\* A mismatch: the copy is dropped, the source stays, the job fails.
DropCopy ==
    /\ at = "dropCopy"
    /\ Delete("temp")
    /\ End("failed")
    /\ UNCHANGED <<blocked, resized, uncounted>>

\* The definition of the source is captured and the source deleted.
DeleteSource ==
    /\ at = "deleteSource"
    /\ Delete("source")
    /\ blocked' = FALSE
    /\ uncounted' = {}
    /\ Goto("create")
    /\ UNCHANGED resized

\* _reindex_temp_into_source recreates the source unless it finds one.
Create ==
    /\ at = "create"
    /\ \/ /\ "source" \in exists
          /\ UNCHANGED <<exists, resized>>
       \/ /\ "source" \notin exists
          /\ exists' = exists \cup {"source"}
          /\ resized' = TRUE
    /\ Goto("startReindex")
    /\ UNCHANGED <<docs, blocked, reindexing, left, clientVars>>

\* A new task copies all that temp holds, what an older one had left included.
StartReindex ==
    /\ at = "startReindex"
    /\ exists = Name
    /\ reindexing' = TRUE
    /\ left' = docs["temp"]
    /\ Goto("poll")
    /\ UNCHANGED <<exists, docs, blocked, resized, clientVars>>

\* Mutant: polls until everything is copied, whatever the task says.
PollUntilCopied ==
    /\ at = "poll"
    /\ ~ reindexing /\ left = {}
    /\ Goto("recountSource")
    /\ UNCHANGED esVars

\* The executor polls until the task is completed, and the source green.
Poll ==
    /\ at = "poll"
    /\ ~ reindexing
    /\ Goto("recountSource")
    /\ UNCHANGED esVars

\* The replacement is verified: count(source) first, then count(temp).
RecountSource ==
    /\ at = "recountSource"
    /\ "source" \in exists
    /\ counted' = Count("source")
    /\ at' = "recountTemp"
    /\ UNCHANGED <<esVars, found, pending, result, attempt>>

\* Mutant: the replacement is taken for complete.
RecountTempUnverified ==
    /\ at = "recountTemp"
    /\ "temp" \in exists
    /\ Goto("dropTemp")
    /\ UNCHANGED esVars

RecountTemp ==
    /\ at = "recountTemp"
    /\ "temp" \in exists
    /\ IF counted = Count("temp") THEN Goto("dropTemp") ELSE End("failed")
    /\ UNCHANGED esVars

DropTemp ==
    /\ at = "dropTemp"
    /\ Delete("temp")
    /\ End("completed")
    /\ UNCHANGED <<blocked, resized, uncounted>>

\* The steps inside the try block whose finally restores the source.
Guarded == {"block", "copy", "settle"}

\* Mutant: no finally block.
UnwindAtOnce(r) == End(r)

\* What an exception does at the current step; a second one ends the finally.
Unwind(r) ==
    IF at \in Guarded
    THEN /\ at' = "restore" /\ pending' = r
         /\ UNCHANGED <<found, counted, result, attempt>>
    ELSE End(r)

\* Elasticsearch refuses a call: an index is missing, or in the way.
CallRefused ==
    /\ \/ at \in {"block", "countSource", "recountSource"} /\ "source" \notin exists
       \/ at \in {"countTemp", "recountTemp", "dropStale", "dropTemp"}
             /\ "temp" \notin exists
       \/ at = "copy" /\ (exists # {"source"} \/ resized)
       \/ at = "startReindex" /\ exists # Name
       \/ at = "create" /\ "source" \in exists /\ "probe" \in Faults
    /\ Unwind("failed")
    /\ UNCHANGED esVars

\* A call of the executor fails, for whatever reason.
CallFails ==
    /\ "work" \in Faults
    /\ at \notin {"idle", "restore", "probeSource", "probeTemp"}
    /\ Unwind("failed")
    /\ UNCHANGED esVars

\* The job is cancelled at the await the executor is suspended on.
Cancel ==
    /\ at \in CancelAt \ {"idle"}
    /\ Unwind("cancelled")
    /\ UNCHANGED esVars

-----------------------------------------------------------------------------
(* The job around the executor.                                            *)

Crash ==
    /\ at \in CrashAt \ {"idle"}
    /\ End("crashed")
    /\ UNCHANGED esVars

\* recover() runs a crashed job again.  Whatever its end, another job for the
\* index may follow, approved before or recommended since: neither the routes nor
\* the executor look at what the last one left behind.  Its target may be another
\* shard count, which the source has not.
Again ==
    /\ at = "idle"
    /\ attempt < MaxAttempts
    /\ resized' \in IF result = "crashed" THEN {resized} ELSE {resized, FALSE}
    /\ at' = "probeSource"
    /\ found' = {}
    /\ counted' = 0
    /\ pending' = "none"
    /\ result' = "none"
    /\ attempt' = attempt + 1
    /\ UNCHANGED <<exists, docs, blocked, reindexing, left, clientVars>>

Execute ==
    \/ ProbeSource \/ ProbeTemp \/ DropStale \/ Block \/ Copy \/ Settle \/ Restore
    \/ CountTemp \/ CountSource \/ DropCopy \/ DeleteSource \/ Create
    \/ StartReindex \/ Poll \/ RecountSource \/ RecountTemp \/ DropTemp \/ CallRefused

Next ==
    \/ Execute \/ CallFails \/ Cancel \/ Crash \/ Again \/ ReindexTask
    \/ \E d \in Doc : ClientWrite(d) \/ Refresh(d)

Spec == Init /\ [][Next]_vars

\* Every call is answered and Elasticsearch works on its tasks.
FairSpec == Spec /\ WF_vars(Execute) /\ WF_vars(ReindexTask)

-----------------------------------------------------------------------------
(* Properties.                                                             *)

Other(n) == IF n = "source" THEN "temp" ELSE "source"

\* "The source is NEVER deleted without a verified replacement": whichever index
\* the executor deletes, the other one holds all that was stored in it.
DestroysOnlyCopies ==
    [][\A n \in exists \ exists' : docs[n] \subseteq docs[Other(n)]]_vars

\* The executor deletes the source only with a copy of what it has counted: no more
\* documents are missing from temp than the count could not include, because they were
\* not searchable at the count or were written after it.
SourceIsCopied ==
    [][at = "deleteSource" /\ "source" \in exists \ exists' =>
         Cardinality(docs["source"] \ docs["temp"]) <= Cardinality(uncounted)]_vars

\* Outside the resume guard the executor deletes temp only when no more of its
\* documents are missing from the source than clients have written to the source
\* meanwhile: if nobody has written, the source has all of them.
TempIsCopied ==
    [][at # "dropStale" /\ "temp" \in exists \ exists' =>
         Cardinality(docs["temp"] \ docs["source"])
             <= Cardinality(docs["source"] \ docs["temp"])]_vars

\* A completed resize leaves one index, of the new shard count and writable, whatever
\* earlier runs have left behind.
CompletedIsWhole ==
    result = "completed" => exists = {"source"} /\ resized /\ ~ blocked

\* A first run that fails or is cancelled leaves the source writable.
AbortLeavesWritable ==
    attempt = 1 /\ result \in {"failed", "cancelled"} => ~ blocked

\* Every run of the job ends.
AttemptEnds == at # "idle" ~> at = "idle"
=============================================================================
