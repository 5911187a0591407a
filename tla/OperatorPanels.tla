--------------------------- MODULE OperatorPanels ---------------------------
(***************************************************************************)
(* The pages from which an operator changes a cluster: the panel of a      *)
(* shard and the rebalance suggestions (ShardMap.tsx), the drain controls  *)
(* of a node (Nodes.tsx), the actions on an index (Indices.tsx), the       *)
(* unassigned shards (Overview.tsx), the settings and the console.         *)
(*                                                                         *)
(* Most changes take two clicks: one that arms and one that confirms.      *)
(* Between them the operator may choose another shard, node or index, or   *)
(* another cluster, the rows may be read again and an earlier request may  *)
(* be answered; what the panels keep across all that, and what they        *)
(* forget, is what this module is about.                                   *)
(***************************************************************************)
EXTENDS Integers, FiniteSets

CONSTANTS
    Cluster,        \* the clusters the operator may choose
    ReadOnly,       \* those that are read-only
    Subject,        \* names of shards, nodes or indices, the same in every cluster
    Text,           \* what may be typed or picked: a target node, a name, a setting
    None,           \* no subject, no text, nothing armed
    MaxCalls        \* bound on the requests under way at once

Page == {"shards", "nodes", "indices", "overview", "settings", "console", "other"}
\* What can be asked of a cluster; "suggested" is a relocation too.
Kind == {"relocate", "suggested", "drain", "undrain", "reindex", "promote", "retry",
         "settings", "request"}
Typed == {"relocate", "reindex", "promote", "settings"}
Armable == {"relocate", "drain", "reindex", "promote", "retry"}

ASSUME ConstantsAssumption ==
    /\ ReadOnly \subseteq Cluster
    /\ MaxCalls \in Nat
    /\ None \notin Cluster \cup Subject \cup Text \cup Armable

VARIABLES
    page,           \* the page that is shown
    cluster,        \* the active cluster
    rows,           \* the subjects its data has; none also while there is no data
    subject,        \* the selected shard, node or index
    armed,          \* what the next click confirms, or the open form of an index
    text,           \* what is typed or picked for each kind
    tracked,        \* the relocation whose job the panel of a shard follows
    explain,        \* the dialog that explains an unassigned shard
    calls,          \* requests under way
    armedAt         \* history: of the click that armed the button that is armed now

panelVars == <<armed, text, tracked, explain>>
vars == <<page, cluster, rows, subject, panelVars, calls, armedAt>>

OrNone(S) == S \cup {None}
\* A request is "here" as long as the component that sent it is mounted.
Call == [kind : Kind, cluster : Cluster, subject : OrNone(Subject), text : OrNone(Text),
         here : BOOLEAN]
Relocation == [cluster : Cluster, subject : Subject]
\* The row it was opened for, the row of the answer, and one that is awaited.
Dialog == [row : OrNone(Subject), answer : OrNone(Subject), awaited : OrNone(Subject)]
Arming == [cluster : OrNone(Cluster), subject : OrNone(Subject), text : OrNone(Text),
           spent : BOOLEAN]

Unarmed == [cluster |-> None, subject |-> None, text |-> None, spent |-> TRUE]
NoText == [k \in Typed |-> None]
NoDialog == [row |-> None, answer |-> None, awaited |-> None]

Init ==
    /\ page = "other"
    /\ cluster \in Cluster
    /\ rows = {}
    /\ subject = None
    /\ armed = None
    /\ text = NoText
    /\ tracked = None
    /\ explain = NoDialog
    /\ calls = {}
    /\ armedAt = Unarmed

-----------------------------------------------------------------------------
(* What is mounted.                                                        *)

\* Whether the component that asks for this kind is there, on page p of cluster c with
\* subject s selected and the rows r.
Mounted(kind, p, c, s, r) ==
    CASE kind = "relocate" -> p = "shards" /\ s # None
      [] kind = "suggested" -> p = "shards" /\ r # {} /\ c \notin ReadOnly
      [] kind \in {"drain", "undrain"} -> p = "nodes" /\ s \in r /\ c \notin ReadOnly
      [] kind \in {"reindex", "promote"} -> p = "indices" /\ s \in r /\ c \notin ReadOnly
      [] kind = "retry" -> p = "overview" /\ r # {}
      [] kind = "settings" -> p = "settings"
      [] kind = "request" -> p = "console"
Here(kind) == Mounted(kind, page, cluster, subject, rows)

TypeOK ==
    /\ page \in Page
    /\ cluster \in Cluster
    /\ rows \subseteq Subject
    /\ subject \in OrNone(Subject)
    /\ armed # None => armed \in Armable /\ Here(armed)
    /\ text \in [Typed -> OrNone(Text)]
    /\ tracked \in OrNone(Relocation)
    /\ explain \in Dialog
    /\ calls \subseteq Call
    /\ armedAt \in Arming

\* Mutant: the panel of a shard keeps what it has for the next shard.
ClearsNothing(p, s) == FALSE
\* The effect of the panel of a shard: another shard, nothing armed, picked or tracked.
ClearsFor(p, s) == p = "shards" /\ s # subject

\* Mutant: the state of the panels lives above the pages.
KeepsAlways(kind, p, c, s, r) == TRUE
Stays(kind, p, c, s, r) == Here(kind) /\ Mounted(kind, p, c, s, r)
Keeps(kind, p, c, s, r) ==
    Stays(kind, p, c, s, r) /\ (kind = "relocate" => ~ClearsFor(p, s))

\* The history of an arming ends with it.
Recorded == armedAt' = IF armed' = None THEN Unarmed ELSE armedAt

\* The page shows p, c, s and r from now on.  What is unmounted forgets; what stays
\* mounted keeps all it has, for whichever subject and cluster it is shown next.
Show(p, c, s, r) ==
    /\ page' = p /\ cluster' = c /\ subject' = s /\ rows' = r
    /\ armed' = IF armed # None /\ Keeps(armed, p, c, s, r) THEN armed ELSE None
    /\ text' = [k \in Typed |-> IF Keeps(k, p, c, s, r) THEN text[k] ELSE None]
    /\ tracked' = IF Keeps("relocate", p, c, s, r) THEN tracked ELSE None
    /\ explain' = IF Stays("retry", p, c, s, r) THEN explain ELSE NoDialog
    /\ calls' = {[call EXCEPT !.here = @ /\ Stays(call.kind, p, c, s, r)] : call \in calls}
    /\ Recorded

\* Nothing but the given part of the panels changes.
SamePage == UNCHANGED <<page, cluster, rows, subject>>

-----------------------------------------------------------------------------
(* Moving about.                                                           *)

\* A link of the side bar; the data of the page may be cached.
GoTo(p, r) == p # page /\ Show(p, cluster, None, r)
\* The selector of the side bar.  No page is keyed by the cluster.
Switch(c, r) == c # cluster /\ Show(page, c, subject, r)
\* The data of the page come in, or are read again.
Refetch(r) == r # rows /\ Show(page, cluster, subject, r)

\* A cell of the grid; its panel stays when the grid no longer has the shard.
SelectShard(s) == page = "shards" /\ s \in rows /\ Show(page, cluster, s, rows)
CloseShard == page = "shards" /\ subject # None /\ Show(page, cluster, None, rows)

\* A click on the row of a node or index selects it, a second click lets it go; its
\* panel is there only as long as the row is.
SelectRow(s) ==
    /\ page \in {"nodes", "indices"} /\ s \in rows
    /\ Show(page, cluster, IF s = subject THEN None ELSE s, rows)
CloseRow ==
    /\ page \in {"nodes", "indices"} /\ subject \in rows
    /\ Show(page, cluster, None, rows)

-----------------------------------------------------------------------------
(* Requests.                                                               *)

\* Mutant: the button does not look at the request under way.
NeverPending(kind) == FALSE
Pending(kind) == \E c \in calls : c.kind = kind /\ c.here

\* The request names the cluster that is shown now.  The component follows only the
\* latest request of a kind.
SendFor(kind, s, t) ==
    /\ Cardinality(calls) < MaxCalls
    /\ calls' = {[c EXCEPT !.here = @ /\ c.kind # kind] : c \in calls}
                  \cup {[kind |-> kind, cluster |-> cluster, subject |-> s, text |-> t,
                         here |-> TRUE]}
Send(kind, t) == SendFor(kind, subject, t)

\* Mutant: the buttons do not ask whether the cluster is read-only.
WritableAnyway == TRUE
\* On a read-only cluster the buttons that write are hidden or disabled.
Writable == cluster \notin ReadOnly

Arm(kind) ==
    /\ armed' = kind
    /\ armedAt' = [cluster |-> cluster, subject |-> subject,
                   text |-> IF kind \in Typed THEN text[kind] ELSE None, spent |-> FALSE]
    /\ UNCHANGED <<text, tracked, explain, calls>> /\ SamePage
Disarm(kind) ==
    /\ armed = kind /\ ~Pending(kind)
    /\ armed' = None /\ Recorded
    /\ UNCHANGED <<text, tracked, explain, calls>> /\ SamePage
Confirm(kind) ==
    /\ armed = kind /\ ~Pending(kind)
    /\ Send(kind, IF kind \in Typed THEN text[kind] ELSE None)
    /\ armedAt' = [armedAt EXCEPT !.spent = TRUE]
    /\ UNCHANGED panelVars /\ SamePage

\* The text of one kind is typed or picked anew.
Type(kind, t) ==
    /\ text' = [text EXCEPT ![kind] = t]
    /\ Recorded
    /\ UNCHANGED <<tracked, explain, calls>> /\ SamePage

-----------------------------------------------------------------------------
(* The shard map.                                                          *)

\* Mutant: another target leaves the confirmation armed.
PickKeepingArmed(t) ==
    /\ Here("relocate") /\ Writable /\ ~Pending("relocate")
    /\ UNCHANGED armed
    /\ Type("relocate", t)
\* The target node; another one has to be armed anew.
Pick(t) ==
    /\ Here("relocate") /\ Writable /\ ~Pending("relocate")
    /\ armed' = None
    /\ Type("relocate", t)
ArmRelocate ==
    /\ Here("relocate") /\ Writable /\ ~Pending("relocate")
    /\ armed = None /\ text["relocate"] # None
    /\ Arm("relocate")
DisarmRelocate == Here("relocate") /\ Writable /\ Disarm("relocate")
HandleRelocate == Here("relocate") /\ Writable /\ Confirm("relocate")

\* A suggestion names a shard and where it goes; the button sends it at once.
RelocateSuggested(s) ==
    /\ Here("suggested") /\ Writable /\ ~Pending("suggested") /\ s \in rows
    /\ SendFor("suggested", s, None)
    /\ UNCHANGED <<panelVars, armedAt>> /\ SamePage

-----------------------------------------------------------------------------
(* Nodes and indices.                                                      *)

\* While a drain of the node runs, these controls give way to its progress, and keep
\* their state.
ArmDrain == Here("drain") /\ armed = None /\ Arm("drain")
DisarmDrain == Here("drain") /\ Disarm("drain")
HandleDrain == Here("drain") /\ Confirm("drain")
\* There while a drain of the node runs.
Undrain ==
    /\ Here("undrain") /\ ~Pending("undrain")
    /\ Send("undrain", None)
    /\ UNCHANGED <<panelVars, armedAt>> /\ SamePage

\* One of the two forms opens, in place of the other, or closes; what the mutations
\* have shown so far is dropped, a request under way included.
OpenPanel(kind) ==
    /\ Here(kind) /\ kind \in {"reindex", "promote"}
    /\ armed' = IF armed = kind THEN None ELSE kind
    /\ calls' = {IF c.kind \in {"reindex", "promote"} THEN [c EXCEPT !.here = FALSE] ELSE c :
                    c \in calls}
    /\ UNCHANGED <<text, tracked, explain, armedAt>> /\ SamePage
CancelPanel(kind) == kind \in {"reindex", "promote"} /\ Disarm(kind)
TypeName(kind, t) ==
    /\ kind \in {"reindex", "promote"} /\ armed = kind /\ ~Pending(kind)
    /\ UNCHANGED armed
    /\ Type(kind, t)
HandleAction(kind) ==
    /\ kind \in {"reindex", "promote"} /\ armed = kind /\ ~Pending(kind)
    /\ text[kind] # None
    /\ Send(kind, text[kind])
    /\ UNCHANGED <<panelVars, armedAt>> /\ SamePage

-----------------------------------------------------------------------------
(* Unassigned shards.  The dialog covers the page.                         *)

ArmRetry == Here("retry") /\ Writable /\ explain.row = None /\ armed = None /\ Arm("retry")
DisarmRetry == Here("retry") /\ Writable /\ explain.row = None /\ Disarm("retry")
HandleRetry == Here("retry") /\ Writable /\ explain.row = None /\ Confirm("retry")

\* The dialog asks when it opens.
OpenExplain(s) ==
    /\ Here("retry") /\ s \in rows /\ explain.row = None
    /\ explain' = [row |-> s, answer |-> None, awaited |-> s]
    /\ UNCHANGED <<armed, text, tracked, calls, armedAt>> /\ SamePage
\* Mutant: an answer still awaited finds the next dialog.
CloseExplainOnly ==
    /\ explain.row # None
    /\ explain' = [explain EXCEPT !.row = None, !.answer = None]
    /\ UNCHANGED <<armed, text, tracked, calls, armedAt>> /\ SamePage
\* A closed dialog is not told of the answer.
CloseExplain ==
    /\ explain.row # None
    /\ explain' = NoDialog
    /\ UNCHANGED <<armed, text, tracked, calls, armedAt>> /\ SamePage
\* An error leaves the dialog without an answer.
Explained ==
    /\ explain.awaited # None
    /\ \E answer \in {None, explain.awaited} :
          explain' = [explain EXCEPT !.answer = answer, !.awaited = None]
    /\ UNCHANGED <<armed, text, tracked, calls, armedAt>> /\ SamePage

-----------------------------------------------------------------------------
(* Settings and the console.                                               *)

\* The inputs are open also while a request is under way.
TypeSetting(t) == Here("settings") /\ Writable /\ UNCHANGED armed /\ Type("settings", t)
ApplySetting ==
    /\ Here("settings") /\ Writable /\ ~Pending("settings") /\ text["settings"] # None
    /\ Send("settings", text["settings"])
    /\ UNCHANGED <<panelVars, armedAt>> /\ SamePage
\* A row's Reset does not wait for a request under way; it has nothing to do with the form.
ResetSetting ==
    /\ Here("settings") /\ Writable
    /\ Send("settings", None)
    /\ UNCHANGED <<panelVars, armedAt>> /\ SamePage
\* A quick action sets transient settings, or resets them all.
QuickAction == ~Pending("settings") /\ ResetSetting
\* Anything but GET and HEAD; Enter sends although a request is under way.
Request ==
    /\ Here("request") /\ Writable
    /\ Send("request", None)
    /\ UNCHANGED <<panelVars, armedAt>> /\ SamePage

-----------------------------------------------------------------------------
(* Answers.                                                                *)

\* Requests whose component is gone change nothing on the page.
Answered(c, good) ==
    /\ c \in calls /\ calls' = calls \ {c}
    /\ armed' = IF c.here /\ ( \/ c.kind \in {"drain", "retry"}
                               \/ good /\ c.kind \in {"relocate", "reindex", "promote"})
                THEN None ELSE armed
    /\ text' = IF c.here /\ good /\ c.kind \in Typed /\ ~(c.kind = "settings" /\ c.text = None)
               THEN [text EXCEPT ![c.kind] = None] ELSE text
    /\ tracked' = IF c.here /\ good /\ c.kind = "relocate"
                  THEN [cluster |-> c.cluster, subject |-> c.subject] ELSE tracked
    /\ Recorded
    /\ UNCHANGED explain /\ SamePage

-----------------------------------------------------------------------------
MovesAbout ==
    \/ \E r \in SUBSET Subject :
        \/ \E p \in Page : GoTo(p, r)
        \/ \E c \in Cluster : Switch(c, r)
        \/ Refetch(r)
    \/ \E s \in Subject : SelectShard(s) \/ SelectRow(s)
    \/ CloseShard \/ CloseRow

Next ==
    \/ MovesAbout
    \/ \E t \in Text : Pick(t) \/ TypeSetting(t)
    \/ ArmRelocate \/ DisarmRelocate \/ HandleRelocate
    \/ ArmDrain \/ DisarmDrain \/ HandleDrain \/ Undrain
    \/ ArmRetry \/ DisarmRetry \/ HandleRetry
    \/ \E k \in {"reindex", "promote"} :
        \/ OpenPanel(k) \/ CancelPanel(k) \/ HandleAction(k)
        \/ \E t \in Text : TypeName(k, t)
    \/ \E s \in Subject : RelocateSuggested(s) \/ OpenExplain(s)
    \/ CloseExplain \/ Explained
    \/ ApplySetting \/ ResetSetting \/ QuickAction \/ Request
    \/ \E c \in calls, good \in BOOLEAN : Answered(c, good)

Spec == Init /\ [][Next]_vars

-----------------------------------------------------------------------------
(* Properties.                                                             *)

\* The calls this step has sent; one that equals an earlier call of its component takes
\* its place, and the earlier one is no longer here.
NewCalls ==
    {c \in calls' : c.here /\ (c \notin calls \/ [c EXCEPT !.here = FALSE] \in calls' \ calls)}

\* A relocation takes the shard, and goes to the node, that were armed, whatever has been
\* selected, read again or answered in between and whichever clusters have been shown;
\* unless the arming is one of another cluster.  It survives the selector of clusters, and
\* the same button then sends the same names to the cluster shown, of which this says
\* nothing.
RelocatesAsArmed ==
    [][\A c \in NewCalls : c.kind = "relocate" /\ armedAt.cluster \in {c.cluster, None} =>
           c.subject = armedAt.subject /\ c.text = armedAt.text]_vars

\* A drain or a retry is sent at most once for each time it has been armed: not twice
\* by a double click, nor again after its answer.
ArmingIsSpent ==
    [][\A c \in NewCalls : c.kind \in {"drain", "retry"} => ~armedAt.spent]_vars

\* Nothing that writes is asked of a read-only cluster, not by a button armed on
\* another cluster either.
ReadOnlyIsSpared == [][\A c \in NewCalls : c.cluster \notin ReadOnly]_vars

\* The explanation shown is that of the row the dialog was opened for.
ExplainsItsRow == explain.answer # None => explain.answer = explain.row

\* "Clear tracked job when the selected shard changes": the job shown below a shard is
\* a relocation of that shard.
TrackedIsOfShard ==
    tracked # None /\ tracked.cluster = cluster => tracked.subject = subject
=============================================================================
