------------------------ MODULE OperatorPanelsProofs ------------------------
(***************************************************************************)
(* Proofs about OperatorPanels for any clusters, subjects, texts and       *)
(* number of requests under way.                                           *)
(***************************************************************************)
EXTENDS OperatorPanels, TLAPS

\* A relocation has been asked of a shard.
RelocatesShards == \A c \in calls : c.kind = "relocate" => c.subject \in Subject

\* What the confirm button of a relocation will send is what was armed.
ArmedFor ==
    armed = "relocate" =>
        /\ armedAt.cluster \in Cluster
        /\ armedAt.subject = subject /\ armedAt.text = text["relocate"]

\* Where the confirm button of a drain or a retry can be clicked, it has not been yet.
Unspent == armed \in {"drain", "retry"} /\ ~Pending(armed) => ~armedAt.spent

\* The dialog awaits no answer but that of its row.
AwaitsItsRow == explain.awaited # None => explain.awaited = explain.row

IInv ==
    /\ TypeOK /\ RelocatesShards /\ ArmedFor /\ Unspent
    /\ AwaitsItsRow /\ ExplainsItsRow

\* What the action properties ask of one step.
Permitted(c) ==
    /\ c.kind = "relocate" /\ armedAt.cluster \in {c.cluster, None} =>
           c.subject = armedAt.subject /\ c.text = armedAt.text
    /\ c.kind \in {"drain", "retry"} => ~armedAt.spent
    /\ c.cluster \notin ReadOnly
StepPermitted == \A c \in NewCalls : Permitted(c)

-----------------------------------------------------------------------------
(* The requests under way.                                                 *)

Muted(c) == [c EXCEPT !.here = FALSE]

\* Muting a request changes nothing else of it.
LEMMA MutedCall ==
    ASSUME NEW c \in Call
    PROVE  /\ Muted(c) \in Call /\ ~Muted(c).here /\ Muted(c).kind = c.kind
           /\ Muted(c).subject = c.subject
           /\ [c EXCEPT !.here = c.here /\ TRUE] = c
           /\ ~c.here => Muted(c) = c
BY DEF Call, Muted

\* Requests of some kinds are muted, nothing is sent.
LEMMA Mutes ==
    ASSUME NEW P \in [Kind -> BOOLEAN], calls \subseteq Call,
           calls' = {[c EXCEPT !.here = @ /\ P[c.kind]] : c \in calls}
    PROVE  /\ NewCalls = {}
           /\ calls' \subseteq Call
           /\ \A c \in Call : c.here /\ P[c.kind] => (c \in calls <=> c \in calls')
           /\ RelocatesShards => RelocatesShards'
<1>1. \A c \in calls : c.kind \in Kind /\ c.here \in BOOLEAN
  BY DEF Call
<1>2. \A c \in calls : [c EXCEPT !.here = @ /\ P[c.kind]] = IF P[c.kind] THEN c ELSE Muted(c)
  BY <1>1 DEF Call, Muted
<1>3. calls' = {IF P[c.kind] THEN c ELSE Muted(c) : c \in calls}
  BY <1>2
<1>4. \A c \in calls : Muted(c) \in Call /\ ~Muted(c).here /\ Muted(c).kind = c.kind
                       /\ Muted(c).subject = c.subject
  BY MutedCall
<1>5. calls' \subseteq Call
  BY <1>3, <1>4
<1>6. ASSUME NEW c \in Call, c.here, P[c.kind] PROVE c \in calls <=> c \in calls'
  BY <1>3, <1>4, <1>6
<1>7. NewCalls = {}
  <2>1. SUFFICES ASSUME NEW c \in calls', c.here, c \notin calls \/ Muted(c) \in calls' \ calls
                 PROVE  FALSE
    BY DEF NewCalls, Muted
  <2>2. c \in calls /\ P[c.kind]
    BY <1>3, <1>4, <2>1
  <2>3. PICK d \in calls : Muted(c) = IF P[d.kind] THEN d ELSE Muted(d)
    BY <1>3, <2>1, <2>2
  <2>4. ~P[d.kind] /\ d.kind = c.kind
    BY <1>4, <2>1, <2>2, <2>3
  <2> QED
    BY <2>2, <2>4
<1>8. RelocatesShards => RelocatesShards'
  BY <1>3, <1>4 DEF RelocatesShards
<1> QED
  BY <1>5, <1>6, <1>7, <1>8

\* One request is sent, with the cluster that is shown.
LEMMA Sends ==
    ASSUME NEW kind \in Kind, NEW s \in OrNone(Subject), NEW t \in OrNone(Text),
           calls \subseteq Call, cluster \in Cluster, SendFor(kind, s, t)
    PROVE  /\ calls' \subseteq Call
           /\ \A c \in NewCalls : c = [kind |-> kind, cluster |-> cluster, subject |-> s,
                                       text |-> t, here |-> TRUE]
           /\ \A c \in Call : c.here /\ c.kind # kind => (c \in calls <=> c \in calls')
           /\ \E c \in calls' : c.kind = kind /\ c.here
           /\ RelocatesShards /\ (kind = "relocate" => s \in Subject) => RelocatesShards'
<1> DEFINE new == [kind |-> kind, cluster |-> cluster, subject |-> s, text |-> t, here |-> TRUE]
<1>1. new \in Call /\ new.here /\ new.kind = kind /\ new.subject = s
  BY DEF Call
<1> HIDE DEF new
<1>2. \A c \in calls : [c EXCEPT !.here = @ /\ c.kind # kind] = IF c.kind # kind THEN c ELSE Muted(c)
  BY DEF Call, Muted
<1>3. calls' = {IF c.kind # kind THEN c ELSE Muted(c) : c \in calls} \cup {new}
  <2>1. calls' = {[c EXCEPT !.here = @ /\ c.kind # kind] : c \in calls} \cup {new}
    BY DEF SendFor, new
  <2>2. {[c EXCEPT !.here = @ /\ c.kind # kind] : c \in calls}
          = {IF c.kind # kind THEN c ELSE Muted(c) : c \in calls}
    BY <1>2
  <2> QED
    BY <2>1, <2>2
<1>4. \A c \in calls : Muted(c) \in Call /\ ~Muted(c).here /\ Muted(c).kind = c.kind
                       /\ Muted(c).subject = c.subject
  BY MutedCall
<1>5. calls' \subseteq Call
  BY <1>1, <1>3, <1>4
<1>6. ASSUME NEW c \in Call, c.here, c.kind # kind PROVE c \in calls <=> c \in calls'
  BY <1>1, <1>3, <1>4, <1>6
<1>7. ASSUME NEW c \in NewCalls PROVE c = new
  <2>1. c \in calls' /\ c.here /\ (c \notin calls \/ Muted(c) \in calls' \ calls)
    BY <1>7 DEF NewCalls, Muted
  <2>2. SUFFICES ASSUME c # new PROVE FALSE
    OBVIOUS
  <2>3. c \in calls /\ c.kind # kind
    BY <1>3, <1>4, <2>1, <2>2
  <2>4. Muted(c) # new
    BY <1>1, <1>4, <2>3
  <2>5. PICK d \in calls : Muted(c) = IF d.kind # kind THEN d ELSE Muted(d)
    BY <1>3, <2>1, <2>3, <2>4
  <2>6. d.kind = kind /\ d.kind = c.kind
    BY <1>4, <2>1, <2>3, <2>5
  <2> QED
    BY <2>3, <2>6
<1>8. RelocatesShards /\ (kind = "relocate" => s \in Subject) => RelocatesShards'
  BY <1>1, <1>3, <1>4 DEF RelocatesShards
<1>9. \E c \in calls' : c.kind = kind /\ c.here
  BY <1>1, <1>3
<1> QED
  BY <1>5, <1>6, <1>7, <1>8, <1>9 DEF new

\* Where no request is sent, none is new.
LEMMA NothingNew ==
    ASSUME calls' \subseteq calls
    PROVE  NewCalls = {}
BY DEF NewCalls
-----------------------------------------------------------------------------
(* Steps of a kind.                                                        *)

\* A step keeps the invariant and sends what it may.
Fine == IInv' /\ StepPermitted

\* Moving about sends nothing; what is armed stays only with what it was armed for.
LEMMA ShowFine ==
    ASSUME IInv, NEW p \in Page, NEW c \in Cluster, NEW s \in OrNone(Subject),
           NEW r \in SUBSET Subject, Show(p, c, s, r)
    PROVE  Fine
<1> DEFINE P == [k \in Kind |-> Stays(k, p, c, s, r)]
<1>1. P \in [Kind -> BOOLEAN]
  BY DEF Stays, Here, Mounted, Kind
<1>2. calls \subseteq Call /\ \A d \in calls : d.kind \in Kind
  BY DEF IInv, TypeOK, Call
<1>3. calls' = {[d EXCEPT !.here = @ /\ P[d.kind]] : d \in calls}
  BY <1>2 DEF Show
<1>4. /\ NewCalls = {} /\ calls' \subseteq Call /\ RelocatesShards'
      /\ \A d \in Call : d.here /\ P[d.kind] => (d \in calls <=> d \in calls')
  BY <1>1, <1>2, <1>3, Mutes DEF IInv
<1>5. armed' # None => armed' = armed /\ armed \in Armable /\ Keeps(armed, p, c, s, r)
  BY DEF Show, IInv, TypeOK
<1>6. ASSUME NEW k \in Kind, Stays(k, p, c, s, r) PROVE Here(k)'
  BY <1>6 DEF Stays, Here, Mounted, Show
<1>7. TypeOK'
  <2>1. armed' # None => armed' \in Armable /\ Here(armed)'
    BY <1>5, <1>6 DEF Keeps, Armable, Kind
  <2>2. text' \in [Typed -> OrNone(Text)]
    BY DEF Show, IInv, TypeOK, OrNone
  <2>3. tracked' \in OrNone(Relocation) /\ explain' \in Dialog /\ armedAt' \in Arming
    BY DEF Show, Recorded, Unarmed, IInv, TypeOK, OrNone, Dialog, NoDialog, Arming
  <2> QED
    BY <1>4, <2>1, <2>2, <2>3 DEF Show, TypeOK
<1>8. ArmedFor'
  <2>1. SUFFICES ASSUME armed' = "relocate" 
                 PROVE  (/\ armedAt.cluster \in Cluster
                         /\ armedAt.subject = subject /\ armedAt.text = text["relocate"])'
    BY DEF ArmedFor
  <2>2. armed = "relocate" /\ Keeps("relocate", p, c, s, r)
    BY <1>5, <2>1, ConstantsAssumption DEF Armable
  <2>3. p = "shards" /\ s = subject
    BY <2>2 DEF Keeps, Stays, Mounted, ClearsFor
  <2> QED
    BY <2>1, <2>2, <2>3, ConstantsAssumption DEF Show, Recorded, IInv, ArmedFor, Typed, Armable
<1>9. Unspent'
  <2>1. SUFFICES ASSUME armed' \in {"drain", "retry"}, ~Pending(armed)' PROVE ~armedAt'.spent
    BY DEF Unspent
  <2>2. armed' = armed /\ armed \in Kind /\ P[armed]
    BY <1>5, <2>1, ConstantsAssumption DEF Armable, Keeps, Kind
  <2>3. ~Pending(armed)
    BY <1>2, <1>4, <2>1, <2>2 DEF Pending
  <2> QED
    BY <2>1, <2>2, <2>3, ConstantsAssumption DEF Show, Recorded, IInv, Unspent, Armable
<1>10. AwaitsItsRow' /\ ExplainsItsRow'
  BY DEF Show, IInv, AwaitsItsRow, ExplainsItsRow, NoDialog
<1> QED
  BY <1>4, <1>7, <1>8, <1>9, <1>10 DEF Fine, IInv, StepPermitted

\* Steps that leave the page and the requests alone keep what is here and pending.
LEMMA StillHere ==
    ASSUME SamePage, NEW k
    PROVE  Here(k)' <=> Here(k)
BY DEF SamePage, Here, Mounted

\* A click that arms one of the buttons.
LEMMA ArmFine ==
    ASSUME IInv, NEW k \in {"relocate", "drain", "retry"}, Here(k), Arm(k)
    PROVE  Fine
<1>1. Here(k)' /\ armed' = k
  BY StillHere DEF Arm
<1>2. TypeOK'
  BY <1>1 DEF Arm, SamePage, IInv, TypeOK, Arming, Armable, Typed, OrNone
<1>3. ArmedFor' /\ Unspent'
  BY <1>1 DEF Arm, SamePage, IInv, TypeOK, ArmedFor, Unspent, Typed
<1>4. AwaitsItsRow' /\ ExplainsItsRow' /\ RelocatesShards'
  BY DEF Arm, IInv, AwaitsItsRow, ExplainsItsRow, RelocatesShards
<1>5. NewCalls = {}
  BY NothingNew DEF Arm
<1> QED
  BY <1>2, <1>3, <1>4, <1>5 DEF Fine, IInv, StepPermitted

\* The armed button is let go of.
LEMMA DisarmFine ==
    ASSUME IInv, NEW k, Disarm(k)
    PROVE  Fine
<1>1. TypeOK'
  BY DEF Disarm, Recorded, Unarmed, SamePage, IInv, TypeOK, Arming, OrNone
<1>2. ArmedFor' /\ Unspent'
  BY ConstantsAssumption DEF Disarm, ArmedFor, Unspent, Armable
<1>3. AwaitsItsRow' /\ ExplainsItsRow' /\ RelocatesShards'
  BY DEF Disarm, IInv, AwaitsItsRow, ExplainsItsRow, RelocatesShards
<1>4. NewCalls = {}
  BY NothingNew DEF Disarm
<1> QED
  BY <1>1, <1>2, <1>3, <1>4 DEF Fine, IInv, StepPermitted

\* A request leaves the panels as they are.  It must not need to be armed, or be armed
\* as it is.
LEMMA SendFine ==
    ASSUME IInv, NEW k \in Kind \ {"relocate", "drain", "retry"}, NEW s \in OrNone(Subject),
           NEW t \in OrNone(Text), cluster \notin ReadOnly,
           SendFor(k, s, t), UNCHANGED <<panelVars, armedAt>>, SamePage
    PROVE  Fine
<1>1. /\ calls' \subseteq Call /\ RelocatesShards'
      /\ \A c \in NewCalls : c.kind = k /\ c.cluster = cluster
      /\ \A c \in Call : c.here /\ c.kind # k => (c \in calls <=> c \in calls')
  BY Sends DEF IInv, TypeOK
<1>2. TypeOK'
  BY <1>1, StillHere DEF IInv, TypeOK, panelVars, SamePage
<1>3. ArmedFor'
  BY DEF IInv, ArmedFor, panelVars, SamePage
<1>4. Unspent'
  <2>1. SUFFICES ASSUME armed' \in {"drain", "retry"}, ~Pending(armed)' PROVE ~armedAt'.spent
    BY DEF Unspent
  <2>2. armed' = armed /\ armed # k
    BY <2>1 DEF panelVars
  <2>3. ~Pending(armed)
    BY <1>1, <2>1, <2>2 DEF Pending, IInv, TypeOK
  <2> QED
    BY <2>1, <2>2, <2>3 DEF IInv, Unspent
<1>5. AwaitsItsRow' /\ ExplainsItsRow'
  BY DEF IInv, AwaitsItsRow, ExplainsItsRow, panelVars
<1>6. StepPermitted
  BY <1>1 DEF StepPermitted, Permitted
<1> QED
  BY <1>1, <1>2, <1>3, <1>4, <1>5, <1>6 DEF Fine, IInv

\* The second click sends what was armed, once.
LEMMA ConfirmFine ==
    ASSUME IInv, NEW k \in {"relocate", "drain", "retry"}, cluster \notin ReadOnly, Confirm(k)
    PROVE  Fine
<1> DEFINE t == IF k \in Typed THEN text[k] ELSE None
<1>1. armed = k /\ ~Pending(k) /\ SendFor(k, subject, t) /\ UNCHANGED panelVars /\ SamePage
      /\ armedAt' = [armedAt EXCEPT !.spent = TRUE]
  BY DEF Confirm, Send
<1>2. k \in Kind /\ subject \in OrNone(Subject) /\ t \in OrNone(Text)
  BY DEF Kind, IInv, TypeOK, Typed, OrNone
<1>3. k = "relocate" => subject \in Subject /\ t = text["relocate"]
  BY <1>1, ConstantsAssumption DEF IInv, TypeOK, Here, Mounted, OrNone, Typed, Armable
<1>4. /\ calls' \subseteq Call /\ RelocatesShards'
      /\ \A c \in NewCalls : c.kind = k /\ c.cluster = cluster /\ c.subject = subject /\ c.text = t
      /\ \E c \in calls' : c.kind = k /\ c.here
  BY <1>1, <1>2, <1>3, Sends DEF IInv, TypeOK
<1>5. TypeOK'
  BY <1>1, <1>4, StillHere DEF IInv, TypeOK, panelVars, SamePage, Arming
<1>6. ArmedFor'
  BY <1>1 DEF IInv, ArmedFor, panelVars, SamePage, TypeOK, Arming
<1>7. Unspent'
  BY <1>1, <1>4 DEF Unspent, Pending, panelVars
<1>8. AwaitsItsRow' /\ ExplainsItsRow'
  BY <1>1 DEF IInv, AwaitsItsRow, ExplainsItsRow, panelVars
<1>9. StepPermitted
  <2>1. k = "relocate" => armedAt.subject = subject /\ armedAt.text = t
    BY <1>1, <1>3 DEF IInv, ArmedFor
  <2>2. k \in {"drain", "retry"} => ~armedAt.spent
    BY <1>1 DEF IInv, Unspent
  <2> QED
    BY <1>4, <2>1, <2>2 DEF StepPermitted, Permitted
<1> QED
  BY <1>4, <1>5, <1>6, <1>7, <1>8, <1>9 DEF Fine, IInv

\* Something is typed or picked; a relocation is then no longer armed.
LEMMA TypeFine ==
    ASSUME IInv, NEW k \in Typed, NEW t \in Text, Type(k, t),
           armed' = armed \/ armed' = None, k = "relocate" => armed' = None
    PROVE  Fine
<1>1. /\ SamePage /\ UNCHANGED <<tracked, explain, calls>>
      /\ text' = [text EXCEPT ![k] = t]
      /\ armedAt' = IF armed' = None THEN Unarmed ELSE armedAt
  BY DEF Type, Recorded
<1> Unarmed \in Arming
  BY DEF Unarmed, Arming, OrNone
<1>2. TypeOK'
  BY <1>1, StillHere DEF IInv, TypeOK, SamePage, OrNone
<1>3. ArmedFor'
  BY <1>1, ConstantsAssumption DEF IInv, ArmedFor, SamePage, TypeOK, Armable, Typed
<1>4. Unspent'
  BY <1>1, ConstantsAssumption DEF IInv, Unspent, Pending, Armable
<1>5. AwaitsItsRow' /\ ExplainsItsRow' /\ RelocatesShards'
  BY <1>1 DEF IInv, AwaitsItsRow, ExplainsItsRow, RelocatesShards
<1>6. NewCalls = {}
  BY <1>1, NothingNew
<1> QED
  BY <1>2, <1>3, <1>4, <1>5, <1>6 DEF Fine, IInv, StepPermitted

\* A form of an index opens or closes.
LEMMA OpenPanelFine ==
    ASSUME IInv, NEW k \in {"reindex", "promote"}, OpenPanel(k)
    PROVE  Fine
<1> DEFINE P == [i \in Kind |-> i \notin {"reindex", "promote"}]
<1>1. calls \subseteq Call /\ \A c \in calls : c.kind \in Kind /\ c.here \in BOOLEAN
  BY DEF IInv, TypeOK, Call
<1>2. \A c \in calls : (IF c.kind \in {"reindex", "promote"} THEN [c EXCEPT !.here = FALSE] ELSE c)
                        = [c EXCEPT !.here = @ /\ P[c.kind]]
  BY <1>1 DEF Call
<1>3. calls' = {IF c.kind \in {"reindex", "promote"} THEN [c EXCEPT !.here = FALSE] ELSE c :
                   c \in calls}
  BY DEF OpenPanel
<1>4. calls' = {[c EXCEPT !.here = @ /\ P[c.kind]] : c \in calls}
  BY <1>2, <1>3
<1>5. P \in [Kind -> BOOLEAN]
  OBVIOUS
<1>6. NewCalls = {} /\ calls' \subseteq Call /\ RelocatesShards'
  BY <1>1, <1>4, <1>5, Mutes DEF IInv
<1>7. armed' \in {None, k} /\ SamePage /\ UNCHANGED <<text, tracked, explain, armedAt>> /\ Here(k)
  BY DEF OpenPanel
<1>8. TypeOK'
  BY <1>6, <1>7, StillHere DEF IInv, TypeOK, SamePage, Armable
<1>9. ArmedFor' /\ Unspent'
  BY <1>7, ConstantsAssumption DEF ArmedFor, Unspent, Armable
<1>10. AwaitsItsRow' /\ ExplainsItsRow'
  BY <1>7 DEF IInv, AwaitsItsRow, ExplainsItsRow
<1> QED
  BY <1>6, <1>8, <1>9, <1>10 DEF Fine, IInv, StepPermitted

\* The dialog is opened, closed or answered.
LEMMA ExplainFine ==
    ASSUME IInv, (\E s \in Subject : OpenExplain(s)) \/ CloseExplain \/ Explained
    PROVE  Fine
<1>1. SamePage /\ UNCHANGED <<armed, text, tracked, calls, armedAt>>
  BY DEF OpenExplain, CloseExplain, Explained
<1>2. explain' \in Dialog /\ AwaitsItsRow' /\ ExplainsItsRow'
  <2> USE DEF IInv, TypeOK, Dialog, NoDialog, OrNone, AwaitsItsRow, ExplainsItsRow
  <2>1. CASE \E s \in Subject : OpenExplain(s)
    BY <2>1 DEF OpenExplain
  <2>2. CASE CloseExplain
    BY <2>2 DEF CloseExplain
  <2>3. CASE Explained
    BY <2>3 DEF Explained
  <2> QED
    BY <2>1, <2>2, <2>3
<1>3. TypeOK'
  BY <1>1, <1>2, StillHere DEF IInv, TypeOK, SamePage
<1>4. ArmedFor' /\ Unspent' /\ RelocatesShards'
  BY <1>1 DEF IInv, ArmedFor, Unspent, Pending, RelocatesShards, SamePage
<1>5. NewCalls = {}
  BY <1>1, NothingNew
<1> QED
  BY <1>2, <1>3, <1>4, <1>5 DEF Fine, IInv, StepPermitted

\* An answer disarms what it answers.
LEMMA AnsweredFine ==
    ASSUME IInv, NEW c \in calls, NEW good \in BOOLEAN, Answered(c, good)
    PROVE  Fine
<1>1. /\ calls' = calls \ {c} /\ SamePage /\ UNCHANGED explain
      /\ armedAt' = IF armed' = None THEN Unarmed ELSE armedAt
      /\ armed' = armed \/ armed' = None
      /\ c.here /\ c.kind \in {"drain", "retry"} => armed' = None
  BY DEF Answered, Recorded
<1> Unarmed \in Arming
  BY DEF Unarmed, Arming, OrNone
<1>2. c \in Call /\ (c.kind = "relocate" => c.subject \in Subject)
  BY DEF IInv, TypeOK, RelocatesShards
<1>3. TypeOK'
  <2>1. text' \in [Typed -> OrNone(Text)]
    BY DEF Answered, IInv, TypeOK, OrNone
  <2>2. tracked' \in OrNone(Relocation)
    BY <1>2 DEF Answered, IInv, TypeOK, OrNone, Relocation, Call
  <2> QED
    BY <1>1, <2>1, <2>2, StillHere DEF IInv, TypeOK, SamePage
<1>4. ArmedFor'
  BY <1>1, ConstantsAssumption DEF Answered, IInv, ArmedFor, SamePage, TypeOK, Armable, Typed
<1>5. Unspent'
  <2>1. SUFFICES ASSUME armed' \in {"drain", "retry"}, ~Pending(armed)' PROVE ~armedAt'.spent
    BY DEF Unspent
  <2>2. armed' = armed
    BY <1>1, <2>1, ConstantsAssumption DEF Armable
  <2>3. ~(c.here /\ c.kind = armed)
    BY <1>1, <2>1, <2>2, ConstantsAssumption DEF Armable
  <2>4. ~Pending(armed)
    BY <1>1, <2>1, <2>2, <2>3 DEF Pending
  <2> QED
    BY <1>1, <2>1, <2>2, <2>4, ConstantsAssumption DEF IInv, Unspent, Armable
<1>6. AwaitsItsRow' /\ ExplainsItsRow' /\ RelocatesShards'
  BY <1>1 DEF IInv, AwaitsItsRow, ExplainsItsRow, RelocatesShards
<1>7. NewCalls = {}
  BY <1>1, NothingNew
<1> QED
  BY <1>3, <1>4, <1>5, <1>6, <1>7 DEF Fine, IInv, StepPermitted

-----------------------------------------------------------------------------
(* The invariant and the theorems.                                         *)

\* Nothing is selected, armed or sent at first.
LEMMA InitFine == Init => IInv
BY ConstantsAssumption
   DEF Init, IInv, TypeOK, RelocatesShards, ArmedFor, Unspent, AwaitsItsRow, ExplainsItsRow,
       Page, OrNone, NoText, Typed, NoDialog, Dialog, Arming, Armable, Unarmed

\* Every step keeps the invariant and sends only what it may.
LEMMA StepFine == IInv /\ [Next]_vars => Fine
<1> SUFFICES ASSUME IInv, [Next]_vars PROVE Fine
  OBVIOUS
<1>1. ASSUME NEW r \in SUBSET Subject, NEW p \in Page, GoTo(p, r) PROVE Fine
  BY <1>1, ShowFine DEF GoTo, IInv, TypeOK, OrNone
<1>2. ASSUME NEW r \in SUBSET Subject, NEW c \in Cluster, Switch(c, r) PROVE Fine
  BY <1>2, ShowFine DEF Switch, IInv, TypeOK
<1>3. ASSUME NEW r \in SUBSET Subject, Refetch(r) PROVE Fine
  BY <1>3, ShowFine DEF Refetch, IInv, TypeOK
<1>4. ASSUME NEW s \in Subject, SelectShard(s) PROVE Fine
  BY <1>4, ShowFine DEF SelectShard, IInv, TypeOK, OrNone
<1>5. ASSUME NEW s \in Subject, SelectRow(s) PROVE Fine
  <2> DEFINE next == IF s = subject THEN None ELSE s
  <2>1. next \in OrNone(Subject) /\ Show(page, cluster, next, rows)
    BY <1>5 DEF SelectRow, OrNone
  <2> HIDE DEF next
  <2> QED
    BY <2>1, ShowFine DEF IInv, TypeOK
<1>6. CASE CloseShard \/ CloseRow
  BY <1>6, ShowFine DEF CloseShard, CloseRow, IInv, TypeOK, OrNone
<1>7. ASSUME NEW t \in Text, Pick(t) PROVE Fine
  BY <1>7, TypeFine DEF Pick, Typed
<1>8. ASSUME NEW t \in Text, TypeSetting(t) PROVE Fine
  BY <1>8, TypeFine DEF TypeSetting, Typed
<1>9. CASE ArmRelocate \/ ArmDrain \/ ArmRetry
  BY <1>9, ArmFine DEF ArmRelocate, ArmDrain, ArmRetry
<1>10. CASE DisarmRelocate \/ DisarmDrain \/ DisarmRetry
  BY <1>10, DisarmFine DEF DisarmRelocate, DisarmDrain, DisarmRetry
<1>11. CASE HandleRelocate \/ HandleDrain \/ HandleRetry
  BY <1>11, ConfirmFine DEF HandleRelocate, HandleDrain, HandleRetry, Writable, Here, Mounted
<1>12. CASE Undrain
  <2>1. cluster \notin ReadOnly /\ SendFor("undrain", subject, None)
    BY <1>12 DEF Undrain, Here, Mounted, Send
  <2> QED
    BY <1>12, <2>1, SendFine DEF Undrain, Kind, IInv, TypeOK, OrNone
<1>13. ASSUME NEW k \in {"reindex", "promote"}, OpenPanel(k) PROVE Fine
  BY <1>13, OpenPanelFine
<1>14. ASSUME NEW k \in {"reindex", "promote"}, CancelPanel(k) PROVE Fine
  BY <1>14, DisarmFine DEF CancelPanel
<1>15. ASSUME NEW k \in {"reindex", "promote"}, HandleAction(k) PROVE Fine
  <2>1. k \in Kind \ {"relocate", "drain", "retry"} /\ text[k] \in OrNone(Text)
    BY DEF Kind, IInv, TypeOK, Typed
  <2>2. cluster \notin ReadOnly
    BY <1>15, ConstantsAssumption DEF HandleAction, IInv, TypeOK, Here, Mounted, Armable
  <2> QED
    BY <1>15, <2>1, <2>2, SendFine DEF HandleAction, Send, IInv, TypeOK
<1>16. ASSUME NEW k \in {"reindex", "promote"}, NEW t \in Text, TypeName(k, t) PROVE Fine
  BY <1>16, TypeFine DEF TypeName, Typed
<1>17. ASSUME NEW s \in Subject, RelocateSuggested(s) PROVE Fine
  BY <1>17, SendFine DEF RelocateSuggested, Writable, Kind, OrNone
<1>18. CASE (\E s \in Subject : OpenExplain(s)) \/ CloseExplain \/ Explained
  BY <1>18, ExplainFine
<1>19. CASE ApplySetting
  <2>1. text["settings"] \in OrNone(Text)
    BY DEF IInv, TypeOK, Typed
  <2> QED
    BY <1>19, <2>1, SendFine DEF ApplySetting, Send, Writable, Kind, IInv, TypeOK
<1>20. CASE ResetSetting \/ QuickAction
  BY <1>20, SendFine DEF QuickAction, ResetSetting, Send, Writable, Kind, IInv, TypeOK, OrNone
<1>21. CASE Request
  BY <1>21, SendFine DEF Request, Send, Writable, Kind, IInv, TypeOK, OrNone
<1>22. ASSUME NEW c \in calls, NEW good \in BOOLEAN, Answered(c, good) PROVE Fine
  BY <1>22, AnsweredFine
<1>23. CASE UNCHANGED vars
  <2>1. NewCalls = {}
    BY <1>23, NothingNew DEF vars
  <2>2. TypeOK'
    BY <1>23, StillHere DEF vars, panelVars, IInv, TypeOK, SamePage
  <2> QED
    BY <1>23, <2>1, <2>2 DEF vars, panelVars, Fine, IInv, StepPermitted, RelocatesShards,
                             ArmedFor, Unspent, Pending, AwaitsItsRow, ExplainsItsRow
<1> QED
  BY <1>1, <1>2, <1>3, <1>4, <1>5, <1>6, <1>7, <1>8, <1>9, <1>10, <1>11, <1>12, <1>13,
     <1>14, <1>15, <1>16, <1>17, <1>18, <1>19, <1>20, <1>21, <1>22, <1>23
     DEF Next, MovesAbout

\* The invariant holds in every behaviour.
LEMMA Invariance == Spec => []IInv
<1>1. IInv /\ [Next]_vars => IInv'
  BY StepFine DEF Fine
<1> QED
  BY <1>1, InitFine, PTL DEF Spec

\* Every variable of the panels keeps its type, and what is armed is mounted.
THEOREM TypeCorrect == Spec => []TypeOK
<1>1. IInv => TypeOK
  BY DEF IInv
<1> QED
  BY <1>1, Invariance, PTL

\* The explanation shown is that of the row the dialog was opened for.
THEOREM RowsAreExplained == Spec => []ExplainsItsRow
<1>1. IInv => ExplainsItsRow
  BY DEF IInv
<1> QED
  BY <1>1, Invariance, PTL

\* A relocation takes the shard, and goes to the node, that were armed, unless it was
\* armed on another cluster.
THEOREM RelocationsAreAsArmed == Spec => RelocatesAsArmed
<1>1. IInv /\ [Next]_vars =>
        [\A c \in NewCalls : c.kind = "relocate" /\ armedAt.cluster \in {c.cluster, None} =>
             c.subject = armedAt.subject /\ c.text = armedAt.text]_vars
  BY StepFine DEF Fine, StepPermitted, Permitted
<1> QED
  BY <1>1, Invariance, PTL DEF Spec, RelocatesAsArmed

\* A drain or a retry is sent at most once for each time it has been armed.
THEOREM ArmingsAreSpent == Spec => ArmingIsSpent
<1>1. IInv /\ [Next]_vars =>
        [\A c \in NewCalls : c.kind \in {"drain", "retry"} => ~armedAt.spent]_vars
  BY StepFine DEF Fine, StepPermitted, Permitted
<1> QED
  BY <1>1, Invariance, PTL DEF Spec, ArmingIsSpent

\* Nothing that writes is asked of a read-only cluster.
THEOREM ReadOnlyIsLeftAlone == Spec => ReadOnlyIsSpared
<1>1. IInv /\ [Next]_vars => [\A c \in NewCalls : c.cluster \notin ReadOnly]_vars
  BY StepFine DEF Fine, StepPermitted, Permitted
<1> QED
  BY <1>1, Invariance, PTL DEF Spec, ReadOnlyIsSpared
=============================================================================
