---------------------------- MODULE SessionProofs ----------------------------
(***************************************************************************)
(* Proofs about Session, for any tabs and any bounds: that a session       *)
(* nobody ends lasts, and that who logs in gets to the pages.              *)
(*                                                                         *)
(* A session lasts because no answer under way can end it: while nobody    *)
(* has logged out and nothing has been revoked, every request of a page    *)
(* was sent with a token the server accepts.  That it was sent with one at *)
(* all needs the guards: a tab shows a page only with a token of its own.  *)
(***************************************************************************)
EXTENDS Session, TLAPS

Quiet == ~loggedOut /\ revoked = {}

\* A tab is where its guards have led it.
IsRouted == \A t \in Tab : at[t] = Routed(at[t], status[t], token[t])

\* A token in the browser, or in the answer to a form, is one the server has issued.
TokensKnown ==
    /\ stored \in 0 .. issued
    /\ \A t \in Tab, kind \in {"login", "setup"} :
          call[t][kind].answer = "ok" => call[t][kind].token \in 1 .. issued

\* The answer about the set-up is one of two.
StatusAnswered ==
    \A t \in Tab : Answered(t, "status") => call[t]["status"].answer \in {"required", "done"}

\* The requests under way will not be refused.
RequestsAccepted ==
    Quiet => \A t \in Tab : call[t]["data"].phase = "sent" => call[t]["data"].token \in 1 .. issued

IInv ==
    /\ TypeOK /\ IsRouted /\ TokensKnown /\ StatusAnswered
    /\ RequestsAccepted /\ QuietSessionLasts

-----------------------------------------------------------------------------
\* Where a tab has been led it stays.
LEMMA RoutedStays ==
    ASSUME NEW p \in Page, NEW s, NEW k
    PROVE  Routed(p, s, k) \in Page /\ Routed(Routed(p, s, k), s, k) = Routed(p, s, k)
BY DEF Routed, Page

\* A step of one request leaves the others.
LEMMA BecomesOne ==
    ASSUME call \in [Tab -> [Kind -> Call]], NEW t \in Tab, NEW kind \in Kind, NEW c \in Call,
           Becomes(t, kind, c)
    PROVE  /\ call' \in [Tab -> [Kind -> Call]]
           /\ call'[t][kind] = c
           /\ \A u \in Tab, k \in Kind : ~(u = t /\ k = kind) => call'[u][k] = call[u][k]
<1>1. call' = [call EXCEPT ![t] = [call[t] EXCEPT ![kind] = c]]
  BY DEF Becomes
<1>2. call[t] \in [Kind -> Call]
  OBVIOUS
<1>3. [call[t] EXCEPT ![kind] = c] \in [Kind -> Call]
  BY <1>2
<1> QED
  BY <1>1, <1>2, <1>3

\* What a request can be.
LEMMA CallsTyped ==
    /\ Idle \in Call /\ Idle.phase = "idle" /\ Idle.answer = "none"
    /\ \A k \in Token \cup {None} : Sent(k) \in Call /\ Sent(k).token = k /\ Sent(k).answer = "none"
    /\ \A k \in Token \cup {None}, a \in {"none", "required", "done", "ok", "refused"} :
          /\ Answer(k, a) \in Call
          /\ Answer(k, a).phase = "answered" /\ Answer(k, a).token = k /\ Answer(k, a).answer = a
    /\ \A t \in Tab : t = t
BY DEF Idle, Sent, Answer, Call

\* The kinds of requests and of pages.
LEMMA KindsTyped ==
    /\ "status" \in Kind /\ "data" \in Kind /\ "login" \in Kind /\ "setup" \in Kind
    /\ "login" \in Page /\ "page" \in Page /\ "setup" \in Page
    /\ None \in Token \cup {None} /\ None = 0
BY DEF Kind, Page, None

\* A tab that shows a page has a token.
LEMMA PageHasToken ==
    ASSUME TypeOK, IsRouted, NEW t \in Tab, Shows(t, "page")
    PROVE  token[t] # None
<1>1. status[t] \in {"required", "done"} /\ at[t] = "page"
  BY DEF TypeOK, Shows
<1>2. "page" = Routed("page", status[t], token[t])
  BY <1>1 DEF IsRouted
<1> QED
  BY <1>1, <1>2 DEF Routed

\* A step of a request that leaves the session and the route alone.
LEMMA RequestKeeps ==
    ASSUME IInv, NEW t \in Tab, NEW kind \in Kind, NEW c \in Call, Becomes(t, kind, c),
           UNCHANGED <<serverVars, stored, token, loggedOut>>,
           IsRouted', at' \in [Tab -> Page], status' \in [Tab -> {"unknown", "required", "done"}],
           kind = "data" /\ c.phase = "sent" /\ Quiet => c.token \in 1 .. issued,
           kind = "status" /\ c.phase = "answered" => c.answer \in {"required", "done"},
           kind \in {"login", "setup"} => c.answer # "ok"
    PROVE  IInv'
<1>1. /\ call' \in [Tab -> [Kind -> Call]]
      /\ call'[t][kind] = c
      /\ \A u \in Tab, k \in Kind : ~(u = t /\ k = kind) => call'[u][k] = call[u][k]
  BY BecomesOne DEF IInv, TypeOK
<1>2. UNCHANGED <<setUp, issued, revoked, stored, token, loggedOut>>
  BY DEF serverVars
<1>3. TypeOK'
  BY <1>1, <1>2 DEF IInv, TypeOK
<1>4. TokensKnown'
  <2>1. SUFFICES ASSUME NEW u \in Tab, NEW k \in {"login", "setup"}, call'[u][k].answer = "ok"
                 PROVE  call'[u][k].token \in 1 .. issued
    BY <1>2 DEF IInv, TokensKnown
  <2>2. k \in Kind /\ ~(u = t /\ k = kind)
    BY <1>1, <2>1 DEF Kind
  <2> QED
    BY <1>1, <2>1, <2>2 DEF IInv, TokensKnown
<1>5. RequestsAccepted'
  <2>1. SUFFICES ASSUME Quiet, NEW u \in Tab, call'[u]["data"].phase = "sent"
                 PROVE  call'[u]["data"].token \in 1 .. issued
    BY <1>2 DEF RequestsAccepted, Quiet
  <2>2. CASE u = t /\ kind = "data"
    BY <1>1, <2>1, <2>2
  <2>3. CASE ~(u = t /\ kind = "data")
    <3>1. call'[u]["data"] = call[u]["data"]
      BY <1>1, <2>3, KindsTyped
    <3> QED
      BY <2>1, <3>1 DEF IInv, RequestsAccepted
  <2> QED
    BY <2>2, <2>3
<1>6. QuietSessionLasts'
  BY <1>2 DEF IInv, QuietSessionLasts
<1>7. StatusAnswered'
  <2>1. SUFFICES ASSUME NEW u \in Tab, call'[u]["status"].phase = "answered"
                 PROVE  call'[u]["status"].answer \in {"required", "done"}
    BY DEF StatusAnswered, Answered
  <2>2. CASE u = t /\ kind = "status"
    BY <1>1, <2>1, <2>2
  <2>3. CASE ~(u = t /\ kind = "status")
    <3>1. call'[u]["status"] = call[u]["status"]
      BY <1>1, <2>3, KindsTyped
    <3> QED
      BY <2>1, <3>1 DEF IInv, StatusAnswered, Answered
  <2> QED
    BY <2>2, <2>3
<1> QED
  BY <1>3, <1>4, <1>5, <1>6, <1>7 DEF IInv

\* The route of a tab is what its token and its status make of it.
LEMMA Rerouted ==
    ASSUME TypeOK, IsRouted, NEW t \in Tab, NEW p \in Page,
           NEW k \in Token \cup {None}, NEW s \in {"unknown", "required", "done"},
           token' = [token EXCEPT ![t] = k], status' = [status EXCEPT ![t] = s],
           at' = [at EXCEPT ![t] = Routed(p, s, k)]
    PROVE  IsRouted' /\ at' \in [Tab -> Page] /\ token' \in [Tab -> Token \cup {None}]
                     /\ status' \in [Tab -> {"unknown", "required", "done"}]
<1>1. Routed(p, s, k) \in Page /\ Routed(Routed(p, s, k), s, k) = Routed(p, s, k)
  BY RoutedStays
<1>2. at' \in [Tab -> Page] /\ token' \in [Tab -> Token \cup {None}]
      /\ status' \in [Tab -> {"unknown", "required", "done"}]
  BY <1>1 DEF TypeOK
<1>3. ASSUME NEW u \in Tab PROVE at'[u] = Routed(at'[u], status'[u], token'[u])
  <2>1. CASE u = t
    BY <1>1, <2>1 DEF TypeOK
  <2>2. CASE u # t
    <3>1. at'[u] = at[u] /\ status'[u] = status[u] /\ token'[u] = token[u]
      BY <2>2 DEF TypeOK
    <3> QED
      BY <3>1 DEF IsRouted
  <2> QED
    BY <2>1, <2>2
<1> QED
  BY <1>2, <1>3 DEF IsRouted

-----------------------------------------------------------------------------
\* The set-up status.
LEMMA StatusKeeps ==
    ASSUME IInv, NEW t \in Tab,
           AskStatus(t) \/ StatusArrives(t) \/ StatusFails(t) \/ DropStatus(t)
    PROVE  IInv'
<1>1. CASE AskStatus(t)
  <2>1. UNCHANGED <<serverVars, stored, token, at, status, loggedOut>>
    BY <1>1 DEF AskStatus, tabVars
  <2>2. PICK a \in {"done", "required"} : Becomes(t, "status", Answer(None, a))
    BY <1>1 DEF AskStatus
  <2>3. IsRouted' /\ at' \in [Tab -> Page] /\ status' \in [Tab -> {"unknown", "required", "done"}]
    BY <2>1 DEF IInv, TypeOK, IsRouted
  <2>4. Answer(None, a) \in Call /\ Answer(None, a).answer = a
    BY CallsTyped, KindsTyped
  <2> QED
    BY <2>1, <2>2, <2>3, <2>4, RequestKeeps, KindsTyped
<1>2. ASSUME NEW s \in {"unknown", "required", "done"}, StatusIs(t, s) PROVE IInv'
  <2>1. /\ UNCHANGED <<serverVars, stored, token, loggedOut>> /\ Becomes(t, "status", Idle)
        /\ status' = [status EXCEPT ![t] = s]
        /\ at' = [at EXCEPT ![t] = Routed(at[t], s, token[t])]
    BY <1>2 DEF StatusIs
  <2>2. at[t] \in Page /\ token[t] \in Token \cup {None} /\ token' = [token EXCEPT ![t] = token[t]]
    BY <2>1 DEF IInv, TypeOK
  <2>3. IsRouted' /\ at' \in [Tab -> Page] /\ status' \in [Tab -> {"unknown", "required", "done"}]
    BY <2>1, <2>2, Rerouted DEF IInv
  <2> QED
    BY <2>1, <2>3, RequestKeeps, KindsTyped, CallsTyped
<1>3. CASE DropStatus(t)
  <2>1. /\ at[t] = "setup" /\ status' = [status EXCEPT ![t] = "unknown"]
        /\ UNCHANGED <<setUp, issued, revoked, stored, token, at, call, loggedOut>>
    BY <1>3 DEF DropStatus, serverVars
  <2>2. TypeOK'
    BY <2>1 DEF IInv, TypeOK
  <2>3. IsRouted'
    BY <2>1 DEF IInv, TypeOK, IsRouted, Routed
  <2> QED
    BY <2>1, <2>2, <2>3 DEF IInv, TokensKnown, StatusAnswered, Answered, RequestsAccepted, Quiet, QuietSessionLasts
<1>4. CASE StatusFails(t)
  <2>1. status[t] \in {"unknown", "required", "done"}
    BY DEF IInv, TypeOK
  <2> QED
    BY <1>2, <1>4, <2>1 DEF StatusFails
<1>5. CASE StatusArrives(t)
  <2>1. call[t]["status"].answer \in {"required", "done"}
    BY <1>5 DEF StatusArrives, StatusIs, IInv, StatusAnswered
  <2> QED
    BY <1>2, <1>5, <2>1 DEF StatusArrives
<1> QED
  BY <1>1, <1>3, <1>4, <1>5

\* The data of the pages, sent and answered.
LEMMA DataKeeps ==
    ASSUME IInv, NEW t \in Tab, SendData(t) \/ DataEnds(t)
    PROVE  IInv'
<1>1. UNCHANGED <<serverVars, stored, token, at, status, loggedOut>>
  BY DEF SendData, DataEnds, tabVars
<1>2. IsRouted' /\ at' \in [Tab -> Page] /\ status' \in [Tab -> {"unknown", "required", "done"}]
  BY <1>1 DEF IInv, TypeOK, IsRouted
<1>3. CASE SendData(t)
  <2>1. token[t] # None
    BY <1>3, PageHasToken DEF SendData, IInv
  <2>2. Quiet => stored \in 1 .. issued
    BY <2>1 DEF IInv, TypeOK, TokensKnown, Quiet, QuietSessionLasts, None
  <2>3. Sent(stored) \in Call /\ Sent(stored).token = stored
    BY CallsTyped DEF IInv, TypeOK
  <2> QED
    BY <1>1, <1>2, <1>3, <2>2, <2>3, RequestKeeps, KindsTyped DEF SendData
<1>4. CASE DataEnds(t)
  BY <1>1, <1>2, <1>4, RequestKeeps, KindsTyped, CallsTyped DEF DataEnds
<1> QED
  BY <1>3, <1>4

\* A form is sent, and refused or to be answered later.
LEMMA RefusedFormKeeps ==
    ASSUME IInv, NEW t \in Tab, NEW kind \in {"login", "setup"}, NEW c \in Call, c.answer # "ok",
           Becomes(t, kind, c), UNCHANGED <<serverVars, stored, tabVars, loggedOut>>
    PROVE  IInv'
<1>1. kind \in Kind /\ kind # "data" /\ kind # "status"
  BY DEF Kind
<1>2. UNCHANGED <<at, status, token>>
  BY DEF tabVars
<1>3. IsRouted' /\ at' \in [Tab -> Page] /\ status' \in [Tab -> {"unknown", "required", "done"}]
  BY <1>2 DEF IInv, TypeOK, IsRouted
<1> QED
  BY <1>1, <1>2, <1>3, RequestKeeps

\* The server issues a token.
LEMMA IssueKeeps ==
    ASSUME IInv, NEW t \in Tab, NEW kind \in {"login", "setup"}, Issue(t, kind), setUp' \in BOOLEAN,
           UNCHANGED <<revoked, stored, tabVars, loggedOut>>
    PROVE  IInv'
<1> DEFINE k == issued + 1
           c == Answer(k, "ok")
<1>1. k \in Token \cup {None} /\ issued' = k /\ Becomes(t, kind, c) /\ k \in 1 .. issued'
  BY BoundAssumption DEF Issue, IInv, TypeOK, Token
<1>2. c \in Call /\ c.token = k /\ c.answer = "ok"
  BY <1>1, CallsTyped
<1> HIDE DEF c
<1>3. kind \in Kind /\ kind # "data" /\ kind # "status"
  BY DEF Kind
<1>4. /\ call' \in [Tab -> [Kind -> Call]]
      /\ call'[t][kind] = c
      /\ \A u \in Tab, l \in Kind : ~(u = t /\ l = kind) => call'[u][l] = call[u][l]
  BY <1>1, <1>2, <1>3, BecomesOne DEF IInv, TypeOK
<1>5. issued \in Nat /\ issued < MaxTokens /\ MaxTokens \in Nat
  BY BoundAssumption DEF Issue, IInv, TypeOK
<1>6. UNCHANGED <<revoked, stored, token, at, status, loggedOut>>
  BY DEF tabVars
<1>7. TypeOK'
  <2>1. issued' \in 0 .. MaxTokens /\ revoked' \subseteq 1 .. issued'
    BY <1>1, <1>5, <1>6 DEF IInv, TypeOK
  <2> QED
    BY <1>4, <1>6, <2>1 DEF IInv, TypeOK
<1>8. TokensKnown'
  <2>1. stored' \in 0 .. issued'
    BY <1>1, <1>5, <1>6 DEF IInv, TokensKnown
  <2>2. ASSUME NEW u \in Tab, NEW l \in {"login", "setup"}, call'[u][l].answer = "ok"
        PROVE  call'[u][l].token \in 1 .. issued'
    <3>1. CASE u = t /\ l = kind
      BY <1>1, <1>2, <1>4, <3>1
    <3>2. CASE ~(u = t /\ l = kind)
      <4>1. call'[u][l] = call[u][l]
        BY <1>4, <3>2 DEF Kind
      <4>2. call[u][l].token \in 1 .. issued
        BY <2>2, <4>1 DEF IInv, TokensKnown
      <4> QED
        BY <1>1, <1>5, <4>1, <4>2
    <3> QED
      BY <3>1, <3>2
  <2> QED
    BY <2>1, <2>2 DEF TokensKnown
<1>9. RequestsAccepted' /\ StatusAnswered'
  <2>1. \A u \in Tab : call'[u]["data"] = call[u]["data"] /\ call'[u]["status"] = call[u]["status"]
    BY <1>3, <1>4, KindsTyped
  <2>2. \A i \in 1 .. issued : i \in 1 .. issued'
    BY <1>1, <1>5
  <2>3. Quiet' = Quiet
    BY <1>6 DEF Quiet
  <2>4. RequestsAccepted'
    BY <2>1, <2>2, <2>3 DEF IInv, RequestsAccepted
  <2>5. StatusAnswered'
    BY <2>1 DEF IInv, StatusAnswered, Answered
  <2> QED
    BY <2>4, <2>5
<1> QED
  BY <1>6, <1>7, <1>8, <1>9 DEF IInv, IsRouted, QuietSessionLasts

\* A tab keeps a token, or loses it in a session that is not quiet.
LEMMA TokenSetKeeps ==
    ASSUME IInv, NEW t \in Tab, NEW p \in Page, NEW k \in 0 .. issued, SetToken(t, k, p),
           UNCHANGED <<serverVars, status>>,
           UNCHANGED call \/ \E kind \in Kind : Becomes(t, kind, Idle),
           loggedOut' \in BOOLEAN, loggedOut => loggedOut', k = None => ~Quiet'
    PROVE  IInv'
<1>1. UNCHANGED <<setUp, issued, revoked, status>>
  BY DEF serverVars
<1>2. k \in Token \cup {None}
  BY BoundAssumption DEF IInv, TypeOK, Token, None
<1>3. stored' = k /\ token' = [token EXCEPT ![t] = k] /\ status' = [status EXCEPT ![t] = status[t]]
      /\ at' = [at EXCEPT ![t] = Routed(p, status[t], k)]
  BY <1>1 DEF SetToken, IInv, TypeOK
<1>4. status[t] \in {"unknown", "required", "done"}
  BY DEF IInv, TypeOK
<1>5. IsRouted' /\ at' \in [Tab -> Page] /\ token' \in [Tab -> Token \cup {None}]
  BY <1>2, <1>3, <1>4, Rerouted DEF IInv
<1>6. /\ call' \in [Tab -> [Kind -> Call]]
      /\ \A u \in Tab, l \in Kind : call'[u][l] = call[u][l] \/ call'[u][l] = Idle
  <2>1. CASE UNCHANGED call
    BY <2>1 DEF IInv, TypeOK
  <2>2. ASSUME NEW kind \in Kind, Becomes(t, kind, Idle) PROVE <1>6
    BY <2>2, BecomesOne, CallsTyped DEF IInv, TypeOK
  <2> QED
    BY <2>1, <2>2
<1>7. TypeOK'
  BY <1>1, <1>2, <1>3, <1>5, <1>6 DEF IInv, TypeOK
<1>8. TokensKnown'
  <2>1. \A u \in Tab, l \in {"login", "setup"} : call'[u][l] = call[u][l] \/ call'[u][l].answer = "none"
    BY <1>6, CallsTyped DEF Kind
  <2> QED
    BY <1>1, <1>3, <2>1 DEF IInv, TokensKnown
<1>9. StatusAnswered' /\ RequestsAccepted'
  <2>1. \A u \in Tab, l \in {"status", "data"} : call'[u][l] = call[u][l] \/ call'[u][l].phase = "idle"
    BY <1>6, CallsTyped DEF Kind
  <2>2. Quiet' => Quiet
    BY <1>1 DEF Quiet
  <2>3. StatusAnswered'
    BY <2>1 DEF IInv, StatusAnswered, Answered
  <2>4. RequestsAccepted'
    BY <1>1, <2>1, <2>2 DEF IInv, RequestsAccepted
  <2> QED
    BY <2>3, <2>4
<1>10. QuietSessionLasts'
  BY <1>3 DEF QuietSessionLasts, Quiet
<1> QED
  BY <1>5, <1>7, <1>8, <1>9, <1>10 DEF IInv

\* An answer of 401 to a request of a page, and the account menu.
LEMMA SignOutKeeps ==
    ASSUME IInv, NEW t \in Tab, RefusalArrives(t) \/ Logout(t)
    PROVE  IInv'
<1>1. issued \in Nat /\ None \in 0 .. issued /\ at[t] \in Page /\ loggedOut \in BOOLEAN
  BY DEF IInv, TypeOK, None
<1>2. CASE RefusalArrives(t)
  <2>1. call[t]["data"].phase = "sent" /\ ~Accepted(call[t]["data"].token)
    BY <1>2 DEF RefusalArrives, Refused
  <2>2. ~Quiet
    BY <2>1 DEF IInv, RequestsAccepted, Quiet, Accepted
  <2>3. ~Quiet' /\ loggedOut' = loggedOut
    BY <1>2, <2>2 DEF RefusalArrives, Quiet, serverVars
  <2> QED
    BY <1>1, <1>2, <2>3, TokenSetKeeps, KindsTyped DEF RefusalArrives
<1>3. CASE Logout(t)
  BY <1>1, <1>3, TokenSetKeeps DEF Logout, Quiet
<1> QED
  BY <1>2, <1>3

\* The answer of a form.
LEMMA FormKeeps ==
    ASSUME IInv, NEW t \in Tab, NEW kind \in {"login", "setup"}, FormArrives(t, kind)
    PROVE  IInv'
<1>1. /\ Answered(t, kind) /\ Becomes(t, kind, Idle) /\ UNCHANGED <<serverVars, status, loggedOut>>
      /\ kind \in Kind /\ loggedOut \in BOOLEAN
  BY DEF FormArrives, IInv, TypeOK, Kind
<1>2. CASE call[t][kind].answer = "ok" /\ at[t] = kind
  <2>1. SetToken(t, call[t][kind].token, "page")
    BY <1>2 DEF FormArrives
  <2>2. call[t][kind].token \in 0 .. issued /\ call[t][kind].token # None
    BY <1>2 DEF IInv, TypeOK, TokensKnown, None
  <2> QED
    BY <1>1, <2>1, <2>2, TokenSetKeeps, KindsTyped
<1>3. CASE ~(call[t][kind].answer = "ok" /\ at[t] = kind)
  <2>1. UNCHANGED <<stored, token, at>>
    BY <1>3 DEF FormArrives, EndsSession
  <2> QED
    BY <1>1, <2>1, CallsTyped, RefusedFormKeeps DEF tabVars
<1> QED
  BY <1>2, <1>3

\* A tab is loaded anew, or goes elsewhere in the application.
LEMMA MoveKeeps ==
    ASSUME IInv, NEW t \in Tab, Load(t) \/ \E p \in Page : GoTo(t, p)
    PROVE  IInv'
<1>1. CASE Load(t)
  <2>1. /\ UNCHANGED <<setUp, issued, revoked, stored, at, loggedOut>>
        /\ token' = [token EXCEPT ![t] = stored] /\ status' = [status EXCEPT ![t] = "unknown"]
        /\ call' = [call EXCEPT ![t] = [k \in Kind |-> Idle]]
    BY <1>1 DEF Load, serverVars
  <2>2. /\ call' \in [Tab -> [Kind -> Call]]
        /\ \A u \in Tab, l \in Kind : call'[u][l] = call[u][l] \/ call'[u][l] = Idle
    BY <2>1, CallsTyped DEF IInv, TypeOK
  <2>3. TypeOK'
    BY <2>1, <2>2 DEF IInv, TypeOK
  <2>4. IsRouted'
    BY <2>1 DEF IInv, TypeOK, IsRouted, Routed
  <2>5. TokensKnown'
    <3>1. \A u \in Tab, l \in {"login", "setup"} : call'[u][l] = call[u][l] \/ call'[u][l].answer = "none"
      BY <2>2, CallsTyped DEF Kind
    <3> QED
      BY <2>1, <3>1 DEF IInv, TokensKnown
  <2>6. StatusAnswered' /\ RequestsAccepted'
    <3>1. \A u \in Tab, l \in {"status", "data"} : call'[u][l] = call[u][l] \/ call'[u][l].phase = "idle"
      BY <2>2, CallsTyped DEF Kind
    <3>2. StatusAnswered'
      BY <3>1 DEF IInv, StatusAnswered, Answered
    <3>3. RequestsAccepted'
      BY <2>1, <3>1 DEF IInv, RequestsAccepted, Quiet
    <3> QED
      BY <3>2, <3>3
  <2>7. QuietSessionLasts'
    BY <2>1 DEF IInv, TypeOK, QuietSessionLasts
  <2> QED
    BY <2>3, <2>4, <2>5, <2>6, <2>7 DEF IInv
<1>2. ASSUME NEW p \in Page, GoTo(t, p) PROVE IInv'
  <2>1. /\ UNCHANGED <<setUp, issued, revoked, stored, token, status, call, loggedOut>>
        /\ at' = [at EXCEPT ![t] = Routed(p, status[t], token[t])]
    BY <1>2 DEF GoTo, serverVars
  <2>2. /\ token[t] \in Token \cup {None} /\ status[t] \in {"unknown", "required", "done"}
        /\ token' = [token EXCEPT ![t] = token[t]] /\ status' = [status EXCEPT ![t] = status[t]]
    BY <2>1 DEF IInv, TypeOK
  <2>3. IsRouted' /\ at' \in [Tab -> Page]
    BY <2>1, <2>2, Rerouted DEF IInv
  <2>4. TypeOK'
    BY <2>1, <2>3 DEF IInv, TypeOK
  <2> QED
    BY <2>1, <2>3, <2>4
    DEF IInv, TokensKnown, StatusAnswered, Answered, RequestsAccepted, Quiet, QuietSessionLasts
<1> QED
  BY <1>1, <1>2

\* A token expires: the session is quiet no longer.
LEMMA RevokeKeeps ==
    ASSUME IInv, NEW k \in Token, Revoke(k)
    PROVE  IInv'
<1>1. /\ UNCHANGED <<setUp, issued, stored, token, at, status, call, loggedOut>>
      /\ k \in 1 .. issued /\ revoked' = revoked \cup {k}
  BY DEF Revoke, Accepted, tabVars
<1>2. TypeOK' /\ ~Quiet'
  BY <1>1 DEF IInv, TypeOK, Quiet
<1> QED
  BY <1>1, <1>2
  DEF IInv, IsRouted, TokensKnown, StatusAnswered, Answered, RequestsAccepted, Quiet, QuietSessionLasts

-----------------------------------------------------------------------------
\* One step of the browser, the user or the server.
LEMMA NextKeeps ==
    ASSUME IInv, [Next]_vars
    PROVE  IInv'
<1>1. ASSUME NEW t \in Tab, SubmitLogin(t) PROVE IInv'
  <2>1. CASE Issue(t, "login")
    BY <1>1, <2>1, IssueKeeps DEF SubmitLogin, IInv, TypeOK
  <2>2. CASE Becomes(t, "login", Answer(None, "refused")) /\ UNCHANGED issued
    BY <1>1, <2>2, RefusedFormKeeps, CallsTyped, KindsTyped DEF SubmitLogin, serverVars
  <2> QED
    BY <1>1, <2>1, <2>2 DEF SubmitLogin
<1>2. ASSUME NEW t \in Tab, SubmitSetup(t) PROVE IInv'
  <2>1. PICK c \in {Answer(None, "refused"), Sent(None)} : Becomes(t, "setup", c)
    BY <1>2 DEF SubmitSetup
  <2>2. c \in Call /\ c.answer # "ok"
    BY CallsTyped, KindsTyped
  <2> QED
    BY <1>2, <2>1, <2>2, RefusedFormKeeps DEF SubmitSetup
<1>3. ASSUME NEW t \in Tab, CommitSetup(t) PROVE IInv'
  BY <1>3, IssueKeeps DEF CommitSetup
<1>4. CASE UNCHANGED vars
  BY <1>4 DEF vars, serverVars, tabVars, IInv, TypeOK, IsRouted, TokensKnown, StatusAnswered,
              Answered, RequestsAccepted, Quiet, QuietSessionLasts
<1> QED
  BY <1>1, <1>2, <1>3, <1>4, StatusKeeps, DataKeeps, SignOutKeeps, FormKeeps, MoveKeeps, RevokeKeeps
  DEF Next

\* Before anything has happened.
LEMMA InitHolds == Init => IInv
<1>1. SUFFICES ASSUME Init PROVE IInv
  OBVIOUS
<1>2. /\ call = [t \in Tab |-> [k \in Kind |-> Idle]] /\ token = [t \in Tab |-> None]
      /\ at = [t \in Tab |-> "page"] /\ status = [t \in Tab |-> "unknown"]
      /\ setUp = FALSE /\ issued = 0 /\ revoked = {} /\ stored = None /\ loggedOut = FALSE
  BY <1>1 DEF Init
<1>3. /\ call \in [Tab -> [Kind -> Call]]
      /\ \A t \in Tab, k \in Kind : call[t][k].phase = "idle" /\ call[t][k].answer = "none"
  BY <1>2, CallsTyped
<1>4. TypeOK
  <2>1. issued \in 0 .. MaxTokens /\ revoked \subseteq 1 .. issued
    BY <1>2, BoundAssumption
  <2>2. token \in [Tab -> Token \cup {None}] /\ at \in [Tab -> Page]
    BY <1>2, KindsTyped
  <2>3. status \in [Tab -> {"unknown", "required", "done"}]
    BY <1>2
  <2> QED
    BY <1>2, <1>3, <2>1, <2>2, <2>3 DEF TypeOK
<1>5. IsRouted
  BY <1>2 DEF IsRouted, Routed
<1>6. TokensKnown /\ StatusAnswered /\ RequestsAccepted /\ QuietSessionLasts
  BY <1>2, <1>3 DEF TokensKnown, StatusAnswered, Answered, RequestsAccepted, QuietSessionLasts, Kind, None
<1> QED
  BY <1>4, <1>5, <1>6 DEF IInv

\* The invariant of the proofs holds throughout.
LEMMA Invariance == Spec => []IInv
<1> QED
  BY InitHolds, NextKeeps, PTL DEF Spec

\* The variables of the browser and the server have their types.
THEOREM TypeCorrect == Spec => []TypeOK
<1>1. IInv => TypeOK
  BY DEF IInv
<1> QED
  BY <1>1, Invariance, PTL

\* While nobody logs out and the server accepts its tokens, no answer, however late and
\* in whichever tab, signs a tab out (apiFetch and its exception for /api/auth/).
THEOREM SessionsLast == Spec => []QuietSessionLasts
<1>1. IInv => QuietSessionLasts
  BY DEF IInv
<1> QED
  BY <1>1, Invariance, PTL

\* The callback of the login form ends on a page, with the new token (Login.tsx and the
\* guards of App.tsx).
THEOREM LoginsLand == Spec => LoginLands
<1> DEFINE Lands(t) ==
        at[t] = "login" /\ Answered(t, "login") /\ call[t]["login"].answer = "ok"
            /\ call'[t]["login"] = Idle
        => at'[t] = "page" /\ token'[t] = call[t]["login"].token
<1>1. ASSUME IInv, NEW t \in Tab, at[t] = "login", Answered(t, "login"),
             call[t]["login"].answer = "ok", FormArrives(t, "login")
      PROVE  at'[t] = "page" /\ token'[t] = call[t]["login"].token
  <2>1. SetToken(t, call[t]["login"].token, "page")
    BY <1>1 DEF FormArrives
  <2>2. status[t] # "required"
    BY <1>1 DEF IInv, IsRouted, Routed
  <2>3. call[t]["login"].token # None
    BY <1>1 DEF IInv, TypeOK, TokensKnown, None
  <2>4. at \in [Tab -> Page] /\ token \in [Tab -> Token \cup {None}]
    BY <1>1 DEF IInv, TypeOK
  <2>5. Routed("page", status[t], call[t]["login"].token) = "page"
    BY <2>2, <2>3 DEF Routed
  <2> QED
    BY <2>1, <2>4, <2>5 DEF SetToken
<1>2. ASSUME IInv, Next, NEW t \in Tab, Answered(t, "login"), call'[t]["login"] = Idle
      PROVE  FormArrives(t, "login")
  <2>1. call[t]["login"] # Idle /\ call \in [Tab -> [Kind -> Call]]
    BY <1>2, CallsTyped DEF Answered, IInv, TypeOK
  <2>2. ASSUME NEW u \in Tab, NEW kind \in Kind, NEW c \in Call, Becomes(u, kind, c)
        PROVE  u = t /\ kind = "login"
    BY <1>2, <2>1, <2>2, BecomesOne, KindsTyped
  <2>3. ~UNCHANGED call
    BY <1>2, <2>1
  <2>4. ASSUME NEW u \in Tab, NEW kind \in Kind, NEW c, Room(u, kind), Becomes(u, kind, c), c \in Call
        PROVE  FALSE
    BY <2>1, <2>2, <2>4 DEF Room
  <2>5. ASSUME NEW u \in Tab, AskStatus(u) \/ SendData(u) \/ SubmitLogin(u) \/ SubmitSetup(u) PROVE FALSE
    <3>1. CASE AskStatus(u)
      BY <2>4, <3>1, CallsTyped, KindsTyped DEF AskStatus
    <3>2. CASE SendData(u)
      BY <1>2, <2>4, <3>2, CallsTyped, KindsTyped DEF SendData, IInv, TypeOK
    <3>3. CASE SubmitLogin(u)
      <4>1. issued \in Nat /\ (issued < MaxTokens => issued + 1 \in Token)
        BY <1>2, BoundAssumption DEF IInv, TypeOK, Token
      <4> QED
        BY <2>4, <3>3, <4>1, CallsTyped, KindsTyped DEF SubmitLogin, Issue
    <3>4. CASE SubmitSetup(u)
      BY <2>4, <3>4, CallsTyped, KindsTyped DEF SubmitSetup
    <3> QED
      BY <2>5, <3>1, <3>2, <3>3, <3>4
  <2>6. ASSUME NEW u \in Tab, StatusArrives(u) \/ StatusFails(u) \/ DataEnds(u) \/ RefusalArrives(u)
        PROVE  FALSE
    BY <2>2, <2>6, CallsTyped, KindsTyped DEF StatusArrives, StatusFails, StatusIs, DataEnds, RefusalArrives
  <2>7. ASSUME NEW u \in Tab, CommitSetup(u) PROVE FALSE
    <3>1. issued \in Nat /\ issued < MaxTokens /\ issued + 1 \in Token
      BY <1>2, <2>7, BoundAssumption DEF CommitSetup, Issue, IInv, TypeOK, Token
    <3> QED
      BY <2>2, <2>7, <3>1, CallsTyped, KindsTyped DEF CommitSetup, Issue
  <2>8. ASSUME NEW u \in Tab, FormArrives(u, "login") \/ FormArrives(u, "setup")
        PROVE  FormArrives(t, "login")
    BY <2>2, <2>8, CallsTyped, KindsTyped DEF FormArrives
  <2>9. ASSUME NEW u \in Tab, Load(u) PROVE FALSE
    <3>1. CASE u = t
      BY <2>1, <2>9, <3>1 DEF Load, Submitting
    <3>2. CASE u # t
      BY <1>2, <2>1, <2>9, <3>2 DEF Load
    <3> QED
      BY <3>1, <3>2
  <2>10. ASSUME NEW u \in Tab, DropStatus(u) \/ Logout(u) \/ \E p \in Page : GoTo(u, p) PROVE FALSE
    BY <2>3, <2>10 DEF DropStatus, Logout, GoTo
  <2>11. ASSUME NEW k \in Token, Revoke(k) PROVE FALSE
    BY <2>3, <2>11 DEF Revoke
  <2> QED
    BY <1>2, <2>5, <2>6, <2>7, <2>8, <2>9, <2>10, <2>11 DEF Next
<1>3. IInv /\ [Next]_vars => [\A t \in Tab : Lands(t)]_vars
  BY <1>1, <1>2
<1> QED
  BY <1>3, Invariance, PTL DEF Spec, LoginLands
=============================================================================
