------------------------------- MODULE Session -------------------------------
(***************************************************************************)
(* Signing in and out in the browser: apiFetch (api/client.ts), the auth   *)
(* hooks (api/auth.ts), AuthProvider, the route guards of App.tsx, and the *)
(* pages Login and Setup, in several tabs that share one localStorage.     *)
(*                                                                         *)
(* A request carries the token that localStorage holds when it is sent;    *)
(* its answer is handled whenever it comes, in whatever session the tab    *)
(* and its neighbours are by then.  A tab keeps a copy of the token and of *)
(* the answer to "is set-up required?", and goes by those.                 *)
(***************************************************************************)
EXTENDS Integers, FiniteSets

CONSTANTS
    Tab,            \* tabs of one browser
    MaxTokens,      \* bound on the tokens the server issues
    MaxCalls        \* bound on the requests under way at once

ASSUME BoundAssumption == MaxTokens \in Nat /\ MaxCalls \in Nat

VARIABLES
    setUp,          \* there is a user
    issued,         \* tokens the server has issued, numbered
    revoked,        \* those it refuses: expired, or of a deactivated user
    stored,         \* eo_token in localStorage
    token,          \* AuthProvider's state in each tab
    at,             \* the route each tab shows
    status,         \* its cached answer of /api/auth/status
    call,           \* its requests under way, one of a kind
    loggedOut       \* history: somebody has logged out

serverVars == <<setUp, issued, revoked>>
tabVars == <<token, at, status>>
vars == <<serverVars, stored, tabVars, call, loggedOut>>

None == 0
Token == 1 .. MaxTokens

\* "status" asks whether set-up is required; "data" is any request a page makes that
\* is not an auth one.
Kind == {"status", "data", "login", "setup"}
Page == {"setup", "login", "page"}
Call == [phase : {"idle", "sent", "answered"}, token : Token \cup {None},
         answer : {"none", "required", "done", "ok", "refused"}]
Idle == [phase |-> "idle", token |-> None, answer |-> "none"]
Sent(k) == [phase |-> "sent", token |-> k, answer |-> "none"]
Answer(k, a) == [phase |-> "answered", token |-> k, answer |-> a]

TypeOK ==
    /\ setUp \in BOOLEAN
    /\ issued \in 0 .. MaxTokens
    /\ revoked \subseteq 1 .. issued
    /\ stored \in Token \cup {None}
    /\ token \in [Tab -> Token \cup {None}]
    /\ at \in [Tab -> Page]
    /\ status \in [Tab -> {"unknown", "required", "done"}]
    /\ call \in [Tab -> [Kind -> Call]]
    /\ loggedOut \in BOOLEAN

Init ==
    /\ setUp = FALSE
    /\ issued = 0
    /\ revoked = {}
    /\ stored = None
    /\ token = [t \in Tab |-> None]
    /\ at = [t \in Tab |-> "page"]
    /\ status = [t \in Tab |-> "unknown"]
    /\ call = [t \in Tab |-> [k \in Kind |-> Idle]]
    /\ loggedOut = FALSE

Accepted(k) == k \in 1 .. issued \ revoked

Becomes(t, kind, c) == call' = [call EXCEPT ![t][kind] = c]
Room(t, kind) ==
    /\ call[t][kind] = Idle
    /\ Cardinality({c \in Tab \X Kind : call[c[1]][c[2]] # Idle}) < MaxCalls
Answered(t, kind) == call[t][kind].phase = "answered"

-----------------------------------------------------------------------------
(* Routes.                                                                 *)

\* Mutant: /login does not ask whether set-up comes first.
RoutedUngated(p, s, k) ==
    IF p = "page" /\ s = "required" THEN "setup"
    ELSE IF p = "page" /\ s = "done" /\ k = None THEN "login"
    ELSE p
\* Where ProtectedRoute and AuthGate lead a tab that is to show p; while the status
\* is not known they show nothing, and lead nowhere.
Routed(p, s, k) ==
    IF p # "setup" /\ s = "required" THEN "setup"
    ELSE IF p = "page" /\ s = "done" /\ k = None THEN "login"
    ELSE p

Shows(t, p) == at[t] = p /\ (p = "setup" \/ status[t] # "unknown")

\* setToken: localStorage, and the state of this tab; then the tab shows p.
SetToken(t, k, p) ==
    /\ stored' = k
    /\ token' = [token EXCEPT ![t] = k]
    /\ at' = [at EXCEPT ![t] = Routed(p, status[t], k)]

-----------------------------------------------------------------------------
(* The set-up status.                                                      *)

\* The guards ask when they mount, one that leads to /setup included; what the server
\* answers may be out of date when it arrives.
AskStatus(t) ==
    /\ at[t] # "setup" \/ status[t] = "required"
    /\ Room(t, "status")
    /\ Becomes(t, "status", Answer(None, IF setUp THEN "done" ELSE "required"))
    /\ UNCHANGED <<serverVars, stored, tabVars, loggedOut>>

StatusIs(t, s) ==
    /\ Answered(t, "status")
    /\ status' = [status EXCEPT ![t] = s]
    /\ at' = [at EXCEPT ![t] = Routed(@, s, token[t])]
    /\ Becomes(t, "status", Idle)
    /\ UNCHANGED <<serverVars, stored, token, loggedOut>>
StatusArrives(t) == StatusIs(t, call[t]["status"].answer)
\* A failed query leaves what is cached; with nothing cached the guards go on as if
\* set-up were done.
StatusFails(t) == StatusIs(t, IF status[t] = "unknown" THEN "done" ELSE status[t])

\* The set-up page does not look at the status; unused, it is dropped after a while.
DropStatus(t) ==
    /\ at[t] = "setup" /\ status[t] # "unknown"
    /\ status' = [status EXCEPT ![t] = "unknown"]
    /\ UNCHANGED <<serverVars, stored, token, at, call, loggedOut>>

-----------------------------------------------------------------------------
(* The data of the pages.                                                  *)

\* The pages and the top bar poll, with the token that is stored now.
SendData(t) ==
    /\ Shows(t, "page")
    /\ Room(t, "data")
    /\ Becomes(t, "data", Sent(stored))
    /\ UNCHANGED <<serverVars, stored, tabVars, loggedOut>>

\* An answer other than 401 leaves the session alone, and so does one that is lost.
DataEnds(t) ==
    /\ call[t]["data"].phase = "sent"
    /\ Becomes(t, "data", Idle)
    /\ UNCHANGED <<serverVars, stored, tabVars, loggedOut>>

\* Mutant: every 401 ends the session, a wrong password's too.
EndsOnAny401(kind, a) == a = "refused"
\* apiFetch takes a 401 for the end of the session unless the path is an auth one.
EndsSession(kind, a) == kind = "data" /\ a = "refused"

\* The server refuses for good, so it does not matter when it does.
Refused(t) ==
    /\ call[t]["data"].phase = "sent"
    /\ ~Accepted(call[t]["data"].token)
    /\ EndsSession("data", "refused")
\* Mutant: the token is only taken out of localStorage.
RefusalArrivesQuietly(t) ==
    /\ Refused(t)
    /\ stored' = None
    /\ Becomes(t, "data", Idle)
    /\ UNCHANGED <<serverVars, tabVars, loggedOut>>
\* The token goes, in localStorage and in this tab, whichever token was refused.
RefusalArrives(t) ==
    /\ Refused(t)
    /\ SetToken(t, None, at[t])
    /\ Becomes(t, "data", Idle)
    /\ UNCHANGED <<serverVars, status, loggedOut>>

-----------------------------------------------------------------------------
(* The forms.  Their button is disabled while a request is under way.      *)

\* The answer to login or set-up: a new token.
Issue(t, kind) ==
    /\ issued < MaxTokens
    /\ issued' = issued + 1
    /\ Becomes(t, kind, Answer(issued + 1, "ok"))

\* A wrong password and a deactivated account are refused with 401, as a bad token is;
\* for the form a failure is no different.
SubmitLogin(t) ==
    /\ Shows(t, "login")
    /\ Room(t, "login")
    /\ \/ setUp /\ Issue(t, "login")
       \/ Becomes(t, "login", Answer(None, "refused")) /\ UNCHANGED issued
    /\ UNCHANGED <<setUp, revoked, stored, tabVars, loggedOut>>

\* Set-up counts the users, and commits an admin later.
SubmitSetup(t) ==
    /\ Shows(t, "setup")
    /\ Room(t, "setup")
    /\ Becomes(t, "setup", IF setUp THEN Answer(None, "refused") ELSE Sent(None))
    /\ UNCHANGED <<serverVars, stored, tabVars, loggedOut>>
CommitSetup(t) ==
    /\ call[t]["setup"].phase = "sent"
    /\ setUp' = TRUE
    /\ Issue(t, "setup")
    /\ UNCHANGED <<revoked, stored, tabVars, loggedOut>>

\* The callback of the form keeps the token and goes to the overview, if the form is
\* still there.
FormArrives(t, kind) ==
    /\ Answered(t, kind)
    /\ IF call[t][kind].answer = "ok" /\ at[t] = kind
       THEN SetToken(t, call[t][kind].token, "page")
       ELSE IF EndsSession(kind, call[t][kind].answer)
            THEN SetToken(t, None, at[t])
            ELSE UNCHANGED <<stored, token, at>>
    /\ Becomes(t, kind, Idle)
    /\ UNCHANGED <<serverVars, status, loggedOut>>

Submitting(t) == call[t]["login"] # Idle \/ call[t]["setup"] # Idle

-----------------------------------------------------------------------------
(* The user, and the server.                                               *)

\* The account menu is in the top bar of every page.
Logout(t) ==
    /\ Shows(t, "page")
    /\ SetToken(t, None, at[t])
    /\ loggedOut' = TRUE
    /\ UNCHANGED <<serverVars, status, call>>

\* Back, forward and links stay in the application; users wait for a form's answer.
GoTo(t, p) ==
    /\ ~Submitting(t) /\ p # at[t]
    /\ at' = [at EXCEPT ![t] = Routed(p, status[t], token[t])]
    /\ UNCHANGED <<serverVars, stored, token, status, call, loggedOut>>

\* A full load starts the tab anew, from localStorage; one that finds there the token
\* the tab has already would only repeat the status request, and is left out.
Load(t) ==
    /\ ~Submitting(t) /\ token[t] # stored
    /\ token' = [token EXCEPT ![t] = stored]
    /\ status' = [status EXCEPT ![t] = "unknown"]
    /\ call' = [call EXCEPT ![t] = [k \in Kind |-> Idle]]
    /\ UNCHANGED <<serverVars, stored, at, loggedOut>>

\* A token expires, or an admin deactivates its user.
Revoke(k) ==
    /\ Accepted(k)
    /\ revoked' = revoked \cup {k}
    /\ UNCHANGED <<setUp, issued, stored, tabVars, call, loggedOut>>

-----------------------------------------------------------------------------
Next ==
    \/ \E t \in Tab :
        \/ AskStatus(t) \/ StatusArrives(t) \/ StatusFails(t) \/ DropStatus(t)
        \/ SendData(t) \/ DataEnds(t) \/ RefusalArrives(t)
        \/ SubmitLogin(t) \/ SubmitSetup(t) \/ CommitSetup(t)
        \/ FormArrives(t, "login") \/ FormArrives(t, "setup")
        \/ Logout(t) \/ Load(t) \/ \E p \in Page : GoTo(t, p)
    \/ \E k \in Token : Revoke(k)

Spec == Init /\ [][Next]_vars

\* The browser runs what is ready, requests are answered or given up, the refresh
\* interval is not "off", and of the answers some get through.
Fairness ==
    \A t \in Tab :
        /\ SF_vars(SendData(t)) /\ SF_vars(RefusalArrives(t))
        /\ WF_vars(RefusalArrives(t) \/ DataEnds(t))
        /\ WF_vars(StatusArrives(t) \/ StatusFails(t))
        /\ WF_vars(CommitSetup(t) \/ FormArrives(t, "login") \/ FormArrives(t, "setup"))
FairSpec == Spec /\ Fairness

-----------------------------------------------------------------------------
(* Properties.                                                             *)

\* As long as nobody logs out and the server accepts every token it has issued, a
\* signed-in tab is not signed out: not by a wrong password or a refused set-up in
\* another tab, not by an answer that comes late (the exception for /api/auth/).
QuietSessionLasts ==
    ~loggedOut /\ revoked = {} => \A t \in Tab : token[t] # None => stored # None

\* Who logs in gets to the pages: neither guard sends them elsewhere (AuthGate has
\* already asked for the set-up status that ProtectedRoute goes by).
LoginLands ==
    [][\A t \in Tab :
        at[t] = "login" /\ Answered(t, "login") /\ call[t]["login"].answer = "ok"
            /\ call'[t]["login"] = Idle
        => at'[t] = "page" /\ token'[t] = call[t]["login"].token]_vars

\* A tab whose browser holds no token the server accepts does not go on showing pages,
\* whichever tab lost the session (the listener of AuthProvider: not "stuck").
DeadSessionLeaves ==
    \A t \in Tab : (Shows(t, "page") /\ ~Accepted(stored))
                   ~> (~Shows(t, "page") \/ Accepted(stored))
=============================================================================
