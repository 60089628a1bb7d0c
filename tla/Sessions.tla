------------------------------- MODULE Sessions -------------------------------
(***************************************************************************)
(* Signing in with a browser and staying signed in (internal/auth/auth.go, *)
(* the routes of internal/server/server.go, request of the frontend's      *)
(* api.ts), against replicas that start, stop and migrate as in Startup.   *)
(*                                                                         *)
(* The server keeps no session: a signed cookie has the user and the time  *)
(* it ends, under a key that is configured or made up when the process     *)
(* starts.  A browser has one cookie of each name, shared by its tabs, so  *)
(* sign-ins of two tabs meet there.  Provisioning the user is one step     *)
(* here; module Provision has its steps.                                   *)
(***************************************************************************)
EXTENDS Startup

CONSTANTS
    Tabs,          \* the tabs of a browser
    StateAge,      \* Max-Age of the state cookie (300 seconds)
    SessionAge,    \* sessionMaxAge (24 hours)
    MaxTime,       \* bound: the clock
    States,        \* the random states of sign-ins
    None           \* no cookie, no session, no sign-in

ASSUME AgeAssumption == StateAge \in Nat /\ SessionAge \in Nat /\ MaxTime \in Nat

VARIABLES
    auth,         \* the configuration: "disabled", with a "secret", or a "random" key
    key,          \* the session key of each replica, 0 for the configured one
    managers,     \* auth managers created so far
    clock,        \* time.Now()
    tab,          \* what a tab shows or waits for
    flow,         \* the sign-in a tab is in: its state and when it began
    answer,       \* the session in the answer to its callback that is under way
    stateCookie,  \* finguard_oauth_state
    session,      \* finguard_session
    signedIn,     \* history: when the present session was issued
    disturbed     \* history: tabs in whose sign-in another tab changed the state cookie

serverVars == <<auth, key, managers>>
tabVars == <<tab, flow, answer>>
cookies == <<stateCookie, session>>
browserVars == <<tabVars, cookies, signedIn, disturbed>>
vars == <<startVars, serverVars, clock, browserVars>>

Time == 0..MaxTime
Session == [key : Nat, at : Time]
SignIn == [state : States, at : Time]
ASSUME NoneAssumption == None \notin Session \cup SignIn \cup States \cup Time

Init ==
    /\ StartInit
    /\ auth \in {"disabled", "secret", "random"}
    /\ key = [s \in Servers |-> 0] /\ managers = 0
    /\ clock = 0
    /\ tab = [t \in Tabs |-> "page"]
    /\ flow = [t \in Tabs |-> None]
    /\ answer = [t \in Tabs |-> None]
    /\ stateCookie = None /\ session = None
    /\ signedIn = None /\ disturbed = {}

-----------------------------------------------------------------------------
(* The replicas.  The names starting with Bad are used by no action: each  *)
(* is a plausible slip in the definition it precedes.                      *)

BadKeyOf(s) == managers + 1  \* the configured secret is not used
KeyOf(s) == IF auth = "secret" THEN 0 ELSE managers + 1

\* NewManager takes the configured secret or makes up a key, and server.New follows.
StartManager(s) ==
    /\ NewManager(s)
    /\ key' = [key EXCEPT ![s] = KeyOf(s)]
    /\ managers' = managers + 1
    /\ UNCHANGED <<auth, clock, browserVars>>

ServerStep(s) ==
    \/ StartManager(s)
    \/ /\ pc[s] # "auth" /\ StartStep(s)
       /\ UNCHANGED <<serverVars, clock, browserVars>>

StopServer(s) == Stop(s) /\ UNCHANGED <<serverVars, clock, browserVars>>

Serving(s) == pc[s] = "serve"

TimePasses ==
    /\ clock < MaxTime /\ clock' = clock + 1
    /\ UNCHANGED <<startVars, serverVars, browserVars>>

-----------------------------------------------------------------------------
(* Requests of a tab.  Any replica may answer one.                         *)

Show(t, from, to) == tab[t] = from /\ tab' = [tab EXCEPT ![t] = to]

\* decodeSession: the signature is made with the key of the replica that is asked.
DecodeSession(s) == session # None /\ session.key = key[s]

\* ... and ExpiresAt has not passed.
Valid(s) == DecodeSession(s) /\ clock <= session.at + SessionAge

\* The middleware of the API: it is there only when authentication is enabled.
Middleware(s) == auth = "disabled" \/ Valid(s)

\* handleMe asks HandleUserInfo, which wants the user the middleware leaves in the context.
UserInContext == auth # "disabled"

Admitted(s, path) == Middleware(s) /\ (path = "me" => UserInContext)

\* The answer 401 sends the page to /login (api.ts).
Request(t, s, path) ==
    /\ Serving(s) /\ tab[t] = "page"
    /\ tab' = [tab EXCEPT ![t] = IF Admitted(s, path) THEN "page" ELSE "refused"]
    /\ UNCHANGED <<startVars, serverVars, clock, flow, answer, cookies, signedIn, disturbed>>

\* A change of the state cookie by t, as the sign-ins of the other tabs see it.
Disturb(t) == disturbed' = (disturbed \ {t}) \cup {u \in Tabs \ {t} : tab[u] = "idp"}

\* generateState never returns a state twice.
Unused(n) ==
    /\ stateCookie # None => stateCookie.state # n
    /\ \A t \in Tabs : flow[t] # None => flow[t].state # n

BadKeepCookie(n) ==  \* a cookie that is still there is kept
    IF stateCookie # None THEN stateCookie ELSE [state |-> n, at |-> clock]
SetState(n) == [state |-> n, at |-> clock]

\* HandleLogin: a fresh state, in the cookie and in the address of the provider.
HandleLogin(t, s, n) ==
    /\ Serving(s) /\ auth # "disabled" /\ Unused(n) /\ Show(t, "refused", "idp")
    /\ flow' = [flow EXCEPT ![t] = [state |-> n, at |-> clock]]
    /\ stateCookie' = SetState(n)
    /\ Disturb(t)
    /\ UNCHANGED <<startVars, serverVars, clock, answer, session, signedIn>>

\* With authentication disabled: a JSON text, and no way back to the page.
HandleLoginDisabled(t, s) ==
    /\ Serving(s) /\ auth = "disabled" /\ Show(t, "refused", "error")
    /\ UNCHANGED <<startVars, serverVars, clock, flow, answer, cookies, signedIn, disturbed>>

\* The state cookie the browser sends along: none after Max-Age.
SentState == IF stateCookie # None /\ clock <= stateCookie.at + StateAge
             THEN stateCookie.state ELSE None

EndFlow(t) == flow' = [flow EXCEPT ![t] = None]

\* HandleCallback, the provider having sent the user back: no cookie or another state.
RejectCallback(t, s) ==
    /\ Serving(s) /\ Show(t, "idp", "rejected") /\ EndFlow(t)
    /\ SentState # flow[t].state
    /\ UNCHANGED <<startVars, serverVars, clock, answer, cookies, signedIn, disturbed>>

\* encodeSession.
EncodeSession(s) == [key |-> key[s], at |-> clock]

\* The code is exchanged, the token verified, the user provisioned, the session signed.
AcceptCallback(t, s) ==
    /\ Serving(s) /\ Show(t, "idp", "answer") /\ EndFlow(t)
    /\ SentState = flow[t].state
    /\ answer' = [answer EXCEPT ![t] = EncodeSession(s)]
    /\ UNCHANGED <<startVars, serverVars, clock, cookies, signedIn, disturbed>>

\* One of these fails; the state cookie is removed all the same.
FailCallback(t, s) ==
    /\ Serving(s) /\ Show(t, "idp", "answer") /\ EndFlow(t)
    /\ SentState = flow[t].state
    /\ UNCHANGED <<startVars, serverVars, clock, answer, cookies, signedIn, disturbed>>

\* The answer arrives: the state cookie goes, whichever it is by now, the session is set.
BadReceive(t) ==  \* under the name of the state cookie
    /\ Show(t, "answer", IF answer[t] = None THEN "error" ELSE "page")
    /\ stateCookie' = answer[t] /\ Disturb(t)
    /\ session' = session
    /\ signedIn' = IF answer[t] = None THEN signedIn ELSE answer[t].at
    /\ answer' = [answer EXCEPT ![t] = None]
    /\ UNCHANGED <<startVars, serverVars, clock, flow>>

Receive(t) ==
    /\ Show(t, "answer", IF answer[t] = None THEN "error" ELSE "page")
    /\ stateCookie' = None /\ Disturb(t)
    /\ session' = IF answer[t] = None THEN session ELSE answer[t]
    /\ signedIn' = IF answer[t] = None THEN signedIn ELSE answer[t].at
    /\ answer' = [answer EXCEPT ![t] = None]
    /\ UNCHANGED <<startVars, serverVars, clock, flow>>

\* HandleLogout: the session cookie goes.
HandleLogout(t, s) ==
    /\ Serving(s) /\ tab[t] = "page" /\ session # None
    /\ session' = None /\ signedIn' = None
    /\ UNCHANGED <<startVars, serverVars, clock, tabVars, stateCookie, disturbed>>

\* The user opens the page again, or never comes back from the provider.
Reload(t) ==
    /\ tab[t] \in {"idp", "rejected", "error"} /\ tab' = [tab EXCEPT ![t] = "page"]
    /\ EndFlow(t)
    /\ UNCHANGED <<startVars, serverVars, clock, answer, cookies, signedIn, disturbed>>

TabStep(t) ==
    \/ Receive(t) \/ Reload(t)
    \/ \E s \in Servers :
        \/ \E path \in {"me", "data"} : Request(t, s, path)
        \/ \E n \in States : HandleLogin(t, s, n)
        \/ HandleLoginDisabled(t, s)
        \/ RejectCallback(t, s) \/ AcceptCallback(t, s) \/ FailCallback(t, s)
        \/ HandleLogout(t, s)

Next ==
    \/ \E s \in Servers : ServerStep(s)
    \/ \E s \in Servers : StopServer(s)
    \/ TimePasses
    \/ \E t \in Tabs : TabStep(t)

Spec == Init /\ [][Next]_vars

-----------------------------------------------------------------------------
TabState == {"page", "refused", "idp", "answer", "rejected", "error"}

\* Every variable has the values its counterpart can hold.
TypeOK ==
    /\ StartTypeOK
    /\ auth \in {"disabled", "secret", "random"}
    /\ key \in [Servers -> Nat] /\ managers \in Nat
    /\ clock \in Time /\ tab \in [Tabs -> TabState]
    /\ flow \in [Tabs -> SignIn \cup {None}]
    /\ answer \in [Tabs -> Session \cup {None}]
    /\ stateCookie \in SignIn \cup {None}
    /\ session \in Session \cup {None}
    /\ signedIn \in Time \cup {None} /\ disturbed \subseteq Tabs

\* A sign-in is turned away at its callback only if it took longer than the state cookie
\* lives, or another tab began or ended a sign-in meanwhile: never because a replica
\* was restarted, or another one answers.
RejectedOnlyByOverlap ==
    [][\A t \in Tabs : tab[t] = "idp" /\ tab'[t] = "rejected" =>
          t \in disturbed \/ clock > flow[t].at + StateAge]_vars

\* Every replica admits a browser that signed in less than 24 hours ago and has not
\* signed out, whichever replica issued the session and whatever was restarted since, if
\* a secret is configured or only one process ever made a key up; and none admits it later.
Fresh == signedIn # None /\ clock <= signedIn + SessionAge
SessionHonoured ==
    \A s \in Servers : Serving(s) /\ auth # "disabled" =>
        /\ Valid(s) => Fresh
        /\ Fresh /\ (auth = "secret" \/ managers = 1) => Valid(s)
=============================================================================
