---------------------------- MODULE StaffAccess ----------------------------
(***************************************************************************)
(* Staff sessions of apps/api, as one browser with several tabs meets      *)
(* them: signing in by password or identity provider, asking who one is,   *)
(* writing, signing out, while roles change, sessions age and the process  *)
(* is drained.  Tabs share a cookie jar, so a response that was computed   *)
(* for an earlier session may arrive after a later one.                    *)
(*                                                                         *)
(* Better Auth and Valkey are external: a session is an entry under a      *)
(* token nobody can guess, readable until it is deleted or expires.        *)
(***************************************************************************)
EXTENDS HttpPolicy

CONSTANTS
    Users,          \* staff with a credential
    OrgOf,          \* each user's organisation
    Tabs,           \* tabs of the one browser
    WritePermission,\* the permission the modelled write declares
    MaxTokens,      \* bound on sessions minted
    MaxFlows,       \* bound on identity-provider flows
    MaxRequests,    \* bound on requests sent
    SessionTTL, UpdateAge, MaxStaffTime

ASSUME StaffConstants ==
    /\ WritePermission \in PERMISSIONS
    /\ MaxTokens \in Nat /\ MaxFlows \in Nat /\ MaxRequests \in Nat /\ MaxStaffTime \in Nat
    /\ SessionTTL \in Nat \ {0} /\ UpdateAge \in Nat
    /\ \A t \in 1 .. MaxTokens : Missing \notin {t, [nonce |-> "n", boundTo |-> t]}
    /\ Missing \notin {"undeclared", "unauthenticated", "principal_kind", "permission"}

Tokens == 1 .. MaxTokens
Flows == 1 .. MaxFlows

VARIABLES
    clock,      \* the server's clock
    grants,     \* users whose roles carry WritePermission
    store,      \* the session store, by token
    minted,     \* tokens minted so far
    sent,       \* requests sent so far
    jar,        \* the browser's cookies
    reqs,       \* each tab's request in flight
    flows,      \* started flows: the organisation, and whether the row is there
    apiStage,   \* up, draining, closing or down
    exercised,  \* how each write that ran stood while it was in flight
    loaded,     \* the last auth answer was a sign-in or a page load
    overlapped  \* two requests that set cookies were in flight together

staffVars == <<clock, grants, store, minted, sent, jar, reqs, flows, apiStage, exercised, loaded, overlapped>>

NoSession == [user |-> Missing, expires |-> 0, renewed |-> 0]
Idle == [kind |-> "idle"]
EmptyJar == [session |-> Missing, dies |-> 0, csrf |-> Missing, oidc |-> Missing]

StaffInit ==
    /\ clock = 0
    /\ grants \in SUBSET Users
    /\ store = [t \in Tokens |-> NoSession]
    /\ minted = 0 /\ sent = 0
    /\ jar = EmptyJar
    /\ reqs = [tab \in Tabs |-> Idle]
    /\ flows = [f \in Flows |-> [org |-> Missing, pending |-> FALSE]]
    /\ apiStage = "up"
    /\ exercised = {}
    /\ loaded = FALSE /\ overlapped = FALSE

----------------------------------------------------------------------------
Live(token) == token # Missing /\ store[token].user # Missing /\ store[token].expires > clock

(* getSession reads the store only, and extends an entry in use.  The      *)
(* extension is not relayed to the browser.                                *)
Touched(token) ==
    IF Live(token) /\ clock >= store[token].renewed + UpdateAge
    THEN [store EXCEPT ![token].expires = clock + SessionTTL, ![token].renewed = clock]
    ELSE store

(* What the browser attaches: its session cookie until its Max-Age. *)
Cookies == IF jar.session # Missing /\ jar.dies > clock THEN jar.session ELSE Missing
Csrf(token) == IF token = Missing THEN Missing ELSE [nonce |-> "n", boundTo |-> token]

SetsCookies(kind) == kind \in {"login", "me", "logout", "callback"}

(* A request leaves a tab with the cookies of that moment.  live and held  *)
(* are what the write's property looks back on: whether the session was    *)
(* live when it left, and the permission granted at some instant since.    *)
Send(tab, kind, arg) ==
    /\ reqs[tab] = Idle
    /\ apiStage \in {"up", "draining"}
    /\ sent < MaxRequests /\ sent' = sent + 1
    /\ reqs' = [reqs EXCEPT ![tab] =
           [kind |-> kind, arg |-> arg, at |-> "sent", cookie |-> Cookies, csrf |-> jar.csrf,
            oidc |-> IF kind = "callback" THEN jar.oidc ELSE Missing,
            user |-> Missing, sets |-> Missing,
            live |-> Live(Cookies), held |-> Live(Cookies) /\ store[Cookies].user \in grants]]
    /\ overlapped' = (overlapped \/ (SetsCookies(kind) /\
                          \E other \in Tabs \ {tab} : SetsCookies(reqs[other].kind)))
    /\ UNCHANGED <<clock, grants, store, minted, jar, flows, apiStage, exercised, loaded>>

Answer(tab, sets) ==
    reqs' = [reqs EXCEPT ![tab] = [kind |-> @.kind, at |-> "answered", cookie |-> @.cookie, sets |-> sets]]
Refusal == [status |-> "refused", session |-> Missing, csrf |-> Missing]

(* onRequest: the console sends its own origin and echoes its token. *)
PassesCsrf(r) ==
    LET paths == [login |-> "/auth/login", logout |-> "/auth/logout", write |-> "/questions"] IN
    r.kind \in DOMAIN paths =>
        Missing = CsrfRejection(
            [method |-> "POST", path |-> paths[r.kind], origin |-> "ours", fetchSite |-> Missing,
             cookies |-> [session |-> r.cookie, csrf |-> r.csrf], csrfHeader |-> r.csrf])

RefuseForged(tab) ==
    /\ reqs[tab] # Idle /\ reqs[tab].at = "sent" /\ ~PassesCsrf(reqs[tab])
    /\ Answer(tab, Refusal)
    /\ UNCHANGED <<clock, grants, store, minted, sent, jar, flows, apiStage, exercised, loaded, overlapped>>

(* preValidation: who the session cookie names. *)
Identify(tab) ==
    LET r == reqs[tab] IN
    /\ r.kind \in {"me", "logout", "write"} /\ r.at = "sent" /\ PassesCsrf(r)
    /\ store' = Touched(r.cookie)
    /\ IF Live(r.cookie)
       THEN reqs' = [reqs EXCEPT ![tab].at = "identified", ![tab].user = store[r.cookie].user]
       ELSE Answer(tab, Refusal)
    /\ UNCHANGED <<clock, grants, minted, sent, jar, flows, apiStage, exercised, loaded, overlapped>>

(* Its permissions, read afresh from the roles, and the route's check. *)
AuthoriseFrom(permissions, tab) ==
    LET r == reqs[tab]
        principal == [kind |-> "staff", permissions |-> permissions]
        declaration == IF r.kind = "write" THEN [kind |-> "permission", permission |-> WritePermission]
                       ELSE [kind |-> "public", credential |-> "session"]
    IN
    /\ r.kind \in {"me", "logout", "write"} /\ r.at = "identified"
    /\ IF Enforce(declaration, principal) = Missing
       THEN reqs' = [reqs EXCEPT ![tab].at = "admitted"]
       ELSE Answer(tab, Refusal)
    /\ UNCHANGED <<clock, grants, store, minted, sent, jar, flows, apiStage, exercised, loaded, overlapped>>

(* Mutant of Authorise: permissions are those of the sign-in. *)
AuthoriseAsAtSignIn(tab) == AuthoriseFrom({WritePermission}, tab)

Authorise(tab) == AuthoriseFrom(IF reqs[tab].user \in grants THEN {WritePermission} ELSE {}, tab)

----------------------------------------------------------------------------
(* The handlers. *)
Write(tab) ==
    LET r == reqs[tab] IN
    /\ r.kind = "write" /\ r.at = "admitted"
    /\ exercised' = exercised \cup {[live |-> r.live, held |-> r.held]}
    /\ Answer(tab, [status |-> "done", session |-> Missing, csrf |-> Missing])
    /\ UNCHANGED <<clock, grants, store, minted, sent, jar, flows, apiStage, loaded, overlapped>>

(* GET /auth/me also hands the session a token of its own. *)
Me(tab) ==
    LET r == reqs[tab] IN
    /\ r.kind = "me" /\ r.at = "admitted"
    /\ Answer(tab, [status |-> "profile", session |-> Missing, csrf |-> Csrf(r.cookie)])
    /\ UNCHANGED <<clock, grants, store, minted, sent, jar, flows, apiStage, exercised, loaded, overlapped>>

Logout(tab) ==
    LET r == reqs[tab] IN
    /\ r.kind = "logout" /\ r.at = "admitted"
    /\ store' = [store EXCEPT ![r.cookie] = NoSession]
    /\ Answer(tab, [status |-> "signed_out", session |-> Missing, csrf |-> Missing])
    /\ UNCHANGED <<clock, grants, minted, sent, jar, flows, apiStage, exercised, loaded, overlapped>>

Mint(user) ==
    /\ minted < MaxTokens
    /\ minted' = minted + 1
    /\ store' = [store EXCEPT ![minted + 1] =
                    [user |-> user, expires |-> clock + SessionTTL, renewed |-> clock]]

LoggingIn(tab) == reqs[tab].kind = "login" /\ reqs[tab].at = "sent" /\ PassesCsrf(reqs[tab])

LoginRefused(tab) ==
    /\ LoggingIn(tab)
    /\ Answer(tab, Refusal)
    /\ UNCHANGED <<clock, grants, store, minted, sent, jar, flows, apiStage, exercised, loaded, overlapped>>

(* Mutant of Login: the token is bound to the session that was sent. *)
LoginBoundToRequest(tab) ==
    /\ LoggingIn(tab)
    /\ Mint(reqs[tab].arg)
    /\ Answer(tab, [status |-> "profile", session |-> minted + 1, csrf |-> Csrf(reqs[tab].cookie)])
    /\ UNCHANGED <<clock, grants, sent, jar, flows, apiStage, exercised, loaded, overlapped>>

(* The token minted with the answer is bound to the session it sets. *)
Login(tab) ==
    /\ LoggingIn(tab)
    /\ Mint(reqs[tab].arg)
    /\ Answer(tab, [status |-> "profile", session |-> minted + 1, csrf |-> Csrf(minted + 1)])
    /\ UNCHANGED <<clock, grants, sent, jar, flows, apiStage, exercised, loaded, overlapped>>

(* A throw after the sign-in rolls the transaction back, not the session:  *)
(* it stays in the store under a token no browser was given.               *)
LoginThrows(tab) ==
    /\ LoggingIn(tab)
    /\ Mint(reqs[tab].arg)
    /\ Answer(tab, Refusal)
    /\ UNCHANGED <<clock, grants, sent, jar, flows, apiStage, exercised, loaded, overlapped>>

----------------------------------------------------------------------------
(* The identity provider.  start stores the flow's state under the         *)
(* organisation and sets the organisation cookie; a later start in another *)
(* tab replaces it.  callback opens the organisation the cookie names.     *)
OidcStart(tab, org) ==
    /\ reqs[tab] = Idle /\ apiStage \in {"up", "draining"}
    /\ \E f \in Flows :
          /\ flows[f].org = Missing
          /\ \A g \in Flows : g < f => flows[g].org # Missing
          /\ flows' = [flows EXCEPT ![f] = [org |-> org, pending |-> TRUE]]
          /\ jar' = [jar EXCEPT !.oidc = [org |-> org, state |-> f]]
    /\ UNCHANGED <<clock, grants, store, minted, sent, reqs, apiStage, exercised, loaded, overlapped>>

OidcCallback(tab) ==
    LET r == reqs[tab]
        org == IF r.kind = "callback" /\ r.at = "sent" THEN VerifyOidcOrgCookie(r.oidc, r.arg) ELSE Missing
    IN
    /\ r.kind = "callback" /\ r.at = "sent"
    /\ \/ /\ org # Missing /\ flows[r.arg] = [org |-> org, pending |-> TRUE]
          /\ \E u \in {v \in Users : OrgOf[v] = org} : Mint(u)
          /\ flows' = [flows EXCEPT ![r.arg].pending = FALSE]
          /\ Answer(tab, [status |-> "redirect", session |-> minted + 1, csrf |-> Missing])
       \/ /\ Answer(tab, [status |-> IF org = Missing THEN "refused" ELSE "redirect",
                          session |-> Missing, csrf |-> Missing])
          /\ UNCHANGED <<flows, minted, store>>
    /\ UNCHANGED <<clock, grants, sent, jar, apiStage, exercised, loaded, overlapped>>

----------------------------------------------------------------------------
(* The answer reaches the tab and its Set-Cookie headers the shared jar. *)
DeliverAnswer(tab) ==
    LET r == reqs[tab] IN
    /\ r.kind # "idle" /\ r.at = "answered"
    /\ reqs' = [reqs EXCEPT ![tab] = Idle]
    /\ jar' = CASE r.sets.status = "signed_out" -> [jar EXCEPT !.session = Missing, !.csrf = Missing]
                [] r.kind = "callback" /\ r.sets.status = "refused" -> jar
                [] OTHER ->
                   [jar EXCEPT !.session = IF r.sets.session = Missing THEN @ ELSE r.sets.session,
                               !.dies = IF r.sets.session = Missing THEN @
                                        ELSE store[r.sets.session].renewed + SessionTTL,
                               !.csrf = IF r.sets.csrf = Missing THEN @ ELSE r.sets.csrf,
                               !.oidc = IF r.kind = "callback" THEN Missing ELSE @]
    /\ loaded' = CASE r.sets.status = "profile" -> TRUE
                   [] r.kind = "callback" /\ r.sets.session # Missing -> FALSE
                   [] OTHER -> loaded
    /\ overlapped' = (overlapped /\ ~(r.kind = "me" /\ r.sets.status = "profile"
                                      /\ Cookies = r.cookie
                                      /\ \A other \in Tabs \ {tab} : ~SetsCookies(reqs[other].kind)))
    /\ UNCHANGED <<clock, grants, store, minted, sent, flows, apiStage, exercised>>

(* An administrator edits the user's roles. *)
ChangeRoles(user) ==
    /\ grants' = IF user \in grants THEN grants \ {user} ELSE grants \cup {user}
    /\ reqs' = [tab \in Tabs |->
           IF reqs[tab] # Idle /\ reqs[tab].at # "answered" /\ reqs[tab].cookie # Missing
              /\ user \in {store[reqs[tab].cookie].user, reqs[tab].user} \cap grants'
           THEN [reqs[tab] EXCEPT !.held = TRUE] ELSE reqs[tab]]
    /\ UNCHANGED <<clock, store, minted, sent, jar, flows, apiStage, exercised, loaded, overlapped>>

StaffTick ==
    /\ clock < MaxStaffTime
    /\ clock' = clock + 1
    /\ UNCHANGED <<grants, store, minted, sent, jar, reqs, flows, apiStage, exercised, loaded, overlapped>>

----------------------------------------------------------------------------
(* SIGTERM: not ready at once, still serving for the grace period, then no *)
(* new requests, then exit when the last one is answered or time runs out. *)
BeginDrain ==
    /\ apiStage = "up"
    /\ apiStage' = "draining"
    /\ UNCHANGED <<clock, grants, store, minted, sent, jar, reqs, flows, exercised, loaded, overlapped>>

CloseListener ==
    /\ apiStage = "draining"
    /\ apiStage' = "closing"
    /\ UNCHANGED <<clock, grants, store, minted, sent, jar, reqs, flows, exercised, loaded, overlapped>>

ExitProcess ==
    /\ apiStage = "closing"
    /\ apiStage' = "down"
    /\ reqs' = [tab \in Tabs |-> IF reqs[tab] # Idle /\ reqs[tab].at # "answered" THEN Idle ELSE reqs[tab]]
    /\ UNCHANGED <<clock, grants, store, minted, sent, jar, flows, exercised, loaded, overlapped>>

StaffNext ==
    \/ \E tab \in Tabs :
          \/ \E kind \in {"me", "logout", "write"} : Send(tab, kind, Missing)
          \/ \E user \in Users : Send(tab, "login", user)
          \/ \E f \in Flows : flows[f].org # Missing /\ Send(tab, "callback", f)
          \/ \E org \in {OrgOf[u] : u \in Users} : OidcStart(tab, org)
          \/ RefuseForged(tab) \/ Identify(tab) \/ Authorise(tab) \/ Write(tab) \/ Me(tab) \/ Logout(tab)
          \/ LoginRefused(tab) \/ Login(tab) \/ LoginThrows(tab) \/ OidcCallback(tab) \/ DeliverAnswer(tab)
    \/ \E user \in Users : ChangeRoles(user)
    \/ StaffTick \/ BeginDrain \/ CloseListener \/ ExitProcess

StaffSpec == StaffInit /\ [][StaffNext]_staffVars

----------------------------------------------------------------------------
(* A write runs only for a request whose session was live when it left the *)
(* browser and whose user held the permission at some instant since: what  *)
(* was signed out, expired or taken away before that stays refused,        *)
(* however the steps of other requests fall between its checks.            *)
WithdrawnMeansRefused == \A e \in exercised : e.live /\ e.held

(* Once a page has loaded, the token the console echoes belongs to the     *)
(* session the browser sends, so its next write is not refused as forged,  *)
(* unless answers that set cookies crossed.                                *)
TokenFollowsSession ==
    (loaded /\ ~overlapped /\ jar.session # Missing)
        => jar.csrf # Missing /\ jar.csrf.boundTo = jar.session
=============================================================================
