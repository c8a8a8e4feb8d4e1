----------------------------- MODULE HttpPolicy -----------------------------
(***************************************************************************)
(* The decisions apps/api makes about a request before and after its       *)
(* handler runs: the cross-site check, the permission a route declares,    *)
(* the window it is counted in, and the envelope a failure leaves as.      *)
(*                                                                         *)
(* A request is a record of what those decisions read: headers are reduced *)
(* to the cases they tell apart, a token to the nonce and the session it   *)
(* was signed for.  HMACs do not collide.                                  *)
(***************************************************************************)
EXTENDS Absent, Integers, Sequences, FiniteSets

(* An undefined header or reason is none of these words. *)
ASSUME PolicyConstants ==
    Missing \notin {"theirs", "origin", "fetch_site", "token", "undeclared", "unauthenticated",
                    "principal_kind", "permission"}

----------------------------------------------------------------------------
(* Permissions are data, drawn from a closed catalogue.                    *)
PERMISSIONS ==
    {"question.read", "question.write", "question.publish", "assessment.write", "invite.send",
     "attempt.read", "attempt.grade", "attempt.void", "interview.host", "report.export", "org.admin"}

(* Fails closed three ways: unknown key, candidate, key not held. *)
Can(principal, permission) ==
    /\ permission \in PERMISSIONS
    /\ principal.kind = "staff"
    /\ permission \in principal.permissions

----------------------------------------------------------------------------
(* Cross-site request forgery. *)
STATE_CHANGING_METHODS == {"POST", "PUT", "PATCH", "DELETE"}
SAFE_FETCH_SITES == {"same-origin", "none"}
TOKEN_EXEMPT_PATHS == {"/auth/login", "/auth/oidc/start"}

(* A double-submit token proves itself by the session it was minted for. *)
VerifyCsrfToken(session, token) ==
    token # Missing /\ token.nonce # "" /\ token.boundTo = session

CsrfRejection(request) ==
    IF \/ request.method \notin STATE_CHANGING_METHODS
       \/ request.cookies = Missing
    THEN Missing
    ELSE IF request.origin \notin {Missing, "ours"} THEN "origin"
    ELSE IF request.fetchSite \notin SAFE_FETCH_SITES \cup {Missing} THEN "fetch_site"
    ELSE LET jar == request.cookies IN
         IF /\ jar.session # Missing
            /\ request.path \notin TOKEN_EXEMPT_PATHS
            /\ \/ request.csrfHeader = Missing \/ jar.csrf = Missing
               \/ request.csrfHeader # jar.csrf
               \/ ~VerifyCsrfToken(jar.session, request.csrfHeader)
         THEN "token" ELSE Missing

----------------------------------------------------------------------------
(* Who may call a route: a permission it declares, an entry on the public  *)
(* list, or nobody.                                                        *)
Public(method, url, credential) == [method |-> method, url |-> url, credential |-> credential]

PUBLIC_ROUTES ==
    {Public("GET", url, "none") : url \in {"/healthz", "/readyz", "/metrics", "/openapi.json",
                                           "/auth/oidc/callback"}}
    \cup {Public("OPTIONS", "*", "none")}
    \cup {Public("POST", url, "none") : url \in {"/auth/login", "/auth/oidc/start", "/candidate/redeem"}}
    \cup {Public("POST", "/auth/logout", "session"), Public("GET", "/auth/me", "session")}

(* HEAD is answered by its GET. *)
RouteMethod(method) == IF method = "HEAD" THEN "GET" ELSE method

Listed(list, method, url) ==
    {entry \in list : RouteMethod(entry.method) = RouteMethod(method) /\ entry.url = url}

(* Registration refuses a public declaration, a duplicate entry, and a     *)
(* route that is both listed and permission-checked.                       *)
RouteTableAccepted(list, routes) ==
    /\ \A entry \in list : Cardinality(Listed(list, entry.method, entry.url)) = 1
    /\ \A route \in routes :
           route.permission # Missing => Listed(list, route.method, route.url) = {}

(* What a matched request must satisfy; Missing when nothing was declared. *)
AuthorisationFor(list, request) ==
    IF ~request.matched THEN [kind |-> "public", credential |-> "none"]
    ELSE IF request.permission # Missing THEN [kind |-> "permission", permission |-> request.permission]
    ELSE IF Listed(list, request.method, request.url) = {} THEN [kind |-> "undeclared"]
    ELSE [kind |-> "public",
          credential |-> (CHOOSE e \in Listed(list, request.method, request.url) : TRUE).credential]

(* Missing when the request may go on, otherwise why it may not. *)
Enforce(declaration, principal) ==
    CASE declaration.kind = "undeclared" -> "undeclared"
      [] declaration.kind = "public" /\ declaration.credential = "none" -> Missing
      [] OTHER ->
         IF principal = Missing THEN "unauthenticated"
         ELSE IF declaration.kind = "public"
         THEN IF principal.kind = "staff" THEN Missing ELSE "principal_kind"
         ELSE IF Can(principal, declaration.permission) THEN Missing ELSE "permission"

DenialCode(reason) == IF reason = "unauthenticated" THEN "unauthenticated" ELSE "forbidden"

(* The two authentication hooks: a bearer token names a candidate, a       *)
(* session cookie staff, and a request carrying both is neither.           *)
PrincipalOf(bearer, session) ==
    IF bearer = Missing THEN session
    ELSE IF session = Missing THEN bearer ELSE [kind |-> "crossed"]

----------------------------------------------------------------------------
(* Rate limits.  Windows are in seconds; submissions are capped for life   *)
(* by the table and have no window here.                                   *)
RATE_LIMITS ==
    [staff_api          |-> [max |-> 600, window |-> 60],
     staff_login        |-> [max |-> 10,  window |-> 900],
     candidate_autosave |-> [max |-> 60,  window |-> 60],
     trial_run          |-> [max |-> 60,  window |-> 3600],
     token_redemption   |-> [max |-> 20,  window |-> 3600]]

UNLIMITED_ROUTES == {"/healthz", "/readyz", "/metrics", "/openapi.json"}

(* Every route is counted, by client address; operational ones never are,  *)
(* and a store that fails lets the request through.                        *)
RateLimited(url, scope, used, storeUp) ==
    /\ url \notin UNLIMITED_ROUTES
    /\ storeUp
    /\ used > RATE_LIMITS[IF scope = Missing THEN "staff_api" ELSE scope].max

----------------------------------------------------------------------------
(* The one error handler.  An ApiError is served as authored; schema       *)
(* failures and framework statuses map to codes; the rest is internal.     *)
NormaliseError(error) ==
    IF error.kind = "api" THEN error.code
    ELSE IF error.kind = "validation" THEN "validation_failed"
    ELSE CASE error.status \in {400, 405, 406, 413, 415} -> "validation_failed"
           [] error.status = 401 -> "unauthenticated"
           [] error.status = 403 -> "forbidden"
           [] error.status = 404 -> "not_found"
           [] error.status = 429 -> "rate_limited"
           [] OTHER -> "internal"

MaxValidationFields == 20

(* The fields a schema failure names are cut, and said to be cut. *)
ValidationDetails(failures) ==
    [fields |-> SubSeq(failures, 1, IF Len(failures) < MaxValidationFields
                                    THEN Len(failures) ELSE MaxValidationFields),
     truncated |-> Len(failures) > MaxValidationFields]

(* What a request meets, in order: a closing listener, the cross-site      *)
(* check, the counter, the credentials, the route's declaration.           *)
Respond(request, closing, used, storeUp, bearer, session) ==
    LET principal == PrincipalOf(bearer, session)
        denial == Enforce(AuthorisationFor(PUBLIC_ROUTES, request), principal)
    IN
    CASE closing -> "unavailable"
      [] ~closing /\ CsrfRejection(request) # Missing -> "forbidden"
      [] ~closing /\ CsrfRejection(request) = Missing
            /\ RateLimited(request.url, request.scope, used, storeUp) -> "rate_limited"
      [] OTHER -> IF principal = [kind |-> "crossed"] THEN "unauthenticated"
                  ELSE IF denial # Missing THEN DenialCode(denial) ELSE "handled"

(* No request is handled that a browser was made to send from another      *)
(* site, or whose caller lacks what the route declares; and a candidate's  *)
(* token never opens a route that wants a permission.                      *)
OnlyDeclaredCallers(request, closing, used, storeUp, bearer, session) ==
    Respond(request, closing, used, storeUp, bearer, session) = "handled" =>
        /\ ~(request.method \in STATE_CHANGING_METHODS /\ request.cookies # Missing
                /\ request.origin = "theirs")
        /\ request.matched /\ request.permission # Missing =>
               bearer = Missing /\ session # Missing /\ request.permission \in session.permissions
        /\ request.matched /\ Listed(PUBLIC_ROUTES, request.method, request.url) = {} =>
               request.permission # Missing

----------------------------------------------------------------------------
(* Which organisation a sign-in is for.  Two holders of one address, or    *)
(* two organisations and no slug, is nobody.                               *)
SoleElement(S) == IF Cardinality(S) = 1 THEN CHOOSE x \in S : TRUE ELSE Missing

ResolveOrgForStaffEmail(rows, email) ==
    LET held == {row \in rows : row.email = email /\ ~row.archived} IN
    IF Cardinality(held) = 1 THEN (CHOOSE row \in held : TRUE).org ELSE Missing

ResolveOrgBySlug(orgs, slug) == IF slug \in orgs THEN slug ELSE Missing
ResolveSoleOrg(orgs) == SoleElement(orgs)

(* A slug that names nothing is not retried by address. *)
ResolveLoginOrg(rows, orgs, email, slug) ==
    IF slug \notin {Missing, ""} THEN ResolveOrgBySlug(orgs, slug)
    ELSE ResolveOrgForStaffEmail(rows, email)

(* The organisation cookie is good for the flow whose state it signed. *)
VerifyOidcOrgCookie(cookie, state) ==
    IF state = Missing \/ cookie = Missing THEN Missing
    ELSE IF cookie.state = state THEN cookie.org ELSE Missing

(* Readiness: any dependency down, or a drain under way, is not ready;     *)
(* liveness consults neither.                                              *)
ReadyStatus(checks, draining) ==
    IF (\A d \in DOMAIN checks : checks[d] = "ok") /\ ~draining THEN 200 ELSE 503
LiveStatus(checks, draining) == 200

(* Metric labels: an unmatched route is one class, an odd status is 5xx. *)
StatusClassOf(status) ==
    LET hundreds == status \div 100 IN IF hundreds \in 1 .. 5 THEN hundreds ELSE 5
RouteClassOf(pattern) == IF pattern \in {Missing, ""} THEN "unmatched" ELSE pattern
=============================================================================
