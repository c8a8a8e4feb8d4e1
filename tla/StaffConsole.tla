---------------------------- MODULE StaffConsole ----------------------------
(***************************************************************************)
(* What the staff console decides, screen by screen, as functions of what  *)
(* it was answered: how an answer becomes a value or an error, what is     *)
(* asked again, who is let past the session gate, what the URL means, and  *)
(* what each screen offers.  Wording and layout are left out: a view is    *)
(* the name of what it shows and the actions it enables.                   *)
(***************************************************************************)
EXTENDS Absent, Integers, Sequences, FiniteSets, SequencesExt

-----------------------------------------------------------------------------
(* Requests and their answers (api/client.ts, api/queryClient.ts).         *)

RETRYABLE == {"rate_limited", "execution_unavailable", "internal"}
MAX_QUERY_RETRIES == 2

Failure(code, status, reference) ==
    [kind |-> "api_error", code |-> code, status |-> status, reference |-> reference]

\* A failed response: the envelope is parsed, and anything else is `internal`.
ToRequestError(response) ==
    IF response.body = "envelope"
    THEN Failure(response.code, response.status,
                 IF response.request_id # "" THEN response.request_id ELSE response.header)
    ELSE Failure("internal", response.status, response.header)

\* A schema that does not accept the payload throws an error of its own,
\* which is not an `ApiRequestError`.
Parsed(accepts, payload) ==
    IF accepts THEN [kind |-> "value", value |-> payload] ELSE [kind |-> "thrown"]

\* What a request resolves or rejects with.  `response` is Missing when the
\* request never reached a server.
Request(response, accepts) ==
    CASE response = Missing -> Failure("internal", 0, "")
      [] response # Missing /\ response.status \notin 200..299 -> ToRequestError(response)
      [] response # Missing /\ response.status = 204 -> Parsed(accepts, Missing)
      [] response # Missing /\ response.status \in 200..299 \ {204} ->
           IF response.body = "not_json"
           THEN Failure("internal", response.status, response.header)
           ELSE Parsed(accepts, response.body)

\* The token is sent with what can change something, and with nothing else.
Headers(method, hasBody, key, cookie) ==
    {"accept"} \cup {h \in {"content-type"} : hasBody}
      \cup {h \in {"idempotency-key"} : key # Missing}
      \cup {h \in {"x-csrf-token"} : method # "GET" /\ cookie # Missing}

\* The secure cookie is read before the one used without TLS.
CsrfToken(secure, insecure) == IF secure # Missing THEN secure ELSE insecure

IsRetryable(error) == error.kind = "api_error" /\ error.code \in RETRYABLE

ShouldRetryQuery(failures, error) ==
    failures < MAX_QUERY_RETRIES /\ error.kind = "api_error" /\ IsRetryable(error)

\* How often a query that keeps failing with one error is sent.
TimesAsked(session, error) ==
    IF session THEN 1
    ELSE 1 + Cardinality({n \in 0..MAX_QUERY_RETRIES + 1 : ShouldRetryQuery(n, error)})

IsUnauthenticated(error) == error.kind = "api_error" /\ error.code = "unauthenticated"

\* A query told that nobody is signed in drops the cached profile; the
\* session's own query keeps its error, which the gate is reading.
SessionAfter(session, isSessionQuery, error) ==
    IF ~isSessionQuery /\ IsUnauthenticated(error) THEN Missing ELSE session

\* The gate: nothing until the session is known, and any failure signs in.
SessionGate(query) ==
    CASE query.state = "pending" -> "resolving"
      [] query.state = "error" \/ (query.state = "ready" /\ query.data = Missing) -> "sign-in"
      [] OTHER -> "console"

\* The cache after each way of changing who is signed in.
AfterSignIn(cache, profile) == [cache EXCEPT !.session = profile]
AfterSignOut(cache) == [session |-> Missing, data |-> {}]

\* What the screen shows of a failure.
ToDisplayEnvelope(error) ==
    IF error.kind = "api_error" THEN [code |-> error.code, reference |-> error.reference]
    ELSE [code |-> "internal", reference |-> ""]

-----------------------------------------------------------------------------
(* The URL (app/router.tsx, app/routes.ts).                                *)

SearchKinds ==
    {"mcq_single", "mcq_multi", "true_false", "short_answer", "coding", "sql", "subjective", "system_design"}
SearchStatuses == {"draft", "review", "published", "retired"}

Typed(value) == IF value \in {"", "blank"} THEN Missing ELSE value

\* What is unrecognised is dropped rather than sent to the API.
ParseQuestionSearch(search) ==
    [q |-> Typed(search.q),
     kind |-> IF search.kind \in SearchKinds THEN search.kind ELSE Missing,
     status |-> IF search.status \in SearchStatuses THEN search.status ELSE Missing,
     difficulty |-> IF search.difficulty \in 1..5 THEN search.difficulty ELSE Missing,
     cursor |-> Typed(search.cursor)]

HasActiveFilters(filters) ==
    \E f \in {"q", "kind", "status", "difficulty"} : filters[f] # Missing

\* A filter replaces the history entry, a page adds one.
Replaces(filters) == filters.cursor = Missing

RouteManifest == {"/", "/questions", "/attributions", "/roles", "/assessments", "/candidates"}

SectionOf == [r \in RouteManifest |->
    CASE r = "/" -> "Overview"
      [] r \in {"/questions", "/attributions"} -> "Question bank"
      [] OTHER -> "Hiring"]

NavSections ==
    LET sections == <<"Overview", "Question bank", "Hiring">> IN
    SelectSeq([i \in DOMAIN sections |->
                  [section |-> sections[i],
                   routes |-> {r \in RouteManifest : SectionOf[r] = sections[i]}]],
              LAMBDA group : group.routes # {})

\* A navigation sets the title, is announced and moves focus; the first
\* render sets the title only, and a path the manifest lacks does nothing.
RouteAnnouncer(last, path) ==
    IF path \notin RouteManifest
    THEN [last |-> last, title |-> FALSE, announced |-> FALSE]
    ELSE [last |-> path, title |-> TRUE, announced |-> last # path /\ last # Missing]

-----------------------------------------------------------------------------
(* Roles and the dashboard.                                                *)

THIN_BAND_THRESHOLD == 5
COMFORTABLE_BAND_TARGET == 10

BandTone(skill) ==
    CASE skill.in_band = 0 -> "danger"
      [] skill.in_band \in 1..(THIN_BAND_THRESHOLD - 1) -> "warning"
      [] OTHER -> "success"

\* A bar is capped, the count beside it is not.
BandFill(skill) ==
    IF skill.in_band < COMFORTABLE_BAND_TARGET THEN skill.in_band ELSE COMFORTABLE_BAND_TARGET

VerdictFor(skills) ==
    LET required == {s \in skills : s.is_required}
        blocked == {s \in required : s.in_band = 0} IN
    [blocked |-> blocked,
     thin |-> {s \in required : s.in_band > 0 /\ s.in_band < THIN_BAND_THRESHOLD},
     ready |-> blocked = {}]

\* The badge of a role: Missing is a coverage that has not arrived.
VerdictBadge(verdict) ==
    IF verdict = Missing THEN "checking"
    ELSE IF ~verdict.ready THEN "blocked"
    ELSE IF verdict.thin # {} THEN "thin" ELSE "ready"

\* The one line on the roles screen, and the one action beside it.
RoleVerdictBand(verdict) ==
    IF verdict.blocked # {} THEN "blocked" ELSE IF verdict.thin # {} THEN "thin" ELSE "ready"

RoleAction(verdict) == IF verdict.ready THEN "compose" ELSE "add questions"

SkillRow(skill, level) ==
    [blocked |-> skill.is_required /\ skill.in_band = 0,
     inBand |-> /\ skill.min = Missing \/ level >= skill.min
                /\ skill.max = Missing \/ level <= skill.max]

\* The one thing to do next.  A role whose coverage is missing is not counted.
GuidanceFor(verdicts, reviewCount) ==
    LET known == {i \in DOMAIN verdicts : verdicts[i] # Missing} IN
    IF verdicts = <<>> THEN "no-roles"
    ELSE IF \E i \in known : ~verdicts[i].ready THEN "blocked"
    ELSE IF reviewCount > 0 THEN "review"
    ELSE IF \E i \in known : verdicts[i].thin # {} THEN "thin"
    ELSE "ready"

\* A query of the screen: pending, an error, or its data.
Loaded(query) == query.state = "ready"

\* Guidance waits for every query to settle; a failed one counts as settled
\* and empty, so a list of roles that failed to load reads as no roles.
DashboardGuidance(roles, coverage, review) ==
    LET verdicts == IF Loaded(roles)
                    THEN [i \in DOMAIN roles.data |->
                             IF Loaded(coverage[i]) THEN VerdictFor(coverage[i].data)
                             ELSE Missing]
                    ELSE <<>> IN
    IF roles.state = "pending" \/ review.state = "pending"
         \/ \E i \in DOMAIN verdicts : coverage[i].state = "pending"
    THEN "working"
    ELSE GuidanceFor(verdicts, IF Loaded(review) THEN review.data ELSE 0)

-----------------------------------------------------------------------------
(* The bank, composing and inviting.                                       *)

\* The question list: a filter that matched nothing is not an empty bank.
\* An empty page reached with a cursor and no filter reads as an empty bank.
QuestionsView(query, filters) ==
    CASE query.state = "pending" -> "loading"
      [] query.state = "error" -> "error"
      [] Loaded(query) /\ query.data > 0 -> "rows"
      [] OTHER -> IF HasActiveFilters(filters) THEN "no-matches" ELSE "empty"

MAX_QUESTIONS == 100
AsCount(raw) == IF raw # Missing /\ raw \in 1..MAX_QUESTIONS THEN raw ELSE Missing

ShortfallOf(rule) ==
    IF rule.pick_count > rule.available THEN rule.pick_count - rule.available ELSE 0

\* Saving is offered once the plan has arrived and the bank can fill it.  A
\* count outside the range is left out, and the plan's default is saved.
ComposeOffers(plan) == Loaded(plan) /\ plan.data.feasible

ComposeBody(role, name, count) ==
    [job_role_id |-> role, name |-> Typed(name), question_count |-> AsCount(count)]

\* Addresses as they are pasted, each with the key two spellings share; the
\* first spelling of each is kept, and an empty piece is none.
ParseEmails(pieces) ==
    LET kept == {i \in DOMAIN pieces :
                    /\ pieces[i].key # ""
                    /\ \A j \in 1..(i - 1) : pieces[j].key # pieces[i].key}
        order == SetToSortSeq(kept, <) IN
    [n \in DOMAIN order |-> pieces[order[n]]]

\* The invite screen: a draft shows the publish action instead of the form.
InviteView(assessment, pieces) ==
    CASE assessment.state = "pending" -> "loading"
      [] Loaded(assessment) /\ assessment.data = "published" ->
           IF ParseEmails(pieces) = <<>> THEN "no addresses" ELSE "create"
      [] OTHER -> "publish"

\* An answer shows the links and clears the paste; a failure keeps the paste
\* and says that no invitation was issued, whatever the server had done.
AfterInvite(pieces, answer) ==
    IF answer.kind = "value"
    THEN [pasted |-> <<>>, links |-> answer.value, alert |-> FALSE]
    ELSE [pasted |-> pieces, links |-> Missing, alert |-> TRUE]

-----------------------------------------------------------------------------

\* The dashboard and the roles screen tell one story: what comes first on the
\* dashboard is what some role's badge says, a role is offered for composing
\* unless it is blocked, and "everything is ready" is never said over a badge
\* that says otherwise or over questions waiting for review.
GuidanceAgrees(verdicts, reviewCount) ==
    LET rule == GuidanceFor(verdicts, reviewCount)
        badges == {VerdictBadge(verdicts[i]) : i \in DOMAIN verdicts} IN
    /\ "blocked" \in badges => rule = "blocked"
    /\ rule \in {"blocked", "thin"} => rule \in badges
    /\ rule = "ready" => reviewCount = 0 /\ badges \subseteq {"ready", "checking"}
    /\ \A i \in DOMAIN verdicts : verdicts[i] # Missing =>
          (RoleAction(verdicts[i]) = "compose") = (VerdictBadge(verdicts[i]) # "blocked")

\* A failed request is asked again only when asking can help, twice at most,
\* and being told that nobody is signed in closes the console at once.
FailuresSettle(response, accepts) ==
    LET outcome == Request(response, accepts) IN
    outcome.kind # "value" =>
        /\ TimesAsked(FALSE, outcome) \in {1, MAX_QUERY_RETRIES + 1}
        /\ IsUnauthenticated(outcome) =>
             /\ TimesAsked(FALSE, outcome) = 1
             /\ SessionAfter("profile", FALSE, outcome) = Missing
             /\ SessionAfter("profile", TRUE, outcome) = "profile"
        /\ outcome.kind = "thrown" => ToDisplayEnvelope(outcome).code = "internal"
=============================================================================
