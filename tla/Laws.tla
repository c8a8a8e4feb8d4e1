-------------------------------- MODULE Laws --------------------------------
(***************************************************************************)
(* The components that are functions, evaluated on bounded inputs.  An     *)
(* input is a record that names the law it is for; LawInit chooses one.    *)
(***************************************************************************)
EXTENDS QueuePolicy, CollabWire, AuditTrail, HttpPolicy, Papers, AttemptRules, Scoring,
        Interchange, Datasets, StaffConsole, Configuration, Taxonomy, JobRoles

VARIABLE input

Lists(S, least, most) == UNION {[1 .. n -> S] : n \in least .. most}

-----------------------------------------------------------------------------
(* Encodings.                                                              *)

\* Every byte at which a group of a length or of a number changes, and a
\* payload whose length takes two bytes.
Payloads == Lists({0, 127, 128, 255}, 0, 3) \cup {[i \in 1 .. 130 |-> 128]}

\* Keys over the tokens that the escapes are made of.
KeyTexts == {k \in Lists({"%", ":", "2", "5", "3", "A"}, 1, 3) : BusinessKey(k)}

\* Stored versions: texts that XML carries and texts that it does not, in the
\* options of a choice, in the keys of a short answer and in the cases of a
\* program.
Nasty == <<"x", "cr", "tab">>
StoredVersion(fields) ==
    fields @@ [id |-> 1, version_no |-> 3, published_at |-> Missing, locale |-> <<"f", "r">>, prompt_md |-> Nasty,
               explanation_md |-> <<>>, difficulty |-> 2, est_seconds |-> 60, max_score |-> 2, negative_score |-> 1,
               options |-> <<>>, coding_spec |-> Missing, test_cases |-> <<>>, answer_keys |-> <<>>]
StoredOption(correct, delta, rationale) ==
    [id |-> 1, ordinal |-> 1, body_md |-> Nasty, is_correct |-> correct, score_delta |-> delta, rationale_md |-> rationale]
StoredKeys ==
    [id : {1}, match_type : {"exact"}, pattern : {<<"x">>, <<"x", "tab">>, <<"cr">>}, tolerance : {Missing}, score : {1}] \cup
    [id : {1}, match_type : {"ci", "numeric_tolerance"}, pattern : {<<"x">>}, tolerance : {Missing, 0}, score : {2}]
StoredCase(sample, label, args, assertion) ==
    [id |-> 1, ordinal |-> 1, label |-> label, stdin |-> Nasty, expected_stdout |-> Missing, args |-> args,
     assertion_code |-> assertion, is_sample |-> sample, weight |-> 1]
StoredSpec(starter, mode, fixture) ==
    [allowed_languages |-> <<<<"p">>>>, starter_code |-> starter, solution_code |-> <<"p">> :> Nasty,
     time_limit_ms |-> 1000, memory_limit_kb |-> 4096, grading_mode |-> mode, checker_code |-> Missing,
     fixture_sql |-> fixture]

StoredVersions ==
    [choice |-> {StoredVersion([options |-> <<StoredOption(c, d, r), StoredOption(~c, Missing, Missing)>>]) :
                    c \in BOOLEAN, d \in {Missing, -1}, r \in {Missing, <<>>, Nasty}},
     keys |-> {StoredVersion([answer_keys |-> k]) : k \in Lists(StoredKeys, 1, 3)},
     code |-> {StoredVersion([coding_spec |-> StoredSpec(s, m, f),
                       test_cases |-> <<StoredCase(TRUE, l, a, <<"x">>), StoredCase(FALSE, Missing, Missing, <<"x">>)>>]) :
                    s \in {<<>>, <<"p">> :> <<"x", "lf">>}, m \in {"test_cases", "unit_tests"},
                    f \in {Missing, <<"x">>}, l \in {Missing, <<>>}, a \in {Missing, <<>>, <<Nasty>>}},
     none |-> {StoredVersion([explanation_md |-> e]) : e \in {Missing, Nasty}}]
StoredFor(kind) ==
    StoredVersions[IF kind \in Choice THEN "choice" ELSE IF kind \in Code THEN "code"
                   ELSE IF kind = "short_answer" THEN "keys" ELSE "none"]

\* A question whose served version is v, after its drafts and before them.
ItemWith(ref, kind, v, before, after) ==
    [ref |-> ref, kind |-> kind, status |-> IF v.published THEN "retired" ELSE "review",
     source_license |-> <<"l", "cr">>, external_ref |-> <<"mbpp", "/", "7">>, skills |-> <<[key |-> "s", weight |-> 1]>>,
     versions |-> [i \in 1 .. before |-> [v EXCEPT !.version_no = i, !.published = FALSE]] \o <<v>> \o
                  [i \in 1 .. after |-> [v EXCEPT !.version_no = 3 + i, !.published = FALSE, !.prompt_md = <<"y">>]]]
ExportedItem(kind, record, published, before) ==
    ItemWith("q", kind, ToBankVersion([record EXCEPT !.published_at = IF published THEN 1 ELSE Missing]),
             before, IF published THEN 1 ELSE 0)

\* An item that is accepted, and ones that are not.
PlainItem(ref) == ItemWith(ref, "subjective", ToBankVersion(StoredVersion(<<>>)), 1, 0)
RawItems ==
    {PlainItem("q"), [PlainItem("q") EXCEPT !.source_license = <<"proprietary">>],
     [PlainItem("r") EXCEPT !.external_ref = Missing], [PlainItem("r") EXCEPT !.status = "published"],
     [PlainItem("q") EXCEPT !.versions[2].version_no = 1], [PlainItem("r") EXCEPT !.versions[1].prompt_md = <<"nul">>],
     [PlainItem("q") EXCEPT !.kind = "mcq_single", !.versions[2].answer_keys = <<[pattern |-> <<"x">>]>>],
     [PlainItem("r") EXCEPT !.skills = @ \o @]}

Mebibytes(n) == n * 1048576
ArchiveSizes == {<<>>, <<Mebibytes(16)>>, <<Mebibytes(16) + 1>>, [i \in 1 .. 16 |-> Mebibytes(16)],
                 [i \in 1 .. 17 |-> Mebibytes(16)], [i \in 1 .. 17 |-> IF i = 17 THEN 1 ELSE Mebibytes(16)]}

\* Statements in which something looks like the start of another, or like an
\* end: in a bracket, in a string of either quote, in a comment.
At(indent, chars) == SourceLine(indent, chars)
Statements(n) ==
    {<<At(n, <<"assert", "x">>)>>, <<At(n, <<"assert">>), At(n + 1, <<"x">>), At(0, <<>>)>>,
     <<At(n, <<"assert", "(", "dq", ")", "dq">>), At(n, <<"assert", "x">>), At(n, <<")">>)>>,
     <<At(n, <<"assert", "dq", "dq", "dq", "(">>), At(0, <<"assert", "dq", "sq">>), At(0, <<"bs", "dq", "dq", "dq", "dq">>)>>,
     <<At(n, <<"assert", "dq", "bs", "dq", "(", "dq", "#", "(">>)>>, <<At(n, <<"assert", "sq", "dq", "sq", "dq", "dq">>)>>,
     <<At(n, <<"assert", "x", "bs">>), At(n + 1, <<"x">>)>>}
Preambles ==
    {<<>>, <<At(0, <<"x">>), At(0, <<>>)>>, <<At(0, <<"#", "dq">>), At(0, <<"sq", "sq", "sq">>), At(0, <<"assert">>), At(0, <<"sq", "sq", "sq">>)>>}
TestMethods ==
    {<<At(1, <<"test", "(", ")">>), At(2, s[1].chars)>> \o Tail(s) : s \in {t \in Statements(2) : NoContinuation(t)}} \cup
    {<<At(1, <<"test", "(", ")">>), At(2, <<"dq", "dq", "dq">>), At(1, <<"test">>), At(0, <<"class">>), At(2, <<"dq", "dq", "dq">>)>>,
     <<At(1, <<"test", "(">>), At(1, <<")">>), At(0, <<>>), At(2, <<"x">>)>>}

Source(chars) == [text |-> <<At(0, chars)>>]
DatasetRows ==
    {Missing} \cup
    {[task_id |-> Source(<<"1">>), solution |-> Source(s), tests |-> t, entry_point |-> Source(<<"f">>), test_setup_code |-> Source(<<"x">>)] @@
     [c \in {"prompt", "text", "instruction"} |-> Source(q)] :
        s \in {<<>>, <<"x">>}, q \in {<<>>, <<"x">>},
        t \in {[text |-> <<At(0, <<"x">>), At(4, <<"assert">>), At(4, <<"assert", "(">>), At(0, <<")">>)>>], [text |-> <<At(0, <<"x">>)>>],
               [list |-> <<<<At(0, <<"assert">>)>>>>], [list |-> <<<<>>, <<At(0, <<"assert">>)>>, <<At(0, <<"assert", "x">>)>>>>], [list |-> <<>>]}}

TrackFile(slug, name) ==
    [slug |-> slug, name |-> name,
     content |-> <<At(0, <<"x">>), At(0, <<"class">>), At(1, <<"test">>), At(2, <<"x">>), At(1, <<"test">>)>>]
Tracks ==
    {<<TrackFile(2, "instructions"), TrackFile(a, "example"), TrackFile(b, "tests"), TrackFile(a, "instructions"),
       TrackFile(2, c), TrackFile(2, "tests"), TrackFile(1, d)>> : a \in 0 .. 3, b \in 0 .. 2, c \in {"exemplar", "stub"}, d \in {"stub", "other"}}

EncodingInputs ==
    \/ \E p \in Payloads :
          input = [law |-> "frames", payload |-> p]
    \/ \E k \in KeyTexts :
          input = [law |-> "job ids", key |-> k]
    \/ \E items \in Lists({"a", "b"}, 0, 3) :
          input = [law |-> "children", items |-> items]
    \/ \E items \in Lists(RawItems, 1, 3) :
          input = [law |-> "documents", items |-> items]
    \/ \E kind \in Kinds, p \in BOOLEAN, before \in {0, 2} : \E v \in StoredFor(kind) :
          input = [law |-> "packages", stored |-> v, item |-> ExportedItem(kind, v, p, before)]
    \/ \E kind \in Kinds, d \in {Missing, 4}, f \in {"", "../up", "gone", "malformed", "repeated", "foreign"} :
          input = [law |-> "broken packages", fault |-> f, default |-> d,
                   item |-> ExportedItem(kind, CHOOSE v \in StoredFor(kind) : TRUE, FALSE, 0)]
    \/ \E d \in ArchiveSizes, n \in ArchiveSizes :
          input = [law |-> "archives", declared |-> d, inflated |-> n]
    \/ \E p \in Preambles, s \in Lists(Statements(0), 0, 2) \cup Lists(Statements(4), 1, 2) :
          input = [law |-> "statements", preamble |-> p, statements |-> s]
    \/ \E p \in Preambles, s \in Lists(TestMethods, 1, 2) :
          input = [law |-> "methods", preamble |-> p, methods |-> s]
    \/ \E d \in DOMAIN DATASET_SPECS, r \in Lists(DatasetRows, 1, 2), n \in {Missing, 5} :
          input = [law |-> "rows", dataset |-> d, rows |-> r, default |-> n]
    \/ \E t \in Tracks, n \in {Missing} :
          input = [law |-> "tracks", entries |-> t, default |-> n]

\* What one side writes is what the other reads: a collaboration frame and
\* any prefix of it, a business key in a job id, which BullMQ refuses if it
\* holds a colon, the children of a version in the author's order, and a
\* question in a bank document or a package, with what is wrong beside it; and
\* what a dataset was written as is what is read, every row a draft for somebody
\* to review or a problem.
EncodingsRoundTrip ==
    CASE input.law = "frames" -> FramesRoundTrip(input.payload)
      [] input.law = "job ids" ->
            /\ \A i \in 1 .. Len(ToJobId(input.key)) : ToJobId(input.key)[i] # ":"
            /\ \A other \in KeyTexts : ToJobId(other) = ToJobId(input.key) => other = input.key
      [] input.law = "children" -> ChildrenRoundTrip(input.items)
      [] input.law = "documents" -> DocumentRoundTrips(input.items) /\ EveryCreditCounted(input.items)
      [] input.law = "packages" ->
            Accepted(CheckedItem(input.item)) => PackageRoundTrips(input.item, input.stored)
      [] input.law = "broken packages" -> BrokenResourceIsAlone(input.item, input.fault, input.default)
      [] input.law = "archives" -> OnlySmallArchives(input.declared, input.inflated)
      [] input.law = "statements" -> StatementsComeApart(input.preamble, input.statements)
      [] input.law = "methods" -> MethodsComeApart(input.preamble, input.methods)
      [] input.law = "rows" -> RowsStandAlone(input.dataset, input.rows, input.default)
      [] input.law = "tracks" -> TrackOrderIsFixed(input.entries, input.default)
      [] OTHER -> TRUE

-----------------------------------------------------------------------------
(* Grading and papers.                                                     *)

Word(says, upper, number) == [says |-> says, upper |-> upper, number |-> number]
Words == {Word("x", FALSE, Missing), Word("x", TRUE, Missing), Word("one", FALSE, 100), Word("near", FALSE, 101)}
TextLine(words, padded) == [words |-> words, padded |-> padded]
TextLines == {TextLine(w, p) : w \in Lists(Words, 0, 1), p \in BOOLEAN}
TextValues == [lines : Lists(TextLines, 0, 2), ending : {"lf"}] \cup [lines : Lists(TextLines, 1, 1), ending : {"crlf"}]
SomeTexts == {t \in TextValues : Len(t.lines) < 2} \cup
             {t \in TextValues : Len(t.lines) = 2 /\ t.lines[2] = TextLine(<<>>, FALSE)}

Tolerance(absolute, relative) == [absolute |-> absolute, relative |-> relative]
AnswerKeys ==
    {[mode |-> m, expected |-> [lines |-> <<TextLine(<<w>>, FALSE)>>, ending |-> "lf"],
      options |-> Tolerance(1, 0), score |-> s] :
        m \in {"exact", "case_insensitive", "numeric_tolerance"}, w \in Words, s \in {Missing, -1, 0, 1, 5}}

Marked(v, a, status, score, max, seconds) ==
    [version |-> v, attempt |-> a, status |-> status, score |-> score, max |-> max, seconds |-> seconds]
AnswerSheets ==
    {{Marked("v", 1, st, s1, 2, 3), Marked("w", 1, st, s2, 1, 1), Marked("v", 2, "finalised", s3, 2, 5),
      Marked("w", 2, "finalised", s4, 1, 9)} :
        st \in {"finalised", "voided"}, s1 \in {0, 1, 2}, s2 \in {0, 1, Missing}, s3 \in {0, 2}, s4 \in {0, 1}}

Skill(name, required, weight) ==
    [skill |-> name, required |-> required, weight |-> weight, min |-> Missing, max |-> 4]
RoleSkills ==
    {<<Skill("s1", TRUE, a), Skill("s2", r, b), Skill("s3", TRUE, c)>> :
        r \in BOOLEAN, a \in 0 .. 3, b \in 1 .. 2, c \in {1, 3}} \cup {<<>>}
Entry(id, skills, difficulty, seen) ==
    [id |-> id, skills |-> skills, difficulty |-> difficulty, kind |-> "coding", lastSeen |-> seen]
\* Entry 2 appears twice in the short pool, entry 4 is out of band.
Pools == {<<Entry(3, {"s1", "s3"}, 2, Missing), Entry(2, {"s2"}, 4, 1), Entry(1, {"s1"}, 1, 9),
            Entry(2, {"s2"}, 4, 9), Entry(4, {"s1", "s2", "s3"}, 5, Missing), Entry(5, {"s2", "s3"}, 3, Missing)>>,
          [i \in 1 .. 6 |-> Entry(7 - i, {"s1", "s2", "s3"}, 2, Missing)]}
PaperBodies == {[questionCount |-> n, kinds |-> {}, excludeSeenDays |-> 0, seconds |-> s] :
                   n \in {Missing} \cup 2 .. 6, s \in {Missing}}

GradingInputs ==
    \/ \E a \in SomeTexts, b \in SomeTexts, o \in {Tolerance(0, 0), Tolerance(1, 0), Tolerance(-1, 0)} :
          input = [law |-> "modes", a |-> a, b |-> b, options |-> o]
    \/ \E a \in {t \in SomeTexts : Len(t.lines) = 1}, k \in AnswerKeys, l \in {x \in AnswerKeys : x.score \in {5, -1} /\ x.mode = "exact"}, n \in {-1, 0, 3} :
          input = [law |-> "short answer", answer |-> a, keys |-> <<k, l>>, max |-> n]
    \/ \E s \in Lists(1 .. 3, 0, 3), c \in Lists(1 .. 3, 0, 2),
            o \in [max : {-1, 0, 2}, negative : -1 .. 1, partial : BOOLEAN, allowNegative : BOOLEAN] :
          input = [law |-> "mcq", selected |-> s, correct |-> c, options |-> o]
    \/ \E a \in AnswerSheets :
          input = [law |-> "statistics", answers |-> a]
    \/ \E r \in Lists([passed : BOOLEAN], 0, 3), s \in Lists({-2, 0, 1}, 0, 3) : \E w \in [DOMAIN s -> {-1, 0, 1, 3}] :
          input = [law |-> "means", results |-> r, scores |-> s, weights |-> w]
    \/ \E q \in Lists([skills : {{"s1"}, {"s1", "s2"}, {}}, score : {-1, 0, 1}, max : {-1, 0, 1, 3}], 0, 2),
            w \in UNION {[d -> {-1, 0, 1, 2}] : d \in SUBSET {"s1", "s2"}} :
          input = [law |-> "skill scores", questions |-> q, weights |-> w]
    \/ input = [law |-> "attempts"]
    \/ \E s \in RoleSkills, p \in Pools, b \in PaperBodies,
            d \in {[i \in 1 .. 6 |-> (k * i) % 5] : k \in {0, 3}} :
          input = [law |-> "papers", skills |-> s, pool |-> p, body |-> b, draws |-> d]

\* Marks are fair and papers are what was asked for: a looser way of comparing
\* accepts what a stricter one does, an answer never earns more than there is
\* to earn, statistics are statistics, a paper has the number of questions that
\* were asked and a question for every required skill, and one that was saved
\* can be drawn whatever the generator says.
GradingIsFair ==
    CASE input.law = "modes" -> ModesNest(input.a, input.b, input.options)
      [] input.law = "short answer" -> ShortAnswerFair(input.answer, input.keys, input.max)
      [] input.law = "mcq" -> McqFair(input.selected, input.correct, input.options)
      [] input.law = "statistics" -> ItemStatisticsSane(input.answers, [w |-> Missing, x |-> Missing])
      [] input.law = "means" -> MeansAreFair(input.results, input.scores, input.weights)
      [] input.law = "skill scores" -> SkillScoresSane(input.questions, input.weights)
      [] input.law = "attempts" -> AttemptLaws
      [] input.law = "papers" ->
            /\ PaperAddsUp(input.skills,
                           {[id |-> i, skills |-> {"s1", "s2", "s3"}, difficulty |-> 2, kind |-> "sql",
                             status |-> "published", archived |-> FALSE] : i \in 1 .. 6}, input.body)
            /\ SavedPapersDraw(input.skills, input.pool, input.body, input.draws)
      [] OTHER -> TRUE

-----------------------------------------------------------------------------
(* What is let through, recorded and shown.                                *)

StaffMember(held) == [kind |-> "staff", user |-> "u", permissions |-> held]
Candidate == [kind |-> "candidate", attempt |-> "a"]

Sheet(levels, bytes) == [levels |-> levels, bytes |-> bytes, plain |-> TRUE]
Nested(depth) == Sheet([d \in 1 .. depth |-> IF d = 2 THEN {} ELSE {"status"}], 10)
AuditSpec(prefix, name, id, reason, before, after) ==
    [action |-> [prefix |-> prefix, name |-> name, wellFormed |-> TRUE], entityTypeWellFormed |-> TRUE,
     entityId |-> id, reason |-> reason, before |-> before, after |-> after]

\* A void and an edit; then, with and without what the writer adds, payloads
\* and reasons at each limit and just over it, and one JSON cannot hold.
AuditSpecs ==
    {AuditSpec(p, n, e, r, Missing, a) :
        p \in {"", "candidate."}, n \in {"attempt.void", "question.edit"}, e \in {Missing, "uuid", "text"},
        r \in {Missing, 0, 1},
        a \in {Missing, Sheet(<<>>, 0), Sheet(<<{"reason"}>>, 10), Sheet(<<{"status"}, {"token"}>>, 10)}} \cup
    {AuditSpec(p, "attempt.void", "uuid", r, b, a) :
        p \in {"", "candidate."}, r \in {MAX_REASON_LENGTH, MAX_REASON_LENGTH + 1},
        b \in {Missing, Nested(MAX_PAYLOAD_DEPTH + 1)},
        a \in {Missing, Nested(MAX_PAYLOAD_DEPTH), Nested(MAX_PAYLOAD_DEPTH + 1), [Nested(1) EXCEPT !.plain = FALSE]} \cup
              {Sheet(<<{"status"}>>, MAX_PAYLOAD_BYTES - added + over) :
                  added \in {0, 12 + MAX_REASON_LENGTH, 12 + MAX_REASON_LENGTH + 58}, over \in 0 .. 1}}
AuditAmendments ==
    {<<>>, [after |-> Sheet(<<{"status"}>>, 10), entityId |-> "uuid"], [after |-> Sheet(<<{"actor_attempt_id"}>>, 10)],
     [reason |-> 0], [before |-> Sheet(<<{"status"}>>, MAX_PAYLOAD_BYTES)]}

Address(parses, zoned) == [parses |-> parses, zoned |-> zoned]
AuditCalls ==
    [forwarded : {Address(TRUE, FALSE), Address(TRUE, TRUE), Address(FALSE, FALSE)},
     socket : {Missing, Address(TRUE, TRUE)}, at : {"instant"}] \cup
    [forwarded : {Address(TRUE, FALSE)}, socket : {Missing}, at : {"invalid"}]

Token(nonce, boundTo) == [nonce |-> nonce, boundTo |-> boundTo]
Calls ==
    {[method |-> m, path |-> t.url, url |-> t.url, matched |-> x, permission |-> t.permission, origin |-> o,
      fetchSite |-> f, cookies |-> c, csrfHeader |-> h, scope |-> Missing] :
        m \in {"GET", "POST"},
        t \in {[url |-> "/auth/login", permission |-> Missing], [url |-> "/auth/me", permission |-> Missing],
               [url |-> "/questions", permission |-> "question.write"], [url |-> "/forgotten", permission |-> Missing]},
        x \in BOOLEAN, o \in {Missing, "theirs"}, f \in {Missing, "same-origin", "cross-site"},
        c \in {Missing, [session |-> "s", csrf |-> Token("n", "s")], [session |-> "s", csrf |-> Missing]},
        h \in {Token("n", "s"), Token("n", "other")}}

Responses ==
    {Missing} \cup
    [status : {200, 204, 401, 429, 500}, body : {"envelope", "not_json", "other"},
     code : {"unauthenticated", "rate_limited", "conflict"}, request_id : {"", "r"}, header : {"h"}]

Rows == [key : {"k1"}, is_required : BOOLEAN, in_band : {0, 1, 5}] \cup
        [key : {"k2"}, is_required : {TRUE}, in_band : {0, 4}]
Verdicts == {Missing} \cup {VerdictFor(rows) : rows \in {r \in SUBSET Rows : Cardinality(r) < 3}}

Requirements == {[skill |-> k, required |-> q, min |-> n, max |-> 4] : k \in {1, 2}, q \in BOOLEAN, n \in {0, 3}}
BankRows == {[skills |-> k, status |-> s, archived |-> FALSE, difficulty |-> d] :
                k \in {{1}, {1, 2}}, s \in {"published", "draft"}, d \in {1, 4, 5}}

\* A deployment that boots, and what may be wrong with it.
Secret == [bytes |-> 40, placeholder |-> FALSE]
Dsn == [protocol |-> "postgres:", password |-> "private"]
Url(protocol) == [protocol |-> protocol]
Deployment ==
    [v \in Dsns |-> Dsn] @@ [v \in SecretValues \cup {"S3_ACCESS_KEY_ID"} |-> Secret] @@
    [APP_ENV |-> "production", NODE_ENV |-> "production", COLLAB_PUBLIC_URL |-> Url("wss:")] @@
    [v \in {"API_PUBLIC_URL", "WEB_PUBLIC_URL", "CANDIDATE_PUBLIC_URL"} |-> Url("https:")]
Wrong ==
    {"APP_ENV" :> "local", "NODE_ENV" :> "test", "LOG_LEVEL" :> "debug"} \cup
    {v :> x : v \in SecretValues,
              x \in {Whitespace, [bytes |-> 7, placeholder |-> FALSE], [bytes |-> 31, placeholder |-> FALSE],
                     [bytes |-> 32, placeholder |-> TRUE]}} \cup
    {"DATABASE_URL" :> x : x \in {Whitespace, Garbled, [Dsn EXCEPT !.password = "hiring"], Url("mysql:")}} \cup
    {"EXEC_WALL_TIME_MS" :> x : x \in {99, 4999, 5000}} \cup {"EXEC_MEMORY_MB" :> 512, "API_PORT" :> 65536} \cup
    {"WEB_PUBLIC_URL" :> x : x \in {Whitespace, Url("http:")}} \cup
    {"OIDC_ISSUER" :> Url(p) : p \in {"http:", "https:"}} \cup {"OIDC_CLIENT_ID" :> "id"} \cup
    {"OIDC_CLIENT_SECRET" :> x : x \in {Whitespace, Secret, [bytes |-> 9, placeholder |-> FALSE]}} \cup
    {"LIVEKIT_URL" :> Url("ws:")}
Environments == {c @@ b @@ a @@ Deployment :
                    a \in Wrong, b \in Wrong,
                    c \in {<<>>, [OIDC_ISSUER |-> Url("https:"), OIDC_CLIENT_ID |-> "id"]}}

Option(n, correct) ==
    [id |-> n, ordinal |-> n, body_md |-> 5, is_correct |-> correct, score_delta |-> Missing, rationale_md |-> Missing]
Case(n, sample, expected) ==
    [id |-> n, ordinal |-> n, label |-> Missing, stdin |-> 0, expected_stdout |-> expected, args |-> Missing,
     assertion_code |-> Missing, is_sample |-> sample, weight |-> 100]
CodingSpec(solution, languages) ==
    [allowed_languages |-> languages, starter_code |-> 3, solution_code |-> solution, time_limit_ms |-> 1000,
     memory_limit_kb |-> 4096, grading_mode |-> "test_cases", checker_code |-> Missing, fixture_sql |-> Missing]
VersionRecords ==
    {[id |-> 1, prompt_md |-> 9, est_seconds |-> 60, max_score |-> 100, negative_score |-> 0,
      options |-> <<Option(1, c), Option(2, ~c)>>, coding_spec |-> s,
      test_cases |-> <<Case(1, TRUE, e), Case(2, FALSE, e)>>, answer_keys |-> k] :
        c \in BOOLEAN, e \in {1, 2}, k \in {<<>>, <<"key">>},
        s \in {Missing, CodingSpec(7, <<1>>), CodingSpec(8, <<1>>), CodingSpec(7, <<2>>)}}

AccessInputs ==
    \/ \E p \in {Missing, StaffMember({}), Candidate}, s \in AuditSpecs, c \in AuditCalls,
            w \in BOOLEAN, e \in AuditAmendments :
          input = [law |-> "audit", principal |-> p, spec |-> s, call |-> c, worked |-> w, patch |-> e]
    \/ \E r \in Calls, n \in {600, 601}, b \in {Missing, Candidate},
            s \in {Missing, StaffMember({}), StaffMember({"question.write"})} :
          input = [law |-> "callers", request |-> r, closing |-> FALSE, used |-> n, bearer |-> b, session |-> s]
    \/ \E k \in {"mcq_single", "coding", "short_answer"}, v \in VersionRecords, w \in VersionRecords :
          input = [law |-> "views", kind |-> k, v |-> v, w |-> w]
    \/ \E v \in Lists(Verdicts, 0, 2), n \in 0 .. 1 :
          input = [law |-> "guidance", verdicts |-> v, review |-> n]
    \/ \E r \in {x \in SUBSET Requirements : Cardinality(x) < 3}, b \in {x \in SUBSET BankRows : Cardinality(x) < 3} :
          input = [law |-> "gaps", requirements |-> r, bank |-> b]
    \/ \E r \in Responses, a \in BOOLEAN :
          input = [law |-> "failures", response |-> r, accepts |-> a]
    \/ \E e \in Environments :
          input = [law |-> "boot", given |-> e]

\* The order in which a role's requirements are read is total, and the gaps
\* the API reports are the skills the console calls blocked.
GapsAgree(requirements, bank) ==
    LET coverage == Coverage(requirements, bank)
        rows == {[key |-> r.skill, is_required |-> r.required, in_band |-> coverage[r].inBand] : r \in requirements}
        weighted == {[key |-> r.skill, is_required |-> r.required, weight |-> r.min] : r \in requirements} IN
    /\ Gaps(requirements, bank) = {row.key : row \in VerdictFor(rows).blocked}
    /\ \A a, b \in weighted : a # b => RequirementBefore(a, b) # RequirementBefore(b, a)

\* Nothing is let through, left out of the record or shown that should not be:
\* a request is handled only for a caller its route declares, work commits
\* exactly with an audit row the table accepts, a candidate's view does not
\* depend on the answers, the console's advice agrees with the API's report and
\* its retries end, and an environment that boots is one a deployment can use.
AccessIsSound ==
    CASE input.law = "audit" ->
            RecordOrNothing(input.principal, input.spec, input.call, input.worked, input.patch)
      [] input.law = "callers" ->
            \A up \in BOOLEAN :
               OnlyDeclaredCallers(input.request, input.closing, input.used, up, input.bearer, input.session)
      [] input.law = "views" -> CandidateLearnsNothing(input.kind, input.v, input.w)
      [] input.law = "guidance" -> GuidanceAgrees(input.verdicts, input.review)
      [] input.law = "gaps" -> GapsAgree(input.requirements, input.bank)
      [] input.law = "failures" -> FailuresSettle(input.response, input.accepts)
      [] input.law = "boot" -> BootIsSound(input.given)
      [] OTHER -> TRUE

(* What each function is handed: the types of the requests, principals,    *)
(* specs, records and rows that the code's validation has already passed.  *)
(* A value of the environment is never absent: an absent one is not there. *)
WellFormedInput ==
    /\ input.law = "audit" =>
          /\ input.worked \in BOOLEAN
          /\ input.principal # Missing =>
                \/ input.principal.kind = "staff" /\ input.principal.user # Missing
                \/ input.principal.kind = "candidate"
          /\ {"action", "entityTypeWellFormed", "entityId", "reason", "before", "after"} \subseteq DOMAIN input.spec
          /\ "forwarded" \in DOMAIN input.call
          /\ Over(input.patch, input.spec).reason \in Nat \cup {Missing}
    /\ input.law = "callers" =>
          /\ input.closing \in BOOLEAN
          /\ input.bearer # Missing => input.bearer.kind = "candidate"
          /\ input.session # Missing => input.session.kind = "staff"
    /\ input.law = "views" =>
          \A x \in {input.v, input.w} :
             \A i \in DOMAIN x.test_cases : x.test_cases[i].is_sample \in BOOLEAN
    /\ input.law = "guidance" =>
          /\ input.review \in Nat
          /\ \A i \in DOMAIN input.verdicts :
                input.verdicts[i] # Missing => input.verdicts[i].ready \in BOOLEAN
    /\ input.law = "gaps" =>
          \A r \in input.requirements : r.skill \in Int /\ r.required \in BOOLEAN /\ r.min \in Int
    /\ input.law = "boot" =>
          \A v \in DOMAIN input.given : input.given[v] # Missing

NoInput == [law |-> "none"]
LawInit == EncodingInputs \/ GradingInputs \/ AccessInputs
=============================================================================
