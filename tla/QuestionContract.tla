-------------------------- MODULE QuestionContract --------------------------
(***************************************************************************)
(* The question bank's wire contract: the bodies and query strings its     *)
(* routes accept, the records a read builds out of the tables, and the two *)
(* views of a version, the author's and the candidate's.                   *)
(*                                                                         *)
(* A text is its length, a number with two decimals is counted in          *)
(* hundredths, an instant is a number or, when the database's rendering of *)
(* it does not parse, Missing.                                             *)
(***************************************************************************)
EXTENDS KindContent, Absent, Integers, Sequences, FiniteSets, TLC

MAX_PROMPT_LENGTH == 64000
MAX_EXPLANATION_LENGTH == 64000
MAX_SEARCH_LENGTH == 200
MAX_OPTIONS == 26
MAX_TEST_CASES == 200
MAX_ANSWER_KEYS == 50
MAX_ASSERTION_LENGTH == 8000
PROMPT_EXCERPT_LENGTH == 200
MAX_SCORE_VALUE == 999999
Difficulties == 1 .. 5
QUESTION_STATUSES == {"draft", "review", "published", "retired"}

Nullable(S) == S \cup {Missing}

(* A number is [hundredths, exact]; hasAtMostTwoDecimals is exact. *)
ScoreValue(least) == [hundredths : least .. MAX_SCORE_VALUE, exact : {TRUE}]

(* z.object drops what it does not name, z.strictObject refuses it. *)
Object(schema, required, body) ==
    /\ required \subseteq DOMAIN body
    /\ \A f \in DOMAIN body \cap DOMAIN schema : body[f] \in schema[f]

StrictObject(schema, required, body) ==
    DOMAIN body \subseteq DOMAIN schema /\ Object(schema, required, body)

ArrayOf(Item(_), most, items) == Len(items) <= most /\ \A i \in DOMAIN items : Item(items[i])

CreateQuestionAccepted(body) ==
    StrictObject([kind |-> Kinds, source_license |-> 1 .. 100, external_ref |-> 1 .. 200], {"kind"}, body)

PatchQuestionAccepted(body) ==
    /\ StrictObject([status |-> {"draft", "review", "retired"}, archived |-> BOOLEAN], {}, body)
    /\ DOMAIN body # {}

McqOptionAccepted(o) ==
    StrictObject([body_md |-> 1 .. MAX_PROMPT_LENGTH, is_correct |-> BOOLEAN,
                  score_delta |-> Nullable(ScoreValue(-MAX_SCORE_VALUE)),
                  rationale_md |-> Nullable(0 .. MAX_EXPLANATION_LENGTH)], {"body_md"}, o)

CodingSpecAccepted(s) ==
    /\ StrictObject([allowed_languages |-> Seq(1 .. 50), starter_code |-> Nat, solution_code |-> Nat,
                     time_limit_ms |-> 100 .. 60000, memory_limit_kb |-> 1024 .. 2097152,
                     grading_mode |-> {"test_cases", "unit_tests", "custom_checker"},
                     checker_code |-> Nullable(Nat), fixture_sql |-> Nullable(Nat)],
                    {"allowed_languages"}, s)
    /\ Len(s.allowed_languages) \in 1 .. 20

TestCaseAccepted(c) ==
    StrictObject([label |-> Nullable(0 .. 200), stdin |-> Nat, expected_stdout |-> Nullable(Nat),
                  args |-> Nullable(Seq(Nat)), assertion_code |-> Nullable(0 .. MAX_ASSERTION_LENGTH),
                  is_sample |-> BOOLEAN, weight |-> ScoreValue(1)], {}, c)

AnswerKeyAccepted(k) ==
    StrictObject([match_type |-> {"exact", "ci", "regex", "numeric_tolerance"}, pattern |-> 1 .. 2000,
                  tolerance |-> Nullable(Nat), score |-> ScoreValue(-MAX_SCORE_VALUE)],
                 {"match_type", "pattern"}, k)

Collections == {"options", "coding_spec", "test_cases", "answer_keys"}

QuestionVersionAccepted(body) ==
    LET scalars == [f \in DOMAIN body \ Collections |-> body[f]] IN
    /\ StrictObject([locale |-> 2 .. 35, prompt_md |-> 1 .. MAX_PROMPT_LENGTH,
                     explanation_md |-> Nullable(0 .. MAX_EXPLANATION_LENGTH),
                     difficulty |-> Difficulties, est_seconds |-> 1 .. 86400,
                     max_score |-> ScoreValue(0), negative_score |-> ScoreValue(0)], {}, scalars)
    /\ "options" \in DOMAIN body => ArrayOf(McqOptionAccepted, MAX_OPTIONS, body.options)
    /\ "coding_spec" \in DOMAIN body => body.coding_spec = Missing \/ CodingSpecAccepted(body.coding_spec)
    /\ "test_cases" \in DOMAIN body => ArrayOf(TestCaseAccepted, MAX_TEST_CASES, body.test_cases)
    /\ "answer_keys" \in DOMAIN body => ArrayOf(AnswerKeyAccepted, MAX_ANSWER_KEYS, body.answer_keys)

(* The first version has nothing to copy these two from. *)
FIRST_VERSION_FIELDS == {"prompt_md", "difficulty"}

(* Preview: validated, then refused whatever it says. *)
Preview(kind, body) ==
    IF ~StrictObject([language |-> 1 .. 50, code |-> 1 .. 200000], {}, body) THEN "validation_failed"
    ELSE IF kind \notin Code THEN "validation_failed" ELSE "execution_unavailable"

-----------------------------------------------------------------------------
(* Writing the children of a version and reading them back: an array's     *)
(* order is the ordinal, and the ordinal is the order of every read.       *)
WriteRows(items) == {[ordinal |-> i, row |-> items[i]] : i \in DOMAIN items}

InOrder(rows) ==
    [i \in 1 .. Cardinality(rows) |->
        (CHOOSE r \in rows : Cardinality({s \in rows : s.ordinal < r.ordinal}) = i - 1).row]

(* A numeric column that is null or does not parse has a default. *)
Num(value, default) == IF value = Missing THEN default ELSE value

LoadVersionChildren(tables) ==
    [options |-> InOrder(tables.options),
     coding_spec |-> tables.coding_spec,
     test_cases |-> LET read == InOrder(tables.test_cases)
                    IN  [i \in DOMAIN read |-> [read[i] EXCEPT !.weight = Num(@, 100)]],
     answer_keys |-> LET read == InOrder(tables.answer_keys)
                     IN  [i \in DOMAIN read |-> [read[i] EXCEPT !.score = Num(@, 100)]]]

(* toVersionRecord: the row, its children, and instants that must parse. *)
ToVersionRecord(row, tables) ==
    IF row.created_at = Missing THEN Missing
    ELSE LoadVersionChildren(tables) @@
         [row EXCEPT !.max_score = Num(@, 100), !.negative_score = Num(@, 0)]

(* getVersion, getLatestVersion, getQuestionWithCurrentVersion *)
GetVersion(versions, n) == IF n \in DOMAIN versions THEN versions[n] ELSE Missing
GetLatestVersion(versions) == GetVersion(versions, Len(versions))
GetQuestion(question, versions, includeArchived) ==
    IF question = Missing \/ (question.archived_at # Missing /\ ~includeArchived) THEN Missing
    ELSE [question EXCEPT !.current_version = GetVersion(versions, @)]

-----------------------------------------------------------------------------
(* The views. *)
Pick(record, fields) == [f \in fields |-> record[f]]
Each(View(_), items) == [i \in DOMAIN items |-> View(items[i])]

OptionFields == {"id", "ordinal", "body_md", "is_correct", "score_delta", "rationale_md"}
SpecFields == {"allowed_languages", "starter_code", "solution_code", "time_limit_ms",
               "memory_limit_kb", "grading_mode", "checker_code", "fixture_sql"}
CaseFields == {"id", "ordinal", "label", "stdin", "expected_stdout", "args", "assertion_code",
               "is_sample", "weight"}
KeyFields == {"id", "match_type", "pattern", "tolerance", "score"}
VersionFields == {"id", "question_id", "version_no", "locale", "prompt_md", "explanation_md",
                  "difficulty", "est_seconds", "max_score", "negative_score", "published_at",
                  "created_by", "created_at"}
QuestionFields == {"id", "kind", "status", "external_ref", "source_license", "author_id",
                   "exposure_count", "archived_at", "created_at", "skills"}

AuthorOption(o) == Pick(o, OptionFields)
AuthorCodingSpec(s) == IF s = Missing THEN Missing ELSE Pick(s, SpecFields)
AuthorTestCase(c) == Pick(c, CaseFields)
AuthorAnswerKey(k) == Pick(k, KeyFields)

ToAuthorVersionView(v) ==
    Pick(v, VersionFields) @@
    [options |-> Each(AuthorOption, v.options), coding_spec |-> AuthorCodingSpec(v.coding_spec),
     test_cases |-> Each(AuthorTestCase, v.test_cases),
     answer_keys |-> Each(AuthorAnswerKey, v.answer_keys)]

ToAuthorView(q) ==
    Pick(q, QuestionFields) @@
    [current_version |-> IF q.current_version = Missing THEN Missing
                         ELSE ToAuthorVersionView(q.current_version)]

Excerpt(prompt) ==
    IF prompt = Missing THEN Missing
    ELSE IF prompt <= PROMPT_EXCERPT_LENGTH THEN prompt ELSE PROMPT_EXCERPT_LENGTH + 1

SummaryFields == {"id", "kind", "status", "external_ref", "source_license", "exposure_count",
                  "archived_at", "created_at", "current_version_id", "current_published_at",
                  "latest_version_no", "latest_difficulty"}

ToAuthorSummaryView(row) ==
    Pick(row, SummaryFields) @@ [latest_prompt_excerpt |-> Excerpt(row.latest_prompt_md)]

CandidateOptionFields == {"id", "ordinal", "body_md"}
CandidateCommon == {"prompt_md", "est_seconds", "max_score", "negative_score"}
BriefFields == {"allowed_languages", "starter_code", "time_limit_ms", "memory_limit_kb", "fixture_sql"}

CandidateOption(o) == Pick(o, CandidateOptionFields)

(* Mutant of CandidateCodingBrief: the brief carries the sample cases. *)
CandidateCodingBriefWithCases(v) ==
    [sample_case_count |-> SelectSeq(v.test_cases, LAMBDA c : c.is_sample)]

CandidateCodingBrief(v) ==
    Over(IF v.coding_spec = Missing
         THEN [allowed_languages |-> <<>>, starter_code |-> 0, time_limit_ms |-> 5000,
               memory_limit_kb |-> 262144, fixture_sql |-> Missing]
         ELSE Pick(v.coding_spec, BriefFields),
         [sample_case_count |-> Cardinality({i \in DOMAIN v.test_cases : v.test_cases[i].is_sample}),
          hidden_case_count |-> Cardinality({i \in DOMAIN v.test_cases : ~v.test_cases[i].is_sample})])

ToCandidateView(kind, v) ==
    Over([question_version_id |-> v.id, kind |-> kind],
         Over(Pick(v, CandidateCommon),
              IF kind \in Choice THEN [options |-> Each(CandidateOption, v.options)]
              ELSE IF kind \in Code THEN [coding |-> CandidateCodingBrief(v)] ELSE <<>>))

(* What the stats route answers: the current version's, or nothing known. *)
QuestionStats(question, stats) ==
    IF question = Missing THEN Missing
    ELSE [version |-> IF question.current_version = Missing THEN Missing
                      ELSE question.current_version.version_no,
          n_attempts |-> IF question.current_version = Missing \/ stats = Missing THEN 0
                         ELSE stats.n_attempts]

-----------------------------------------------------------------------------
(* Two versions that differ only in what is expected of the candidate:     *)
(* which options are right, the solutions, the checker, the cases' texts,  *)
(* the answer keys.                                                        *)
SameQuestionAsked(v, w) ==
    /\ \A f \in {"id", "prompt_md", "est_seconds", "max_score", "negative_score"} : v[f] = w[f]
    /\ Each(CandidateOption, v.options) = Each(CandidateOption, w.options)
    /\ (v.coding_spec = Missing) = (w.coding_spec = Missing)
    /\ v.coding_spec # Missing =>
         \A f \in SpecFields \ {"solution_code", "checker_code", "grading_mode"} :
            v.coding_spec[f] = w.coding_spec[f]
    /\ \A s \in BOOLEAN : Cardinality({i \in DOMAIN v.test_cases : v.test_cases[i].is_sample = s})
                        = Cardinality({i \in DOMAIN w.test_cases : w.test_cases[i].is_sample = s})

(* FR-12: nothing a candidate is served depends on what is expected of the *)
(* answer.                                                                 *)
CandidateLearnsNothing(kind, v, w) ==
    SameQuestionAsked(v, w) => ToCandidateView(kind, v) = ToCandidateView(kind, w)

(* What is written into the children's tables in the author's order is     *)
(* read back in that order.                                                *)
ChildrenRoundTrip(items) == InOrder(WriteRows(items)) = items
=============================================================================
