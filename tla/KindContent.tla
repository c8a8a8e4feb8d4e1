----------------------------- MODULE KindContent -----------------------------
(***************************************************************************)
(* What a version of a question holds, what each kind of question may and  *)
(* must carry, and how an edit is laid over what was there.  Texts are     *)
(* model values; collections are their counts, which is all the rule about *)
(* kinds looks at.                                                         *)
(***************************************************************************)
EXTENDS Naturals

Choice == {"mcq_single", "mcq_multi", "true_false"}
Code == {"coding", "sql"}
Kinds == Choice \cup Code \cup {"short_answer", "subjective", "system_design"}

(* fixture is the text of fixture_sql: absent or empty, only white space,  *)
(* or a script.  A content without a coding spec has mode "none"; mode     *)
(* "test_cases" stands for every grading mode other than unit_tests.  bare *)
(* counts the test cases without assertion code.                           *)
NoSpec == [mode |-> "none", fixture |-> "none"]

Contents ==
    [prompt : Nat,
     options : [count : Nat, correct : Nat],
     spec : [mode : {"none", "test_cases", "unit_tests"},
             fixture : {"none", "blank", "script"}],
     cases : [count : Nat, hidden : Nat, bare : Nat],
     keys : Nat]

(* shapeOfContent and shapeOfRecord: the API trims the fixture. *)
ShapeOfContent(c) == [content |-> c, hasFixture |-> c.spec.fixture = "script"]

(* shapeOfBankVersion: the importer compares it with the empty string. *)
ShapeOfBankVersion(c) == [content |-> c, hasFixture |-> c.spec.fixture # "none"]

IssueFields == {"options", "coding_spec", "test_cases", "answer_keys"}

(* Content the kind can never use, refused on every write. *)
WrongKind(kind, shape) ==
    LET c == shape.content IN
    {f \in IssueFields :
        \/ f = "options" /\ kind \notin Choice /\ c.options.count > 0
        \/ f = "coding_spec" /\ kind \notin Code /\ c.spec.mode # "none"
        \/ f = "coding_spec" /\ kind = "coding" /\ shape.hasFixture
        \/ f = "test_cases" /\ kind \notin Code /\ c.cases.count > 0
        \/ f = "answer_keys" /\ kind # "short_answer" /\ c.keys > 0}

(* Content the kind needs and does not have yet. *)
Incomplete(kind, shape) ==
    LET c == shape.content IN
    {f \in IssueFields :
        \/ /\ f = "options"
           /\ \/ kind = "true_false" /\ (c.options.count # 2 \/ c.options.correct # 1)
              \/ kind = "mcq_single" /\ (c.options.count < 2 \/ c.options.correct # 1)
              \/ kind = "mcq_multi" /\ (c.options.count < 2 \/ c.options.correct < 1)
        \/ f = "answer_keys" /\ kind = "short_answer" /\ c.keys < 1
        \/ /\ f = "coding_spec" /\ kind \in Code
           /\ c.spec.mode = "none" \/ (kind = "sql" /\ ~shape.hasFixture)
        \/ /\ f = "test_cases" /\ kind \in Code
           /\ c.cases.hidden < 1 \/ (c.spec.mode = "unit_tests" /\ c.cases.bare > 0)}

ValidateKindContent(kind, shape, stage) ==
    WrongKind(kind, shape) \cup
        (IF stage = "publish" THEN Incomplete(kind, shape) ELSE {})

-----------------------------------------------------------------------------
(* A patch is a function from the fields the request names to their new    *)
(* values.  options, cases and keys are replaced whole; a spec is merged   *)
(* field by field, and the patch null (here {}) removes it.                *)

Named(patch, f, old) == IF f \in DOMAIN patch THEN patch[f] ELSE old

MergeCodingSpec(prior, patch) ==
    IF "spec" \notin DOMAIN patch THEN prior
    ELSE IF patch.spec = {} THEN NoSpec
    ELSE LET new == CHOOSE s \in patch.spec : TRUE
             base == IF prior.mode = "none"
                     THEN [mode |-> "test_cases", fixture |-> "none"] ELSE prior
         IN [f \in {"mode", "fixture"} |-> Named(new, f, base[f])]

(* What a first version starts from. *)
Blank == [prompt |-> 0, options |-> [count |-> 0, correct |-> 0], spec |-> NoSpec,
          cases |-> [count |-> 0, hidden |-> 0, bare |-> 0], keys |-> 0]

MergeVersionContent(prior, patch) ==
    [f \in DOMAIN Blank |->
        IF f = "spec" THEN MergeCodingSpec(prior.spec, patch)
        ELSE Named(patch, f, prior[f])]

=============================================================================
