--------------------------- MODULE MCQuestionBank ---------------------------
(* QuestionBank for one sql question: a version with no spec yet, with a   *)
(* spec and no hidden case, and one that can be graded; patches that add   *)
(* the spec, add the case, take the spec away again, or belong to another  *)
(* kind of question.  An imported question is in review with two drafts,   *)
(* or has been served; one item carries a fixture of white space.          *)
EXTENDS QuestionBank, TLC

HiddenCase == [count |-> 2, hidden |-> 1, bare |-> 2]
Gradable == [Blank EXCEPT !.prompt = 1, !.cases = HiddenCase,
                          !.spec = [mode |-> "test_cases", fixture |-> "script"]]
Unfinished == [Gradable EXCEPT !.cases.hidden = 0]
BlankFixture == [Gradable EXCEPT !.spec.fixture = "blank"]

Item(st, vs) == [status |-> st, versions |-> vs]
Draft(c) == [content |-> c, published |-> FALSE]
Frozen(c) == [content |-> c, published |-> TRUE]

MCItems ==
    {Item("review", <<Draft(Gradable), Draft(Unfinished)>>),
     Item("published", <<Frozen(Gradable), Draft(Unfinished)>>),
     Item("draft", <<Frozen(Gradable)>>),
     Item("published", <<Draft(Gradable), Frozen(Unfinished)>>)}

BlankItems == {Item("published", <<Frozen(BlankFixture)>>)} \cup MCItems

AddPrompt == [prompt |-> 2]
AddSpec == [prompt |-> 1, spec |-> {[fixture |-> "script"]}]
AddCases == [cases |-> HiddenCase]
DropSpec == [spec |-> {}]
AddOptions == [options |-> [count |-> 2, correct |-> 1]]

MCOps ==
    [kind : {"patch"}, status : {"draft", "review", "retired"}, archived : {"keep"}]
    \cup [kind : {"patch"}, status : {"keep"}, archived : {"yes", "no"}]
    \cup {[kind |-> "patch", status |-> "review", archived |-> "no"], [kind |-> "delete"]}
    \cup [kind : {"create"}, patch : {AddSpec, AddCases, AddOptions}]
    \cup [kind : {"edit"}, version : {1, 2}, patch : {AddPrompt, AddCases, DropSpec}]
    \cup [kind : {"publish"}, version : {1, 2}]

RequestSymmetry == Permutations(Requests)
=============================================================================
