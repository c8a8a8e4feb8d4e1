--------------------------- MODULE QuestionEditor ---------------------------
(***************************************************************************)
(* Two authors with one question open in the staff console, over the       *)
(* question bank's API.                                                    *)
(*                                                                         *)
(* The editor (apps/web/src/routes/QuestionEditor.tsx) reads a question    *)
(* with its current version, seeds a form from it, and saves what differs  *)
(* from what it read.  The API patches the *latest* version, which is not  *)
(* the current one: `current_version` is the version last published, and   *)
(* is null until then.  A form is a record of the fields the screen        *)
(* manages; a row of a collection keeps a text and a mark, and the parts   *)
(* of a row the screen does not hold (`rest`) are lost when it is sent.    *)
(***************************************************************************)
EXTENDS Absent, Integers, Sequences, FiniteSets

CONSTANTS Authors,        \* two browsers with the question open
          EditorKinds,    \* the kinds of question considered
          Texts,          \* what may be typed into a text field
          MaxVersions,    \* bound: versions of the question
          MaxKeys,        \* bound: edits of the two forms
          MaxLost         \* bound: answers that never arrive

VARIABLES kindOf,     \* the kind of the question
          bank,       \* the question as the API keeps it
          cache,      \* by author: the question as the screen last read it
          form,       \* by author: the draft, and the version it is seeded from
          call,       \* by author: the mutation under way
          typed,      \* ghost, by author: fields touched since the form was seeded
          edits,      \* edits so far
          lostCalls,  \* answers lost so far
          undone      \* ghost: fields a version lost that its author had not touched

editorVars == <<kindOf, bank, cache, form, call, typed, edits, lostCalls, undone>>

-----------------------------------------------------------------------------
(* Drafts.                                                                 *)

Scalars == {"prompt_md", "explanation_md", "difficulty"}
FormFields == Scalars \cup {"rows"}

CHOICE == {"mcq_single", "mcq_multi", "true_false"}
CODE == {"coding", "sql"}
HasRows(kind) == kind \in CHOICE \cup CODE \cup {"short_answer"}

\* What a collection looks like in the form: each row's text and mark.
OptionsOf(rows) == [i \in DOMAIN rows |-> [text |-> rows[i].text, mark |-> rows[i].mark]]

\* The form a version seeds: its fields, or the defaults when there is none.
DraftOf(version) ==
    IF version = Missing
    THEN [prompt_md |-> "", explanation_md |-> "", difficulty |-> 3, rows |-> <<>>]
    ELSE [prompt_md |-> version.prompt_md,
          explanation_md |-> IF version.explanation_md = Missing
                             THEN "" ELSE version.explanation_md,
          difficulty |-> version.difficulty,
          rows |-> OptionsOf(version.rows)]

\* The fields of a draft that differ from the version it was read from.
ChangedScalars(original, draft) == {f \in Scalars : draft[f] # original[f]}

\* Rows are compared in place, text by text and mark by mark, keys left out.
SameRows(a, b) ==
    /\ Len(a) = Len(b)
    /\ \A i \in DOMAIN a : a[i].text = b[i].text /\ a[i].mark = b[i].mark

\* The collection is compared and sent only for the kinds that have one.
Changed(kind, original, draft) ==
    ChangedScalars(original, draft)
      \cup {f \in {"rows"} : HasRows(kind) /\ ~SameRows(original.rows, draft.rows)}

\* A row is sent with what the form holds; the server fills the rest in.
RowSent(row) == [text |-> row.text, mark |-> row.mark, rest |-> "default"]

\* A field as a save sends it: an emptied explanation is sent as null.
FieldSent(f, value) ==
    CASE f = "explanation_md" /\ value = "" -> Missing
      [] f = "rows" -> [i \in DOMAIN value |-> RowSent(value[i])]
      [] OTHER -> value

(* Mutant of BuildBody: every field is sent, changed or not. *)
BuildBodyWhole(kind, original, draft) == [f \in FormFields |-> FieldSent(f, draft[f])]

\* The body of a save: changed scalars, and the collection if it was touched.
BuildBody(kind, original, draft) ==
    [f \in Changed(kind, original, draft) |-> FieldSent(f, draft[f])]

-----------------------------------------------------------------------------
(* Row editors.  A choice row's mark is "correct", a test case's is        *)
(* "sample", an accepted answer's is its match type.                       *)

RemoveRow(rows, i) ==
    [j \in 1..(Len(rows) - 1) |-> rows[IF j < i THEN j ELSE j + 1]]

\* What the three editors share: retyping a row, removing one, adding one.
RowEdits(rows, blank) ==
    {[rows EXCEPT ![i].text = t] : i \in DOMAIN rows, t \in Texts}
      \cup {RemoveRow(rows, i) : i \in DOMAIN rows}
      \cup {Append(rows, blank)}

\* Marking an option of a single-answer question clears the others.
MarkOption(single, rows, i, mark) ==
    [j \in DOMAIN rows |->
        IF j = i THEN [rows[j] EXCEPT !.mark = mark]
        ELSE IF single THEN [rows[j] EXCEPT !.mark = "wrong"]
        ELSE rows[j]]

OptionsEditor(single, rows) ==
    RowEdits(rows, [text |-> "", mark |-> "wrong"])
      \cup {MarkOption(single, rows, i, m) : i \in DOMAIN rows, m \in {"wrong", "correct"}}

CasesEditor(rows) ==
    RowEdits(rows, [text |-> "", mark |-> "hidden"])
      \cup {[rows EXCEPT ![i].mark = m] : i \in DOMAIN rows, m \in {"hidden", "sample"}}

MATCH_LABELS == {"exact", "ci", "regex", "numeric_tolerance"}

KeysEditor(rows) ==
    RowEdits(rows, [text |-> "", mark |-> "exact"])
      \cup {[rows EXCEPT ![i].mark = m] : i \in DOMAIN rows, m \in MATCH_LABELS}

\* What one edit can make of the collection the question's kind has.
RowsAfter(kind, rows) ==
    CASE kind \in CHOICE -> OptionsEditor(kind # "mcq_multi", rows)
      [] kind \in CODE -> CasesEditor(rows)
      [] kind = "short_answer" -> KeysEditor(rows)
      [] OTHER -> {}

-----------------------------------------------------------------------------
(* The API: the question as the bank keeps it and what a request does.     *)

Latest(b) == Len(b.versions)
CurrentVersion(b) == IF b.current = 0 THEN Missing ELSE b.versions[b.current]

\* `GET /questions/{id}`: the status and the current, published version.
ReadQuestion(b) ==
    [status |-> b.status, no |-> b.current, version |-> CurrentVersion(b)]

\* A first version starts from defaults, a later one from the latest version.
BaseVersion(b) ==
    IF Latest(b) = 0
    THEN [prompt_md |-> "", explanation_md |-> Missing, difficulty |-> 3,
          rows |-> <<>>, published |-> FALSE]
    ELSE [b.versions[Latest(b)] EXCEPT !.published = FALSE]

Patch(content, body) ==
    [f \in DOMAIN content |-> IF f \in DOMAIN body THEN body[f] ELSE content[f]]

Accepts(b, request) ==
    CASE request.verb = "create" ->
             Latest(b) > 0 \/ {"prompt_md", "difficulty"} \subseteq DOMAIN request.body
      [] request.verb = "update" -> ~b.versions[request.no].published
      [] request.verb = "review" -> b.status = "draft"
      [] request.verb = "publish" -> /\ b.status \in {"review", "published"}
                                     /\ ~b.versions[request.no].published

\* The bank after a request it accepts.
Apply(b, request) ==
    CASE request.verb = "create" ->
             [b EXCEPT !.versions = Append(@, Patch(BaseVersion(b), request.body))]
      [] request.verb = "update" ->
             [b EXCEPT !.versions[request.no] = Patch(@, request.body)]
      [] request.verb = "review" -> [b EXCEPT !.status = "review"]
      [] request.verb = "publish" ->
             [b EXCEPT !.versions[request.no].published = TRUE,
                       !.current = request.no, !.status = "published"]

-----------------------------------------------------------------------------
(* The screen.                                                             *)

NoCall == [step |-> "idle"]
Version(a) == cache[a].version
IsPublished(a) == Version(a) # Missing /\ Version(a).published
Dirty(a) == Changed(kindOf, DraftOf(Version(a)), form[a].draft) # {}

\* A published version is never patched: saving against one appends the next.
SaveRequest(a) ==
    LET body == BuildBody(kindOf, DraftOf(Version(a)), form[a].draft) IN
    IF Version(a) = Missing \/ IsPublished(a)
    THEN [verb |-> "create", no |-> 0, body |-> body]
    ELSE [verb |-> "update", no |-> cache[a].no, body |-> body]

\* The buttons the screen enables, as the request each would send: a draft
\* version is sent for review or published, and only once it is saved.
Buttons(a) ==
    LET draft == Version(a) # Missing /\ ~IsPublished(a)
        verb == CASE Dirty(a) -> "save"
                  [] draft /\ ~Dirty(a) /\ cache[a].status = "draft" -> "review"
                  [] draft /\ ~Dirty(a) /\ cache[a].status = "review" -> "publish"
                  [] OTHER -> "none" IN
    IF verb = "none" THEN {}
    ELSE IF verb = "save" THEN {SaveRequest(a)}
    ELSE {[verb |-> verb, no |-> cache[a].no, body |-> <<>>]}

\* A version the API was given: a row of it holds more than a form shows.
GivenVersion ==
    [prompt_md |-> "given", explanation_md |-> "given", difficulty |-> 2,
     rows |-> <<[text |-> "given", mark |-> "given", rest |-> "given"]>>,
     published |-> FALSE]

EditorInit ==
    /\ kindOf \in EditorKinds
    /\ \E versions \in {<<>>, <<GivenVersion>>} :
         bank = [versions |-> versions, status |-> "draft", current |-> 0]
    /\ cache = [a \in Authors |-> ReadQuestion(bank)]
    /\ form = [a \in Authors |-> [draft |-> DraftOf(Missing), seededFrom |-> 0]]
    /\ call = [a \in Authors |-> NoCall]
    /\ typed = [a \in Authors |-> {}]
    /\ edits = 0
    /\ lostCalls = 0
    /\ undone = {}

\* One edit of one field.  Nothing can be typed over a published version.
Type(a) ==
    /\ ~IsPublished(a)
    /\ edits < MaxKeys
    /\ \E f \in FormFields :
         /\ \E v \in CASE f = "difficulty" -> {3, 4}
                       [] f = "rows" -> RowsAfter(kindOf, form[a].draft.rows)
                       [] OTHER -> Texts :
              form' = [form EXCEPT ![a].draft[f] = v]
         /\ typed' = [typed EXCEPT ![a] = @ \cup {f}]
    /\ edits' = edits + 1
    /\ UNCHANGED <<kindOf, bank, cache, call, lostCalls, undone>>

\* A button is pressed while nothing is under way; the body is built then.
Press(a) ==
    /\ call[a] = NoCall
    /\ Latest(bank) < MaxVersions
    /\ \E request \in Buttons(a) :
         call' = [call EXCEPT ![a] = [step |-> "sent", request |-> request,
                                      by |-> typed[a]]]
    /\ UNCHANGED <<kindOf, bank, cache, form, typed, edits, lostCalls, undone>>

\* The API decides a request; it may be refused, which the screen reports.
Serve(a) ==
    /\ call[a].step = "sent"
    /\ LET request == call[a].request IN
       IF Accepts(bank, request)
       THEN LET after == Apply(bank, request) IN
            /\ bank' = after
            /\ call' = [call EXCEPT ![a] = [step |-> "done"]]
            /\ undone' = undone \cup
                   {f \in FormFields \ call[a].by :
                       after.versions[Latest(after)][f] # BaseVersion(bank)[f]}
       ELSE /\ call' = [call EXCEPT ![a] = NoCall]
            /\ UNCHANGED <<bank, undone>>
    /\ UNCHANGED <<kindOf, cache, form, typed, edits, lostCalls>>

\* A request or its answer is lost: the screen says that it did not save.
Lose(a) ==
    /\ call[a].step \in {"sent", "done"}
    /\ lostCalls < MaxLost
    /\ lostCalls' = lostCalls + 1
    /\ call' = [call EXCEPT ![a] = NoCall]
    /\ UNCHANGED <<kindOf, bank, cache, form, typed, edits, undone>>

\* A different version arriving seeds the form again; the same one does not.
Reseed(a, read) ==
    IF read.no # form[a].seededFrom
    THEN /\ form' = [form EXCEPT ![a] = [draft |-> DraftOf(read.version),
                                         seededFrom |-> read.no]]
         /\ typed' = [typed EXCEPT ![a] = {}]
    ELSE UNCHANGED <<form, typed>>

\* The answer arrives: the question is read again.
Answered(a) ==
    /\ call[a].step = "done"
    /\ LET read == ReadQuestion(bank) IN
       /\ cache' = [cache EXCEPT ![a] = read]
       /\ Reseed(a, read)
    /\ call' = [call EXCEPT ![a] = NoCall]
    /\ UNCHANGED <<kindOf, bank, edits, lostCalls, undone>>

\* The question is read again on its own: a stale entry, a reconnect.
Refetch(a) ==
    /\ cache[a] # ReadQuestion(bank)
    /\ cache' = [cache EXCEPT ![a] = ReadQuestion(bank)]
    /\ Reseed(a, ReadQuestion(bank))
    /\ UNCHANGED <<kindOf, bank, call, edits, lostCalls, undone>>

\* The screen is left and opened again: its form starts from what is cached.
Reopen(a) ==
    /\ call[a] = NoCall
    /\ form' = [form EXCEPT ![a] = [draft |-> DraftOf(Version(a)),
                                    seededFrom |-> cache[a].no]]
    /\ form' # form
    /\ typed' = [typed EXCEPT ![a] = {}]
    /\ UNCHANGED <<kindOf, bank, cache, call, edits, lostCalls, undone>>

\* The API is used from elsewhere to review the question and publish it.
Elsewhere ==
    /\ \E request \in [verb : {"review", "publish"}, no : DOMAIN bank.versions,
                       body : {<<>>}] :
         /\ Accepts(bank, request)
         /\ bank' = Apply(bank, request)
    /\ UNCHANGED <<kindOf, cache, form, call, typed, edits, lostCalls, undone>>

EditorNext ==
    \/ Elsewhere
    \/ \E a \in Authors :
         \/ Type(a) \/ Press(a) \/ Serve(a) \/ Lose(a)
         \/ Answered(a) \/ Refetch(a) \/ Reopen(a)

EditorSpec == EditorInit /\ [][EditorNext]_editorVars

-----------------------------------------------------------------------------

\* A version written from a form differs from the latest version only in
\* fields its author touched: two authors' saves overlap without one undoing
\* the other's, because a save sends the fields that changed and the API
\* copies the others forward from the latest version.
UntouchedFieldsKept == undone = {}
=============================================================================
