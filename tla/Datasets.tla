------------------------------ MODULE Datasets ------------------------------
(***************************************************************************)
(* Reading published datasets into drafts: where one Python statement or   *)
(* test method ends and the next begins, the rows of a JSONL file, and the *)
(* directories of an Exercism track.                                       *)
(*                                                                         *)
(* A line is its indentation and its characters, of which the scanner      *)
(* tells apart the brackets, the two quotes, the backslash and the comment *)
(* sign.  A word the splitters look for at the start of a line is one      *)
(* character: "assert", "class", and "test" for the def of a test method.  *)
(* A source is a sequence of lines.                                        *)
(***************************************************************************)
EXTENDS KindContent, Absent, Integers, Sequences, FiniteSets, SequencesExt, FiniteSetsExt

SourceLine(indent, chars) == [indent |-> indent, chars |-> chars]
BlankLine(line) == line.chars = <<>>
BlankSource(lines) == \A i \in DOMAIN lines : BlankLine(lines[i])

(* trimEnd *)
TrimmedEnd(lines) ==
    SubSeq(lines, 1, Max({0} \cup {i \in DOMAIN lines : ~BlankLine(lines[i])}))

-----------------------------------------------------------------------------
(* assertions.ts, the scanner.  A quote is open with its run of one or     *)
(* three; skip counts characters already taken by a run or an escape.      *)
NotQuoted == [char |-> "", run |-> 0]
AtLineStart(depth, quote) == [depth |-> depth, quote |-> quote, skip |-> 0, comment |-> FALSE]

StartsWith(chars, i, quote) ==
    i + quote.run - 1 <= Len(chars) /\ \A k \in 0 .. quote.run - 1 : chars[i + k] = quote.char

(* QUOTES: a triple quote wins. *)
OpensAt(chars, i) ==
    LET triple == [char |-> chars[i], run |-> 3]
    IN  IF StartsWith(chars, i, triple) THEN triple ELSE [char |-> chars[i], run |-> 1]

InString(chars, i, s) ==
    IF chars[i] = "bs" THEN [s EXCEPT !.skip = 1]
    ELSE IF StartsWith(chars, i, s.quote) THEN [s EXCEPT !.quote = NotQuoted, !.skip = s.quote.run - 1]
    ELSE s

InCode(chars, i, s) ==
    CASE chars[i] = "#" -> [s EXCEPT !.comment = TRUE]
      [] chars[i] \in {"dq", "sq"} -> [s EXCEPT !.quote = OpensAt(chars, i), !.skip = OpensAt(chars, i).run - 1]
      [] chars[i] = "(" -> [s EXCEPT !.depth = @ + 1]
      [] chars[i] = ")" -> [s EXCEPT !.depth = Max({0, @ - 1})]
      [] OTHER -> s

ScanLine(line, state) ==
    LET step(s, i) ==
            IF s.skip > 0 THEN [s EXCEPT !.skip = @ - 1]
            ELSE IF s.comment THEN s
            ELSE IF s.quote # NotQuoted THEN InString(line.chars, i, s) ELSE InCode(line.chars, i, s)
        end == FoldLeft(step, AtLineStart(state.depth, state.quote), [i \in DOMAIN line.chars |-> i])
        continued == ~BlankLine(line) /\ line.chars[Len(line.chars)] = "bs"
    IN  AtLineStart(IF continued THEN Max({end.depth, 1}) ELSE end.depth, end.quote)

(* The lines that begin in code. *)
StructuralLines(lines) ==
    LET step(acc, line) == [flags |-> Append(acc.flags, acc.state.depth = 0 /\ acc.state.quote = NotQuoted),
                            state |-> ScanLine(line, acc.state)]
    IN  FoldLeft(step, [flags |-> <<>>, state |-> AtLineStart(0, NotQuoted)], lines).flags

Begins(line, word) == ~BlankLine(line) /\ line.chars[1] = word

(* splitAssertions: what precedes the first assertion, and each assertion  *)
(* with all that follows it up to the next.                                *)
AssertionStarts(lines, structural) == {i \in DOMAIN lines : structural[i] /\ Begins(lines[i], "assert")}

CutAt(lines, starts) ==
    LET ends(i) == Min({j - 1 : j \in {k \in starts : k > i}} \cup {Len(lines)})
        inOrder == SelectSeq([i \in DOMAIN lines |-> i], LAMBDA i : i \in starts)
    IN  [preamble |-> TrimmedEnd(SubSeq(lines, 1, IF starts = {} THEN Len(lines) ELSE Min(starts) - 1)),
         assertions |-> [n \in DOMAIN inOrder |->
                            [code |-> TrimmedEnd(SubSeq(lines, inOrder[n], ends(inOrder[n]))), line |-> inOrder[n]]]]

SplitAssertions(lines) == CutAt(lines, AssertionStarts(lines, StructuralLines(lines)))

(* dedent: a blank line neither counts nor changes. *)
Dedent(lines) ==
    IF BlankSource(lines) THEN lines
    ELSE LET least == Min({lines[i].indent : i \in {k \in DOMAIN lines : ~BlankLine(lines[k])}})
         IN  [i \in DOMAIN lines |-> IF BlankLine(lines[i]) THEN lines[i]
                                     ELSE [lines[i] EXCEPT !.indent = @ - least]]

(* splitTestMethods.  A line that is no method's and inside a class is     *)
(* dropped; one that ends a method goes to the preamble.                   *)
Closed(s) ==
    IF s.current = Missing THEN s
    ELSE [s EXCEPT !.methods = Append(@, [code |-> TrimmedEnd(s.current.lines), line |-> s.current.line]),
                   !.current = Missing]

IsClass(line) == line.indent = 0 /\ Begins(line, "class")
IsTestDef(line) == line.indent > 0 /\ Begins(line, "test")

TakeLine(s, line, at, structural) ==
    CASE structural /\ IsClass(line) ->
            [Closed(s) EXCEPT !.class = IF @ = Missing THEN at ELSE @, !.inClass = TRUE]
      [] structural /\ IsTestDef(line) /\ s.inClass ->
            [Closed(s) EXCEPT !.current = [lines |-> <<line>>, line |-> at, indent |-> line.indent]]
      [] ~(structural /\ (IsClass(line) \/ IsTestDef(line))) /\ s.current # Missing ->
            IF ~BlankLine(line) /\ structural /\ line.indent <= s.current.indent
            THEN [Closed(s) EXCEPT !.preamble = Append(@, line)]
            ELSE [s EXCEPT !.current.lines = Append(@, line)]
      [] OTHER -> IF s.inClass THEN s ELSE [s EXCEPT !.preamble = Append(@, line)]

SplitTestMethods(lines) ==
    LET structural == StructuralLines(lines)
        end == Closed(FoldLeft(LAMBDA s, i : TakeLine(s, lines[i], i, structural[i]),
                               [preamble |-> <<>>, methods |-> <<>>, class |-> Missing, inClass |-> FALSE,
                                current |-> Missing], [i \in DOMAIN lines |-> i]))
    IN  [preamble |-> TrimmedEnd(end.preamble), class |-> end.class, methods |-> end.methods]

-----------------------------------------------------------------------------
(* spec.ts: which column of a row holds what.                              *)
DATASET_SPECS ==
    [humaneval |-> [licence |-> "MIT", testsKind |-> "block", prompt |-> "prompt", starter |-> "prompt",
                    setup |-> Missing, extraTests |-> Missing, entryPoint |-> "entry_point"],
     mbpp |-> [licence |-> "CC-BY-4.0", testsKind |-> "list", prompt |-> "text", starter |-> Missing,
               setup |-> "test_setup_code", extraTests |-> "challenge_test_list", entryPoint |-> Missing],
     lbpp |-> [licence |-> "Apache-2.0", testsKind |-> "list", prompt |-> "instruction", starter |-> "signature",
               setup |-> "test_setup", extraTests |-> Missing, entryPoint |-> Missing]]

(* jsonl.ts.  A column holds [text], a source, or [list], of sources. *)
Str(row, column) ==
    IF column \in DOMAIN row /\ "text" \in DOMAIN row[column] THEN row[column].text ELSE Missing
StrList(row, column) ==
    IF column \in DOMAIN row /\ "list" \in DOMAIN row[column] THEN row[column].list ELSE Missing
StrOr(row, column) == IF Str(row, column) = Missing THEN <<>> ELSE Str(row, column)

Binding == SourceLine(0, <<"candidate">>)

ListCodes(spec, row, setup) ==
    LET extra == IF StrList(row, spec.extraTests) = Missing THEN <<>> ELSE StrList(row, spec.extraTests)
        all == SelectSeq(StrList(row, "tests") \o extra, LAMBDA t : ~BlankSource(t))
    IN  [n \in DOMAIN all |-> setup \o all[n]]

BlockCodes(spec, row, setup, split) ==
    LET entry == StrOr(row, spec.entryPoint)
        prelude == setup \o TrimmedEnd(Dedent(split.preamble)) \o (IF BlankSource(entry) THEN <<>> ELSE <<Binding>>)
    IN  [n \in DOMAIN split.assertions |-> prelude \o Dedent(split.assertions[n].code)]

(* assertionsOf; Missing where the tests are not of the declared kind. *)
AssertionsOf(spec, row) ==
    LET setup == TrimmedEnd(StrOr(row, spec.setup)) IN
    CASE spec.testsKind = "list" /\ StrList(row, "tests") # Missing -> ListCodes(spec, row, setup)
      [] spec.testsKind = "block" /\ Str(row, "tests") # Missing ->
            BlockCodes(spec, row, setup, SplitAssertions(Dedent(Str(row, "tests"))))
      [] OTHER -> Missing

(* The first of several assertions is the example the candidate sees. *)
CasesOf(codes) == [n \in DOMAIN codes |-> [assertion_code |-> codes[n], is_sample |-> Len(codes) > 1 /\ n = 1]]

(* A canonical solution that is a body runs only after its signature. *)
SolutionFor(spec, starter, solution) ==
    IF spec.prompt = spec.starter /\ ~BlankSource(starter) THEN TrimmedEnd(starter) \o solution ELSE solution

RowProblems(spec, row, codes) ==
    {f \in {"id", "prompt", "solution", "tests"} :
        \/ f = "id" /\ Str(row, "task_id") = Missing
        \/ f = "prompt" /\ BlankSource(StrOr(row, spec.prompt))
        \/ f = "solution" /\ BlankSource(StrOr(row, "solution"))
        \/ f = "tests" /\ codes \in {Missing, <<>>}}

DraftItem(licence, starter, solution, codes, difficulty) ==
    [kind |-> "coding", status |-> "draft", published |-> FALSE, source_license |-> licence, skills |-> {},
     difficulty |-> difficulty, grading_mode |-> "unit_tests", starter_code |-> starter, solution_code |-> solution,
     test_cases |-> CasesOf(codes)]

RowItem(spec, row, codes, difficulty) ==
    IF RowProblems(spec, row, codes) # {} THEN [problems |-> RowProblems(spec, row, codes)]
    ELSE LET starter == StrOr(row, spec.starter)
         IN  [item |-> DraftItem(spec.licence, IF BlankSource(starter) THEN Missing ELSE starter,
                                 SolutionFor(spec, starter, StrOr(row, "solution")), codes, difficulty)]

IMPORTED_DIFFICULTY == 3
DifficultyOr(default) == IF default = Missing THEN IMPORTED_DIFFICULTY ELSE default

(* A line is a row or, where it is not a JSON object, Missing.  A file in  *)
(* which no line is a row is refused whole.                                *)
ReadJsonlDataset(dataset, rows, default) ==
    IF \A i \in DOMAIN rows : rows[i] = Missing THEN Missing
    ELSE [i \in DOMAIN rows |->
             IF rows[i] = Missing THEN [problems |-> {""}]
             ELSE RowItem(DATASET_SPECS[dataset], rows[i], AssertionsOf(DATASET_SPECS[dataset], rows[i]),
                          DifficultyOr(default))]

-----------------------------------------------------------------------------
(* exercism.ts.  An entry is a file of a directory, in the archive's       *)
(* order; slugs are numbers, and slug 0 is a path that is no exercise's.   *)
Slugs(entries) == {e.slug : e \in {entries[i] : i \in DOMAIN entries}} \ {0}

(* exercisesIn: in the order of the slugs, whatever the archive's. *)
ExercisesIn(entries) ==
    [n \in 1 .. Cardinality(Slugs(entries)) |->
        LET slug == CHOOSE s \in Slugs(entries) : Cardinality({t \in Slugs(entries) : t <= s}) = n
        IN  SelectSeq(entries, LAMBDA e : e.slug = slug)]

FindFile(files, names) ==
    LET at == SelectInSeq(files, LAMBDA f : f.name \in names)
    IN  IF at = 0 THEN Missing ELSE files[at].content

ExerciseParts(files) ==
    [instructions |-> FindFile(files, {"instructions"}), example |-> FindFile(files, {"example", "exemplar"}),
     tests |-> FindFile(files, {"tests"})]

CaseHeader == SourceLine(0, <<"class">>)

(* A case is the file's preamble, a class header, and one method. *)
MethodCodes(split) == [n \in DOMAIN split.methods |-> split.preamble \o <<CaseHeader>> \o split.methods[n].code]

(* Neither an item nor a problem: the directory is no exercise. *)
ExerciseItem(files, difficulty) ==
    LET parts == ExerciseParts(files)
        absent == {p \in DOMAIN parts : parts[p] = Missing}
        codes == IF parts.tests = Missing THEN <<>> ELSE MethodCodes(SplitTestMethods(parts.tests))
    IN  IF absent = DOMAIN parts THEN [problems |-> {}]
        ELSE IF absent # {} THEN [problems |-> absent]
        ELSE IF codes = <<>> THEN [problems |-> {"tests"}]
        ELSE [item |-> DraftItem("MIT", FindFile(files, {"stub"}), parts.example, codes, difficulty)]

ReadExercismTrack(entries, default) ==
    LET exercises == ExercisesIn(entries)
        read == [n \in DOMAIN exercises |-> ExerciseItem(exercises[n], DifficultyOr(default))]
    IN  IF \A n \in DOMAIN read : read[n] = [problems |-> {}] THEN Missing ELSE read

-----------------------------------------------------------------------------
(* What an importer may rely on.                                           *)

\* No line of the block ends in a backslash, after which the scanner believes
\* itself inside a bracket until one too many closes, and finds no boundary.
NoContinuation(lines) == \A i \in DOMAIN lines : BlankLine(lines[i]) \/ lines[i].chars[Len(lines[i].chars)] # "bs"

Written(lines) == SelectSeq(lines, LAMBDA line : ~BlankLine(line))

LinesOf(sources) == FlattenSeq(sources)
LineBefore(preamble, sources, n) == Len(preamble) + Len(LinesOf(SubSeq(sources, 1, n - 1)))

\* A block that was put together from statements is cut only where one of
\* them begins, and every line of it is in some case; and it comes apart into
\* just those statements unless a line of it is continued by a backslash.
StatementsComeApart(preamble, statements) ==
    \A block \in {preamble \o LinesOf(statements)} : \A split \in {SplitAssertions(block)} :
        /\ \A a \in DOMAIN split.assertions : \E n \in DOMAIN statements :
              split.assertions[a].line = LineBefore(preamble, statements, n) + 1
        /\ Written(split.preamble \o LinesOf([a \in DOMAIN split.assertions |-> split.assertions[a].code]))
              = Written(block)
        /\ NoContinuation(block) => split =
            [preamble |-> TrimmedEnd(preamble),
             assertions |-> [n \in DOMAIN statements |->
                 [code |-> TrimmedEnd(statements[n]), line |-> LineBefore(preamble, statements, n) + 1]]]

\* And a test class into its methods.
MethodsComeApart(preamble, methods) ==
    \A source \in {preamble \o <<SourceLine(0, <<"class", "(", ")">>)>> \o LinesOf(methods)} :
        SplitTestMethods(source) =
            [preamble |-> TrimmedEnd(preamble), class |-> Len(preamble) + 1,
             methods |-> [n \in DOMAIN methods |->
                 [code |-> TrimmedEnd(methods[n]), line |-> LineBefore(preamble, methods, n) + 2]]]

\* An imported question is a draft, every case of it holds some source and
\* at most one is shown.  One with several cases has what publishing asks for:
\* a case that the candidate does not see.  Of a question with a single case
\* this says only that the case is hidden; and of no source that it runs.
ReadyForReview(item) ==
    LET hidden == {n \in DOMAIN item.test_cases : ~item.test_cases[n].is_sample}
        bare == {n \in DOMAIN item.test_cases : BlankSource(item.test_cases[n].assertion_code)}
        content == [Blank EXCEPT !.spec = [mode |-> item.grading_mode, fixture |-> "none"],
                                 !.cases = [count |-> Len(item.test_cases), hidden |-> Cardinality(hidden),
                                            bare |-> Cardinality(bare)]]
    IN  /\ item.status = "draft" /\ ~item.published
        /\ bare = {}
        /\ Cardinality(DOMAIN item.test_cases \ hidden) <= 1
        /\ IF Len(item.test_cases) = 1 THEN hidden = {1}
           ELSE ValidateKindContent(item.kind, ShapeOfBankVersion(content), "publish") = {}

\* Every row of a file that is a dataset at all is imported or explained, and
\* what is wrong with one row changes nothing about another.
RowsStandAlone(dataset, rows, default) ==
    \A read \in {ReadJsonlDataset(dataset, rows, default)} : read # Missing => \A i \in DOMAIN rows :
        /\ IF "item" \in DOMAIN read[i] THEN ReadyForReview(read[i].item) ELSE read[i].problems # {}
        /\ \A alone \in {ReadJsonlDataset(dataset, <<rows[i]>>, default)} : alone # Missing => alone[1] = read[i]

\* The position an interrupted import resumes at means the same exercise in
\* whatever order the archive lists its files.
TrackOrderIsFixed(entries, default) ==
    \A reversed \in {Reverse(entries)} :
        /\ [n \in DOMAIN ExercisesIn(entries) |-> ExercisesIn(entries)[n][1].slug] =
              [n \in DOMAIN ExercisesIn(reversed) |-> ExercisesIn(reversed)[n][1].slug]
        /\ \A read \in {ReadExercismTrack(entries, default)} : read # Missing =>
              \A n \in DOMAIN read : "item" \in DOMAIN read[n] => ReadyForReview(read[n].item)
=============================================================================
