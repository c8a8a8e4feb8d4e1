----------------------------- MODULE Interchange -----------------------------
(***************************************************************************)
(* The two files a bank crosses an organisation boundary in: the JSON bank *)
(* document and the QTI package.  A text is a sequence of characters, of   *)
(* which the formats tell these apart: a tab, a line feed, a carriage      *)
(* return, the NUL that no bank stores, and everything else.  A written    *)
(* element is what it holds; how tags and attributes are spelled is left   *)
(* out, what the parser does to them is not.                               *)
(***************************************************************************)
EXTENDS QuestionContract, SequencesExt

-----------------------------------------------------------------------------
(* xml.ts.  A text that XML cannot carry is written in base64, which the   *)
(* parser has no reason to touch.                                          *)
NeedsEncoding(t) == \E i \in DOMAIN t : t[i] \in {"cr", "nul"}

TextElement(t) == [encoded |-> NeedsEncoding(t), raw |-> t]
OptionalElement(t) == IF t = Missing THEN Missing ELSE TextElement(t)

(* The parser: a line ends in a line feed, and white space in an attribute *)
(* is spaces.                                                              *)
ParsedText(t) == [i \in DOMAIN t |-> IF t[i] = "cr" THEN "lf" ELSE t[i]]
ParsedAttribute(t) == [i \in DOMAIN t |-> IF t[i] \in {"tab", "lf", "cr"} THEN "space" ELSE t[i]]

TextOf(e) == IF e.encoded THEN e.raw ELSE ParsedText(e.raw)
OptionalText(e) == IF e = Missing THEN Missing ELSE TextOf(e)

BlankText(t) == \A i \in DOMAIN t : t[i] \in {"tab", "lf", "cr", "space"}

-----------------------------------------------------------------------------
(* bank-item.ts.  What an importer holds one item to.                      *)

\* The texts of a version, whichever are there.
SpecTexts(s) ==
    IF s = Missing THEN {}
    ELSE Range(s.allowed_languages) \cup {s.checker_code, s.fixture_sql} \cup
         UNION {DOMAIN files \cup Range(files) : files \in {s.starter_code, s.solution_code}}
CaseTexts(c) ==
    {c.label, c.stdin, c.expected_stdout, c.assertion_code} \cup (IF c.args = Missing THEN {} ELSE Range(c.args))
TextsOf(v) ==
    {v.locale, v.prompt_md, v.explanation_md} \cup SpecTexts(v.coding_spec) \cup
    UNION {{o.body_md, o.rationale_md} : o \in Range(v.options)} \cup
    UNION {CaseTexts(c) : c \in Range(v.test_cases)} \cup {k.pattern : k \in Range(v.answer_keys)}

(* unstorableStrings *)
Unstorable(item) ==
    \E t \in ({item.source_license, item.external_ref} \cup
               UNION {TextsOf(v) : v \in Range(item.versions)}) \ {Missing} : "nul" \in Range(t)

SchemaProblems(item) ==
    {p \in {"", "version_no", "prompt_md", "skills", "status"} :
        \/ p = "" /\ Unstorable(item)
        \/ p = "version_no" /\ \E i \in 2 .. Len(item.versions) :
                                  item.versions[i].version_no <= item.versions[i - 1].version_no
        \/ p = "prompt_md" /\ \E v \in Range(item.versions) : v.prompt_md = <<>>
        \/ p = "skills" /\ Cardinality({s.key : s \in Range(item.skills)}) # Len(item.skills)
        \/ p = "status" /\ (item.status \in {"published", "retired"})
                              # (\E v \in Range(item.versions) : v.published)}

Fixture(t) == IF t \in {Missing, <<>>} THEN "none" ELSE IF BlankText(t) THEN "blank" ELSE "script"

BankContent(v) ==
    [prompt |-> 0,
     options |-> [count |-> Len(v.options), correct |-> Len(SelectSeq(v.options, LAMBDA o : o.is_correct))],
     spec |-> IF v.coding_spec = Missing THEN NoSpec
              ELSE [mode |-> IF v.coding_spec.grading_mode = "unit_tests" THEN "unit_tests" ELSE "test_cases",
                    fixture |-> Fixture(v.coding_spec.fixture_sql)],
     cases |-> [count |-> Len(v.test_cases),
                hidden |-> Len(SelectSeq(v.test_cases, LAMBDA c : ~c.is_sample)),
                bare |-> Len(SelectSeq(v.test_cases,
                                LAMBDA c : c.assertion_code = Missing \/ BlankText(c.assertion_code)))],
     keys |-> Len(v.answer_keys)]

KindProblems(item) ==
    UNION {ValidateKindContent(item.kind, ShapeOfBankVersion(BankContent(v)),
                               IF v.published THEN "publish" ELSE "draft") : v \in Range(item.versions)}

(* checkBankItem: the rule about kinds is asked only of what has the shape. *)
CheckedItem(item) ==
    IF SchemaProblems(item) # {} THEN [problems |-> SchemaProblems(item)]
    ELSE IF KindProblems(item) # {} THEN [problems |-> KindProblems(item)]
    ELSE [item |-> item]

Accepted(checked) == "item" \in DOMAIN checked

(* Of the items that share a ref the first that is accepted stands.  Both  *)
(* readers work through the file like this; seen holds accepted refs only. *)
FirstOfRef(checked) ==
    [i \in DOMAIN checked |->
        IF /\ Accepted(checked[i])
           /\ \E j \in 1 .. i - 1 : Accepted(checked[j]) /\ checked[j].item.ref = checked[i].item.ref
        THEN [problems |-> {"ref"}] ELSE checked[i]]

(* The last published version, or the last of all when none is.            *)
ServedOrLatest(item) ==
    LET published == SelectSeq(item.versions, LAMBDA v : v.published)
    IN  IF published # <<>> THEN published[Len(published)] ELSE item.versions[Len(item.versions)]

-----------------------------------------------------------------------------
(* records.ts.  Identifiers, instants and authors stay behind.             *)
BankScalars == {"locale", "prompt_md", "explanation_md", "difficulty", "est_seconds", "max_score", "negative_score"}

ToBankOption(o) == Pick(o, OptionFields \ {"id", "ordinal"})
ToBankCase(c) == Pick(c, CaseFields \ {"id", "ordinal"})
ToBankKey(k) == Pick(k, KeyFields \ {"id"})

ToBankVersion(record) ==
    [version_no |-> record.version_no,
     published |-> record.published_at # Missing,
     options |-> Each(ToBankOption, record.options),
     coding_spec |-> IF record.coding_spec = Missing THEN Missing ELSE Pick(record.coding_spec, SpecFields),
     test_cases |-> Each(ToBankCase, record.test_cases),
     answer_keys |-> Each(ToBankKey, record.answer_keys)] @@ Pick(record, BankScalars)

(* Nothing is merged or defaulted; the importer numbers and publishes. *)
ToVersionContent(v) == Pick(v, BankScalars \cup Collections)

-----------------------------------------------------------------------------
(* bank-document.ts.                                                       *)
BANK_FORMAT_VERSION == 1

Credited(item) == item.source_license \notin {Missing, <<"proprietary">>}

(* The part of external_ref before the first slash. *)
DatasetOf(item) ==
    IF item.external_ref = Missing THEN Missing
    ELSE LET slash == SelectInSeq(item.external_ref, LAMBDA c : c = "/")
         IN  IF slash = 0 THEN item.external_ref ELSE SubSeq(item.external_ref, 1, slash - 1)

AttributionsOf(items) ==
    LET of(item) == [source_license |-> item.source_license, dataset |-> DatasetOf(item)]
        credited == SelectSeq(items, Credited)
    IN  {[licence |-> l, items |-> Len(SelectSeq(credited, LAMBDA i : of(i) = l))] : l \in {of(i) : i \in Range(credited)}}

BuildBankDocument(items) ==
    [format |-> "assaybank.bank", format_version |-> BANK_FORMAT_VERSION,
     attributions |-> AttributionsOf(items), items |-> items]

(* Missing is an UnreadableDocumentError. *)
ReadBankDocument(document) ==
    IF \/ document.format # "assaybank.bank"
       \/ document.format_version # BANK_FORMAT_VERSION
       \/ document.items = Missing
    THEN Missing
    ELSE FirstOfRef(Each(CheckedItem, document.items))

-----------------------------------------------------------------------------
(* qti.ts, writing.                                                        *)

(* partitionAnswerKeys: a key that a mapEntry can carry, and none before   *)
(* it has the same pattern.                                                *)
Carriable(key) ==
    /\ key.match_type \in {"exact", "ci"} /\ key.tolerance = Missing
    /\ ~NeedsEncoding(key.pattern) /\ Range(key.pattern) \cap {"tab", "lf"} = {}

MappedPositions(keys) ==
    {i \in DOMAIN keys :
        Carriable(keys[i]) /\ \A j \in 1 .. i - 1 : Carriable(keys[j]) => keys[j].pattern # keys[i].pattern}

Positions(keys, S) == SelectSeq([i \in DOMAIN keys |-> i], LAMBDA i : i \in S)

MapEntry(key, value, caseSensitive) == [mapKey |-> key, mappedValue |-> value, caseSensitive |-> caseSensitive]

(* responseDeclaration: a choice is named by its place. *)
ResponseDeclaration(kind, v) ==
    LET overridden == {i \in DOMAIN v.options : v.options[i].score_delta # Missing}
        deltas == Positions(v.options, overridden)
        mapped == Positions(v.answer_keys, MappedPositions(v.answer_keys))
    IN  [correct |-> IF kind \in Choice THEN {i \in DOMAIN v.options : v.options[i].is_correct} ELSE {},
         mapping |-> IF kind \in Choice
                     THEN [n \in DOMAIN deltas |-> MapEntry(deltas[n], v.options[deltas[n]].score_delta, Missing)]
                     ELSE IF kind = "short_answer"
                     THEN [n \in DOMAIN mapped |->
                              MapEntry(v.answer_keys[mapped[n]].pattern, v.answer_keys[mapped[n]].score,
                                       v.answer_keys[mapped[n]].match_type = "exact")]
                     ELSE <<>>]

Interaction(kind, v) ==
    CASE kind \in Choice ->
            [name |-> "choice", maxChoices |-> IF kind = "mcq_multi" THEN 0 ELSE 1,
             choices |-> [i \in DOMAIN v.options |-> TextElement(v.options[i].body_md)]]
      [] kind = "short_answer" -> [name |-> "textEntry"]
      [] OTHER -> [name |-> "extendedText"]

ResponseProcessing(kind, v) ==
    CASE kind \in Choice /\ \A o \in Range(v.options) : o.score_delta = Missing -> "match_correct"
      [] kind \in Choice \cup {"short_answer"} -> "map_response"
      [] OTHER -> Missing

WriteQtiItem(kind, v) ==
    [lang |-> v.locale, response |-> ResponseDeclaration(kind, v), normalMaximum |-> v.max_score,
     prompt |-> TextElement(v.prompt_md), parts |-> <<>>, interaction |-> Interaction(kind, v),
     processing |-> ResponseProcessing(kind, v), explanation |-> OptionalElement(v.explanation_md),
     rationales |-> [i \in DOMAIN v.options |-> OptionalElement(v.options[i].rationale_md)]]

CodeFiles(files) == {[language |-> TextElement(l), source |-> TextElement(files[l])] : l \in DOMAIN files}

WriteCodingSpec(spec) ==
    [spec EXCEPT !.allowed_languages = Each(TextElement, @),
                 !.starter_code = CodeFiles(@), !.solution_code = CodeFiles(@),
                 !.checker_code = OptionalElement(@), !.fixture_sql = OptionalElement(@)]

WriteTestCase(c) ==
    [c EXCEPT !.label = OptionalElement(@), !.stdin = TextElement(@), !.expected_stdout = OptionalElement(@),
              !.args = IF @ = Missing THEN Missing ELSE Each(TextElement, @),
              !.assertion_code = OptionalElement(@)]

(* The keys that no mapEntry carries, each with its position. *)
WriteExtendedKeys(keys) ==
    LET extended == Positions(keys, DOMAIN keys \ MappedPositions(keys))
    IN  [n \in DOMAIN extended |->
            [keys[extended[n]] EXCEPT !.pattern = TextElement(@)] @@ [position |-> extended[n]]]

WriteExtension(item, v) ==
    [kind |-> item.kind, status |-> item.status, published |-> v.published, difficulty |-> v.difficulty,
     est_seconds |-> v.est_seconds, max_score |-> v.max_score, negative_score |-> v.negative_score,
     source_license |-> OptionalElement(item.source_license),
     external_ref |-> OptionalElement(item.external_ref), skills |-> item.skills,
     coding_spec |-> IF v.coding_spec = Missing THEN Missing ELSE WriteCodingSpec(v.coding_spec),
     test_cases |-> Each(WriteTestCase, v.test_cases), answer_keys |-> WriteExtendedKeys(v.answer_keys)]

(* One file for a ref: of two items with one ref the later is in the file. *)
WriteQtiPackage(items) ==
    [manifest |-> TRUE,
     resources |-> [i \in DOMAIN items |->
         [identifier |-> items[i].ref, href |-> items[i].ref,
          extension |-> WriteExtension(items[i], ServedOrLatest(items[i]))]],
     files |-> [r \in {item.ref : item \in Range(items)} |->
         LET last == Max({i \in DOMAIN items : items[i].ref = r})
         IN  WriteQtiItem(items[last].kind, ServedOrLatest(items[last]))]]

-----------------------------------------------------------------------------
(* qti.ts, reading.                                                        *)
PACKAGE_LIMITS == [maxEntries |-> 20000, maxEntryBytes |-> 16777216, maxTotalBytes |-> 268435456]

WithinLimits(sizes) ==
    /\ \A i \in DOMAIN sizes : sizes[i] <= PACKAGE_LIMITS.maxEntryBytes
    /\ FoldSeq(LAMBDA n, sum : n + sum, 0, sizes) <= PACKAGE_LIMITS.maxTotalBytes

(* The sizes the archive declares are checked before any file is inflated, *)
(* and the sizes of what came out after.                                   *)
UnzipPackage(declared, inflated) ==
    IF Len(declared) > PACKAGE_LIMITS.maxEntries \/ ~WithinLimits(declared) THEN "refused before"
    ELSE IF ~WithinLimits(inflated) THEN "refused after" ELSE "read"

ReadCodeFiles(nodes) ==
    [l \in {TextOf(n.language) : n \in nodes} |-> TextOf((CHOOSE n \in nodes : TextOf(n.language) = l).source)]

ReadCodingSpec(spec) ==
    IF spec = Missing THEN Missing
    ELSE [spec EXCEPT !.allowed_languages = Each(TextOf, @),
                      !.starter_code = ReadCodeFiles(@), !.solution_code = ReadCodeFiles(@),
                      !.checker_code = OptionalText(@), !.fixture_sql = OptionalText(@)]

ReadTestCase(c) ==
    [c EXCEPT !.label = OptionalText(@), !.stdin = TextOf(@), !.expected_stdout = OptionalText(@),
              !.args = IF @ = Missing THEN Missing ELSE Each(TextOf, @),
              !.assertion_code = OptionalText(@)]

(* Keys of the extension stand where they stood, mapped keys fill the gaps. *)
ReadAnswerKeys(mapping, extended) ==
    LET mappedKey(e) == [match_type |-> IF e.caseSensitive THEN "exact" ELSE "ci",
                         pattern |-> ParsedAttribute(e.mapKey), tolerance |-> Missing, score |-> e.mappedValue]
        extendedKey(e) == [Pick(e, {"match_type", "pattern", "tolerance", "score"}) EXCEPT !.pattern = TextOf(@)]
        placed == {e.position : e \in Range(extended)}
        gaps(p) == Cardinality((1 .. p) \ placed)
    IN  FlattenSeq([p \in 1 .. Len(mapping) + Len(extended) |->
            IF p \in placed THEN <<extendedKey(CHOOSE e \in Range(extended) : e.position = p)>>
            ELSE IF gaps(p) \in DOMAIN mapping THEN <<mappedKey(mapping[gaps(p)])>> ELSE <<>>])

ReadOptions(root) ==
    [i \in DOMAIN root.interaction.choices |->
        LET entries == {e \in Range(root.response.mapping) : e.mapKey = i} IN
        [body_md |-> TextOf(root.interaction.choices[i]),
         is_correct |-> i \in root.response.correct,
         score_delta |-> IF entries = {} THEN Missing ELSE (CHOOSE e \in entries : TRUE).mappedValue,
         rationale_md |-> OptionalText(root.rationales[i])]]

(* What a foreign body says in paragraphs and divisions, blank ones out. *)
ForeignPrompt(root) == FlattenSeq(SelectSeq(root.parts, LAMBDA t : ~BlankText(t)))

ForeignKind(root) ==
    CASE root.interaction.name = "choice" -> IF root.interaction.maxChoices = 1 THEN "mcq_single" ELSE "mcq_multi"
      [] root.interaction.name = "textEntry" -> "short_answer"
      [] root.interaction.name = "extendedText" -> "subjective"
      [] OTHER -> Missing

\* What a resource without Assaybank metadata is read with.
NoExtension(kind, difficulty) ==
    [kind |-> kind, status |-> "draft", published |-> FALSE, difficulty |-> difficulty, est_seconds |-> 120,
     max_score |-> Missing, negative_score |-> 0, source_license |-> Missing, external_ref |-> Missing,
     skills |-> <<>>,     coding_spec |-> Missing, test_cases |-> <<>>, answer_keys |-> <<>>]

MetadataOf(resource, root, default) ==
    IF resource.extension # Missing THEN resource.extension ELSE NoExtension(ForeignKind(root), default)

CandidateVersion(ext, root) ==
    [version_no |-> 1, published |-> ext.published,
     locale |-> IF root.lang = Missing THEN <<"e", "n">> ELSE ParsedAttribute(root.lang),
     prompt_md |-> IF root.prompt = Missing THEN ForeignPrompt(root) ELSE TextOf(root.prompt),
     explanation_md |-> OptionalText(root.explanation), difficulty |-> ext.difficulty,
     est_seconds |-> ext.est_seconds,
     max_score |-> IF ext.max_score # Missing THEN ext.max_score ELSE Num(root.normalMaximum, 1),
     negative_score |-> ext.negative_score,
     options |-> IF ext.kind \in Choice THEN ReadOptions(root) ELSE <<>>,
     coding_spec |-> ReadCodingSpec(ext.coding_spec),
     test_cases |-> Each(ReadTestCase, ext.test_cases),
     answer_keys |-> IF ext.kind = "short_answer" THEN ReadAnswerKeys(root.response.mapping, ext.answer_keys) ELSE <<>>]

(* candidateItem, then checkBankItem. *)
ReadItem(resource, root, default) ==
    LET ext == MetadataOf(resource, root, default) IN
    IF ext.kind = Missing \/ ext.difficulty = Missing THEN [problems |-> {""}]
    ELSE CheckedItem([ref |-> resource.identifier, kind |-> ext.kind, status |-> ext.status,
                      source_license |-> OptionalText(ext.source_license),
                      external_ref |-> OptionalText(ext.external_ref), skills |-> ext.skills,
                      versions |-> <<CandidateVersion(ext, root)>>])

ReadResource(package, resource, default) ==
    IF \/ resource.href \in {"", "/root", "../up"} \/ resource.href \notin DOMAIN package.files
       \/ package.files[resource.href] = Missing
    THEN [problems |-> {""}]
    ELSE ReadItem(resource, package.files[resource.href], default)

(* Missing is an UnreadablePackageError: no manifest, or not XML. *)
ReadQtiPackage(package, default) ==
    IF ~package.manifest THEN Missing
    ELSE FirstOfRef([i \in DOMAIN package.resources |-> ReadResource(package, package.resources[i], default)])

-----------------------------------------------------------------------------
(* What an importer may rely on.                                           *)

Renumbered(item) == [item EXCEPT !.versions = <<[ServedOrLatest(item) EXCEPT !.version_no = 1]>>]

\* A document gives back every item it holds, whole, or says what is wrong
\* with it; of a repeated ref the first is kept.
DocumentRoundTrips(items) ==
    \A read \in {ReadBankDocument(BuildBankDocument(items))} : \A i \in DOMAIN items :
        IF CheckedItem(items[i]) = [item |-> items[i]] /\ \A j \in 1 .. i - 1 : read[j] # [item |-> items[j]] \/ items[j].ref # items[i].ref
        THEN read[i] = [item |-> items[i]]
        ELSE ~Accepted(read[i]) /\ read[i].problems # {}

\* Every item that must be credited is counted under one licence and dataset.
EveryCreditCounted(items) ==
    MapThenSumSet(LAMBDA a : a.items, AttributionsOf(items)) = Len(SelectSeq(items, Credited))

\* What the database stored of the served version is what an import writes
\* after a package has carried it, whatever its texts are made of; and another
\* tool is told to mark by the mapping whenever there is one.
PackageRoundTrips(item, stored) ==
    \A other \in {[item EXCEPT !.ref = "other"]} :
    \A package \in {WriteQtiPackage(<<other, item>>)} :
    \A read \in {ReadQtiPackage(package, Missing)} :
        /\ read = <<[item |-> Renumbered(other)], [item |-> Renumbered(item)]>>
        /\ ToVersionContent(read[2].item.versions[1]) = ToVersionContent(ToBankVersion(stored))
        /\ package.files[item.ref].response.mapping # <<>> => package.files[item.ref].processing = "map_response"

\* One broken resource costs the package nothing, and what comes from another
\* tool is a draft of a difficulty somebody chose.
BrokenResourceIsAlone(item, fault, default) ==
    \A package \in {WriteQtiPackage(<<item, [item EXCEPT !.ref = "other"]>>)} :
    \A read \in {ReadQtiPackage(
            CASE fault \in {"", "../up", "gone"} -> [package EXCEPT !.resources[1].href = fault]
              [] fault = "malformed" -> [package EXCEPT !.files[item.ref] = Missing]
              [] fault = "repeated" -> [package EXCEPT !.resources[1].identifier = "other"]
              [] fault = "foreign" -> [package EXCEPT !.resources[1].extension = Missing,
                                                            !.files[item.ref].prompt = Missing,
                                                            !.files[item.ref].parts = <<<<"tab">>, <<"x">>>>], default)} :
        /\ fault # "repeated" => read[2] = [item |-> Renumbered([item EXCEPT !.ref = "other"])]
        /\ fault = "repeated" => Accepted(read[1]) /\ ~Accepted(read[2])
        /\ fault \notin {"repeated", "foreign"} => ~Accepted(read[1])
        /\ fault = "foreign" => /\ Accepted(read[1]) <=> default # Missing
                                /\ Accepted(read[1]) => /\ read[1].item.status = "draft"
                                                        /\ ~read[1].item.versions[1].published
                                                        /\ read[1].item.versions[1].difficulty = default

\* An archive is read when neither what it declares nor what it holds is too
\* large, and nothing is inflated of one that declares too much.
OnlySmallArchives(declared, inflated) ==
    /\ UnzipPackage(declared, inflated) = "read" => WithinLimits(inflated)
    /\ UnzipPackage(declared, inflated) = "refused after" => WithinLimits(declared) /\ ~WithinLimits(inflated)
=============================================================================
