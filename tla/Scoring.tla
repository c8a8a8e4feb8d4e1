------------------------------ MODULE Scoring ------------------------------
(***************************************************************************)
(* packages/grading: comparing an answer with its key, marking a multiple  *)
(* choice, adding up, and the item statistics the nightly job computes.    *)
(*                                                                         *)
(* A text is its lines and how they end; a line is its words and whether   *)
(* it is padded; a word is what it says, its case and the number it reads  *)
(* as.  A pattern is whether it compiles, its flags and the normalised     *)
(* texts it matches.  Marks are whole numbers, scores millionths; Missing  *)
(* stands for the RangeError a malformed argument is answered with.        *)
(***************************************************************************)
EXTENDS Absent, Integers, Sequences, FiniteSets, SequencesExt

GRADING_MODES == {"exact", "trimmed", "case_insensitive", "numeric_tolerance", "regex"}
ALLOWED_REGEX_FLAGS == {"i", "m", "s", "u"}
MAX_PATTERN_LENGTH == 4096
ASSUME ScoringConstants == Missing \notin Int

(* One kind of line ending, no padding, no empty lines at either end. *)
Normalise(text) ==
    LET words == [i \in DOMAIN text.lines |-> text.lines[i].words]
        full == {i \in DOMAIN words : words[i] # <<>>}
    IN  IF full = {} THEN <<>>
        ELSE SubSeq(words, CHOOSE i \in full : \A j \in full : i <= j,
                           CHOOSE i \in full : \A j \in full : i >= j)

Lower(lines) == [i \in DOMAIN lines |-> [k \in DOMAIN lines[i] |-> [lines[i][k] EXCEPT !.upper = FALSE]]]
Tokenise(text) == FlattenSeq(Normalise(text))

Outcome(mode, reason) == [passed |-> reason = "match", mode |-> mode, reason |-> reason]
MatchVerdict(mode, matches) == Outcome(mode, IF matches THEN "match" ELSE "mismatch")

Magnitude(n) == IF n < 0 THEN -n ELSE n

(* The relative tolerance is in hundredths of the larger magnitude. *)
WithinTolerance(expected, actual, absolute, relative) ==
    LET difference == Magnitude(expected - actual)
        larger == IF Magnitude(expected) > Magnitude(actual) THEN Magnitude(expected) ELSE Magnitude(actual)
    IN  \/ difference <= absolute
        \/ relative > 0 /\ 100 * difference <= relative * larger

(* Token by token; the first one that fails says why. *)
CompareNumeric(expected, actual, options) ==
    LET e == Tokenise(expected)
        a == Tokenise(actual)
        Fault(i) == IF e[i].number = Missing \/ a[i].number = Missing THEN "not_a_number"
                    ELSE IF WithinTolerance(e[i].number, a[i].number, options.absolute, options.relative)
                    THEN "match" ELSE "mismatch"
        faults == {i \in DOMAIN e : Fault(i) # "match"}
    IN  Outcome("numeric_tolerance",
            IF options.absolute < 0 \/ options.relative < 0 THEN "invalid_tolerance"
            ELSE IF Len(e) # Len(a) THEN "length_mismatch"
            ELSE IF faults = {} THEN "match"
            ELSE Fault(CHOOSE i \in faults : \A j \in faults : i <= j))

CompareRegex(pattern, actual) ==
    IF \/ pattern.length \notin 1 .. MAX_PATTERN_LENGTH
       \/ ~IsInjective(pattern.flags) \/ ToSet(pattern.flags) \ ALLOWED_REGEX_FLAGS # {}
       \/ ~pattern.compiles
    THEN Outcome("regex", "invalid_pattern")
    ELSE MatchVerdict("regex", Normalise(actual) \in pattern.matches)

CompareCase(mode, expected, actual, options) ==
    CASE mode = "exact" -> MatchVerdict(mode, expected = actual)
      [] mode = "trimmed" -> MatchVerdict(mode, Normalise(expected) = Normalise(actual))
      [] mode = "case_insensitive" ->
            MatchVerdict(mode, Lower(Normalise(expected)) = Lower(Normalise(actual)))
      [] mode = "numeric_tolerance" -> CompareNumeric(expected, actual, options)
      [] mode = "regex" -> CompareRegex(expected, actual)

----------------------------------------------------------------------------
(* Six places, halves away from zero. *)
RoundScore(n, d) ==
    IF n < 0 THEN -((2 * (-n) * 1000000 + d) \div (2 * d)) ELSE (2 * n * 1000000 + d) \div (2 * d)

Clamp(n, low, high) == IF n < low THEN low ELSE IF n > high THEN high ELSE n

(* Nothing chosen is no marks, never a penalty; duplicates count once. *)
GradeMcq(selected, correct, options) ==
    LET right == ToSet(correct)
        chosen == ToSet(selected)
        hits == Cardinality(chosen \cap right)
        misses == Cardinality(chosen \ right)
        size == Cardinality(right)
        penalty == options.negative * misses * size
        raw == options.max * hits - penalty
    IN  IF right = {} \/ options.max < 0 \/ options.negative < 0 THEN Missing
        ELSE IF chosen = {} THEN 0
        ELSE IF ~options.partial
        THEN IF misses = 0 /\ hits = size THEN RoundScore(options.max, 1)
             ELSE IF options.allowNegative THEN RoundScore(-options.negative, 1) ELSE 0
        ELSE RoundScore(Clamp(raw, IF options.allowNegative THEN raw ELSE 0, options.max * size), size)

(* Every key is validated before any is compared; then the first that      *)
(* matches decides, whatever a later one would give.                       *)
GradeShortAnswer(answer, keys, maxScore) ==
    LET hits == {i \in DOMAIN keys :
                    CompareCase(keys[i].mode, keys[i].expected, answer, keys[i].options).passed}
        first == CHOOSE i \in hits : \A j \in hits : i <= j
        worth == IF keys[first].score = Missing \/ keys[first].score > maxScore
                 THEN maxScore ELSE keys[first].score
    IN  IF maxScore < 0 \/ \E i \in DOMAIN keys : keys[i].score # Missing /\ keys[i].score < 0 THEN Missing
        ELSE IF hits = {} THEN 0
        ELSE RoundScore(worth, 1)

(* No weight may be negative, and no evidence is no marks. *)
Weighted(values, weights) ==
    LET Pick(i) == values[i] * weights[i]
        total == FoldSeq(LAMBDA w, sum : w + sum, 0, weights)
        earned == FoldSeq(LAMBDA n, sum : n + sum, 0, [i \in DOMAIN values |-> Pick(i)])
    IN  IF \E i \in DOMAIN weights : weights[i] < 0 THEN Missing
        ELSE IF total = 0 THEN 0
        ELSE RoundScore(earned, total)

ScoreSubmission(results, weights) ==
    IF Len(results) # Len(weights) THEN Missing
    ELSE Weighted([i \in DOMAIN results |-> IF results[i].passed THEN 1 ELSE 0], weights)

WeightedTotal(sections) ==
    Weighted([i \in DOMAIN sections |-> sections[i].score], [i \in DOMAIN sections |-> sections[i].weight])

----------------------------------------------------------------------------
(* Item statistics, once enough usable responses are in: the mean          *)
(* proportion, the mean time, and the correlation of the item with the     *)
(* rest of the paper, here the three sums it is made of.                   *)
ComputeItemStatistics(responses, minimum) ==
    LET usable == SelectSeq(responses, LAMBDA r : r.max > 0)
        n == Len(usable)
        Sum(Of(_)) == FoldSeq(LAMBDA r, sum : Of(r) + sum, 0, usable)
        scale == FoldSeq(LAMBDA r, product : r.max * product, 1, usable)
        Share(r) == r.score * (scale \div r.max)
        Rest(r) == r.total - r.score
        sxy == n * Sum(LAMBDA r : Share(r) * Rest(r)) - Sum(Share) * Sum(Rest)
        sxx == n * Sum(LAMBDA r : Share(r) * Share(r)) - Sum(Share) * Sum(Share)
        syy == n * Sum(LAMBDA r : Rest(r) * Rest(r)) - Sum(Rest) * Sum(Rest)
    IN  IF n < minimum
        THEN [n |-> n, pValue |-> Missing, discrimination |-> Missing, meanSeconds |-> Missing]
        ELSE [n |-> n,
              pValue |-> (2 * Sum(Share) * 10000 + n * scale) \div (2 * n * scale),
              discrimination |-> IF sxx = 0 \/ syy = 0 THEN Missing ELSE [xy |-> sxy, xx |-> sxx, yy |-> syy],
              meanSeconds |-> (2 * Sum(LAMBDA r : r.seconds) * 100 + n) \div (2 * n)]

(* What the sweep reads: finalised attempts only, each answer with its     *)
(* attempt's total; and what it writes over: one row a version, whole.     *)
ReadItemResponses(answers) ==
    LET counted == {a \in answers : a.status = "finalised" /\ a.score # Missing}
        TotalOf(attempt) ==
            FoldSeq(LAMBDA a, sum : a.score + sum, 0, SetToSeq({a \in counted : a.attempt = attempt}))
    IN  {[version |-> a.version, attempt |-> a.attempt, score |-> a.score, max |-> a.max,
          total |-> TotalOf(a.attempt), seconds |-> a.seconds] : a \in counted}

UpsertQuestionStats(table, fresh) == fresh @@ table

----------------------------------------------------------------------------
(* Each looser mode accepts what a stricter one does, and every mode but   *)
(* the pattern is even-handed between key and answer.                      *)
ModesNest(a, b, options) ==
    LET Passes(mode) == CompareCase(mode, a, b, options).passed IN
    /\ Passes("exact") => Passes("trimmed")
    /\ Passes("trimmed") => Passes("case_insensitive")
    /\ \A mode \in GRADING_MODES \ {"regex"} :
          CompareCase(mode, b, a, options).passed = Passes(mode)

(* Full marks for exactly the right options and nothing else, unless       *)
(* nothing is at stake; never above the maximum, below zero only where     *)
(* that is allowed, and never for an answer left blank.                    *)
McqFair(selected, correct, options) ==
    LET mark == GradeMcq(selected, correct, options) IN
    mark # Missing =>
        /\ mark <= RoundScore(options.max, 1)
        /\ mark < 0 => options.allowNegative /\ selected # <<>>
        /\ options.max > 0 =>
              ((mark = RoundScore(options.max, 1)) <=> (ToSet(selected) = ToSet(correct)
                  \/ (options.partial /\ options.negative = 0 /\ ToSet(correct) \subseteq ToSet(selected))))

(* A short answer is marked unless the maximum or a key, matched or not,   *)
(* is malformed; the mark is between nothing and the maximum, and          *)
(* something only where a key matches it.                                  *)
ShortAnswerFair(answer, keys, maxScore) ==
    LET mark == GradeShortAnswer(answer, keys, maxScore)
        malformed == maxScore < 0 \/ \E i \in DOMAIN keys : keys[i].score # Missing /\ keys[i].score < 0
    IN  /\ mark = Missing <=> malformed
        /\ mark # Missing =>
              /\ mark \in 0 .. RoundScore(maxScore, 1)
              /\ mark > 0 => \E i \in DOMAIN keys :
                    CompareCase(keys[i].mode, keys[i].expected, answer, keys[i].options).passed

(* A weighted mean lies between the values it is of, however they are      *)
(* weighted; a value of no weight is carried and changes nothing; and a    *)
(* case that passes never costs a submission anything.                     *)
MeansAreFair(results, scores, weights) ==
    LET sections == [i \in DOMAIN scores |-> [score |-> scores[i], weight |-> weights[i]]]
        total == WeightedTotal(sections)
        share == ScoreSubmission(results, weights)
        heavy == {i \in DOMAIN weights : weights[i] > 0}
    IN  /\ (total = Missing) <=> \E i \in DOMAIN weights : weights[i] < 0
        /\ (share = Missing) <=> total = Missing \/ Len(results) # Len(weights)
        /\ total # Missing =>
              /\ heavy = {} => total = 0
              /\ heavy # {} => \E i, j \in heavy : RoundScore(scores[i], 1) <= total /\ total <= RoundScore(scores[j], 1)
              /\ WeightedTotal(SelectSeq(sections, LAMBDA s : s.weight > 0)) = total
        /\ share # Missing =>
              /\ share \in 0 .. 1000000
              /\ \A i \in DOMAIN results : ScoreSubmission([results EXCEPT ![i].passed = TRUE], weights) >= share

(* What the sweep computes from the answers of finalised attempts is a     *)
(* statistic: a mean proportion, and a correlation no larger than one.     *)
(* A version nobody answered in a finalised attempt keeps its old row.     *)
ItemStatisticsSane(answers, table) ==
    LET responses == ReadItemResponses(answers)
        versions == {r.version : r \in responses}
        stats == [v \in versions |->
                     ComputeItemStatistics(SetToSeq({r \in responses : r.version = v}), 2)]
    IN  /\ \A v \in versions :
              /\ stats[v].n <= Cardinality({a \in answers : a.version = v /\ a.status = "finalised"})
              /\ stats[v].pValue # Missing => stats[v].pValue \in 0 .. 10000
              /\ LET d == stats[v].discrimination IN d # Missing => d.xy * d.xy <= d.xx * d.yy
        /\ \A v \in DOMAIN table \ versions : UpsertQuestionStats(table, stats)[v] = table[v]
=============================================================================
