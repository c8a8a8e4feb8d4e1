------------------------------- MODULE Papers -------------------------------
(***************************************************************************)
(* From a role to a paper: composing rules from the role's skills          *)
(* (core-domain/src/compose.ts), asking the bank whether it can supply     *)
(* them (db/src/assessments.ts, api/src/assessments/routes.ts), and        *)
(* drawing the questions (core-domain/src/draw.ts, shuffle.ts).            *)
(*                                                                         *)
(* Weights are whole numbers, so shares and remainders are exact.  A draw  *)
(* of the injected generator is a number of Quarters.                      *)
(***************************************************************************)
EXTENDS Absent, Integers, Sequences, FiniteSets, SequencesExt

Total(numbers) == FoldSeq(LAMBDA n, sum : n + sum, 0, numbers)

SCORE_PER_QUESTION == 1
DEFAULT_SECONDS_PER_QUESTION == 300
DEFAULT_QUESTIONS_PER_SKILL == 2
MAX_QUESTION_COUNT == 100
MIN_DIFFICULTY == 1
MAX_DIFFICULTY == 5

----------------------------------------------------------------------------
(* Largest remainder: whole shares first, what is left to the largest      *)
(* fractions, the earlier skill on a tie.                                  *)
Shares(total, weights, ByRank(_, _, _)) ==
    LET sum == Total(weights)
        whole == [i \in DOMAIN weights |-> (weights[i] * total) \div sum]
        part == [i \in DOMAIN weights |-> (weights[i] * total) % sum]
        rank == [i \in DOMAIN weights |->
                    Cardinality({j \in DOMAIN weights :
                        part[j] > part[i] \/ (part[j] = part[i] /\ j < i)})]
    IN  IF sum <= 0 THEN [i \in DOMAIN weights |-> 0]
        ELSE [i \in DOMAIN weights |-> whole[i] + ByRank(rank[i], total - Total(whole), part[i])]

(* Mutant of AllocateByWeight: each share is rounded on its own. *)
AllocateByRounding(total, weights) ==
    Shares(total, weights, LAMBDA rank, left, part : IF 2 * part >= Total(weights) THEN 1 ELSE 0)

AllocateByWeight(total, weights) ==
    Shares(total, weights, LAMBDA rank, left, part : IF rank < left THEN 1 ELSE 0)

(* One question for each required skill, the spare ones by weight. *)
ComposeFromRole(skills, options) ==
    LET required == SelectSeq(skills, LAMBDA s : s.required)
        count == options.questionCount
        extra == AllocateByWeight(count - Len(required), [i \in DOMAIN required |-> required[i].weight])
    IN  IF \/ required = <<>> \/ count <= 0 \/ count < Len(required)
           \/ \E i \in DOMAIN required : required[i].weight <= 0
        THEN Missing
        ELSE [rules |-> [i \in DOMAIN required |->
                 [pickCount |-> 1 + extra[i], skills |-> {required[i].skill}, kinds |-> options.kinds,
                  min |-> IF required[i].min = Missing THEN MIN_DIFFICULTY ELSE required[i].min,
                  max |-> IF required[i].max = Missing THEN MAX_DIFFICULTY ELSE required[i].max,
                  excludeSeenDays |-> options.excludeSeenDays,
                  score |-> SCORE_PER_QUESTION]],
              totalScore |-> count * SCORE_PER_QUESTION]

(* Two a required skill, within the cap, when the caller did not say. *)
DefaultQuestionCount(skills) ==
    LET wanted == DEFAULT_QUESTIONS_PER_SKILL * Len(SelectSeq(skills, LAMBDA s : s.required))
        atLeastOne == IF wanted < 1 THEN 1 ELSE wanted
    IN  IF atLeastOne > MAX_QUESTION_COUNT THEN MAX_QUESTION_COUNT ELSE atLeastOne

(* What the bank holds for a rule: it knows no candidate, so what one has  *)
(* seen is not counted out.                                                *)
CountAvailable(bank, rule) ==
    Cardinality({q \in bank :
        /\ q.status = "published" /\ ~q.archived
        /\ q.skills \cap rule.skills # {}
        /\ q.difficulty \in rule.min .. rule.max
        /\ rule.kinds = {} \/ q.kind \in rule.kinds})

Feasible(bank, rules) == \A i \in DOMAIN rules : CountAvailable(bank, rules[i]) >= rules[i].pickCount

(* GET .../assessment-plan shows it; POST /assessments/auto insists on it. *)
AutoAssessment(skills, bank, body) ==
    LET count == IF body.questionCount = Missing THEN DefaultQuestionCount(skills) ELSE body.questionCount
        paper == ComposeFromRole(skills, [questionCount |-> count, kinds |-> body.kinds,
                                          excludeSeenDays |-> body.excludeSeenDays])
    IN  IF paper = Missing THEN [status |-> "validation_failed"]
        ELSE IF ~Feasible(bank, paper.rules) THEN [status |-> "infeasible"]
        ELSE [status |-> "draft", rules |-> paper.rules, totalScore |-> paper.totalScore, asked |-> count,
              seconds |-> IF body.seconds = Missing
                          THEN Total([i \in DOMAIN paper.rules |-> paper.rules[i].pickCount])
                               * DEFAULT_SECONDS_PER_QUESTION
                          ELSE body.seconds]

(* The list adds up the rules it wrote. *)
ListedQuestionCount(assessment) ==
    Total([i \in DOMAIN assessment.rules |-> assessment.rules[i].pickCount])

----------------------------------------------------------------------------
(* The draw.  ids are whole numbers: the sort is by id. *)
ValidateRule(rule) ==
    /\ rule.pickCount > 0
    /\ rule.min >= MIN_DIFFICULTY /\ rule.max <= MAX_DIFFICULTY /\ rule.min <= rule.max
    /\ rule.excludeSeenDays >= 0 /\ rule.score >= 0

MatchesRule(rule, entry) ==
    /\ entry.difficulty \in rule.min .. rule.max
    /\ rule.kinds = {} \/ entry.kind \in rule.kinds
    /\ rule.skills = {} \/ entry.skills \cap rule.skills # {}
    /\ (rule.excludeSeenDays > 0 /\ entry.lastSeen # Missing) => entry.lastSeen >= rule.excludeSeenDays

(* The first entry of each version that matches, in id order, whatever     *)
(* order the pool arrived in.                                              *)
Eligible(rule, pool) ==
    LET fits == {i \in DOMAIN pool : MatchesRule(rule, pool[i])}
        first == {i \in fits : \A j \in fits : pool[j].id = pool[i].id => i <= j}
    IN  SetToSortSeq({pool[i] : i \in first}, LAMBDA a, b : a.id < b.id)

Quarters == 4
BoundedIndex(draw, length) ==
    IF draw < 0 THEN 0
    ELSE IF (draw * length) \div Quarters >= length THEN length - 1
    ELSE (draw * length) \div Quarters

(* Fisher-Yates by removal: one draw for each item. *)
ShuffleWith(items, draws) ==
    LET Pick(state, draw) ==
            LET at == BoundedIndex(draw, Len(state.left)) + 1
            IN  [left |-> RemoveAt(state.left, at), out |-> Append(state.out, state.left[at])]
    IN  FoldLeft(Pick, [left |-> items, out |-> <<>>], SubSeq(draws, 1, Len(items))).out

ResolveDraw(rule, pool, draws) ==
    LET pickable == Eligible(rule, pool)
        Refused(why) == [refused |-> why, picked |-> <<>>]
    IN  IF ~ValidateRule(rule) THEN Refused("invalid_rule")
        ELSE IF Len(pickable) < rule.pickCount THEN Refused("draw_infeasible")
        ELSE [refused |-> Missing, picked |-> SubSeq(ShuffleWith(pickable, draws), 1, rule.pickCount)]

----------------------------------------------------------------------------
(* A paper is as long as was asked, tests every required skill, and counts *)
(* the same wherever it is counted; a heavier skill never gets fewer       *)
(* questions than a lighter one.                                           *)
PaperAddsUp(skills, bank, body) ==
    LET required == SelectSeq(skills, LAMBDA s : s.required) IN
    \A made \in {AutoAssessment(skills, bank, body)} : made.status = "draft" =>
        /\ ListedQuestionCount(made) = made.asked
        /\ made.totalScore = made.asked * SCORE_PER_QUESTION
        /\ \A i, j \in DOMAIN required :
              /\ made.rules[i].pickCount >= 1
              /\ required[i].weight > required[j].weight =>
                    made.rules[i].pickCount >= made.rules[j].pickCount

(* What a draw owes its rule: as many distinct questions as it asks for,   *)
(* each of which matches.                                                  *)
Fulfils(rule, drawn) ==
    /\ Len(drawn) = rule.pickCount
    /\ Cardinality({q.id : q \in ToSet(drawn)}) = Len(drawn)
    /\ \A q \in ToSet(drawn) : MatchesRule(rule, q)

Ids(questions) == [k \in DOMAIN questions |-> questions[k].id]

(* A saved paper whose rules set nothing aside can be drawn: each rule is  *)
(* fulfilled for every sequence of draws, by the same questions however    *)
(* the pool was ordered.                                                   *)
SavedPapersDraw(skills, pool, body, draws) ==
    LET bank == {[skills |-> q.skills, kind |-> q.kind, difficulty |-> q.difficulty,
                  id |-> q.id, status |-> "published", archived |-> FALSE] : q \in ToSet(pool)}
    IN  \A made \in {AutoAssessment(skills, bank, body)} :
            (made.status = "draft" /\ body.excludeSeenDays = 0) =>
                \A rule \in ToSet(made.rules) : \A draw \in {ResolveDraw(rule, pool, draws)} :
                    /\ draw.refused = Missing
                    /\ Fulfils(rule, draw.picked)
                    /\ Ids(draw.picked) = Ids(ResolveDraw(rule, Reverse(pool), draws).picked)
=============================================================================
