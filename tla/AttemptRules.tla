---------------------------- MODULE AttemptRules ----------------------------
(***************************************************************************)
(* The attempt's rules in packages/core-domain: its life cycle, its        *)
(* deadline and the skill scores it rolls up to.  Nothing in the code      *)
(* drives these yet but redemption's deadline; they are stated as the      *)
(* functions they are.  Instants and durations are in whole milliseconds   *)
(* and seconds, percentages and weights whole numbers.                     *)
(***************************************************************************)
EXTENDS Absent, Integers, Sequences, FiniteSets, SequencesExt

ATTEMPT_STATUSES ==
    {"created", "in_progress", "submitted", "expired", "auto_graded", "under_review",
     "finalised", "voided"}

EDGES ==
    [created      |-> {"in_progress", "voided"},
     in_progress  |-> {"submitted", "expired", "voided"},
     submitted    |-> {"auto_graded", "voided"},
     expired      |-> {"auto_graded", "voided"},
     auto_graded  |-> {"under_review", "finalised", "voided"},
     under_review |-> {"finalised", "voided"},
     finalised    |-> {"voided"},
     voided       |-> {}]

CanTransition(from, to) == to \in EDGES[from]
IsTerminalStatus(status) == EDGES[status] = {}

(* Where an event leads, or why it does not.  Grading completes twice: the *)
(* first time it grades, the second it decides whether a person must look. *)
Goes(status) == [to |-> status, refused |-> Missing]
Stays(why) == [to |-> Missing, refused |-> why]

Transition(from, event) ==
    CASE event.type = "void" ->
            IF event.reasonLength = 0 THEN Stays("void_reason_required")
            ELSE IF from = "voided" THEN Stays("already_voided") ELSE Goes("voided")
      [] event.type = "start" /\ from = "created" -> Goes("in_progress")
      [] event.type = "submit" /\ from = "in_progress" -> Goes("submitted")
      [] event.type = "expire" /\ from = "in_progress" -> Goes("expired")
      [] event.type = "grade_complete" /\ from \in {"submitted", "expired"} -> Goes("auto_graded")
      [] event.type = "grade_complete" /\ from = "auto_graded" ->
            Goes(IF event.needsHumanReview THEN "under_review" ELSE "finalised")
      [] event.type = "review_complete" /\ from = "under_review" -> Goes("finalised")
      [] OTHER -> Stays("illegal_transition")

AttemptEvents ==
    {[type |-> t] : t \in {"start", "submit", "expire", "review_complete"}}
    \cup {[type |-> "grade_complete", needsHumanReview |-> b] : b \in BOOLEAN}
    \cup {[type |-> "void", reasonLength |-> n] : n \in 0 .. 1}

----------------------------------------------------------------------------
MAX_DURATION_SECONDS == 7 * 24 * 60 * 60
MAX_EXTRA_TIME_PCT == 1000

Ceil(n, d) == (n + d - 1) \div d

(* A fraction of a second goes to the candidate. *)
ComputeDeadline(startedAt, durationSeconds, extraTimePct) ==
    IF durationSeconds \in 1 .. MAX_DURATION_SECONDS /\ extraTimePct \in 0 .. MAX_EXTRA_TIME_PCT
    THEN startedAt + 1000 * Ceil(durationSeconds * (100 + extraTimePct), 100)
    ELSE Missing

IsPastDeadline(deadlineAt, now) == now > deadlineAt
SecondsRemaining(deadlineAt, now) == IF now >= deadlineAt THEN 0 ELSE Ceil(deadlineAt - now, 1000)

----------------------------------------------------------------------------
(* Six decimal places: a proportion is a number of millionths. *)
Millionths == 1000000
RoundProportion(n, d) == (2 * n * Millionths + d) \div (2 * d)

(* Each question counts once for each skill it names, and a skill without  *)
(* a weight has weight 1; a skill with no marks available has no score     *)
(* rather than zero.  A mark outside its question's range, or a negative   *)
(* weight some question uses, is a RangeError: Missing.                    *)
RollUpSkillScores(questions, weights) ==
    LET skills == UNION {questions[i].skills : i \in DOMAIN questions}
        Weight(skill) == IF skill \in DOMAIN weights THEN weights[skill] ELSE 1
        Sum(skill, Marks(_)) ==
            FoldSeq(LAMBDA q, sum : sum + (IF skill \in q.skills THEN Weight(skill) * Marks(q) ELSE 0),
                    0, questions)
        earned == [s \in skills |-> Sum(s, LAMBDA q : q.score)]
        available == [s \in skills |-> Sum(s, LAMBDA q : q.max)]
    IN  IF \/ \E i \in DOMAIN questions : questions[i].score \notin 0 .. questions[i].max
           \/ \E s \in skills : Weight(s) < 0
        THEN Missing
        ELSE [s \in {t \in skills : available[t] > 0} |-> RoundProportion(earned[s], available[s])]

----------------------------------------------------------------------------
(* The events and the table of edges agree both ways, every status leads   *)
(* to voided and only voided is final.                                     *)
EventsFollowEdges(from) ==
    /\ \A event \in AttemptEvents :
          LET gone == Transition(from, event).to IN gone # Missing => CanTransition(from, gone)
    /\ \A to \in EDGES[from] : \E event \in AttemptEvents : Transition(from, event).to = to
    /\ IsTerminalStatus(from) <=> from = "voided"

(* Extra time never shortens, by as little as it is, and rounding gives    *)
(* less than a second; the page never shows time left to a candidate the   *)
(* server would call late, nor none to one who is in time by a whole       *)
(* millisecond.                                                            *)
DeadlineIsFair(startedAt, seconds, pct, now) ==
    LET deadline == ComputeDeadline(startedAt, seconds, pct) IN
    /\ deadline >= startedAt + 1000 * seconds
    /\ 100 * (deadline - startedAt) >= 1000 * seconds * (100 + pct)
    /\ 100 * (deadline - startedAt) < 1000 * seconds * (100 + pct) + 100000
    /\ pct < MAX_EXTRA_TIME_PCT => ComputeDeadline(startedAt, seconds, pct + 1) >= deadline
    /\ (SecondsRemaining(deadline, now) > 0) <=> (now < deadline)
    /\ SecondsRemaining(deadline, now) > 0 => ~IsPastDeadline(deadline, now)

AttemptLaws ==
    /\ \A from \in ATTEMPT_STATUSES : EventsFollowEdges(from)
    /\ \A seconds \in {1, 60, 61, 99}, pct \in {0, 1, 25, 33, 100, MAX_EXTRA_TIME_PCT} :
          LET deadline == ComputeDeadline(500, seconds, pct) IN
          \A now \in {deadline + d : d \in {-1001, -1000, -999, -1, 0, 1}} :
             DeadlineIsFair(500, seconds, pct, now)

(* A score is a proportion, unmoved by weighting a skill against itself,   *)
(* and a skill that was assessed has one unless its weight is zero; input  *)
(* that is refused has a mark out of range or a weight below zero, and is  *)
(* refused in whatever order the questions come.                           *)
SkillScoresSane(questions, weights) ==
    LET rolled == RollUpSkillScores(questions, weights)
        even == RollUpSkillScores(questions, <<>>)
        assessed == UNION {questions[i].skills : i \in {k \in DOMAIN questions : questions[k].max > 0}}
        weightless == {s \in DOMAIN weights : weights[s] = 0}
    IN  /\ RollUpSkillScores(Reverse(questions), weights) = rolled
        /\ rolled = Missing =>
              even = Missing \/ \E s \in DOMAIN weights : weights[s] < 0
        /\ rolled # Missing =>
              /\ DOMAIN rolled = assessed \ weightless
              /\ \A s \in DOMAIN rolled : rolled[s] \in 0 .. Millionths /\ rolled[s] = even[s]
=============================================================================
