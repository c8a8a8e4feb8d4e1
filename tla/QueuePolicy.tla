---------------------------- MODULE QueuePolicy ----------------------------
(***************************************************************************)
(* The queue registry of apps/worker and the pure decisions made from it:  *)
(* attempt budgets, backoff curves, dead-lettering and failure classes;    *)
(* and the business keys jobs are told apart by, as sequences of tokens,   *)
(* with the job ids they are encoded into.                                 *)
(* Durations are in seconds; every delay in the registry is a whole number *)
(* of them.                                                                *)
(***************************************************************************)
EXTENDS Integers, Sequences, FiniteSets, SequencesExt

QueueNames ==
    {"grading.run", "grading.submit", "webhooks.deliver",
     "notifications.email", "bank.jobs", "maintenance.cron"}

(* The label that says whether a person is waiting in front of a spinner. *)
QueuePriority(q) == IF q = "grading.run" THEN "interactive" ELSE "batch"

WebhookDelays == <<10, 60, 300, 1800, 7200, 21600, 43200>>
RetryWindow == 86400

(* The registry, resolved against the parsed environment env: the attempt  *)
(* budget, the workers' concurrency and the backoff curve of each queue.   *)
QueueSpec(q, env) ==
    LET Exponential == [kind |-> "exponential", base |-> env.backoff]
        Limit(attempts, concurrency, backoff) ==
            [attempts |-> attempts, concurrency |-> concurrency, backoff |-> backoff]
    IN  CASE q = "grading.run" ->
               Limit(IF env.maxAttempts < 2 THEN env.maxAttempts ELSE 2,
                     env.runConcurrency, Exponential)
          [] q = "webhooks.deliver" ->
               Limit(8, env.submitConcurrency,
                     [kind |-> "schedule", delays |-> WebhookDelays])
          [] q = "bank.jobs" -> Limit(2, env.submitConcurrency, Exponential)
          [] q = "maintenance.cron" -> Limit(1, 1, Exponential)
          [] OTHER -> Limit(env.maxAttempts, env.submitConcurrency, Exponential)

(* The table entry for the retry after attempt n; the last entry repeats. *)
ScheduledDelay(delays, n) ==
    IF delays = <<>> THEN 0
    ELSE delays[IF n < Len(delays) THEN n ELSE Len(delays)]

(* Full jitter of twenty percent either way, for a random draw r in 0..100. *)
ApplyJitter(nominal, r) == (nominal * (8000 + 40 * r) + 5000) \div 10000

BackoffDelay(spec, attemptsMade, r) ==
    LET n == IF attemptsMade > 0 THEN attemptsMade ELSE 1
    IN  ApplyJitter(IF spec.kind = "exponential" THEN spec.base * 2^(n - 1)
                    ELSE ScheduledDelay(spec.delays, n), r)

(* What BullMQ is told about retries.  A schedule is a custom strategy the *)
(* worker installs, and its delay is only a placeholder.                   *)
JobOptions(q, env) ==
    LET spec == QueueSpec(q, env)
    IN  [attempts |-> spec.attempts,
         type     |-> spec.backoff.kind,
         delay    |-> IF spec.backoff.kind = "exponential" THEN spec.backoff.base
                      ELSE spec.backoff.delays[1],
         keepFailed |-> TRUE]

(* Mutant of DeadLetterDecision: only the count is looked at. *)
DeadLetterByCount(attemptsMade, maxAttempts, unrecoverable) ==
    [deadLetter |-> attemptsMade >= maxAttempts, reason |-> "attempts_exhausted"]

(* Whether a failed attempt is the last one.  A count below one, which is  *)
(* also what a job nobody could load has, is treated as exhausted.         *)
DeadLetterDecision(attemptsMade, maxAttempts, unrecoverable) ==
    LET budget == IF maxAttempts > 0 THEN maxAttempts ELSE 1
    IN  IF unrecoverable THEN [deadLetter |-> TRUE, reason |-> "unrecoverable"]
        ELSE IF attemptsMade < 1 \/ attemptsMade >= budget
        THEN [deadLetter |-> TRUE, reason |-> "attempts_exhausted"]
        ELSE [deadLetter |-> FALSE, next |-> attemptsMade + 1,
              remaining |-> budget - attemptsMade]

----------------------------------------------------------------------------
(* The label a thrown value is counted under, from the words its name,     *)
(* message and code contain.  The first bucket that matches wins.          *)
ClassifyFailure(words) ==
    LET Has(some) == words \cap some # {}
    IN  IF Has({"zoderror", "validation", "invalid"}) THEN "validation"
        ELSE IF Has({"aborterror", "timeouterror", "timeout", "etimedout"}) THEN "timeout"
        ELSE IF Has({"econnrefused", "enotfound", "eai_again", "piston", "exec"})
             THEN "exec_unavailable"
        ELSE IF Has({"postgres", "database", "deadlock", "constraint", "econnreset"})
             THEN "db_error"
        ELSE "unknown"

----------------------------------------------------------------------------
(* The scheduled sweeps and how often each runs; 0 is a cron pattern in    *)
(* UTC rather than an interval.                                            *)
Cadence ==
    [job \in {"deadline-sweep", "question-stats", "retention-erasure",
              "webhook-reaper", "proctor-media-deletion", "partition-roll"} |->
        CASE job = "deadline-sweep" -> 60
          [] job = "webhook-reaper" -> 300
          [] OTHER -> 0]

RepeatOptions(job) ==
    IF Cadence[job] # 0 THEN [every |-> Cadence[job]]
    ELSE [pattern |-> job, tz |-> "UTC"]

(* A job's place in the maintenance worker: the placeholder, a sweep that  *)
(* is implemented, or nothing that retrying could find.                    *)
Handler(name, hasDatabase) ==
    CASE name = "example.noop" -> "example"
      [] name = "question-stats" /\ hasDatabase -> "sweep"
      [] name \in DOMAIN Cadence /\ ~ (name = "question-stats" /\ hasDatabase) -> "placeholder"
      [] OTHER -> "unrecoverable"

----------------------------------------------------------------------------
(* idempotency.ts: keys and job ids.                                       *)

Escape(key, token, with) ==
    FlattenSeq([i \in 1 .. Len(key) |-> IF key[i] = token THEN with ELSE <<key[i]>>])

(* Mutant of ToJobId: percent signs are left as they are. *)
ToJobIdColonsOnly(key) == Escape(key, ":", <<"%", "3", "A">>)

(* Percent signs are escaped before colons. *)
ToJobId(key) ==
    Escape(Escape(key, "%", <<"%", "2", "5">>), ":", <<"%", "3", "A">>)

MaxKeyLength == 512

(* A key that is not empty, not too long, has no white space and has no    *)
(* segment that an absent identifier left behind.                          *)
BusinessKey(key) ==
    /\ key # <<>> /\ Len(key) <= MaxKeyLength
    /\ \A i \in 1 .. Len(key) : key[i] # " "
    /\ ~ \E i \in 1 .. Len(key) :
            /\ key[i] \in {"undefined", "null"}
            /\ i = 1 \/ key[i - 1] = ":"
            /\ i = Len(key) \/ key[i + 1] = ":"
=============================================================================
