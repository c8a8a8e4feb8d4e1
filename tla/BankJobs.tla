------------------------------ MODULE BankJobs ------------------------------
(***************************************************************************)
(* The bank import and export pipeline (ADR-021).  The API commits a row   *)
(* in bank_jobs; a relay in each worker process claims committed rows and  *)
(* adds each to the bank.jobs queue under the row's id; a worker runs it   *)
(* one transaction per item, moving the row's checkpoint in the commit     *)
(* that writes the item.                                                   *)
(*                                                                         *)
(* Four things go wrong, each as often as its bound allows: a process      *)
(* crashes; a statement fails and its transaction rolls back; a commit     *)
(* takes effect but its acknowledgement is lost, so the caller sees an     *)
(* error; the queue's lock on a running job lapses, so the job is given    *)
(* to a second worker while the first is still running it.  The queue is   *)
(* BullMQ, which is not part of the repository; it is modelled from how    *)
(* the worker configures and uses it.                                      *)
(***************************************************************************)
EXTENDS Integers, FiniteSets

CONSTANTS
    Jobs,           \* bank_jobs rows that may be submitted
    Workers,        \* bank.jobs processor slots, over every worker process
    Relays,         \* relay timers, one per worker process
    Imports,        \* the jobs with kind = 'import'; the others are exports
    Items,          \* items the reader finds in an import's file
    Problems,       \* entries of the file the reader itself refuses
    Refused,        \* items importOne refuses: an unknown skill
    Bad,            \* jobs with a file nobody can read, or too large a result
    Attempts,       \* BANK_JOB_ATTEMPTS
    MaxStalled,     \* BullMQ's maxStalledCount, left at its default
    MaxCrashes, MaxFaults, MaxLostAcks, MaxLockLosses,  \* bounds on failures
    NoOne, NoJob    \* nulls

ASSUME BankSets ==
    /\ Imports \subseteq Jobs /\ Bad \subseteq Jobs
    /\ Items \in Nat /\ Problems \in Nat
    /\ Refused \subseteq 0 .. Items - 1

ASSUME BankBounds ==
    /\ Attempts \in Nat /\ MaxStalled \in Nat
    /\ MaxCrashes \in Nat /\ MaxFaults \in Nat
    /\ MaxLostAcks \in Nat /\ MaxLockLosses \in Nat

ASSUME BankNulls == NoOne \notin Workers /\ NoJob \notin Jobs

VARIABLES
    status,         \* bank_jobs.status, or "none" before the row exists
    stale,          \* dispatched_at is more than RELAY_STALE_SECONDS old
    nextIndex, created, skipped,    \* the checkpoint and the two counts
    input,          \* the jobs whose uploaded file is still on the row
    written,        \* questions in the bank from each item of each job
    reported,       \* items recorded as skipped on the row
    entry,          \* the job's entry on the queue
    attemptsMade,   \* failed deliveries of the entry
    stalls,         \* times the entry was found without a lock
    owner,          \* the worker whose lock the active entry carries
    claimed,        \* rows a relay has claimed and not yet enqueued
    pc, job,        \* where each worker is, and on which row
    pos,            \* importBankItems' position
    first,          \* firstRun, as read from the row startBankJob returned
    final,          \* finalAttempt
    crashes, faults, lostAcks, lockLosses

rowVars == <<status, stale, nextIndex, created, skipped, input, written, reported>>
queueVars == <<entry, attemptsMade, stalls, owner>>
workerVars == <<pc, job, pos, first, final>>
failureVars == <<crashes, faults, lostAcks, lockLosses>>
vars == <<rowVars, queueVars, claimed, workerVars, failureVars>>

Positions == 0 .. Items - 1

Finished == {"succeeded", "failed"}
Unfinished == {"queued", "dispatched", "running"}

(* Where a worker is between two awaits that touch the database. *)
Stages == {"idle", "start", "read", "record", "items", "report", "export",
           "finish", "refuse", "threw", "failing", "ack", "nack"}

RowTypes ==
    /\ status \in [Jobs -> {"none"} \cup Unfinished \cup Finished]
    /\ stale \in [Jobs -> BOOLEAN]
    /\ nextIndex \in [Jobs -> 0 .. Items]
    /\ created \in [Jobs -> Nat]
    /\ skipped \in [Jobs -> Nat]
    /\ input \subseteq Jobs
    /\ written \in [Jobs -> [Positions -> Nat]]
    /\ reported \in [Jobs -> SUBSET Positions]

QueueTypes ==
    /\ entry \in [Jobs -> {"none", "waiting", "active", "completed", "failed"}]
    /\ attemptsMade \in [Jobs -> Nat]
    /\ stalls \in [Jobs -> Nat]
    /\ owner \in [Jobs -> Workers \cup {NoOne}]
    /\ claimed \in [Relays -> SUBSET Jobs]

WorkerTypes ==
    /\ pc \in [Workers -> Stages]
    /\ job \in [Workers -> Jobs \cup {NoJob}]
    /\ pos \in [Workers -> 0 .. Items]
    /\ first \in [Workers -> BOOLEAN]
    /\ final \in [Workers -> BOOLEAN]

FailureTypes ==
    /\ crashes \in Nat /\ faults \in Nat /\ lostAcks \in Nat /\ lockLosses \in Nat

TypeOK == RowTypes /\ QueueTypes /\ WorkerTypes /\ FailureTypes

Init ==
    /\ status = [j \in Jobs |-> "none"]
    /\ stale = [j \in Jobs |-> FALSE]
    /\ nextIndex = [j \in Jobs |-> 0]
    /\ created = [j \in Jobs |-> 0]
    /\ skipped = [j \in Jobs |-> 0]
    /\ input = {}
    /\ written = [j \in Jobs |-> [p \in Positions |-> 0]]
    /\ reported = [j \in Jobs |-> {}]
    /\ entry = [j \in Jobs |-> "none"]
    /\ attemptsMade = [j \in Jobs |-> 0]
    /\ stalls = [j \in Jobs |-> 0]
    /\ owner = [j \in Jobs |-> NoOne]
    /\ claimed = [r \in Relays |-> {}]
    /\ pc = [w \in Workers |-> "idle"]
    /\ job = [w \in Workers |-> NoJob]
    /\ pos = [w \in Workers |-> 0]
    /\ first = [w \in Workers |-> FALSE]
    /\ final = [w \in Workers |-> FALSE]
    /\ crashes = 0 /\ faults = 0 /\ lostAcks = 0 /\ lockLosses = 0

-----------------------------------------------------------------------------
(* The API: the row and its audit row are one commit, and that commit is   *)
(* the whole hand-off.                                                     *)

CreateBankJob(j) ==
    /\ status[j] = "none"
    /\ status' = [status EXCEPT ![j] = "queued"]
    /\ input' = IF j \in Imports THEN input \cup {j} ELSE input
    /\ UNCHANGED <<stale, nextIndex, created, skipped, written, reported>>
    /\ UNCHANGED <<queueVars, claimed, workerVars, failureVars>>

-----------------------------------------------------------------------------
(* The relay.  claim_bank_jobs takes every row queued, or dispatched and   *)
(* stale; its limit of twenty is above the instances.  Each claimed row is *)
(* then added to the queue, where an id already present is left alone.     *)

(* Mutant of Claimable: a lost enqueue is never retried. *)
ClaimableOnce == {j \in Jobs : status[j] = "queued"}

Claimable ==
    {j \in Jobs : status[j] = "queued" \/ (status[j] = "dispatched" /\ stale[j])}

ClaimBankJobs(r) ==
    /\ claimed[r] = {}
    /\ Claimable # {}
    /\ status' = [j \in Jobs |-> IF j \in Claimable THEN "dispatched" ELSE status[j]]
    /\ stale' = [j \in Jobs |-> stale[j] /\ j \notin Claimable]
    /\ claimed' = [claimed EXCEPT ![r] = Claimable]
    /\ UNCHANGED <<nextIndex, created, skipped, input, written, reported>>
    /\ UNCHANGED <<queueVars, workerVars, failureVars>>

(* Mutant of AddToQueue: no job id, so a second add is a second delivery. *)
AddToQueueAnew(j) ==
    /\ entry' = [entry EXCEPT ![j] = "waiting"]
    /\ owner' = [owner EXCEPT ![j] = NoOne]
    /\ UNCHANGED <<attemptsMade, stalls>>

AddToQueue(j) ==
    /\ entry' = [entry EXCEPT ![j] = IF @ = "none" THEN "waiting" ELSE @]
    /\ UNCHANGED <<attemptsMade, stalls, owner>>

Enqueue(r, j) ==
    /\ j \in claimed[r]
    /\ claimed' = [claimed EXCEPT ![r] = @ \ {j}]
    /\ AddToQueue(j)
    /\ UNCHANGED <<rowVars, workerVars, failureVars>>

(* The add rejects: the rest of the batch waits to become stale. *)
EnqueueFails(r) ==
    /\ claimed[r] # {}
    /\ faults < MaxFaults
    /\ faults' = faults + 1
    /\ claimed' = [claimed EXCEPT ![r] = {}]
    /\ UNCHANGED <<rowVars, queueVars, workerVars, crashes, lostAcks, lockLosses>>

RelayCrash(r) ==
    /\ claimed[r] # {}
    /\ crashes < MaxCrashes
    /\ crashes' = crashes + 1
    /\ claimed' = [claimed EXCEPT ![r] = {}]
    /\ UNCHANGED <<rowVars, queueVars, workerVars, faults, lostAcks, lockLosses>>

(* RELAY_STALE_SECONDS pass with the row still dispatched. *)
BecomeStale(j) ==
    /\ status[j] = "dispatched" /\ ~stale[j]
    /\ stale' = [stale EXCEPT ![j] = TRUE]
    /\ UNCHANGED <<status, nextIndex, created, skipped, input, written, reported>>
    /\ UNCHANGED <<queueVars, claimed, workerVars, failureVars>>

-----------------------------------------------------------------------------
(* runBankJob.  Each step is one transaction of worker w. *)

Goto(w, stage) == pc' = [pc EXCEPT ![w] = stage]

(* How a transaction ends for its caller: acknowledged, or committed with  *)
(* an error in place of the acknowledgement.                               *)
Answered(ack) ==
    /\ ack \/ lostAcks < MaxLostAcks
    /\ lostAcks' = IF ack THEN lostAcks ELSE lostAcks + 1
    /\ UNCHANGED <<crashes, faults, lockLosses>>

(* BullMQ hands a waiting entry to a free slot. *)
Deliver(w, j) ==
    /\ pc[w] = "idle"
    /\ entry[j] = "waiting"
    /\ entry' = [entry EXCEPT ![j] = "active"]
    /\ owner' = [owner EXCEPT ![j] = w]
    /\ Goto(w, "start")
    /\ job' = [job EXCEPT ![w] = j]
    /\ final' = [final EXCEPT ![w] = attemptsMade[j] + 1 >= Attempts]
    /\ UNCHANGED <<rowVars, attemptsMade, stalls, claimed, pos, first, failureVars>>

(* Mutant of FirstRun: decided from the checkpoint alone.                 *)
FirstRunByIndex(j) == nextIndex[j] = 0

FirstRun(j) == nextIndex[j] = 0 /\ created[j] = 0 /\ skipped[j] = 0

Startable == Unfinished

(* startBankJob: outside runBankJob's try, so an error here is BullMQ's. *)
StartBankJob(w, ack) ==
    LET j == job[w] IN
    /\ pc[w] = "start"
    /\ Answered(ack)
    /\ status' = [status EXCEPT ![j] = IF @ \in Startable THEN "running" ELSE @]
    /\ Goto(w, IF ~ack THEN "nack"
               ELSE IF status[j] \notin Startable THEN "ack"
               ELSE IF j \in Imports THEN "read" ELSE "export")
    /\ pos' = [pos EXCEPT ![w] = nextIndex[j]]
    /\ first' = [first EXCEPT ![w] = FirstRun(j)]
    /\ UNCHANGED <<stale, nextIndex, created, skipped, input, written, reported>>
    /\ UNCHANGED <<queueVars, claimed, job, final>>

(* readBankJobInput and the reader: a pure function of the uploaded file. *)
ReadInput(w) ==
    /\ pc[w] = "read"
    /\ Goto(w, IF job[w] \in Bad \/ job[w] \notin input THEN "refuse"
               ELSE IF first[w] /\ Problems > 0 THEN "record"
               ELSE "items")
    /\ UNCHANGED <<rowVars, queueVars, claimed, job, pos, first, final, failureVars>>

RecordParseProblems(w, ack) ==
    /\ pc[w] = "record"
    /\ Answered(ack)
    /\ skipped' = [skipped EXCEPT ![job[w]] = @ + Problems]
    /\ Goto(w, IF ack THEN "items" ELSE "threw")
    /\ UNCHANGED <<status, stale, nextIndex, created, input, written, reported>>
    /\ UNCHANGED <<queueVars, claimed, job, pos, first, final>>

(* Mutants of AdvanceImport: the checkpoint is left at the item itself, or *)
(* is put past the one after it.                                           *)
AdvanceImportLong(j, p, made) ==
    /\ nextIndex' = [nextIndex EXCEPT ![j] = p + 2]
    /\ created' = [created EXCEPT ![j] = IF made THEN @ + 1 ELSE @]
    /\ skipped' = [skipped EXCEPT ![j] = IF made THEN @ ELSE @ + 1]

AdvanceImportShort(j, p, made) ==
    /\ nextIndex' = [nextIndex EXCEPT ![j] = p]
    /\ created' = [created EXCEPT ![j] = IF made THEN @ + 1 ELSE @]
    /\ skipped' = [skipped EXCEPT ![j] = IF made THEN @ ELSE @ + 1]

(* advanceImport writes the position it is given, whatever the row holds. *)
AdvanceImport(j, p, made) ==
    /\ nextIndex' = [nextIndex EXCEPT ![j] = p + 1]
    /\ created' = [created EXCEPT ![j] = IF made THEN @ + 1 ELSE @]
    /\ skipped' = [skipped EXCEPT ![j] = IF made THEN @ ELSE @ + 1]

(* importOne: the question, its versions, skills, audit row and the        *)
(* checkpoint in one commit.  Any error sends the item to be reported.     *)
ImportOne(w, ack) ==
    LET j == job[w] IN
    /\ pc[w] = "items" /\ pos[w] < Items /\ pos[w] \notin Refused
    /\ Answered(ack)
    /\ written' = [written EXCEPT ![j][pos[w]] = @ + 1]
    /\ AdvanceImport(j, pos[w], TRUE)
    /\ pos' = [pos EXCEPT ![w] = IF ack THEN @ + 1 ELSE @]
    /\ Goto(w, IF ack THEN "items" ELSE "report")
    /\ UNCHANGED <<status, stale, input, reported>>
    /\ UNCHANGED <<queueVars, claimed, job, first, final>>

(* importOne throws and rolls back: a refusal, or a failed statement. *)
ImportOneThrows(w) ==
    /\ pc[w] = "items" /\ pos[w] < Items
    /\ pos[w] \in Refused \/ faults < MaxFaults
    /\ faults' = IF pos[w] \in Refused THEN faults ELSE faults + 1
    /\ Goto(w, "report")
    /\ UNCHANGED <<rowVars, queueVars, claimed, job, pos, first, final>>
    /\ UNCHANGED <<crashes, lostAcks, lockLosses>>

ReportItem(w, ack) ==
    LET j == job[w] IN
    /\ pc[w] = "report"
    /\ Answered(ack)
    /\ reported' = [reported EXCEPT ![j] = @ \cup {pos[w]}]
    /\ AdvanceImport(j, pos[w], FALSE)
    /\ pos' = [pos EXCEPT ![w] = IF ack THEN @ + 1 ELSE @]
    /\ Goto(w, IF ack THEN "items" ELSE "threw")
    /\ UNCHANGED <<status, stale, input, written>>
    /\ UNCHANGED <<queueVars, claimed, job, first, final>>

ItemsDone(w) ==
    /\ pc[w] = "items" /\ pos[w] >= Items
    /\ Goto(w, "finish")
    /\ UNCHANGED <<rowVars, queueVars, claimed, job, pos, first, final, failureVars>>

(* exportBank and the writer; a result over the byte limit fails the job. *)
ExportBank(w) ==
    /\ pc[w] = "export"
    /\ Goto(w, IF job[w] \in Bad THEN "refuse" ELSE "finish")
    /\ UNCHANGED <<rowVars, queueVars, claimed, job, pos, first, final, failureVars>>

(* finishBankJob and failBankJob: neither asks what the row's status is. *)
Conclude(j, how) ==
    /\ status' = [status EXCEPT ![j] = how]
    /\ input' = input \ {j}
    /\ UNCHANGED <<stale, nextIndex, created, skipped, written, reported>>

FinishBankJob(w, ack) ==
    /\ pc[w] = "finish"
    /\ Answered(ack)
    /\ Conclude(job[w], "succeeded")
    /\ Goto(w, IF ack THEN "ack" ELSE "threw")
    /\ UNCHANGED <<queueVars, claimed, job, pos, first, final>>

(* fail(): an answer a person can act on, returned as the job's result. *)
Refuse(w, ack) ==
    /\ pc[w] = "refuse"
    /\ Answered(ack)
    /\ Conclude(job[w], "failed")
    /\ Goto(w, IF ack THEN "ack" ELSE "threw")
    /\ UNCHANGED <<queueVars, claimed, job, pos, first, final>>

(* runBankJob's catch: the row is failed on the last attempt only. *)
Catch(w) ==
    /\ pc[w] = "threw"
    /\ Goto(w, IF final[w] THEN "failing" ELSE "nack")
    /\ UNCHANGED <<rowVars, queueVars, claimed, job, pos, first, final, failureVars>>

FailBankJob(w, ack) ==
    /\ pc[w] = "failing"
    /\ Answered(ack)
    /\ Conclude(job[w], "failed")
    /\ Goto(w, "nack")
    /\ UNCHANGED <<queueVars, claimed, job, pos, first, final>>

(* A statement fails, or the connection does, and the transaction rolls    *)
(* back.  Inside the try it reaches the catch; outside, it rejects.        *)
Fault(w) ==
    /\ pc[w] \in {"start", "read", "record", "report", "export", "finish",
                  "refuse", "failing"}
    /\ faults < MaxFaults
    /\ faults' = faults + 1
    /\ Goto(w, IF pc[w] \in {"start", "failing"} THEN "nack" ELSE "threw")
    /\ UNCHANGED <<rowVars, queueVars, claimed, job, pos, first, final>>
    /\ UNCHANGED <<crashes, lostAcks, lockLosses>>

-----------------------------------------------------------------------------
(* The queue's side of a delivery. *)

Release(w) ==
    /\ pc' = [pc EXCEPT ![w] = "idle"]
    /\ job' = [job EXCEPT ![w] = NoJob]
    /\ UNCHANGED <<pos, first, final>>

(* The processor resolved.  Without the lock, moving the entry is refused. *)
Ack(w) ==
    LET j == job[w] IN
    /\ pc[w] = "ack"
    /\ entry' = [entry EXCEPT ![j] = IF owner[j] = w THEN "completed" ELSE @]
    /\ owner' = [owner EXCEPT ![j] = IF @ = w THEN NoOne ELSE @]
    /\ Release(w)
    /\ UNCHANGED <<rowVars, attemptsMade, stalls, claimed, failureVars>>

(* The processor rejected: back to the queue after its delay, or, with the *)
(* attempts spent, kept as failed (removeOnFail: false).                   *)
Nack(w) ==
    LET j == job[w] IN
    /\ pc[w] = "nack"
    /\ IF owner[j] = w
         THEN /\ attemptsMade' = [attemptsMade EXCEPT ![j] = @ + 1]
              /\ entry' = [entry EXCEPT ![j] =
                   IF attemptsMade[j] + 1 < Attempts THEN "waiting" ELSE "failed"]
              /\ owner' = [owner EXCEPT ![j] = NoOne]
         ELSE UNCHANGED <<attemptsMade, entry, owner>>
    /\ Release(w)
    /\ UNCHANGED <<rowVars, stalls, claimed, failureVars>>

(* The process dies between two transactions, or inside one. *)
Crash(w) ==
    LET j == job[w] IN
    /\ pc[w] # "idle"
    /\ crashes < MaxCrashes
    /\ crashes' = crashes + 1
    /\ owner' = [owner EXCEPT ![j] = IF @ = w THEN NoOne ELSE @]
    /\ Release(w)
    /\ UNCHANGED <<rowVars, entry, attemptsMade, stalls, claimed>>
    /\ UNCHANGED <<faults, lostAcks, lockLosses>>

(* The lock is not renewed in time, and the worker does not notice. *)
LoseLock(j) ==
    /\ owner[j] # NoOne
    /\ lockLosses < MaxLockLosses
    /\ lockLosses' = lockLosses + 1
    /\ owner' = [owner EXCEPT ![j] = NoOne]
    /\ UNCHANGED <<rowVars, entry, attemptsMade, stalls, claimed, workerVars>>
    /\ UNCHANGED <<crashes, faults, lostAcks>>

(* The stalled check finds an active entry with no lock. *)
Stalled(j) ==
    /\ entry[j] = "active" /\ owner[j] = NoOne
    /\ stalls' = [stalls EXCEPT ![j] = @ + 1]
    /\ entry' = [entry EXCEPT ![j] = IF stalls[j] < MaxStalled THEN "waiting" ELSE "failed"]
    /\ UNCHANGED <<rowVars, attemptsMade, owner, claimed, workerVars, failureVars>>

(* removeOnComplete: a completed entry is forgotten after an hour. *)
Evict(j) ==
    /\ entry[j] = "completed"
    /\ entry' = [entry EXCEPT ![j] = "none"]
    /\ attemptsMade' = [attemptsMade EXCEPT ![j] = 0]
    /\ stalls' = [stalls EXCEPT ![j] = 0]
    /\ UNCHANGED <<rowVars, owner, claimed, workerVars, failureVars>>

-----------------------------------------------------------------------------
(* What a worker does next of its own accord. *)
RunStep(w, ack) ==
    \/ StartBankJob(w, ack) \/ RecordParseProblems(w, ack)
    \/ ImportOne(w, ack) \/ ReportItem(w, ack)
    \/ FinishBankJob(w, ack) \/ Refuse(w, ack) \/ FailBankJob(w, ack)

LocalStep(w) ==
    \/ ReadInput(w) \/ ItemsDone(w) \/ ExportBank(w) \/ Catch(w)
    \/ ImportOneThrows(w) \/ Ack(w) \/ Nack(w)

Next ==
    \/ \E j \in Jobs : \/ CreateBankJob(j) \/ BecomeStale(j) \/ LoseLock(j)
                       \/ Stalled(j) \/ Evict(j)
    \/ \E r \in Relays : \/ ClaimBankJobs(r) \/ EnqueueFails(r) \/ RelayCrash(r)
                         \/ \E j \in Jobs : Enqueue(r, j)
    \/ \E w \in Workers : \/ \E j \in Jobs : Deliver(w, j)
                          \/ \E ack \in BOOLEAN : RunStep(w, ack)
                          \/ LocalStep(w) \/ Fault(w) \/ Crash(w)

Spec == Init /\ [][Next]_vars

(* The relay's interval timer, the clock, the queue's delivery and stalled *)
(* check, and the worker's event loop all run while the process is up.     *)
(* Nothing obliges anyone to submit a job, or a failure to happen.         *)
Fairness ==
    /\ \A j \in Jobs : /\ WF_vars(BecomeStale(j))
                       /\ WF_vars(Stalled(j))
                       /\ WF_vars(\E w \in Workers : Deliver(w, j))
    /\ \A r \in Relays : /\ WF_vars(ClaimBankJobs(r))
                         /\ \A j \in Jobs : WF_vars(Enqueue(r, j))
    /\ \A w \in Workers : WF_vars(RunStep(w, TRUE) \/ LocalStep(w))

LiveSpec == Spec /\ Fairness

-----------------------------------------------------------------------------
(* The inductive invariant.  A busy worker has a job.  While no lock has   *)
(* lapsed, a worker that runs a job is the one the queue says owns it, so  *)
(* two workers never run one job; the position it works at is the row's    *)
(* checkpoint; and the items below the checkpoint are the settled ones.    *)

Employed ==
    \A w \in Workers :
        /\ pc[w] # "idle" => job[w] \in Jobs
        /\ pc[w] = "report" => pos[w] < Items

SoleRunner ==
    /\ \A w \in Workers : pc[w] # "idle" => owner[job[w]] = w
    /\ \A j \in Jobs, w \in Workers : owner[j] = w =>
         entry[j] = "active" /\ job[w] = j /\ pc[w] # "idle"

AtCheckpoint ==
    \A w \in Workers :
        /\ pc[w] \in {"read", "record", "items"} => pos[w] = nextIndex[job[w]]
        /\ pc[w] = "report" =>
             pos[w] = nextIndex[job[w]] \/ pos[w] + 1 = nextIndex[job[w]]

SettledBelow ==
    \A j \in Jobs, p \in Positions :
        /\ written[j][p] <= 1
        /\ p >= nextIndex[j] => written[j][p] = 0 /\ p \notin reported[j]
        /\ p < nextIndex[j] => written[j][p] = 1 \/ p \in reported[j]

-----------------------------------------------------------------------------
(* Properties. *)

Failures == crashes + faults + lostAcks + lockLosses

(* "A retried job never imports the same question twice": no item of the   *)
(* file is in the bank twice.                                              *)
WrittenOnce == \A j \in Jobs, p \in Positions : written[j][p] <= 1

(* next_index moves in the commit that writes the item, so no retry,       *)
(* redelivery, second claim or lost acknowledgement writes an item of the  *)
(* file twice, as long as the queue gives a running job to nobody else.    *)
NoDoubleImport == lockLosses = 0 => WrittenOnce

(* No failure makes the pipeline skip an item: below the checkpoint every  *)
(* item is in the bank or on the problems list, and so is every item of a  *)
(* job that succeeded, even while two workers overlap and move the         *)
(* checkpoint under each other.                                            *)
NoItemLost ==
    \A j \in Imports, p \in Positions :
        p < nextIndex[j] \/ status[j] = "succeeded" =>
            written[j][p] > 0 \/ p \in reported[j]

(* A job that succeeded accounts for the whole file: created_count is the  *)
(* number of questions it wrote, skipped_count the items and the parse     *)
(* problems it reported, and no entry of the file is in neither, whatever  *)
(* crashes, faults and retries the job went through.  A lost               *)
(* acknowledgement or a lapsed lock does make the counts wrong.            *)
NothingVanishes ==
    lostAcks + lockLosses = 0 =>
        \A j \in Imports : status[j] = "succeeded" =>
            /\ created[j] = Cardinality({p \in Positions : written[j][p] = 1})
            /\ skipped[j] = Cardinality(reported[j]) + Problems
            /\ created[j] + skipped[j] = Items + Problems

(* A 202 cannot lose its job: a committed row is eventually run to an      *)
(* answer, through the relay, the queue and any one failure of either.     *)
JobsSettle ==
    \A j \in Jobs :
        status[j] = "queued" ~> status[j] \in Finished \/ Failures > 1

FateOf(j, p) ==
    CASE written[j][p] = 0 /\ p \notin reported[j] -> "pending"
      [] written[j][p] = 1 /\ p \notin reported[j] -> "written"
      [] written[j][p] = 0 /\ p \in reported[j] -> "reported"
      [] OTHER -> "settled twice"

Ledger == INSTANCE BankLedger WITH
    Jobs <- Imports,
    fate <- [j \in Imports |-> [p \in Positions |-> FateOf(j, p)]],
    phase <- [j \in Imports |-> IF status[j] \in Finished THEN status[j] ELSE "open"]

(* The pipeline implements the ledger: seen from the bank and the job row, *)
(* all it ever does is settle the items of a file once each and in order,  *)
(* and then end the job once.                                              *)
ImplementsLedger == Ledger!LedgerSpec

=============================================================================
