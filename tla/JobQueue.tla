------------------------------ MODULE JobQueue ------------------------------
(***************************************************************************)
(* Consuming one queue of apps/worker: delivery, idempotency by business   *)
(* key, retries, dead letters and shutdown.  The work of a job is one      *)
(* effect; what matters is how often it is done and whether a job that     *)
(* gave up is seen.  BullMQ and Valkey are external and are modelled from  *)
(* how the worker configures them.                                         *)
(*                                                                         *)
(* A fault is a thrown statement, a failed write to Valkey, a lapsed lock  *)
(* or a crash; together they are bounded by MaxQueueFaults.                *)
(***************************************************************************)
EXTENDS QueuePolicy

CONSTANTS
    Keys,           \* business keys; the job id is the encoded key
    Replicas,       \* worker processes
    Budget,         \* attempts given to a job when it was enqueued
    Concurrency,    \* jobs a process takes at a time
    StallLimit,     \* BullMQ's maxStalledCount, left at its default
    MaxQueueFaults, \* bound on faults
    NoWorker        \* null

ASSUME QueueBounds ==
    /\ Budget \in Nat \ {0} /\ Concurrency \in Nat \ {0}
    /\ StallLimit \in Nat /\ MaxQueueFaults \in Nat /\ NoWorker \notin Replicas

VARIABLES
    place,      \* each key's place on the queue, and who holds its lock
    record,     \* keys whose completed result Valkey remembers
    inFlight,   \* each process's map of pending promises, by key
    hands,      \* deliveries each process has not settled, by key
    phase,      \* each process: up, draining, forced or down
    failing,    \* failed events whose handler has not finished
    alarms,     \* increments of bullmq_job_dead_lettered_total, by key
    depth,      \* the bullmq_dlq_depth gauge
    deadLetters,\* keys with an envelope on the dead-letter queue
    effects,    \* times the work of each key was done
    lost,       \* keys with a failed event that died with its process
    excuse,     \* keys for which something happened that may repeat the work
    queueFaults \* faults so far

jobVars == <<place, record, inFlight, hands, phase, failing, alarms, depth,
               deadLetters, effects, excuse, lost, queueFaults>>

Absent == [at |-> "none", made |-> 0, stalls |-> 0, holder |-> NoWorker]

QueueInit ==
    /\ place = [k \in Keys |-> Absent]
    /\ record = {}
    /\ inFlight = [w \in Replicas |-> [k \in Keys |-> "none"]]
    /\ hands = [w \in Replicas |-> [k \in Keys |-> 0]]
    /\ phase = [w \in Replicas |-> "up"]
    /\ failing = {}
    /\ alarms = [k \in Keys |-> 0]
    /\ depth = 0
    /\ deadLetters = {}
    /\ effects = [k \in Keys |-> 0]
    /\ excuse = {} /\ lost = {}
    /\ queueFaults = 0

QueueFault == queueFaults < MaxQueueFaults /\ queueFaults' = queueFaults + 1

InHand(w) == {d \in Keys \X (1 .. Concurrency) : d[2] <= hands[w][d[1]]}

----------------------------------------------------------------------------
(* The producer.  BullMQ refuses a second job under an id it still holds,  *)
(* failed entries included; completed ones are dropped after a while.      *)
EnqueueJob(k) ==
    /\ place[k].at = "none"
    /\ place' = [place EXCEPT ![k].at = "waiting"]
    /\ UNCHANGED <<record, inFlight, hands, phase, failing, alarms, depth,
                   deadLetters, effects, excuse, lost, queueFaults>>

(* removeOnComplete.  Retention is an hour, the record lives for a day. *)
RemoveCompleted(k) ==
    /\ place[k].at = "completed"
    /\ place' = [place EXCEPT ![k] = Absent]
    /\ UNCHANGED <<record, inFlight, hands, phase, failing, alarms, depth,
                   deadLetters, effects, excuse, lost, queueFaults>>

(* A process takes a waiting job and calls idempotent(): it joins the      *)
(* pending promise of the same key, or starts one with a lookup.           *)
DeliverJob(w, k) ==
    /\ phase[w] = "up"
    /\ place[k].at = "waiting"
    /\ Cardinality(InHand(w)) < Concurrency
    /\ place' = [place EXCEPT ![k].at = "active", ![k].holder = w]
    /\ hands' = [hands EXCEPT ![w][k] = @ + 1]
    /\ inFlight' = [inFlight EXCEPT ![w][k] = IF @ = "none" THEN "get" ELSE @]
    /\ excuse' = IF \E v \in Replicas \ {w} : inFlight[v][k] # "none"
                 THEN excuse \cup {k} ELSE excuse
    /\ UNCHANGED <<record, phase, failing, alarms, depth, deadLetters, effects, lost, queueFaults>>

(* The promise settles, and with it every delivery that shares it.  Only   *)
(* the process that still holds the lock may move the job, and a process   *)
(* that was closed by force has lost its connection.                       *)
Settle(w, k) ==
    /\ inFlight' = [inFlight EXCEPT ![w][k] = "none"]
    /\ hands' = [hands EXCEPT ![w][k] = 0]

MayMove(w, k) == place[k].at = "active" /\ place[k].holder = w

Resolve(w, k) ==
    /\ Settle(w, k)
    /\ place' = IF MayMove(w, k)
                THEN [place EXCEPT ![k].at = "completed", ![k].holder = NoWorker]
                ELSE place
    /\ UNCHANGED failing

Reject(w, k, words) ==
    LET made == place[k].made + 1
    IN  /\ Settle(w, k)
        /\ IF MayMove(w, k)
           THEN /\ place' = [place EXCEPT ![k] =
                       [at |-> IF made < Budget THEN "delayed" ELSE "failed",
                        made |-> made, stalls |-> @.stalls, holder |-> NoWorker]]
                /\ failing' = failing \cup
                       {[worker |-> w, key |-> k, made |-> made, unrecoverable |-> FALSE,
                         reason |-> ClassifyFailure(words), step |-> "decide"]}
           ELSE UNCHANGED <<place, failing>>

(* Mutant of LookUp: the store is not asked. *)
LookUpNothing(w, k) ==
    /\ phase[w] # "down"
    /\ inFlight[w][k] = "get"
    /\ inFlight' = [inFlight EXCEPT ![w][k] = "fn"]
    /\ UNCHANGED <<place, record, hands, phase, failing, alarms, depth, deadLetters, effects,
                   excuse, lost, queueFaults>>

(* store.get answered: a recorded result is replayed. *)
LookUp(w, k) ==
    /\ phase[w] # "down"
    /\ inFlight[w][k] = "get"
    /\ IF k \in record
       THEN Resolve(w, k)
       ELSE /\ inFlight' = [inFlight EXCEPT ![w][k] = "fn"]
            /\ UNCHANGED <<place, hands, failing>>
    /\ UNCHANGED <<record, phase, alarms, depth, deadLetters, effects, excuse, lost, queueFaults>>

(* fn() does the work and its result is on its way to the store. *)
DoWork(w, k) ==
    /\ phase[w] # "down"
    /\ inFlight[w][k] = "fn"
    /\ effects' = [effects EXCEPT ![k] = @ + 1]
    /\ inFlight' = [inFlight EXCEPT ![w][k] = "set"]
    /\ UNCHANGED <<place, record, hands, phase, failing, alarms, depth, deadLetters,
                   excuse, lost, queueFaults>>

(* fn() throws, or the lookup does: nothing is recorded, nothing removed. *)
WorkThrows(w, k) ==
    /\ phase[w] # "down"
    /\ inFlight[w][k] \in {"get", "fn"}
    /\ QueueFault
    /\ Reject(w, k, {"database"})
    /\ UNCHANGED <<record, phase, alarms, depth, deadLetters, effects, excuse, lost>>

RecordResult(w, k) ==
    /\ phase[w] \in {"up", "draining"}
    /\ inFlight[w][k] = "set"
    /\ record' = record \cup {k}
    /\ Resolve(w, k)
    /\ UNCHANGED <<phase, alarms, depth, deadLetters, effects, excuse, lost, queueFaults>>

(* The result is not recorded although the work is done: the write failed, *)
(* or the connection went with a forced close.                             *)
RecordFails(w, k) ==
    /\ phase[w] # "down"
    /\ inFlight[w][k] = "set"
    /\ IF phase[w] = "forced" THEN UNCHANGED queueFaults ELSE QueueFault
    /\ Reject(w, k, {"econnreset"})
    /\ excuse' = excuse \cup {k}
    /\ UNCHANGED <<record, phase, alarms, depth, deadLetters, effects, lost>>

(* The record's time to live ends. *)
RecordExpires(k) ==
    /\ k \in record
    /\ QueueFault
    /\ record' = record \ {k}
    /\ excuse' = excuse \cup {k}
    /\ UNCHANGED <<place, inFlight, hands, phase, failing, alarms, depth, deadLetters,
                   effects, lost>>

----------------------------------------------------------------------------
(* The queue: a delayed retry falls due, a lock lapses, the stalled check. *)

Promote(k) ==
    /\ place[k].at = "delayed"
    /\ place' = [place EXCEPT ![k].at = "waiting"]
    /\ UNCHANGED <<record, inFlight, hands, phase, failing, alarms, depth,
                   deadLetters, effects, excuse, lost, queueFaults>>

LockLapses(k) ==
    /\ place[k].at = "active" /\ place[k].holder # NoWorker
    /\ QueueFault
    /\ place' = [place EXCEPT ![k].holder = NoWorker]
    /\ UNCHANGED <<record, inFlight, hands, phase, failing, alarms, depth,
                   deadLetters, effects, excuse, lost>>

(* A job found active without a lock goes back, or fails when it has been  *)
(* found so too often; the process that looked emits the failed event.     *)
StalledCheck(w, k) ==
    /\ phase[w] = "up"
    /\ place[k].at = "active"
    /\ place[k].holder = NoWorker
    /\ IF place[k].stalls < StallLimit
       THEN /\ place' = [place EXCEPT ![k] =
                   [at |-> "waiting", made |-> @.made, stalls |-> @.stalls + 1,
                    holder |-> NoWorker]]
            /\ UNCHANGED failing
       ELSE /\ place' = [place EXCEPT ![k].at = "failed", ![k].holder = NoWorker]
            /\ failing' = failing \cup
                   {[worker |-> w, key |-> k, made |-> place[k].made,
                     unrecoverable |-> TRUE, reason |-> ClassifyFailure({"stalled"}),
                     step |-> "decide"]}
    /\ UNCHANGED <<record, inFlight, hands, phase, alarms, depth, deadLetters,
                   effects, excuse, lost, queueFaults>>

----------------------------------------------------------------------------
(* handleJobFailure: nothing awaits it.  The alarm first, the write second. *)

DecideFailure(e) ==
    /\ e \in failing /\ e.step = "decide" /\ phase[e.worker] # "down"
    /\ IF DeadLetterDecision(e.made, Budget, e.unrecoverable).deadLetter
       THEN /\ failing' = (failing \ {e}) \cup {[e EXCEPT !.step = "send"]}
            /\ alarms' = [alarms EXCEPT ![e.key] = @ + 1]
            /\ depth' = depth + 1
       ELSE /\ failing' = failing \ {e}
            /\ UNCHANGED <<alarms, depth>>
    /\ UNCHANGED <<place, record, inFlight, hands, phase, deadLetters, effects,
                   excuse, lost, queueFaults>>

(* The envelope is added under the job's own id. *)
SendDeadLetter(e) ==
    /\ e \in failing /\ e.step = "send" /\ phase[e.worker] # "down"
    /\ failing' = failing \ {e}
    /\ deadLetters' = deadLetters \cup {e.key}
    /\ UNCHANGED <<place, record, inFlight, hands, phase, alarms, depth, effects,
                   excuse, lost, queueFaults>>

(* Only the log line is left of the envelope. *)
SendFails(e) ==
    /\ e \in failing /\ e.step = "send" /\ phase[e.worker] # "down"
    /\ QueueFault
    /\ failing' = failing \ {e}
    /\ UNCHANGED <<place, record, inFlight, hands, phase, alarms, depth, deadLetters,
                   effects, excuse, lost>>

(* The sampler sets the gauge from the dead-letter queue itself. *)
SampleDepth ==
    /\ depth # Cardinality(deadLetters)
    /\ depth' = Cardinality(deadLetters)
    /\ UNCHANGED <<place, record, inFlight, hands, phase, failing, alarms,
                   deadLetters, effects, excuse, lost, queueFaults>>

----------------------------------------------------------------------------
(* Shutdown and failure of a process. *)

(* A signal: the process stops taking jobs and waits for those in hand. *)
Drain(w) ==
    /\ phase[w] = "up"
    /\ phase' = [phase EXCEPT ![w] = "draining"]
    /\ UNCHANGED <<place, record, inFlight, hands, failing, alarms, depth,
                   deadLetters, effects, excuse, lost, queueFaults>>

Unlocked(w) ==
    [k \in Keys |-> IF place[k].holder = w THEN [place[k] EXCEPT !.holder = NoWorker]
                    ELSE place[k]]

(* The grace period is over with jobs in hand: the workers are closed by   *)
(* force, and the handlers run on without their locks and connections.     *)
ForceClose(w) ==
    /\ phase[w] = "draining" /\ InHand(w) # {}
    /\ QueueFault
    /\ phase' = [phase EXCEPT ![w] = "forced"]
    /\ place' = Unlocked(w)
    /\ UNCHANGED <<record, inFlight, hands, failing, alarms, depth,
                   deadLetters, effects, excuse, lost>>

(* Mutant of RestartProcess: the drain waits until the queue is empty. *)
RestartWhenEmpty(w) ==
    /\ \/ /\ phase[w] \in {"draining", "forced"} /\ InHand(w) = {}
          /\ ~ \E e \in failing : e.worker = w
          /\ \A k \in Keys : place[k].at # "waiting"
       \/ phase[w] = "down"
    /\ phase' = [phase EXCEPT ![w] = "up"]
    /\ UNCHANGED <<place, record, inFlight, hands, failing, alarms, depth,
                   deadLetters, effects, excuse, lost, queueFaults>>

(* Everything in hand has ended, the handles are released and the process  *)
(* exits; a new one takes its place.                                       *)
RestartProcess(w) ==
    /\ \/ /\ phase[w] \in {"draining", "forced"} /\ InHand(w) = {}
          /\ ~ \E e \in failing : e.worker = w
       \/ phase[w] = "down"
    /\ phase' = [phase EXCEPT ![w] = "up"]
    /\ UNCHANGED <<place, record, inFlight, hands, failing, alarms, depth,
                   deadLetters, effects, excuse, lost, queueFaults>>

(* The process dies: promises, deliveries and unhandled events go with it. *)
CrashProcess(w) ==
    /\ phase[w] # "down"
    /\ QueueFault
    /\ phase' = [phase EXCEPT ![w] = "down"]
    /\ inFlight' = [inFlight EXCEPT ![w] = [k \in Keys |-> "none"]]
    /\ hands' = [hands EXCEPT ![w] = [k \in Keys |-> 0]]
    /\ place' = Unlocked(w)
    /\ failing' = {e \in failing : e.worker # w}
    /\ lost' = lost \cup {e.key : e \in {f \in failing : f.worker = w}}
    /\ excuse' = excuse \cup {k \in Keys : inFlight[w][k] = "set"}
    /\ UNCHANGED <<record, alarms, depth, deadLetters, effects>>

----------------------------------------------------------------------------
Process(w, k) == LookUp(w, k) \/ DoWork(w, k) \/ RecordResult(w, k)

ProcessFails(w, k) == WorkThrows(w, k) \/ RecordFails(w, k)

QueueNext ==
    \/ \E k \in Keys : \/ EnqueueJob(k) \/ RemoveCompleted(k) \/ RecordExpires(k)
                       \/ Promote(k) \/ LockLapses(k)
    \/ \E w \in Replicas, k \in Keys : \/ DeliverJob(w, k) \/ StalledCheck(w, k)
                                       \/ Process(w, k) \/ ProcessFails(w, k)
    \/ \E e \in failing : DecideFailure(e) \/ SendDeadLetter(e) \/ SendFails(e)
    \/ \E w \in Replicas : Drain(w) \/ ForceClose(w) \/ RestartProcess(w) \/ CrashProcess(w)
    \/ SampleDepth

JobSpec == QueueInit /\ [][QueueNext]_jobVars

(* The event loop runs what is pending, BullMQ delivers, promotes and      *)
(* checks for stalled jobs, and the container runtime restarts a process.  *)
QueueFairness ==
    /\ \A k \in Keys : WF_jobVars(Promote(k))
    /\ \A k \in Keys : SF_jobVars(\E w \in Replicas : DeliverJob(w, k) \/ StalledCheck(w, k))
    /\ \A w \in Replicas : /\ WF_jobVars(RestartProcess(w))
                            /\ \A k \in Keys : WF_jobVars(Process(w, k) \/ RecordFails(w, k))
    /\ WF_jobVars(\E e \in failing : DecideFailure(e) \/ SendDeadLetter(e))

----------------------------------------------------------------------------
(* idempotent(): the work of a key is done twice only if a process died or *)
(* lost its write between doing the work and recording it, if the record   *)
(* expired, or if two processes had the job at once.  Two deliveries       *)
(* inside one process never repeat it, lapsed lock or not.                 *)
RepeatsExplained == \A k \in Keys : effects[k] > 1 => k \in excuse

(* A job that gave up is seen: its place stays on the failed list, and it  *)
(* has raised the alarm unless the process that should have raised it is   *)
(* still on its way to or died.  A dead letter is only of such a job.      *)
GivingUpIsSeen ==
    \A k \in Keys :
        /\ place[k].at = "failed" =>
              alarms[k] > 0 \/ k \in lost \/ \E e \in failing : e.key = k
        /\ k \in deadLetters => place[k].at = "failed" /\ alarms[k] > 0

(* A job that waits is completed or given up: no fault, drain or crash     *)
(* leaves it between two processes for ever.                               *)
JobsConclude ==
    \A k \in Keys : place[k].at = "waiting" ~> place[k].at \in {"completed", "failed", "none"}
=============================================================================
