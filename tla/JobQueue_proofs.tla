--------------------------- MODULE JobQueue_proofs ---------------------------
(***************************************************************************)
(* Proofs about JobQueue, for any keys, processes, budgets, concurrency,   *)
(* stall limit and number of faults.                                       *)
(***************************************************************************)
EXTENDS JobQueue, TLAPS

(* Idempotency.  While nothing has happened that may repeat a key's work,  *)
(* one process at most has it in flight, the work has been done once at    *)
(* most, and if it has been done its result is recorded or on its way.     *)

FlightTypes ==
    /\ inFlight \in [Replicas -> [Keys -> {"none", "get", "fn", "set"}]]
    /\ effects \in [Keys -> Nat]

Unrepeated(k) ==
    /\ \A v, w \in Replicas : inFlight[v][k] # "none" /\ inFlight[w][k] # "none" => v = w
    /\ effects[k] <= 1
    /\ effects[k] = 1 => k \in record \/ \E w \in Replicas : inFlight[w][k] = "set"
    /\ (\E w \in Replicas : inFlight[w][k] = "fn") => effects[k] = 0

RepeatInv ==
    /\ FlightTypes
    /\ \A k \in Keys : k \notin excuse => Unrepeated(k)

LEMMA RepeatStart == QueueInit => RepeatInv
BY DEF QueueInit, RepeatInv, FlightTypes, Unrepeated

(* A step that moves one promise of one process. *)
LEMMA RepeatMove ==
    ASSUME RepeatInv, FlightTypes', NEW w \in Replicas, NEW k \in Keys, NEW s,
           inFlight' = [inFlight EXCEPT ![w][k] = s], excuse \subseteq excuse',
           \A j \in Keys \ {k} : effects'[j] = effects[j] /\ (j \in record => j \in record'),
           k \notin excuse' => Unrepeated(k)'
    PROVE  RepeatInv'
<1>1. ASSUME NEW j \in Keys \ {k}, j \notin excuse' PROVE Unrepeated(j)'
  <2>1. \A v \in Replicas : inFlight'[v][j] = inFlight[v][j]
    BY DEF RepeatInv, FlightTypes
  <2>2. Unrepeated(j)
    BY <1>1 DEF RepeatInv
  <2> QED
    BY <2>1, <2>2 DEF Unrepeated
<1> QED
  BY <1>1 DEF RepeatInv

LEMMA RepeatStep == RepeatInv /\ [QueueNext]_jobVars => RepeatInv'
<1> SUFFICES ASSUME RepeatInv, [QueueNext]_jobVars PROVE RepeatInv'
  OBVIOUS
<1> USE DEF FlightTypes
<1>1. FlightTypes
  BY DEF RepeatInv
<1>2. ASSUME NEW w \in Replicas, NEW k \in Keys, DeliverJob(w, k) PROVE RepeatInv'
  <2>1. /\ UNCHANGED <<record, effects>>
        /\ inFlight' = [inFlight EXCEPT ![w][k] = IF inFlight[w][k] = "none" THEN "get"
                                                  ELSE inFlight[w][k]]
        /\ excuse' = IF \E v \in Replicas \ {w} : inFlight[v][k] # "none"
                     THEN excuse \cup {k} ELSE excuse
    BY <1>1, <1>2 DEF DeliverJob
  <2>2. FlightTypes'
    BY <1>1, <2>1
  <2>3. ASSUME k \notin excuse' PROVE Unrepeated(k)'
    <3>1. \A v \in Replicas \ {w} : inFlight[v][k] = "none"
      BY <2>1, <2>3
    <3>2. \A v \in Replicas : inFlight'[v][k] = IF v # w THEN inFlight[v][k]
                              ELSE IF inFlight[w][k] = "none" THEN "get" ELSE inFlight[w][k]
      BY <1>1, <2>1
    <3>3. Unrepeated(k)
      BY <2>1, <2>3 DEF RepeatInv
    <3> QED
      BY <2>1, <3>1, <3>2, <3>3 DEF Unrepeated
  <2> QED
    BY <2>1, <2>2, <2>3, RepeatMove
<1>3. ASSUME NEW w \in Replicas, NEW k \in Keys, LookUp(w, k) PROVE RepeatInv'
  <2>1. /\ UNCHANGED <<record, effects, excuse>> /\ inFlight[w][k] = "get"
        /\ inFlight' = [inFlight EXCEPT ![w][k] = IF k \in record THEN "none" ELSE "fn"]
    BY <1>3 DEF LookUp, Resolve, Settle
  <2>2. FlightTypes'
    BY <1>1, <2>1
  <2>3. ASSUME k \notin excuse' PROVE Unrepeated(k)'
    <3>1. \A v \in Replicas : inFlight'[v][k] = IF v # w THEN inFlight[v][k]
                              ELSE IF k \in record THEN "none" ELSE "fn"
      BY <1>1, <2>1
    <3>2. Unrepeated(k)
      BY <2>1, <2>3 DEF RepeatInv
    <3>3. \A v \in Replicas : inFlight[v][k] \notin {"fn", "set"}
      BY <2>1, <3>2 DEF Unrepeated
    <3>4. k \notin record => effects[k] = 0
      BY <1>1, <3>2, <3>3 DEF Unrepeated
    <3> QED
      BY <2>1, <3>1, <3>2, <3>3, <3>4 DEF Unrepeated
  <2> QED
    BY <2>1, <2>2, <2>3, RepeatMove
<1>4. ASSUME NEW w \in Replicas, NEW k \in Keys, DoWork(w, k) PROVE RepeatInv'
  <2>1. /\ UNCHANGED <<record, excuse>> /\ inFlight[w][k] = "fn"
        /\ inFlight' = [inFlight EXCEPT ![w][k] = "set"]
        /\ effects' = [effects EXCEPT ![k] = effects[k] + 1]
    BY <1>4 DEF DoWork
  <2>2. FlightTypes'
    BY <1>1, <2>1
  <2>3. ASSUME k \notin excuse' PROVE Unrepeated(k)'
    <3>1. \A v \in Replicas : inFlight'[v][k] = IF v # w THEN inFlight[v][k] ELSE "set"
      BY <1>1, <2>1
    <3>2. Unrepeated(k)
      BY <2>1, <2>3 DEF RepeatInv
    <3>3. effects'[k] = 1 /\ \A v \in Replicas \ {w} : inFlight[v][k] = "none"
      BY <1>1, <2>1, <3>2 DEF Unrepeated
    <3> QED
      BY <3>1, <3>3 DEF Unrepeated
  <2> QED
    BY <1>1, <2>1, <2>2, <2>3, RepeatMove
<1>5. ASSUME NEW w \in Replicas, NEW k \in Keys, WorkThrows(w, k) \/ RecordFails(w, k)
      PROVE  RepeatInv'
  <2>1. /\ UNCHANGED <<record, effects>>
        /\ inFlight' = [inFlight EXCEPT ![w][k] = "none"]
        /\ excuse \subseteq excuse'
        /\ k \notin excuse' => inFlight[w][k] # "set"
    BY <1>5 DEF WorkThrows, RecordFails, Reject, Settle
  <2>2. FlightTypes'
    BY <1>1, <2>1
  <2>3. ASSUME k \notin excuse' PROVE Unrepeated(k)'
    <3>1. \A v \in Replicas : inFlight'[v][k] = IF v # w THEN inFlight[v][k] ELSE "none"
      BY <1>1, <2>1
    <3>2. Unrepeated(k)
      BY <2>1, <2>3 DEF RepeatInv
    <3> QED
      BY <2>1, <2>3, <3>1, <3>2 DEF Unrepeated
  <2> QED
    BY <2>1, <2>2, <2>3, RepeatMove
<1>6. ASSUME NEW w \in Replicas, NEW k \in Keys, RecordResult(w, k) PROVE RepeatInv'
  <2>1. /\ UNCHANGED <<effects, excuse>> /\ record' = record \cup {k}
        /\ inFlight' = [inFlight EXCEPT ![w][k] = "none"]
    BY <1>6 DEF RecordResult, Resolve, Settle
  <2>2. FlightTypes'
    BY <1>1, <2>1
  <2>3. ASSUME k \notin excuse' PROVE Unrepeated(k)'
    <3>1. \A v \in Replicas : inFlight'[v][k] = IF v # w THEN inFlight[v][k] ELSE "none"
      BY <1>1, <2>1
    <3>2. Unrepeated(k)
      BY <2>1, <2>3 DEF RepeatInv
    <3> QED
      BY <2>1, <3>1, <3>2 DEF Unrepeated
  <2> QED
    BY <2>1, <2>2, <2>3, RepeatMove
<1>7. ASSUME NEW k \in Keys, RecordExpires(k) PROVE RepeatInv'
  <2>1. /\ UNCHANGED <<effects, inFlight>> /\ record' = record \ {k}
        /\ excuse' = excuse \cup {k}
    BY <1>7 DEF RecordExpires
  <2> QED
    BY <2>1 DEF RepeatInv, Unrepeated
<1>8. ASSUME NEW w \in Replicas, CrashProcess(w) PROVE RepeatInv'
  <2>1. /\ UNCHANGED <<effects, record>>
        /\ inFlight' = [inFlight EXCEPT ![w] = [k \in Keys |-> "none"]]
        /\ excuse' = excuse \cup {k \in Keys : inFlight[w][k] = "set"}
    BY <1>8 DEF CrashProcess
  <2>2. FlightTypes'
    BY <1>1, <2>1
  <2>3. ASSUME NEW k \in Keys, k \notin excuse' PROVE Unrepeated(k)'
    <3>1. \A v \in Replicas : inFlight'[v][k] = IF v # w THEN inFlight[v][k] ELSE "none"
      BY <1>1, <2>1
    <3>2. Unrepeated(k) /\ inFlight[w][k] # "set"
      BY <2>1, <2>3 DEF RepeatInv
    <3> QED
      BY <2>1, <3>1, <3>2 DEF Unrepeated
  <2> QED
    BY <2>2, <2>3 DEF RepeatInv
<1>9. CASE UNCHANGED <<inFlight, effects, record, excuse>>
  BY <1>9 DEF RepeatInv, Unrepeated
<1>10. ASSUME NEW k \in Keys, EnqueueJob(k) \/ RemoveCompleted(k) \/ Promote(k) \/ LockLapses(k)
       PROVE  UNCHANGED <<inFlight, effects, record, excuse>>
  BY <1>10 DEF EnqueueJob, RemoveCompleted, Promote, LockLapses
<1>11. ASSUME NEW w \in Replicas, NEW k \in Keys, StalledCheck(w, k)
       PROVE  UNCHANGED <<inFlight, effects, record, excuse>>
  BY <1>11 DEF StalledCheck
<1>12. ASSUME NEW e \in failing, DecideFailure(e) \/ SendDeadLetter(e) \/ SendFails(e)
       PROVE  UNCHANGED <<inFlight, effects, record, excuse>>
  BY <1>12 DEF DecideFailure, SendDeadLetter, SendFails
<1>13. ASSUME NEW w \in Replicas, Drain(w) \/ ForceClose(w) \/ RestartProcess(w)
       PROVE  UNCHANGED <<inFlight, effects, record, excuse>>
  BY <1>13 DEF Drain, ForceClose, RestartProcess
<1>14. CASE SampleDepth \/ UNCHANGED jobVars
  BY <1>14, <1>9 DEF SampleDepth, jobVars
<1> QED
  BY <1>2, <1>3, <1>4, <1>5, <1>6, <1>7, <1>8, <1>9, <1>10, <1>11, <1>12, <1>13, <1>14
     DEF QueueNext, Process, ProcessFails

(* The work of a key is done twice only for a reason the code names: a     *)
(* process that died or lost its write in between, a record that expired,  *)
(* or two processes that had the job at once.                              *)
THEOREM RepeatsHaveReasons == JobSpec => []RepeatsExplained
<1>1. RepeatInv => RepeatsExplained
  BY DEF RepeatInv, FlightTypes, Unrepeated, RepeatsExplained
<1> QED
  BY <1>1, RepeatStart, RepeatStep, PTL DEF JobSpec

-----------------------------------------------------------------------------
(* Giving up.  A job on the failed list never leaves it, and the event of  *)
(* its last failure is still to be decided on, has raised the alarm, or    *)
(* died with its process.                                                  *)

Fatal(e) ==
    e.step = "decide" /\ DeadLetterDecision(e.made, Budget, e.unrecoverable).deadLetter

FailureTypes ==
    /\ DOMAIN place = Keys
    /\ \A k \in Keys : DOMAIN place[k] = {"at", "made", "stalls", "holder"} /\ place[k].made \in Nat
    /\ alarms \in [Keys -> Nat]
    /\ \A e \in failing :
         /\ DOMAIN e = {"worker", "key", "made", "unrecoverable", "reason", "step"}
         /\ e.key \in Keys /\ e.worker \in Replicas

Seen(k) == alarms[k] > 0 \/ k \in lost \/ \E e \in failing : e.key = k /\ Fatal(e)

FailureInv ==
    /\ FailureTypes
    /\ \A k \in Keys : place[k].at = "failed" => Seen(k)
    /\ \A e \in failing : Fatal(e) \/ e.step = "send" => place[e.key].at = "failed"
    /\ \A e \in failing : e.step = "send" => alarms[e.key] > 0
    /\ \A k \in Keys \cap deadLetters : place[k].at = "failed" /\ alarms[k] > 0

LEMMA FailureStart == QueueInit => FailureInv
BY DEF QueueInit, FailureInv, FailureTypes, Absent

(* The jobs move, and nothing fails for good. *)
LEMMA FailureKept ==
    ASSUME FailureInv, UNCHANGED <<failing, alarms, deadLetters>>, lost \subseteq lost',
           DOMAIN place' = Keys,
           \A k \in Keys : /\ DOMAIN place'[k] = {"at", "made", "stalls", "holder"}
                           /\ place'[k].made \in Nat
                           /\ place'[k].at = "failed" <=> place[k].at = "failed"
    PROVE  FailureInv'
<1>1. FailureTypes'
  BY DEF FailureInv, FailureTypes
<1>2. \A k \in Keys : Seen(k) => Seen(k)'
  BY DEF Seen, Fatal
<1>3. \A e \in failing : e.key \in Keys
  BY DEF FailureInv, FailureTypes
<1>4. \A e \in failing : Fatal(e)' <=> Fatal(e)
  BY DEF Fatal
<1> QED
  BY <1>1, <1>2, <1>3, <1>4 DEF FailureInv

(* A job fails, perhaps for good, and the event says which. *)
LEMMA FailureAdded ==
    ASSUME FailureInv, NEW k \in Keys, NEW e, UNCHANGED <<alarms, deadLetters, lost>>,
           failing' = failing \cup {e}, e.key = k, e.worker \in Replicas, e.step = "decide",
           DOMAIN e = {"worker", "key", "made", "unrecoverable", "reason", "step"},
           DOMAIN place' = Keys, \A j \in Keys \ {k} : place'[j] = place[j],
           DOMAIN place'[k] = {"at", "made", "stalls", "holder"}, place'[k].made \in Nat,
           place[k].at # "failed", place'[k].at = "failed" <=> Fatal(e)
    PROVE  FailureInv'
<1>1. FailureTypes'
  <2>1. \A j \in Keys : DOMAIN place'[j] = {"at", "made", "stalls", "holder"}
                        /\ place'[j].made \in Nat
    BY DEF FailureInv, FailureTypes
  <2> QED
    BY <2>1 DEF FailureInv, FailureTypes
<1>2. \A d : Fatal(d)' <=> Fatal(d)
  BY DEF Fatal
<1>3. \A j \in Keys : Seen(j) => Seen(j)'
  BY <1>2 DEF Seen
<1>4. Fatal(e) => Seen(k)'
  BY <1>2 DEF Seen
<1>5. \A j \in Keys : place[j].at = "failed" => place'[j].at = "failed"
  OBVIOUS
<1>6. ASSUME NEW j \in Keys, place'[j].at = "failed" PROVE Seen(j)'
  BY <1>3, <1>4, <1>6 DEF FailureInv
<1>7. ASSUME NEW d \in failing', Fatal(d)' \/ d.step = "send" PROVE place'[d.key].at = "failed"
  <2>1. CASE d = e
    BY <1>2, <1>7, <2>1
  <2>2. CASE d \in failing
    BY <1>2, <1>5, <1>7, <2>2 DEF FailureInv, FailureTypes
  <2> QED
    BY <2>1, <2>2
<1>8. \A d \in failing' : d.step = "send" => alarms'[d.key] > 0
  BY DEF FailureInv
<1>9. \A j \in Keys \cap deadLetters' : place'[j].at = "failed" /\ alarms'[j] > 0
  BY <1>5 DEF FailureInv
<1> QED
  BY <1>1, <1>6, <1>7, <1>8, <1>9 DEF FailureInv

LEMMA RejectKeeps ==
    ASSUME FailureInv, NEW w \in Replicas, NEW k \in Keys, NEW words, Reject(w, k, words),
           UNCHANGED <<alarms, deadLetters, lost>>
    PROVE  FailureInv'
<1>1. CASE ~MayMove(w, k)
  <2>1. UNCHANGED <<place, failing>>
    BY <1>1 DEF Reject
  <2> QED
    BY <2>1, FailureKept DEF FailureInv, FailureTypes
<1>2. CASE MayMove(w, k)
  <2> DEFINE made == place[k].made + 1
             e == [worker |-> w, key |-> k, made |-> made, unrecoverable |-> FALSE,
                   reason |-> ClassifyFailure(words), step |-> "decide"]
  <2>1. /\ place' = [place EXCEPT ![k] =
                       [at |-> IF made < Budget THEN "delayed" ELSE "failed",
                        made |-> made, stalls |-> place[k].stalls, holder |-> NoWorker]]
        /\ failing' = failing \cup {e}
        /\ place[k].at = "active"
    BY <1>2 DEF Reject, MayMove
  <2>2. made \in Nat /\ made >= 1 /\ Budget \in Nat /\ Budget > 0 /\ DOMAIN place = Keys
    BY QueueBounds DEF FailureInv, FailureTypes
  <2>3. Fatal(e) <=> ~(made < Budget)
    <3>1. e.step = "decide" /\ e.made = made /\ e.unrecoverable = FALSE
      OBVIOUS
    <3> HIDE DEF made, e
    <3>2. made \in Nat /\ made >= 1 /\ Budget \in Nat /\ Budget > 0
      BY <2>2
    <3> QED
      BY <3>1, <3>2 DEF Fatal, DeadLetterDecision
  <2>4. /\ DOMAIN place' = Keys /\ \A j \in Keys \ {k} : place'[j] = place[j]
        /\ DOMAIN place'[k] = {"at", "made", "stalls", "holder"}
        /\ place'[k].made = made
        /\ place'[k].at = IF made < Budget THEN "delayed" ELSE "failed"
    BY <2>1, <2>2
  <2>5. e.key = k /\ e.worker = w /\ e.step = "decide"
        /\ DOMAIN e = {"worker", "key", "made", "unrecoverable", "reason", "step"}
    OBVIOUS
  <2> HIDE DEF e, made
  <2> QED
    BY <2>1, <2>2, <2>3, <2>4, <2>5, FailureAdded
<1> QED
  BY <1>1, <1>2

(* Every other move of a job. *)
LEMMA ResolveKeeps ==
    ASSUME FailureInv, NEW w \in Replicas, NEW k \in Keys, Resolve(w, k),
           UNCHANGED <<alarms, deadLetters, lost>>
    PROVE  FailureInv'
<1>1. /\ DOMAIN place = Keys /\ \A j \in Keys : place[j].made \in Nat
      /\ \A j \in Keys : DOMAIN place[j] = {"at", "made", "stalls", "holder"}
  BY DEF FailureInv, FailureTypes
<1>2. UNCHANGED failing
  BY DEF Resolve
<1>3. CASE ~MayMove(w, k)
  BY <1>1, <1>2, <1>3, FailureKept DEF Resolve
<1>4. CASE MayMove(w, k)
  <2>1. /\ place' = [place EXCEPT ![k].at = "completed", ![k].holder = NoWorker]
        /\ place[k].at = "active"
    BY <1>4 DEF Resolve, MayMove
  <2>2. /\ DOMAIN place' = Keys
        /\ \A j \in Keys : /\ DOMAIN place'[j] = {"at", "made", "stalls", "holder"}
                           /\ place'[j].made = place[j].made
                           /\ place'[j].at = "failed" <=> place[j].at = "failed"
    BY <1>1, <2>1
  <2> QED
    BY <1>1, <1>2, <2>2, FailureKept
<1> QED
  BY <1>3, <1>4

LEMMA FailureStep == FailureInv /\ [QueueNext]_jobVars => FailureInv'
<1> SUFFICES ASSUME FailureInv, [QueueNext]_jobVars PROVE FailureInv'
  OBVIOUS
<1>1. /\ DOMAIN place = Keys /\ \A k \in Keys : place[k].made \in Nat
      /\ \A k \in Keys : DOMAIN place[k] = {"at", "made", "stalls", "holder"}
      /\ alarms \in [Keys -> Nat]
  BY DEF FailureInv, FailureTypes
<1>2. \A e \in failing : /\ e.key \in Keys /\ e.worker \in Replicas
                         /\ DOMAIN e = {"worker", "key", "made", "unrecoverable", "reason", "step"}
  BY DEF FailureInv, FailureTypes
<1>3. ASSUME NEW k \in Keys, EnqueueJob(k) \/ Promote(k) PROVE FailureInv'
  <2>1. /\ UNCHANGED <<failing, alarms, deadLetters, lost>>
        /\ place' = [place EXCEPT ![k].at = "waiting"] /\ place[k].at # "failed"
    BY <1>3 DEF EnqueueJob, Promote
  <2>2. /\ DOMAIN place' = Keys
        /\ \A j \in Keys : /\ DOMAIN place'[j] = {"at", "made", "stalls", "holder"}
                           /\ place'[j].made = place[j].made
                           /\ place'[j].at = "failed" <=> place[j].at = "failed"
    BY <1>1, <2>1
  <2> QED
    BY <1>1, <2>1, <2>2, FailureKept
<1>4. ASSUME NEW k \in Keys, RemoveCompleted(k) PROVE FailureInv'
  <2>1. /\ UNCHANGED <<failing, alarms, deadLetters, lost>>
        /\ place' = [place EXCEPT ![k] = Absent] /\ place[k].at = "completed"
    BY <1>4 DEF RemoveCompleted
  <2>2. /\ DOMAIN place' = Keys
        /\ \A j \in Keys : /\ DOMAIN place'[j] = {"at", "made", "stalls", "holder"}
                           /\ place'[j].made \in Nat
                           /\ place'[j].at = "failed" <=> place[j].at = "failed"
    BY <1>1, <2>1 DEF Absent
  <2> QED
    BY <2>1, <2>2, FailureKept
<1>5. ASSUME NEW w \in Replicas, NEW k \in Keys, DeliverJob(w, k) PROVE FailureInv'
  <2>1. /\ UNCHANGED <<failing, alarms, deadLetters, lost>>
        /\ place' = [place EXCEPT ![k].at = "active", ![k].holder = w]
        /\ place[k].at = "waiting"
    BY <1>5 DEF DeliverJob
  <2>2. /\ DOMAIN place' = Keys
        /\ \A j \in Keys : /\ DOMAIN place'[j] = {"at", "made", "stalls", "holder"}
                           /\ place'[j].made = place[j].made
                           /\ place'[j].at = "failed" <=> place[j].at = "failed"
    BY <1>1, <2>1
  <2> QED
    BY <1>1, <2>1, <2>2, FailureKept
<1>6. ASSUME NEW k \in Keys, LockLapses(k) PROVE FailureInv'
  <2>1. /\ UNCHANGED <<failing, alarms, deadLetters, lost>>
        /\ place' = [place EXCEPT ![k].holder = NoWorker]
    BY <1>6 DEF LockLapses
  <2>2. /\ DOMAIN place' = Keys
        /\ \A j \in Keys : /\ DOMAIN place'[j] = {"at", "made", "stalls", "holder"}
                           /\ place'[j].made = place[j].made
                           /\ place'[j].at = "failed" <=> place[j].at = "failed"
    BY <1>1, <2>1
  <2> QED
    BY <1>1, <2>1, <2>2, FailureKept
<1>7. ASSUME NEW w \in Replicas, NEW k \in Keys, LookUp(w, k) PROVE FailureInv'
  <2>1. UNCHANGED <<alarms, deadLetters, lost>>
        /\ (Resolve(w, k) \/ UNCHANGED <<place, failing>>)
    BY <1>7 DEF LookUp
  <2> QED
    BY <1>1, <2>1, ResolveKeeps, FailureKept
<1>8. ASSUME NEW w \in Replicas, NEW k \in Keys, RecordResult(w, k) PROVE FailureInv'
  <2>1. UNCHANGED <<alarms, deadLetters, lost>> /\ Resolve(w, k)
    BY <1>8 DEF RecordResult
  <2> QED
    BY <2>1, ResolveKeeps
<1>9. ASSUME NEW w \in Replicas, NEW k \in Keys, WorkThrows(w, k) \/ RecordFails(w, k)
      PROVE  FailureInv'
  <2>1. UNCHANGED <<alarms, deadLetters, lost>> /\ \E words : Reject(w, k, words)
    BY <1>9 DEF WorkThrows, RecordFails
  <2> QED
    BY <2>1, RejectKeeps
<1>10. ASSUME NEW w \in Replicas, NEW k \in Keys, StalledCheck(w, k) PROVE FailureInv'
  <2>1. UNCHANGED <<alarms, deadLetters, lost>> /\ place[k].at = "active"
    BY <1>10 DEF StalledCheck
  <2>2. CASE place[k].stalls < StallLimit
    <3>1. /\ place' = [place EXCEPT ![k] = [at |-> "waiting", made |-> place[k].made,
                                            stalls |-> place[k].stalls + 1, holder |-> NoWorker]]
          /\ UNCHANGED failing
      BY <1>10, <2>2 DEF StalledCheck
    <3>2. /\ DOMAIN place' = Keys
          /\ \A j \in Keys : /\ DOMAIN place'[j] = {"at", "made", "stalls", "holder"}
                             /\ place'[j].made = place[j].made
                             /\ place'[j].at = "failed" <=> place[j].at = "failed"
      BY <1>1, <2>1, <3>1
    <3> QED
      BY <1>1, <2>1, <3>1, <3>2, FailureKept
  <2>3. CASE ~(place[k].stalls < StallLimit)
    <3> DEFINE e == [worker |-> w, key |-> k, made |-> place[k].made, unrecoverable |-> TRUE,
                     reason |-> ClassifyFailure({"stalled"}), step |-> "decide"]
    <3>1. /\ place' = [place EXCEPT ![k].at = "failed", ![k].holder = NoWorker]
          /\ failing' = failing \cup {e}
      BY <1>10, <2>3 DEF StalledCheck
    <3>2. /\ DOMAIN place' = Keys /\ \A j \in Keys \ {k} : place'[j] = place[j]
          /\ DOMAIN place'[k] = {"at", "made", "stalls", "holder"}
          /\ place'[k].made = place[k].made /\ place'[k].at = "failed"
      BY <1>1, <3>1
    <3>3. e.key = k /\ e.worker = w /\ e.step = "decide" /\ e.unrecoverable = TRUE
          /\ DOMAIN e = {"worker", "key", "made", "unrecoverable", "reason", "step"}
      OBVIOUS
    <3> HIDE DEF e
    <3>4. Fatal(e)
      BY <3>3 DEF Fatal, DeadLetterDecision
    <3> QED
      BY <1>1, <2>1, <3>1, <3>2, <3>3, <3>4, FailureAdded
  <2> QED
    BY <2>2, <2>3
<1>11. ASSUME NEW e \in failing, DecideFailure(e) PROVE FailureInv'
  <2>1. UNCHANGED <<place, deadLetters, lost>> /\ e.step = "decide" /\ e.key \in Keys
    BY <1>2, <1>11 DEF DecideFailure
  <2>2. \A d : Fatal(d)' <=> Fatal(d)
    BY DEF Fatal
  <2>3. CASE DeadLetterDecision(e.made, Budget, e.unrecoverable).deadLetter
    <3>1. /\ failing' = (failing \ {e}) \cup {[e EXCEPT !.step = "send"]}
          /\ alarms' = [alarms EXCEPT ![e.key] = @ + 1]
      BY <1>11, <2>3 DEF DecideFailure
    <3> DEFINE f == [e EXCEPT !.step = "send"]
    <3>2. /\ f.step = "send" /\ f.key = e.key /\ f.worker = e.worker
          /\ DOMAIN f = {"worker", "key", "made", "unrecoverable", "reason", "step"}
      BY <1>2
    <3> HIDE DEF f
    <3>3. /\ alarms' \in [Keys -> Nat] /\ alarms'[e.key] > 0
          /\ \A k \in Keys : alarms[k] > 0 => alarms'[k] > 0
      BY <1>1, <2>1, <3>1
    <3>4. FailureTypes'
      BY <1>1, <1>2, <2>1, <3>1, <3>2, <3>3 DEF f, FailureTypes
    <3>5. ASSUME NEW k \in Keys, place[k].at = "failed" PROVE Seen(k)'
      <4>1. Seen(k)
        BY <3>5 DEF FailureInv
      <4>2. CASE k = e.key
        BY <3>3, <4>2 DEF Seen
      <4>3. CASE k # e.key
        BY <2>1, <2>2, <3>1, <3>3, <4>1, <4>3 DEF Seen
      <4> QED
        BY <4>2, <4>3
    <3>6. place[e.key].at = "failed"
      BY <2>1, <2>3 DEF Fatal, FailureInv
    <3>7. ASSUME NEW d \in failing', Fatal(d)' \/ d.step = "send" PROVE place'[d.key].at = "failed"
      BY <2>1, <2>2, <3>1, <3>2, <3>6, <3>7 DEF f, FailureInv
    <3>8. \A d \in failing' : d.step = "send" => alarms'[d.key] > 0
      <4>1. \A d \in failing : d.step = "send" => alarms[d.key] > 0 /\ d.key \in Keys
        BY <1>2 DEF FailureInv
      <4> QED
        BY <3>1, <3>2, <3>3, <4>1 DEF f
    <3>9. \A k \in Keys \cap deadLetters' : place'[k].at = "failed" /\ alarms'[k] > 0
      BY <2>1, <3>3 DEF FailureInv
    <3> QED
      BY <2>1, <3>4, <3>5, <3>7, <3>8, <3>9 DEF FailureInv
  <2>4. CASE ~DeadLetterDecision(e.made, Budget, e.unrecoverable).deadLetter
    <3>1. failing' = failing \ {e} /\ alarms' = alarms
      BY <1>11, <2>4 DEF DecideFailure
    <3>2. ~Fatal(e)
      BY <2>4 DEF Fatal
    <3>3. \A k \in Keys : Seen(k) => Seen(k)'
      BY <2>1, <2>2, <3>1, <3>2 DEF Seen
    <3> QED
      BY <2>1, <2>2, <3>1, <3>3 DEF FailureInv, FailureTypes
  <2> QED
    BY <2>3, <2>4
<1>12. ASSUME NEW e \in failing, SendDeadLetter(e) \/ SendFails(e) PROVE FailureInv'
  <2>1. /\ UNCHANGED <<place, alarms, lost>> /\ e.step = "send"
        /\ failing' = failing \ {e}
        /\ deadLetters' \in {deadLetters, deadLetters \cup {e.key}}
    BY <1>12 DEF SendDeadLetter, SendFails
  <2>2. ~Fatal(e) /\ \A d : Fatal(d)' <=> Fatal(d)
    BY <2>1 DEF Fatal
  <2>3. \A k \in Keys : Seen(k) => Seen(k)'
    BY <2>1, <2>2 DEF Seen
  <2>4. place[e.key].at = "failed" /\ alarms[e.key] > 0
    BY <2>1 DEF FailureInv
  <2> QED
    BY <2>1, <2>2, <2>3, <2>4 DEF FailureInv, FailureTypes
<1>13. ASSUME NEW w \in Replicas, CrashProcess(w) PROVE FailureInv'
  <2>1. /\ UNCHANGED <<alarms, deadLetters>> /\ place' = Unlocked(w)
        /\ failing' = {e \in failing : e.worker # w}
        /\ lost' = lost \cup {e.key : e \in {f \in failing : f.worker = w}}
    BY <1>13 DEF CrashProcess
  <2>2. /\ DOMAIN place' = Keys
        /\ \A k \in Keys : /\ DOMAIN place'[k] = {"at", "made", "stalls", "holder"}
                           /\ place'[k].made = place[k].made /\ place'[k].at = place[k].at
    BY <1>1, <2>1 DEF Unlocked
  <2>3. FailureTypes'
    BY <1>1, <1>2, <2>1, <2>2 DEF FailureTypes
  <2>4. \A d : Fatal(d)' <=> Fatal(d)
    BY DEF Fatal
  <2>5. ASSUME NEW k \in Keys, Seen(k) PROVE Seen(k)'
    <3>1. ASSUME NEW e \in failing, e.key = k, Fatal(e) PROVE Seen(k)'
      <4>1. CASE e.worker = w
        BY <2>1, <3>1, <4>1 DEF Seen
      <4>2. CASE e.worker # w
        BY <2>1, <2>4, <3>1, <4>2 DEF Seen
      <4> QED
        BY <4>1, <4>2
    <3> QED
      BY <2>1, <2>5, <3>1 DEF Seen
  <2>6. \A k \in Keys : place'[k].at = "failed" => Seen(k)'
    BY <2>2, <2>5 DEF FailureInv
  <2>7. \A e \in failing' : Fatal(e)' \/ e.step = "send" => place'[e.key].at = "failed"
    BY <1>2, <2>1, <2>2, <2>4 DEF FailureInv
  <2>8. /\ \A e \in failing' : e.step = "send" => alarms'[e.key] > 0
        /\ \A k \in Keys \cap deadLetters' : place'[k].at = "failed" /\ alarms'[k] > 0
    BY <2>1, <2>2 DEF FailureInv
  <2> QED
    BY <2>3, <2>6, <2>7, <2>8 DEF FailureInv
<1>14. ASSUME NEW w \in Replicas, ForceClose(w) PROVE FailureInv'
  <2>1. UNCHANGED <<failing, alarms, deadLetters, lost>> /\ place' = Unlocked(w)
    BY <1>14 DEF ForceClose
  <2>2. /\ DOMAIN place' = Keys
        /\ \A k \in Keys : /\ DOMAIN place'[k] = {"at", "made", "stalls", "holder"}
                           /\ place'[k].made = place[k].made /\ place'[k].at = place[k].at
    BY <1>1, <2>1 DEF Unlocked
  <2> QED
    BY <1>1, <2>1, <2>2, FailureKept
<1>15. CASE UNCHANGED <<place, failing, alarms, deadLetters, lost>>
  BY <1>1, <1>15, FailureKept
<1>16. ASSUME NEW w \in Replicas, NEW k \in Keys, DoWork(w, k) \/ RecordExpires(k) \/ Drain(w)
                                                  \/ RestartProcess(w) \/ SampleDepth
       PROVE  UNCHANGED <<place, failing, alarms, deadLetters, lost>>
  BY <1>16 DEF DoWork, RecordExpires, Drain, RestartProcess, SampleDepth
<1>17. CASE SampleDepth \/ (\E k \in Keys : RecordExpires(k)) \/ UNCHANGED jobVars
            \/ (\E w \in Replicas : Drain(w) \/ RestartProcess(w))
  BY <1>15, <1>17 DEF RecordExpires, Drain, RestartProcess, SampleDepth, jobVars
<1> QED
  BY <1>3, <1>4, <1>5, <1>6, <1>7, <1>8, <1>9, <1>10, <1>11, <1>12, <1>13, <1>14, <1>15,
     <1>16, <1>17 DEF QueueNext, Process, ProcessFails

(* A job that gave up stays on the failed list, and it has raised the      *)
(* alarm, is about to, or its process died on the way to; a dead letter is *)
(* only of such a job.                                                     *)
THEOREM FailureIsSeen == JobSpec => []GivingUpIsSeen
<1>1. FailureInv => GivingUpIsSeen
  BY DEF FailureInv, Seen, GivingUpIsSeen
<1> QED
  BY <1>1, FailureStart, FailureStep, PTL DEF JobSpec
=============================================================================
