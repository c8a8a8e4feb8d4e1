--------------------------- MODULE BankJobs_proofs ---------------------------
(***************************************************************************)
(* Proofs about BankJobs, for every number of jobs, workers, relays and    *)
(* items and for every bound on the failures.                              *)
(***************************************************************************)
EXTENDS BankJobs, FiniteSetTheorems, TLAPS

(* Every step keeps the types and leaves a busy worker a job to be at. *)
LEMMA TypeStep ==
    ASSUME TypeOK, Employed, [Next]_vars
    PROVE  TypeOK' /\ Employed'
<1> USE BankSets, BankBounds, BankNulls
    DEF Stages, Unfinished, Finished, Positions, rowVars, queueVars, workerVars,
        failureVars
<1>1. ASSUME NEW j \in Jobs, CreateBankJob(j)
      PROVE  TypeOK' /\ Employed'
  <2>1. RowTypes'
    BY <1>1 DEF TypeOK, RowTypes, Employed, CreateBankJob
  <2>2. QueueTypes'
    BY <1>1 DEF TypeOK, QueueTypes, Employed, CreateBankJob
  <2>3. WorkerTypes'
    BY <1>1 DEF TypeOK, WorkerTypes, Employed, CreateBankJob
  <2>4. FailureTypes'
    BY <1>1 DEF TypeOK, FailureTypes, CreateBankJob
  <2>5. Employed'
    BY <1>1 DEF TypeOK, WorkerTypes, Employed, CreateBankJob
  <2> QED
    BY <2>1, <2>2, <2>3, <2>4, <2>5 DEF TypeOK
<1>2. ASSUME NEW j \in Jobs, BecomeStale(j)
      PROVE  TypeOK' /\ Employed'
  <2>1. RowTypes'
    BY <1>2 DEF TypeOK, RowTypes, Employed, BecomeStale
  <2>2. QueueTypes'
    BY <1>2 DEF TypeOK, QueueTypes, Employed, BecomeStale
  <2>3. WorkerTypes'
    BY <1>2 DEF TypeOK, WorkerTypes, Employed, BecomeStale
  <2>4. FailureTypes'
    BY <1>2 DEF TypeOK, FailureTypes, BecomeStale
  <2>5. Employed'
    BY <1>2 DEF TypeOK, WorkerTypes, Employed, BecomeStale
  <2> QED
    BY <2>1, <2>2, <2>3, <2>4, <2>5 DEF TypeOK
<1>3. ASSUME NEW j \in Jobs, LoseLock(j)
      PROVE  TypeOK' /\ Employed'
  <2>1. RowTypes'
    BY <1>3 DEF TypeOK, RowTypes, Employed, LoseLock
  <2>2. QueueTypes'
    BY <1>3 DEF TypeOK, QueueTypes, Employed, LoseLock
  <2>3. WorkerTypes'
    BY <1>3 DEF TypeOK, WorkerTypes, Employed, LoseLock
  <2>4. FailureTypes'
    BY <1>3 DEF TypeOK, FailureTypes, LoseLock
  <2>5. Employed'
    BY <1>3 DEF TypeOK, WorkerTypes, Employed, LoseLock
  <2> QED
    BY <2>1, <2>2, <2>3, <2>4, <2>5 DEF TypeOK
<1>4. ASSUME NEW j \in Jobs, Stalled(j)
      PROVE  TypeOK' /\ Employed'
  <2>1. RowTypes'
    BY <1>4 DEF TypeOK, RowTypes, Employed, Stalled
  <2>2. QueueTypes'
    BY <1>4 DEF TypeOK, QueueTypes, Employed, Stalled
  <2>3. WorkerTypes'
    BY <1>4 DEF TypeOK, WorkerTypes, Employed, Stalled
  <2>4. FailureTypes'
    BY <1>4 DEF TypeOK, FailureTypes, Stalled
  <2>5. Employed'
    BY <1>4 DEF TypeOK, WorkerTypes, Employed, Stalled
  <2> QED
    BY <2>1, <2>2, <2>3, <2>4, <2>5 DEF TypeOK
<1>5. ASSUME NEW j \in Jobs, Evict(j)
      PROVE  TypeOK' /\ Employed'
  <2>1. RowTypes'
    BY <1>5 DEF TypeOK, RowTypes, Employed, Evict
  <2>2. QueueTypes'
    BY <1>5 DEF TypeOK, QueueTypes, Employed, Evict
  <2>3. WorkerTypes'
    BY <1>5 DEF TypeOK, WorkerTypes, Employed, Evict
  <2>4. FailureTypes'
    BY <1>5 DEF TypeOK, FailureTypes, Evict
  <2>5. Employed'
    BY <1>5 DEF TypeOK, WorkerTypes, Employed, Evict
  <2> QED
    BY <2>1, <2>2, <2>3, <2>4, <2>5 DEF TypeOK
<1>6. ASSUME NEW r \in Relays, ClaimBankJobs(r)
      PROVE  TypeOK' /\ Employed'
  <2>1. RowTypes'
    BY <1>6 DEF TypeOK, RowTypes, Employed, ClaimBankJobs, Claimable
  <2>2. QueueTypes'
    BY <1>6 DEF TypeOK, QueueTypes, Employed, ClaimBankJobs, Claimable
  <2>3. WorkerTypes'
    BY <1>6 DEF TypeOK, WorkerTypes, Employed, ClaimBankJobs, Claimable
  <2>4. FailureTypes'
    BY <1>6 DEF TypeOK, FailureTypes, ClaimBankJobs, Claimable
  <2>5. Employed'
    BY <1>6 DEF TypeOK, WorkerTypes, Employed, ClaimBankJobs, Claimable
  <2> QED
    BY <2>1, <2>2, <2>3, <2>4, <2>5 DEF TypeOK
<1>7. ASSUME NEW r \in Relays, EnqueueFails(r)
      PROVE  TypeOK' /\ Employed'
  <2>1. RowTypes'
    BY <1>7 DEF TypeOK, RowTypes, Employed, EnqueueFails
  <2>2. QueueTypes'
    BY <1>7 DEF TypeOK, QueueTypes, Employed, EnqueueFails
  <2>3. WorkerTypes'
    BY <1>7 DEF TypeOK, WorkerTypes, Employed, EnqueueFails
  <2>4. FailureTypes'
    BY <1>7 DEF TypeOK, FailureTypes, EnqueueFails
  <2>5. Employed'
    BY <1>7 DEF TypeOK, WorkerTypes, Employed, EnqueueFails
  <2> QED
    BY <2>1, <2>2, <2>3, <2>4, <2>5 DEF TypeOK
<1>8. ASSUME NEW r \in Relays, RelayCrash(r)
      PROVE  TypeOK' /\ Employed'
  <2>1. RowTypes'
    BY <1>8 DEF TypeOK, RowTypes, Employed, RelayCrash
  <2>2. QueueTypes'
    BY <1>8 DEF TypeOK, QueueTypes, Employed, RelayCrash
  <2>3. WorkerTypes'
    BY <1>8 DEF TypeOK, WorkerTypes, Employed, RelayCrash
  <2>4. FailureTypes'
    BY <1>8 DEF TypeOK, FailureTypes, RelayCrash
  <2>5. Employed'
    BY <1>8 DEF TypeOK, WorkerTypes, Employed, RelayCrash
  <2> QED
    BY <2>1, <2>2, <2>3, <2>4, <2>5 DEF TypeOK
<1>9. ASSUME NEW r \in Relays, NEW j \in Jobs, Enqueue(r, j)
      PROVE  TypeOK' /\ Employed'
  <2>1. RowTypes'
    BY <1>9 DEF TypeOK, RowTypes, Employed, Enqueue, AddToQueue
  <2>2. QueueTypes'
    BY <1>9 DEF TypeOK, QueueTypes, Employed, Enqueue, AddToQueue
  <2>3. WorkerTypes'
    BY <1>9 DEF TypeOK, WorkerTypes, Employed, Enqueue, AddToQueue
  <2>4. FailureTypes'
    BY <1>9 DEF TypeOK, FailureTypes, Enqueue, AddToQueue
  <2>5. Employed'
    BY <1>9 DEF TypeOK, WorkerTypes, Employed, Enqueue, AddToQueue
  <2> QED
    BY <2>1, <2>2, <2>3, <2>4, <2>5 DEF TypeOK
<1>10. ASSUME NEW w \in Workers, NEW j \in Jobs, Deliver(w, j)
      PROVE  TypeOK' /\ Employed'
  <2>1. RowTypes'
    BY <1>10 DEF TypeOK, RowTypes, Employed, Deliver, Goto
  <2>2. QueueTypes'
    BY <1>10 DEF TypeOK, QueueTypes, Employed, Deliver, Goto
  <2>3. WorkerTypes'
    BY <1>10 DEF TypeOK, WorkerTypes, Employed, Deliver, Goto
  <2>4. FailureTypes'
    BY <1>10 DEF TypeOK, FailureTypes, Deliver, Goto
  <2>5. Employed'
    BY <1>10 DEF TypeOK, WorkerTypes, Employed, Deliver, Goto
  <2> QED
    BY <2>1, <2>2, <2>3, <2>4, <2>5 DEF TypeOK
<1>11. ASSUME NEW w \in Workers, NEW ack \in BOOLEAN, StartBankJob(w, ack)
      PROVE  TypeOK' /\ Employed'
  <2>1. RowTypes'
    BY <1>11 DEF TypeOK, RowTypes, Employed, StartBankJob, Answered, Goto, Startable, FirstRun
  <2>2. QueueTypes'
    BY <1>11 DEF TypeOK, QueueTypes, Employed, StartBankJob, Answered, Goto, Startable, FirstRun
  <2>3. WorkerTypes'
    BY <1>11 DEF TypeOK, RowTypes, WorkerTypes, Employed, StartBankJob, Answered, Goto, Startable, FirstRun
  <2>4. FailureTypes'
    BY <1>11 DEF TypeOK, FailureTypes, StartBankJob, Answered, Goto, Startable, FirstRun
  <2>5. Employed'
    BY <1>11 DEF TypeOK, WorkerTypes, Employed, StartBankJob, Answered, Goto, Startable, FirstRun
  <2> QED
    BY <2>1, <2>2, <2>3, <2>4, <2>5 DEF TypeOK
<1>12. ASSUME NEW w \in Workers, NEW ack \in BOOLEAN, RecordParseProblems(w, ack)
      PROVE  TypeOK' /\ Employed'
  <2>1. job[w] \in Jobs
    BY <1>12 DEF Employed, RecordParseProblems
  <2>2. skipped' \in [Jobs -> Nat]
    BY <1>12, <2>1 DEF TypeOK, RowTypes, RecordParseProblems
  <2>3. RowTypes'
    BY <1>12, <2>2 DEF TypeOK, RowTypes, RecordParseProblems
  <2>4. QueueTypes'
    BY <1>12 DEF TypeOK, QueueTypes, Employed, RecordParseProblems, Answered, Goto
  <2>5. WorkerTypes'
    BY <1>12 DEF TypeOK, WorkerTypes, Employed, RecordParseProblems, Answered, Goto
  <2>6. FailureTypes'
    BY <1>12 DEF TypeOK, FailureTypes, RecordParseProblems, Answered, Goto
  <2>7. Employed'
    BY <1>12 DEF TypeOK, WorkerTypes, Employed, RecordParseProblems, Answered, Goto
  <2> QED
    BY <2>3, <2>4, <2>5, <2>6, <2>7 DEF TypeOK
<1>13. ASSUME NEW w \in Workers, NEW ack \in BOOLEAN, ImportOne(w, ack)
      PROVE  TypeOK' /\ Employed'
  <2>1. job[w] \in Jobs /\ pos[w] \in Positions
    BY <1>13 DEF Employed, TypeOK, WorkerTypes, ImportOne
  <2>2. /\ nextIndex' = [nextIndex EXCEPT ![job[w]] = pos[w] + 1]
        /\ created' = [created EXCEPT ![job[w]] = @ + 1]
        /\ skipped' = [skipped EXCEPT ![job[w]] = @]
    BY <1>13, Zenon DEF ImportOne, AdvanceImport
  <2>3. nextIndex' \in [Jobs -> 0 .. Items] /\ created' \in [Jobs -> Nat]
    <3>1. pos[w] + 1 \in 0 .. Items
      BY <2>1
    <3>2. nextIndex' \in [Jobs -> 0 .. Items]
      BY <2>1, <2>2, <3>1 DEF TypeOK, RowTypes
    <3>3. created[job[w]] + 1 \in Nat
      BY <2>1 DEF TypeOK, RowTypes
    <3>4. created' \in [Jobs -> Nat]
      BY <2>1, <2>2, <3>3 DEF TypeOK, RowTypes
    <3> QED
      BY <3>2, <3>4
  <2>4. skipped' \in [Jobs -> Nat]
    BY <2>1, <2>2 DEF TypeOK, RowTypes
  <2>5. written' \in [Jobs -> [Positions -> Nat]]
    <3> DEFINE items == [written[job[w]] EXCEPT ![pos[w]] = @ + 1]
    <3>1. items \in [Positions -> Nat]
      <4>1. written[job[w]] \in [Positions -> Nat]
        BY <2>1 DEF TypeOK, RowTypes
      <4>2. written[job[w]][pos[w]] + 1 \in Nat
        BY <2>1, <4>1
      <4> QED
        BY <2>1, <4>1, <4>2, Zenon
    <3>2. written' = [written EXCEPT ![job[w]] = items]
      BY <1>13, Zenon DEF ImportOne
    <3> QED
      BY <2>1, <3>1, <3>2 DEF TypeOK, RowTypes
  <2>6. RowTypes'
    BY <1>13, <2>3, <2>4, <2>5 DEF TypeOK, RowTypes, ImportOne
  <2>7. QueueTypes' /\ FailureTypes'
    BY <1>13 DEF TypeOK, QueueTypes, FailureTypes, ImportOne, Answered
  <2>8. WorkerTypes'
    <3>1. (IF ack THEN pos[w] + 1 ELSE pos[w]) \in 0 .. Items
      BY <2>1
    <3>2. pos' \in [Workers -> 0 .. Items]
      BY <1>13, <3>1 DEF TypeOK, WorkerTypes, ImportOne
    <3> QED
      BY <1>13, <3>2 DEF TypeOK, WorkerTypes, ImportOne, Goto
  <2>9. Employed'
    BY <1>13, <2>1 DEF TypeOK, WorkerTypes, Employed, ImportOne, Goto
  <2> QED
    BY <2>6, <2>7, <2>8, <2>9 DEF TypeOK
<1>14. ASSUME NEW w \in Workers, NEW ack \in BOOLEAN, ReportItem(w, ack)
      PROVE  TypeOK' /\ Employed'
  <2>1. job[w] \in Jobs /\ pos[w] \in Positions
    BY <1>14 DEF Employed, TypeOK, WorkerTypes, ReportItem
  <2>2. nextIndex' \in [Jobs -> 0 .. Items]
    BY <1>14, <2>1 DEF TypeOK, RowTypes, ReportItem, AdvanceImport
  <2>3. created' \in [Jobs -> Nat]
    BY <1>14, <2>1 DEF TypeOK, RowTypes, ReportItem, AdvanceImport
  <2>4. skipped' \in [Jobs -> Nat]
    BY <1>14, <2>1 DEF TypeOK, RowTypes, ReportItem, AdvanceImport
  <2>5. reported' \in [Jobs -> SUBSET Positions]
    BY <1>14, <2>1 DEF TypeOK, RowTypes, ReportItem, AdvanceImport
  <2>6. RowTypes'
    BY <1>14, <2>2, <2>3, <2>4, <2>5 DEF TypeOK, RowTypes, ReportItem
  <2>7. QueueTypes'
    BY <1>14 DEF TypeOK, QueueTypes, Employed, ReportItem, Answered, Goto
  <2>8. WorkerTypes'
    BY <1>14 DEF TypeOK, WorkerTypes, Employed, ReportItem, Answered, Goto
  <2>9. FailureTypes'
    BY <1>14 DEF TypeOK, FailureTypes, ReportItem, Answered, Goto
  <2>10. Employed'
    BY <1>14 DEF TypeOK, WorkerTypes, Employed, ReportItem, Answered, Goto
  <2> QED
    BY <2>6, <2>7, <2>8, <2>9, <2>10 DEF TypeOK
<1>15. ASSUME NEW w \in Workers, NEW ack \in BOOLEAN, FinishBankJob(w, ack)
      PROVE  TypeOK' /\ Employed'
  <2>1. RowTypes'
    BY <1>15 DEF TypeOK, RowTypes, Employed, FinishBankJob, Answered, Goto, Conclude
  <2>2. QueueTypes'
    BY <1>15 DEF TypeOK, QueueTypes, Employed, FinishBankJob, Answered, Goto, Conclude
  <2>3. WorkerTypes'
    BY <1>15 DEF TypeOK, WorkerTypes, Employed, FinishBankJob, Answered, Goto, Conclude
  <2>4. FailureTypes'
    BY <1>15 DEF TypeOK, FailureTypes, FinishBankJob, Answered, Goto, Conclude
  <2>5. Employed'
    BY <1>15 DEF TypeOK, WorkerTypes, Employed, FinishBankJob, Answered, Goto, Conclude
  <2> QED
    BY <2>1, <2>2, <2>3, <2>4, <2>5 DEF TypeOK
<1>16. ASSUME NEW w \in Workers, NEW ack \in BOOLEAN, Refuse(w, ack)
      PROVE  TypeOK' /\ Employed'
  <2>1. RowTypes'
    BY <1>16 DEF TypeOK, RowTypes, Employed, Refuse, Answered, Goto, Conclude
  <2>2. QueueTypes'
    BY <1>16 DEF TypeOK, QueueTypes, Employed, Refuse, Answered, Goto, Conclude
  <2>3. WorkerTypes'
    BY <1>16 DEF TypeOK, WorkerTypes, Employed, Refuse, Answered, Goto, Conclude
  <2>4. FailureTypes'
    BY <1>16 DEF TypeOK, FailureTypes, Refuse, Answered, Goto, Conclude
  <2>5. Employed'
    BY <1>16 DEF TypeOK, WorkerTypes, Employed, Refuse, Answered, Goto, Conclude
  <2> QED
    BY <2>1, <2>2, <2>3, <2>4, <2>5 DEF TypeOK
<1>17. ASSUME NEW w \in Workers, NEW ack \in BOOLEAN, FailBankJob(w, ack)
      PROVE  TypeOK' /\ Employed'
  <2>1. RowTypes'
    BY <1>17 DEF TypeOK, RowTypes, Employed, FailBankJob, Answered, Goto, Conclude
  <2>2. QueueTypes'
    BY <1>17 DEF TypeOK, QueueTypes, Employed, FailBankJob, Answered, Goto, Conclude
  <2>3. WorkerTypes'
    BY <1>17 DEF TypeOK, WorkerTypes, Employed, FailBankJob, Answered, Goto, Conclude
  <2>4. FailureTypes'
    BY <1>17 DEF TypeOK, FailureTypes, FailBankJob, Answered, Goto, Conclude
  <2>5. Employed'
    BY <1>17 DEF TypeOK, WorkerTypes, Employed, FailBankJob, Answered, Goto, Conclude
  <2> QED
    BY <2>1, <2>2, <2>3, <2>4, <2>5 DEF TypeOK
<1>18. ASSUME NEW w \in Workers, ReadInput(w)
      PROVE  TypeOK' /\ Employed'
  <2>1. RowTypes'
    BY <1>18 DEF TypeOK, RowTypes, Employed, ReadInput, Goto
  <2>2. QueueTypes'
    BY <1>18 DEF TypeOK, QueueTypes, Employed, ReadInput, Goto
  <2>3. WorkerTypes'
    BY <1>18 DEF TypeOK, WorkerTypes, Employed, ReadInput, Goto
  <2>4. FailureTypes'
    BY <1>18 DEF TypeOK, FailureTypes, ReadInput, Goto
  <2>5. Employed'
    BY <1>18 DEF TypeOK, WorkerTypes, Employed, ReadInput, Goto
  <2> QED
    BY <2>1, <2>2, <2>3, <2>4, <2>5 DEF TypeOK
<1>19. ASSUME NEW w \in Workers, ItemsDone(w)
      PROVE  TypeOK' /\ Employed'
  <2>1. RowTypes'
    BY <1>19 DEF TypeOK, RowTypes, Employed, ItemsDone, Goto
  <2>2. QueueTypes'
    BY <1>19 DEF TypeOK, QueueTypes, Employed, ItemsDone, Goto
  <2>3. WorkerTypes'
    BY <1>19 DEF TypeOK, WorkerTypes, Employed, ItemsDone, Goto
  <2>4. FailureTypes'
    BY <1>19 DEF TypeOK, FailureTypes, ItemsDone, Goto
  <2>5. Employed'
    BY <1>19 DEF TypeOK, WorkerTypes, Employed, ItemsDone, Goto
  <2> QED
    BY <2>1, <2>2, <2>3, <2>4, <2>5 DEF TypeOK
<1>20. ASSUME NEW w \in Workers, ExportBank(w)
      PROVE  TypeOK' /\ Employed'
  <2>1. RowTypes'
    BY <1>20 DEF TypeOK, RowTypes, Employed, ExportBank, Goto
  <2>2. QueueTypes'
    BY <1>20 DEF TypeOK, QueueTypes, Employed, ExportBank, Goto
  <2>3. WorkerTypes'
    BY <1>20 DEF TypeOK, WorkerTypes, Employed, ExportBank, Goto
  <2>4. FailureTypes'
    BY <1>20 DEF TypeOK, FailureTypes, ExportBank, Goto
  <2>5. Employed'
    BY <1>20 DEF TypeOK, WorkerTypes, Employed, ExportBank, Goto
  <2> QED
    BY <2>1, <2>2, <2>3, <2>4, <2>5 DEF TypeOK
<1>21. ASSUME NEW w \in Workers, Catch(w)
      PROVE  TypeOK' /\ Employed'
  <2>1. RowTypes'
    BY <1>21 DEF TypeOK, RowTypes, Employed, Catch, Goto
  <2>2. QueueTypes'
    BY <1>21 DEF TypeOK, QueueTypes, Employed, Catch, Goto
  <2>3. WorkerTypes'
    BY <1>21 DEF TypeOK, WorkerTypes, Employed, Catch, Goto
  <2>4. FailureTypes'
    BY <1>21 DEF TypeOK, FailureTypes, Catch, Goto
  <2>5. Employed'
    BY <1>21 DEF TypeOK, WorkerTypes, Employed, Catch, Goto
  <2> QED
    BY <2>1, <2>2, <2>3, <2>4, <2>5 DEF TypeOK
<1>22. ASSUME NEW w \in Workers, ImportOneThrows(w)
      PROVE  TypeOK' /\ Employed'
  <2>1. RowTypes'
    BY <1>22 DEF TypeOK, RowTypes, Employed, ImportOneThrows, Goto
  <2>2. QueueTypes'
    BY <1>22 DEF TypeOK, QueueTypes, Employed, ImportOneThrows, Goto
  <2>3. WorkerTypes'
    BY <1>22 DEF TypeOK, WorkerTypes, Employed, ImportOneThrows, Goto
  <2>4. FailureTypes'
    BY <1>22 DEF TypeOK, FailureTypes, ImportOneThrows, Goto
  <2>5. Employed'
    BY <1>22 DEF TypeOK, WorkerTypes, Employed, ImportOneThrows, Goto
  <2> QED
    BY <2>1, <2>2, <2>3, <2>4, <2>5 DEF TypeOK
<1>23. ASSUME NEW w \in Workers, Ack(w)
      PROVE  TypeOK' /\ Employed'
  <2>1. RowTypes'
    BY <1>23 DEF TypeOK, RowTypes, Employed, Ack, Release
  <2>2. QueueTypes'
    BY <1>23 DEF TypeOK, QueueTypes, Employed, Ack, Release
  <2>3. WorkerTypes'
    BY <1>23 DEF TypeOK, WorkerTypes, Employed, Ack, Release
  <2>4. FailureTypes'
    BY <1>23 DEF TypeOK, FailureTypes, Ack, Release
  <2>5. Employed'
    BY <1>23 DEF TypeOK, WorkerTypes, Employed, Ack, Release
  <2> QED
    BY <2>1, <2>2, <2>3, <2>4, <2>5 DEF TypeOK
<1>24. ASSUME NEW w \in Workers, Nack(w)
      PROVE  TypeOK' /\ Employed'
  <2>1. job[w] \in Jobs
    BY <1>24 DEF Employed, Nack
  <2>2. attemptsMade' \in [Jobs -> Nat]
    BY <1>24, <2>1 DEF TypeOK, QueueTypes, Nack
  <2>3. owner' \in [Jobs -> Workers \cup {NoOne}]
    BY <1>24, <2>1 DEF TypeOK, QueueTypes, Nack
  <2>4. entry' \in [Jobs -> {"none", "waiting", "active", "completed", "failed"}]
    BY <1>24, <2>1 DEF TypeOK, QueueTypes, Nack
  <2>5. QueueTypes'
    BY <1>24, <2>2, <2>3, <2>4 DEF TypeOK, QueueTypes, Nack
  <2>6. RowTypes'
    BY <1>24 DEF TypeOK, RowTypes, Employed, Nack, Release
  <2>7. WorkerTypes'
    BY <1>24 DEF TypeOK, WorkerTypes, Employed, Nack, Release
  <2>8. FailureTypes'
    BY <1>24 DEF TypeOK, FailureTypes, Nack, Release
  <2>9. Employed'
    BY <1>24 DEF TypeOK, WorkerTypes, Employed, Nack, Release
  <2> QED
    BY <2>5, <2>6, <2>7, <2>8, <2>9 DEF TypeOK
<1>25. ASSUME NEW w \in Workers, Fault(w)
      PROVE  TypeOK' /\ Employed'
  <2>1. RowTypes'
    BY <1>25 DEF TypeOK, RowTypes, Employed, Fault, Goto
  <2>2. QueueTypes'
    BY <1>25 DEF TypeOK, QueueTypes, Employed, Fault, Goto
  <2>3. WorkerTypes'
    BY <1>25 DEF TypeOK, WorkerTypes, Employed, Fault, Goto
  <2>4. FailureTypes'
    BY <1>25 DEF TypeOK, FailureTypes, Fault, Goto
  <2>5. Employed'
    BY <1>25 DEF TypeOK, WorkerTypes, Employed, Fault, Goto
  <2> QED
    BY <2>1, <2>2, <2>3, <2>4, <2>5 DEF TypeOK
<1>26. ASSUME NEW w \in Workers, Crash(w)
      PROVE  TypeOK' /\ Employed'
  <2>1. RowTypes'
    BY <1>26 DEF TypeOK, RowTypes, Employed, Crash, Release
  <2>2. QueueTypes'
    BY <1>26 DEF TypeOK, QueueTypes, Employed, Crash, Release
  <2>3. WorkerTypes'
    BY <1>26 DEF TypeOK, WorkerTypes, Employed, Crash, Release
  <2>4. FailureTypes'
    BY <1>26 DEF TypeOK, FailureTypes, Crash, Release
  <2>5. Employed'
    BY <1>26 DEF TypeOK, WorkerTypes, Employed, Crash, Release
  <2> QED
    BY <2>1, <2>2, <2>3, <2>4, <2>5 DEF TypeOK
<1>27. CASE UNCHANGED vars
  BY <1>27 DEF TypeOK, RowTypes, QueueTypes, WorkerTypes, FailureTypes, Employed, vars
<1> QED
  BY <1>1, <1>2, <1>3, <1>4, <1>5, <1>6, <1>7, <1>8, <1>9, <1>10, <1>11, <1>12, <1>13, <1>14, <1>15, <1>16, <1>17, <1>18, <1>19, <1>20, <1>21, <1>22, <1>23, <1>24, <1>25, <1>26, <1>27
     DEF Next, RunStep, LocalStep

(* A worker always has a job to be at, and every variable its type: for    *)
(* every bound on crashes, faults, lost acknowledgements and lost locks.   *)
THEOREM TypeCorrect == Spec => []TypeOK
<1>1. Init => TypeOK /\ Employed
  BY BankSets, BankNulls DEF Init, TypeOK, RowTypes, QueueTypes, WorkerTypes, FailureTypes, Employed,
     Stages, Unfinished, Finished, Positions
<1>2. TypeOK /\ Employed /\ [Next]_vars => TypeOK' /\ Employed'
  BY TypeStep
<1> QED
  BY <1>1, <1>2, PTL DEF Spec

(* Unless a lock lapses, the queue's owner of a job is the one worker that *)
(* runs it: a relay adding a row twice, a stalled check, a retry and a     *)
(* crash all leave that so.                                                *)
LEMMA RunnerStep ==
    ASSUME lockLosses' = 0, TypeOK, Employed, SoleRunner, [Next]_vars
    PROVE  SoleRunner'
<1> USE BankNulls DEF rowVars, queueVars, workerVars, failureVars
<1>1. ASSUME NEW j \in Jobs, CreateBankJob(j)
      PROVE  SoleRunner'
  BY <1>1 DEF TypeOK, QueueTypes, WorkerTypes, FailureTypes, Employed, SoleRunner, CreateBankJob
<1>2. ASSUME NEW j \in Jobs, BecomeStale(j)
      PROVE  SoleRunner'
  BY <1>2 DEF TypeOK, QueueTypes, WorkerTypes, FailureTypes, Employed, SoleRunner, BecomeStale
<1>3. ASSUME NEW j \in Jobs, LoseLock(j)
      PROVE  SoleRunner'
  BY <1>3 DEF TypeOK, QueueTypes, WorkerTypes, FailureTypes, Employed, SoleRunner, LoseLock
<1>4. ASSUME NEW j \in Jobs, Stalled(j)
      PROVE  SoleRunner'
  BY <1>4 DEF TypeOK, QueueTypes, WorkerTypes, FailureTypes, Employed, SoleRunner, Stalled
<1>5. ASSUME NEW j \in Jobs, Evict(j)
      PROVE  SoleRunner'
  BY <1>5 DEF TypeOK, QueueTypes, WorkerTypes, FailureTypes, Employed, SoleRunner, Evict
<1>6. ASSUME NEW r \in Relays, ClaimBankJobs(r)
      PROVE  SoleRunner'
  BY <1>6 DEF TypeOK, QueueTypes, WorkerTypes, FailureTypes, Employed, SoleRunner, ClaimBankJobs, Claimable
<1>7. ASSUME NEW r \in Relays, EnqueueFails(r)
      PROVE  SoleRunner'
  BY <1>7 DEF TypeOK, QueueTypes, WorkerTypes, FailureTypes, Employed, SoleRunner, EnqueueFails
<1>8. ASSUME NEW r \in Relays, RelayCrash(r)
      PROVE  SoleRunner'
  BY <1>8 DEF TypeOK, QueueTypes, WorkerTypes, FailureTypes, Employed, SoleRunner, RelayCrash
<1>9. ASSUME NEW r \in Relays, NEW j \in Jobs, Enqueue(r, j)
      PROVE  SoleRunner'
  BY <1>9 DEF TypeOK, QueueTypes, WorkerTypes, FailureTypes, Employed, SoleRunner, Enqueue, AddToQueue
<1>10. ASSUME NEW w \in Workers, NEW j \in Jobs, Deliver(w, j)
      PROVE  SoleRunner'
  BY <1>10 DEF TypeOK, QueueTypes, WorkerTypes, FailureTypes, Employed, SoleRunner, Deliver, Goto
<1>11. ASSUME NEW w \in Workers, NEW ack \in BOOLEAN, StartBankJob(w, ack)
      PROVE  SoleRunner'
  BY <1>11 DEF TypeOK, QueueTypes, WorkerTypes, FailureTypes, Employed, SoleRunner, StartBankJob, Answered, Goto, Startable, FirstRun
<1>12. ASSUME NEW w \in Workers, NEW ack \in BOOLEAN, RecordParseProblems(w, ack)
      PROVE  SoleRunner'
  BY <1>12 DEF TypeOK, QueueTypes, WorkerTypes, FailureTypes, Employed, SoleRunner, RecordParseProblems, Answered, Goto
<1>13. ASSUME NEW w \in Workers, NEW ack \in BOOLEAN, ImportOne(w, ack)
      PROVE  SoleRunner'
  BY <1>13 DEF TypeOK, QueueTypes, WorkerTypes, FailureTypes, Employed, SoleRunner, ImportOne, Answered, Goto, AdvanceImport
<1>14. ASSUME NEW w \in Workers, NEW ack \in BOOLEAN, ReportItem(w, ack)
      PROVE  SoleRunner'
  BY <1>14 DEF TypeOK, QueueTypes, WorkerTypes, FailureTypes, Employed, SoleRunner, ReportItem, Answered, Goto, AdvanceImport
<1>15. ASSUME NEW w \in Workers, NEW ack \in BOOLEAN, FinishBankJob(w, ack)
      PROVE  SoleRunner'
  BY <1>15 DEF TypeOK, QueueTypes, WorkerTypes, FailureTypes, Employed, SoleRunner, FinishBankJob, Answered, Goto, Conclude
<1>16. ASSUME NEW w \in Workers, NEW ack \in BOOLEAN, Refuse(w, ack)
      PROVE  SoleRunner'
  BY <1>16 DEF TypeOK, QueueTypes, WorkerTypes, FailureTypes, Employed, SoleRunner, Refuse, Answered, Goto, Conclude
<1>17. ASSUME NEW w \in Workers, NEW ack \in BOOLEAN, FailBankJob(w, ack)
      PROVE  SoleRunner'
  BY <1>17 DEF TypeOK, QueueTypes, WorkerTypes, FailureTypes, Employed, SoleRunner, FailBankJob, Answered, Goto, Conclude
<1>18. ASSUME NEW w \in Workers, ReadInput(w)
      PROVE  SoleRunner'
  BY <1>18 DEF TypeOK, QueueTypes, WorkerTypes, FailureTypes, Employed, SoleRunner, ReadInput, Goto
<1>19. ASSUME NEW w \in Workers, ItemsDone(w)
      PROVE  SoleRunner'
  BY <1>19 DEF TypeOK, QueueTypes, WorkerTypes, FailureTypes, Employed, SoleRunner, ItemsDone, Goto
<1>20. ASSUME NEW w \in Workers, ExportBank(w)
      PROVE  SoleRunner'
  BY <1>20 DEF TypeOK, QueueTypes, WorkerTypes, FailureTypes, Employed, SoleRunner, ExportBank, Goto
<1>21. ASSUME NEW w \in Workers, Catch(w)
      PROVE  SoleRunner'
  BY <1>21 DEF TypeOK, QueueTypes, WorkerTypes, FailureTypes, Employed, SoleRunner, Catch, Goto
<1>22. ASSUME NEW w \in Workers, ImportOneThrows(w)
      PROVE  SoleRunner'
  BY <1>22 DEF TypeOK, QueueTypes, WorkerTypes, FailureTypes, Employed, SoleRunner, ImportOneThrows, Goto
<1>23. ASSUME NEW w \in Workers, Ack(w)
      PROVE  SoleRunner'
  BY <1>23 DEF TypeOK, QueueTypes, WorkerTypes, FailureTypes, Employed, SoleRunner, Ack, Release
<1>24. ASSUME NEW w \in Workers, Nack(w)
      PROVE  SoleRunner'
  BY <1>24 DEF TypeOK, QueueTypes, WorkerTypes, FailureTypes, Employed, SoleRunner, Nack, Release
<1>25. ASSUME NEW w \in Workers, Fault(w)
      PROVE  SoleRunner'
  BY <1>25 DEF TypeOK, QueueTypes, WorkerTypes, FailureTypes, Employed, SoleRunner, Fault, Goto
<1>26. ASSUME NEW w \in Workers, Crash(w)
      PROVE  SoleRunner'
  BY <1>26 DEF TypeOK, QueueTypes, WorkerTypes, FailureTypes, Employed, SoleRunner, Crash, Release
<1>27. CASE UNCHANGED vars
  BY <1>27 DEF TypeOK, QueueTypes, WorkerTypes, FailureTypes, Employed, SoleRunner, vars
<1> QED
  BY <1>1, <1>2, <1>3, <1>4, <1>5, <1>6, <1>7, <1>8, <1>9, <1>10, <1>11, <1>12, <1>13, <1>14, <1>15, <1>16, <1>17, <1>18, <1>19, <1>20, <1>21, <1>22, <1>23, <1>24, <1>25, <1>26, <1>27
     DEF Next, RunStep, LocalStep

(* A step keeps the checkpoint true: the only worker at a job works at the *)
(* row's next_index, and writes or reports exactly that item.              *)
LEMMA CheckpointStep ==
    ASSUME TypeOK, Employed, SoleRunner, AtCheckpoint, SettledBelow, [Next]_vars
    PROVE  AtCheckpoint' /\ SettledBelow'
<1> USE BankSets, BankNulls DEF Positions, rowVars, queueVars, workerVars, failureVars
<1>1. ASSUME NEW j \in Jobs, CreateBankJob(j)
      PROVE  AtCheckpoint' /\ SettledBelow'
  BY <1>1 DEF TypeOK, RowTypes, WorkerTypes, Employed, SoleRunner,
     AtCheckpoint, SettledBelow, CreateBankJob
<1>2. ASSUME NEW j \in Jobs, BecomeStale(j)
      PROVE  AtCheckpoint' /\ SettledBelow'
  BY <1>2 DEF TypeOK, RowTypes, WorkerTypes, Employed, SoleRunner,
     AtCheckpoint, SettledBelow, BecomeStale
<1>3. ASSUME NEW j \in Jobs, LoseLock(j)
      PROVE  AtCheckpoint' /\ SettledBelow'
  BY <1>3 DEF TypeOK, RowTypes, WorkerTypes, Employed, SoleRunner,
     AtCheckpoint, SettledBelow, LoseLock
<1>4. ASSUME NEW j \in Jobs, Stalled(j)
      PROVE  AtCheckpoint' /\ SettledBelow'
  BY <1>4 DEF TypeOK, RowTypes, WorkerTypes, Employed, SoleRunner,
     AtCheckpoint, SettledBelow, Stalled
<1>5. ASSUME NEW j \in Jobs, Evict(j)
      PROVE  AtCheckpoint' /\ SettledBelow'
  BY <1>5 DEF TypeOK, RowTypes, WorkerTypes, Employed, SoleRunner,
     AtCheckpoint, SettledBelow, Evict
<1>6. ASSUME NEW r \in Relays, ClaimBankJobs(r)
      PROVE  AtCheckpoint' /\ SettledBelow'
  BY <1>6 DEF TypeOK, RowTypes, WorkerTypes, Employed, SoleRunner,
     AtCheckpoint, SettledBelow, ClaimBankJobs, Claimable
<1>7. ASSUME NEW r \in Relays, EnqueueFails(r)
      PROVE  AtCheckpoint' /\ SettledBelow'
  BY <1>7 DEF TypeOK, RowTypes, WorkerTypes, Employed, SoleRunner,
     AtCheckpoint, SettledBelow, EnqueueFails
<1>8. ASSUME NEW r \in Relays, RelayCrash(r)
      PROVE  AtCheckpoint' /\ SettledBelow'
  BY <1>8 DEF TypeOK, RowTypes, WorkerTypes, Employed, SoleRunner,
     AtCheckpoint, SettledBelow, RelayCrash
<1>9. ASSUME NEW r \in Relays, NEW j \in Jobs, Enqueue(r, j)
      PROVE  AtCheckpoint' /\ SettledBelow'
  BY <1>9 DEF TypeOK, RowTypes, WorkerTypes, Employed, SoleRunner,
     AtCheckpoint, SettledBelow, Enqueue, AddToQueue
<1>10. ASSUME NEW w \in Workers, NEW j \in Jobs, Deliver(w, j)
      PROVE  AtCheckpoint' /\ SettledBelow'
  BY <1>10 DEF TypeOK, RowTypes, WorkerTypes, Employed, SoleRunner,
     AtCheckpoint, SettledBelow, Deliver, Goto
<1>11. ASSUME NEW w \in Workers, NEW ack \in BOOLEAN, StartBankJob(w, ack)
      PROVE  AtCheckpoint' /\ SettledBelow'
  BY <1>11 DEF TypeOK, RowTypes, WorkerTypes, Employed, SoleRunner,
     AtCheckpoint, SettledBelow, StartBankJob, Answered, Goto, Startable, FirstRun
<1>12. ASSUME NEW w \in Workers, NEW ack \in BOOLEAN, RecordParseProblems(w, ack)
      PROVE  AtCheckpoint' /\ SettledBelow'
  BY <1>12 DEF TypeOK, RowTypes, WorkerTypes, Employed, SoleRunner,
     AtCheckpoint, SettledBelow, RecordParseProblems, Answered, Goto
<1>13. ASSUME NEW w \in Workers, NEW ack \in BOOLEAN, ImportOne(w, ack)
      PROVE  AtCheckpoint' /\ SettledBelow'
  <2>1. /\ job[w] \in Jobs /\ pos[w] \in Positions
        /\ nextIndex[job[w]] = pos[w]
    BY <1>13 DEF Employed, TypeOK, WorkerTypes, AtCheckpoint, ImportOne
  <2>2. /\ nextIndex' = [nextIndex EXCEPT ![job[w]] = pos[w] + 1]
        /\ reported' = reported /\ job' = job
    BY <1>13, Zenon DEF ImportOne, AdvanceImport
  <2>3. \A k \in Jobs, p \in Positions :
          written'[k][p] = IF k = job[w] /\ p = pos[w] THEN written[k][p] + 1
                                                     ELSE written[k][p]
    <3> DEFINE items == [written[job[w]] EXCEPT ![pos[w]] = @ + 1]
    <3>1. written' = [written EXCEPT ![job[w]] = items]
      BY <1>13, Zenon DEF ImportOne
    <3>2. written[job[w]] \in [Positions -> Nat]
      BY <2>1 DEF TypeOK, RowTypes
    <3>3. \A p \in Positions :
            items[p] = IF p = pos[w] THEN written[job[w]][p] + 1 ELSE written[job[w]][p]
      BY <3>2
    <3>4. \A k \in Jobs : written'[k] = IF k = job[w] THEN items ELSE written[k]
      BY <3>1, <2>1 DEF TypeOK, RowTypes
    <3> QED
      BY <3>3, <3>4
  <2>4. \A v \in Workers : v # w =>
          /\ pc'[v] = pc[v] /\ pos'[v] = pos[v]
          /\ pc[v] # "idle" => job[v] # job[w]
    BY <1>13 DEF SoleRunner, TypeOK, WorkerTypes, ImportOne, Goto
  <2>5. /\ pc'[w] = IF ack THEN "items" ELSE "report"
        /\ pos'[w] = IF ack THEN pos[w] + 1 ELSE pos[w]
    BY <1>13 DEF TypeOK, WorkerTypes, ImportOne, Goto
  <2>6. AtCheckpoint'
    BY <2>1, <2>2, <2>4, <2>5 DEF TypeOK, RowTypes, Employed, AtCheckpoint
  <2>7. SettledBelow'
    <3> SUFFICES ASSUME NEW k \in Jobs, NEW p \in Positions
                 PROVE  /\ written'[k][p] <= 1
                        /\ p >= nextIndex'[k] => written'[k][p] = 0 /\ p \notin reported'[k]
                        /\ p < nextIndex'[k] => written'[k][p] = 1 \/ p \in reported'[k]
      BY DEF SettledBelow
    <3>0. /\ p \in Int /\ pos[w] \in Int /\ nextIndex[k] \in Int
          /\ written[k][p] <= 1
          /\ p >= nextIndex[k] => written[k][p] = 0 /\ p \notin reported[k]
          /\ p < nextIndex[k] => written[k][p] = 1 \/ p \in reported[k]
      <4>1. p \in Int /\ pos[w] \in Int
        BY <2>1
      <4>2. nextIndex[k] \in Int
        BY DEF TypeOK, RowTypes
      <4> QED
        BY <4>1, <4>2, Zenon DEF SettledBelow
    <3>1. CASE k # job[w]
      BY <2>1, <2>2, <2>3, <3>0, <3>1 DEF TypeOK, RowTypes
    <3>2. CASE k = job[w]
      <4>1. nextIndex'[k] = pos[w] + 1 /\ nextIndex[k] = pos[w] /\ reported'[k] = reported[k]
        BY <2>1, <2>2, <3>2 DEF TypeOK, RowTypes
      <4>2. written'[k][p] = IF p = pos[w] THEN written[k][p] + 1 ELSE written[k][p]
        BY <2>3, <3>2
      <4> QED
        BY <3>0, <4>1, <4>2
    <3> QED
      BY <3>1, <3>2
  <2> QED
    BY <2>6, <2>7
<1>14. ASSUME NEW w \in Workers, NEW ack \in BOOLEAN, ReportItem(w, ack)
      PROVE  AtCheckpoint' /\ SettledBelow'
  <2>1. /\ job[w] \in Jobs /\ pos[w] \in Positions
        /\ pos[w] = nextIndex[job[w]] \/ pos[w] + 1 = nextIndex[job[w]]
    BY <1>14 DEF Employed, TypeOK, WorkerTypes, AtCheckpoint, ReportItem
  <2>2. /\ nextIndex' = [nextIndex EXCEPT ![job[w]] = pos[w] + 1]
        /\ reported' = [reported EXCEPT ![job[w]] = @ \cup {pos[w]}]
        /\ written' = written /\ job' = job
    BY <1>14, Zenon DEF ReportItem, AdvanceImport
  <2>3. \A v \in Workers : v # w =>
          /\ pc'[v] = pc[v] /\ pos'[v] = pos[v]
          /\ pc[v] # "idle" => job[v] # job[w]
    BY <1>14 DEF SoleRunner, TypeOK, WorkerTypes, ReportItem, Goto
  <2>4. /\ pc'[w] = IF ack THEN "items" ELSE "threw"
        /\ pos'[w] = IF ack THEN pos[w] + 1 ELSE pos[w]
    BY <1>14 DEF TypeOK, WorkerTypes, ReportItem, Goto
  <2>5. AtCheckpoint'
    BY <2>1, <2>2, <2>3, <2>4 DEF TypeOK, RowTypes, Employed, AtCheckpoint
  <2>6. SettledBelow'
    <3> SUFFICES ASSUME NEW k \in Jobs, NEW p \in Positions
                 PROVE  /\ written'[k][p] <= 1
                        /\ p >= nextIndex'[k] => written'[k][p] = 0 /\ p \notin reported'[k]
                        /\ p < nextIndex'[k] => written'[k][p] = 1 \/ p \in reported'[k]
      BY DEF SettledBelow
    <3>0. /\ p \in Int /\ pos[w] \in Int /\ nextIndex[k] \in Int
          /\ written[k][p] <= 1
          /\ p >= nextIndex[k] => written[k][p] = 0 /\ p \notin reported[k]
          /\ p < nextIndex[k] => written[k][p] = 1 \/ p \in reported[k]
      <4>1. p \in Int /\ pos[w] \in Int
        BY <2>1
      <4>2. nextIndex[k] \in Int
        BY DEF TypeOK, RowTypes
      <4> QED
        BY <4>1, <4>2, Zenon DEF SettledBelow
    <3>1. CASE k # job[w]
      BY <2>1, <2>2, <3>1 DEF TypeOK, RowTypes, SettledBelow
    <3>2. CASE k = job[w]
      <4>1. /\ nextIndex'[k] = pos[w] + 1 /\ written'[k] = written[k]
            /\ pos[w] = nextIndex[k] \/ pos[w] + 1 = nextIndex[k]
        BY <2>1, <2>2, <3>2 DEF TypeOK, RowTypes
      <4>2. reported'[k] = reported[k] \cup {pos[w]}
        BY <2>1, <2>2, <3>2 DEF TypeOK, RowTypes
      <4> QED
        BY <3>0, <4>1, <4>2
    <3> QED
      BY <3>1, <3>2
  <2> QED
    BY <2>5, <2>6
<1>15. ASSUME NEW w \in Workers, NEW ack \in BOOLEAN, FinishBankJob(w, ack)
      PROVE  AtCheckpoint' /\ SettledBelow'
  BY <1>15 DEF TypeOK, RowTypes, WorkerTypes, Employed, SoleRunner,
     AtCheckpoint, SettledBelow, FinishBankJob, Answered, Goto, Conclude
<1>16. ASSUME NEW w \in Workers, NEW ack \in BOOLEAN, Refuse(w, ack)
      PROVE  AtCheckpoint' /\ SettledBelow'
  BY <1>16 DEF TypeOK, RowTypes, WorkerTypes, Employed, SoleRunner,
     AtCheckpoint, SettledBelow, Refuse, Answered, Goto, Conclude
<1>17. ASSUME NEW w \in Workers, NEW ack \in BOOLEAN, FailBankJob(w, ack)
      PROVE  AtCheckpoint' /\ SettledBelow'
  BY <1>17 DEF TypeOK, RowTypes, WorkerTypes, Employed, SoleRunner,
     AtCheckpoint, SettledBelow, FailBankJob, Answered, Goto, Conclude
<1>18. ASSUME NEW w \in Workers, ReadInput(w)
      PROVE  AtCheckpoint' /\ SettledBelow'
  BY <1>18 DEF TypeOK, RowTypes, WorkerTypes, Employed, SoleRunner,
     AtCheckpoint, SettledBelow, ReadInput, Goto
<1>19. ASSUME NEW w \in Workers, ItemsDone(w)
      PROVE  AtCheckpoint' /\ SettledBelow'
  BY <1>19 DEF TypeOK, RowTypes, WorkerTypes, Employed, SoleRunner,
     AtCheckpoint, SettledBelow, ItemsDone, Goto
<1>20. ASSUME NEW w \in Workers, ExportBank(w)
      PROVE  AtCheckpoint' /\ SettledBelow'
  BY <1>20 DEF TypeOK, RowTypes, WorkerTypes, Employed, SoleRunner,
     AtCheckpoint, SettledBelow, ExportBank, Goto
<1>21. ASSUME NEW w \in Workers, Catch(w)
      PROVE  AtCheckpoint' /\ SettledBelow'
  BY <1>21 DEF TypeOK, RowTypes, WorkerTypes, Employed, SoleRunner,
     AtCheckpoint, SettledBelow, Catch, Goto
<1>22. ASSUME NEW w \in Workers, ImportOneThrows(w)
      PROVE  AtCheckpoint' /\ SettledBelow'
  BY <1>22 DEF TypeOK, RowTypes, WorkerTypes, Employed, SoleRunner,
     AtCheckpoint, SettledBelow, ImportOneThrows, Goto
<1>23. ASSUME NEW w \in Workers, Ack(w)
      PROVE  AtCheckpoint' /\ SettledBelow'
  BY <1>23 DEF TypeOK, RowTypes, WorkerTypes, Employed, SoleRunner,
     AtCheckpoint, SettledBelow, Ack, Release
<1>24. ASSUME NEW w \in Workers, Nack(w)
      PROVE  AtCheckpoint' /\ SettledBelow'
  BY <1>24 DEF TypeOK, RowTypes, WorkerTypes, Employed, SoleRunner,
     AtCheckpoint, SettledBelow, Nack, Release
<1>25. ASSUME NEW w \in Workers, Fault(w)
      PROVE  AtCheckpoint' /\ SettledBelow'
  BY <1>25 DEF TypeOK, RowTypes, WorkerTypes, Employed, SoleRunner,
     AtCheckpoint, SettledBelow, Fault, Goto
<1>26. ASSUME NEW w \in Workers, Crash(w)
      PROVE  AtCheckpoint' /\ SettledBelow'
  BY <1>26 DEF TypeOK, RowTypes, WorkerTypes, Employed, SoleRunner,
     AtCheckpoint, SettledBelow, Crash, Release
<1>27. CASE UNCHANGED vars
  BY <1>27 DEF TypeOK, RowTypes, WorkerTypes, Employed, SoleRunner,
     AtCheckpoint, SettledBelow, vars
<1> QED
  BY <1>1, <1>2, <1>3, <1>4, <1>5, <1>6, <1>7, <1>8, <1>9, <1>10, <1>11, <1>12, <1>13, <1>14, <1>15, <1>16, <1>17, <1>18, <1>19, <1>20, <1>21, <1>22, <1>23, <1>24, <1>25, <1>26, <1>27
     DEF Next, RunStep, LocalStep

(* A lost lock is not forgotten. *)
LEMMA LossesCount ==
    ASSUME TypeOK, lockLosses' = 0, [Next]_vars
    PROVE  lockLosses = 0
<1> DEFINE Counted == lockLosses' = lockLosses \/ lockLosses' = lockLosses + 1
<1>1. Counted
  <2>1. ASSUME NEW j \in Jobs,
               CreateBankJob(j) \/ BecomeStale(j) \/ LoseLock(j) \/ Stalled(j) \/ Evict(j)
        PROVE  Counted
    BY <2>1 DEF failureVars, CreateBankJob, BecomeStale, LoseLock, Stalled, Evict
  <2>2. ASSUME NEW r \in Relays,
               ClaimBankJobs(r) \/ EnqueueFails(r) \/ RelayCrash(r)
                 \/ \E j \in Jobs : Enqueue(r, j)
        PROVE  Counted
    BY <2>2 DEF failureVars, ClaimBankJobs, EnqueueFails, RelayCrash, Enqueue
  <2>3. ASSUME NEW w \in Workers, NEW ack \in BOOLEAN, RunStep(w, ack)
        PROVE  Counted
    BY <2>3, Zenon DEF RunStep, Answered, StartBankJob, RecordParseProblems, ImportOne,
       ReportItem, FinishBankJob, Refuse, FailBankJob
  <2>4. ASSUME NEW w \in Workers, LocalStep(w)
        PROVE  Counted
    BY <2>4, Zenon DEF LocalStep, failureVars, ReadInput, ItemsDone, ExportBank, Catch,
       ImportOneThrows, Ack, Nack
  <2>5. ASSUME NEW w \in Workers,
               (\E j \in Jobs : Deliver(w, j)) \/ Fault(w) \/ Crash(w)
        PROVE  Counted
    BY <2>5, Zenon DEF failureVars, Deliver, Fault, Crash
  <2>6. CASE UNCHANGED vars
    BY <2>6 DEF vars, failureVars
  <2> QED
    BY <2>1, <2>2, <2>3, <2>4, <2>5, <2>6, Zenon DEF Next
<1> QED
  BY <1>1 DEF TypeOK, FailureTypes

(* For any number of jobs, workers, relays and items, and any number of    *)
(* crashes, rolled back statements and lost acknowledgements, no item of a *)
(* file is written twice, as long as the queue's lock on a running job has *)
(* not lapsed.                                                             *)
THEOREM ImportedOnce == Spec => []NoDoubleImport
<1> DEFINE Runs == SoleRunner /\ AtCheckpoint /\ SettledBelow
           Inv == TypeOK /\ Employed /\ (lockLosses = 0 => Runs)
<1>1. Init => Inv
  <2> SUFFICES ASSUME Init PROVE Inv
    OBVIOUS
  <2>1. TypeOK /\ Employed
    BY BankSets, BankNulls DEF Init, TypeOK, RowTypes, QueueTypes, WorkerTypes, FailureTypes, Employed,
     Stages, Unfinished, Finished, Positions
  <2>2. SoleRunner /\ AtCheckpoint
    BY BankNulls DEF Init, SoleRunner, AtCheckpoint
  <2>3. SettledBelow
    BY BankSets DEF Init, SettledBelow, Positions
  <2> QED
    BY <2>1, <2>2, <2>3
<1>2. Inv /\ [Next]_vars => Inv'
  <2> SUFFICES ASSUME Inv, [Next]_vars PROVE Inv'
    OBVIOUS
  <2>1. TypeOK' /\ Employed'
    BY TypeStep
  <2>2. ASSUME lockLosses' = 0 PROVE Runs'
    <3>1. Runs
      BY <2>2, LossesCount
    <3> QED
      BY <2>2, <3>1, RunnerStep, CheckpointStep
  <2> QED
    BY <2>1, <2>2
<1>3. Inv => NoDoubleImport
  BY DEF SettledBelow, NoDoubleImport, WrittenOnce
<1> QED
  BY <1>1, <1>2, <1>3, PTL DEF Spec

-----------------------------------------------------------------------------
(* No item is lost, whatever goes wrong.  Every position anybody holds, on *)
(* a row or in a worker, has only settled items below it: two workers that *)
(* overlap may move the checkpoint back, but never past an unsettled item. *)

Settled(j, p) == written[j][p] > 0 \/ p \in reported[j]

Covered(j, n) == \A p \in Positions : p < n => Settled(j, p)

WorkerCovered(w) ==
    /\ pc[w] \in {"read", "record", "items", "report"} =>
         job[w] \in Imports /\ Covered(job[w], pos[w])
    /\ pc[w] = "export" => job[w] \notin Imports
    /\ pc[w] = "finish" /\ job[w] \in Imports => Covered(job[w], Items)

RowCovered(j) ==
    /\ Covered(j, nextIndex[j])
    /\ j \in Imports /\ status[j] = "succeeded" => Covered(j, Items)

CoverInv == (\A w \in Workers : WorkerCovered(w)) /\ (\A j \in Jobs : RowCovered(j))

(* Settled items stay settled. *)
LEMMA CoverageGrows ==
    ASSUME CoverInv, NEW w \in Workers,
           \A v \in Workers : v # w => pc'[v] = pc[v] /\ job'[v] = job[v] /\ pos'[v] = pos[v],
           Employed, \A j \in Jobs, p \in Positions : Settled(j, p) => Settled(j, p)',
           WorkerCovered(w)', \A j \in Jobs : RowCovered(j)'
    PROVE  CoverInv'
<1>1. \A j \in Jobs : \A n : Covered(j, n) => \A p \in Positions : p < n => Settled(j, p)'
  BY DEF Covered
<1>2. ASSUME NEW v \in Workers, v # w PROVE WorkerCovered(v)'
  <2>1. pc[v] # "idle" => job[v] \in Jobs
    BY DEF Employed
  <2> QED
    BY <1>1, <1>2, <2>1 DEF CoverInv, WorkerCovered, Covered, Settled
<1> QED
  BY <1>2 DEF CoverInv

(* A step that moves one worker and settles nothing. *)
LEMMA CoverageKept ==
    ASSUME CoverInv, Employed, NEW w \in Workers,
           \A v \in Workers : v # w => pc'[v] = pc[v] /\ job'[v] = job[v] /\ pos'[v] = pos[v],
           UNCHANGED <<written, reported, nextIndex>>,
           \A j \in Imports : status'[j] = "succeeded" => status[j] = "succeeded",
           WorkerCovered(w)'
    PROVE  CoverInv'
<1>1. \A j, p : Settled(j, p) => Settled(j, p)'
  BY DEF Settled
<1>2. \A j \in Jobs : RowCovered(j)'
  BY DEF CoverInv, RowCovered, Covered, Settled
<1> QED
  BY <1>1, <1>2, CoverageGrows

LEMMA CoverStep ==
    ASSUME TypeOK, Employed, CoverInv, [Next]_vars
    PROVE  CoverInv'
<1> USE BankSets DEF rowVars, queueVars, workerVars, failureVars
<1>1. ASSUME UNCHANGED <<written, reported, nextIndex, pc, job, pos>>,
             \A j \in Imports : status'[j] = "succeeded" => status[j] = "succeeded"
      PROVE  CoverInv'
  BY <1>1 DEF CoverInv, WorkerCovered, RowCovered, Covered, Settled
<1>2. ASSUME NEW j \in Jobs,
             CreateBankJob(j) \/ BecomeStale(j) \/ LoseLock(j) \/ Stalled(j) \/ Evict(j)
      PROVE  CoverInv'
  BY <1>1, <1>2 DEF CreateBankJob, BecomeStale, LoseLock, Stalled, Evict, TypeOK, RowTypes
<1>3. ASSUME NEW r \in Relays,
             \/ ClaimBankJobs(r) \/ EnqueueFails(r) \/ RelayCrash(r)
             \/ \E j \in Jobs : Enqueue(r, j)
      PROVE  CoverInv'
  BY <1>1, <1>3 DEF ClaimBankJobs, EnqueueFails, RelayCrash, Enqueue, TypeOK, RowTypes
<1>4. CASE UNCHANGED vars
  BY <1>1, <1>4 DEF vars
<1>5. ASSUME NEW w \in Workers, UNCHANGED <<written, reported, nextIndex, job, pos>>,
             \A j \in Imports : status'[j] = "succeeded" => status[j] = "succeeded",
             NEW stage, Goto(w, stage), stage \in {"threw", "nack", "ack", "refuse", "failing"}
      PROVE  CoverInv'
  <2>1. pc'[w] = stage /\ \A v \in Workers : v # w => pc'[v] = pc[v]
    BY <1>5 DEF Goto, TypeOK, WorkerTypes
  <2>2. WorkerCovered(w)'
    BY <1>5, <2>1 DEF WorkerCovered
  <2> QED
    BY <1>5, <2>1, <2>2, CoverageKept
<1>6. ASSUME NEW w \in Workers, Release(w), UNCHANGED rowVars PROVE CoverInv'
  <2>1. /\ pc'[w] = "idle"
        /\ \A v \in Workers : v # w => pc'[v] = pc[v] /\ job'[v] = job[v] /\ pos'[v] = pos[v]
    BY <1>6 DEF Release, TypeOK, WorkerTypes
  <2>2. WorkerCovered(w)'
    BY <2>1 DEF WorkerCovered
  <2> QED
    BY <1>6, <2>1, <2>2, CoverageKept
<1>7. ASSUME NEW w \in Workers, NEW j \in Jobs, Deliver(w, j) PROVE CoverInv'
  <2>1. /\ pc'[w] = "start" /\ UNCHANGED rowVars
        /\ \A v \in Workers : v # w => pc'[v] = pc[v] /\ job'[v] = job[v] /\ pos'[v] = pos[v]
    BY <1>7 DEF Deliver, Goto, TypeOK, WorkerTypes
  <2>2. WorkerCovered(w)'
    BY <2>1 DEF WorkerCovered
  <2> QED
    BY <2>1, <2>2, CoverageKept
<1>8. ASSUME NEW w \in Workers, Fault(w) \/ Catch(w) PROVE CoverInv'
  BY <1>5, <1>8 DEF Fault, Catch
<1>9. ASSUME NEW w \in Workers, Ack(w) \/ Nack(w) \/ Crash(w) PROVE CoverInv'
  BY <1>6, <1>9 DEF Ack, Nack, Crash
<1>10. ASSUME NEW w \in Workers, NEW ack \in BOOLEAN, Refuse(w, ack) \/ FailBankJob(w, ack)
       PROVE  CoverInv'
  <2>1. /\ UNCHANGED <<written, reported, nextIndex, job, pos>>
        /\ status' = [status EXCEPT ![job[w]] = "failed"]
        /\ \E stage \in {"ack", "threw", "nack"} : Goto(w, stage)
    BY <1>10 DEF Refuse, FailBankJob, Conclude
  <2>2. \A j \in Imports : status'[j] = "succeeded" => status[j] = "succeeded"
    BY <2>1 DEF TypeOK, RowTypes
  <2> QED
    BY <1>5, <2>1, <2>2
<1>11. ASSUME NEW w \in Workers, NEW stage, pc[w] \in {"read", "record", "items"},
              UNCHANGED <<written, reported, nextIndex, job, pos, status>>, Goto(w, stage),
              stage \in {"record", "items", "report"} \/ (stage = "finish" /\ pos[w] >= Items)
       PROVE  CoverInv'
  <2>1. pc'[w] = stage /\ \A v \in Workers : v # w => pc'[v] = pc[v]
    BY <1>11 DEF Goto, TypeOK, WorkerTypes
  <2>2. job[w] \in Imports /\ Covered(job[w], pos[w])
    BY <1>11 DEF CoverInv, WorkerCovered
  <2>3. stage = "finish" => Covered(job[w], Items)
    BY <1>11, <2>2 DEF Covered, TypeOK, WorkerTypes, Positions
  <2>4. WorkerCovered(w)'
    BY <1>11, <2>1, <2>2, <2>3 DEF WorkerCovered, Covered, Settled
  <2> QED
    BY <1>11, <2>1, <2>4, CoverageKept
<1>12. ASSUME NEW w \in Workers, ReadInput(w) PROVE CoverInv'
  BY <1>5, <1>11, <1>12 DEF ReadInput
<1>13. ASSUME NEW w \in Workers, ItemsDone(w) \/ ImportOneThrows(w) PROVE CoverInv'
  BY <1>11, <1>13 DEF ItemsDone, ImportOneThrows
<1>14. ASSUME NEW w \in Workers, NEW ack \in BOOLEAN, RecordParseProblems(w, ack) PROVE CoverInv'
  BY <1>5, <1>11, <1>14 DEF RecordParseProblems
<1>15. ASSUME NEW w \in Workers, ExportBank(w) PROVE CoverInv'
  <2>1. /\ pc[w] = "export" /\ pc'[w] \in {"refuse", "finish"} /\ job' = job
        /\ UNCHANGED rowVars /\ pos' = pos
        /\ \A v \in Workers : v # w => pc'[v] = pc[v]
    BY <1>15 DEF ExportBank, Goto, TypeOK, WorkerTypes
  <2>2. WorkerCovered(w)'
    BY <2>1 DEF WorkerCovered, CoverInv
  <2> QED
    BY <2>1, <2>2, CoverageKept
<1>16. ASSUME NEW w \in Workers, NEW ack \in BOOLEAN, StartBankJob(w, ack) PROVE CoverInv'
  <2>1. /\ pc[w] = "start" /\ UNCHANGED <<written, reported, nextIndex, job>>
        /\ job[w] \in Jobs /\ pos'[w] = nextIndex[job[w]]
        /\ pc'[w] \in {"nack", "ack", "read", "export"}
        /\ pc'[w] = "read" => job[w] \in Imports
        /\ pc'[w] = "export" => job[w] \notin Imports
        /\ \A v \in Workers : v # w => pc'[v] = pc[v] /\ job'[v] = job[v] /\ pos'[v] = pos[v]
    BY <1>16 DEF StartBankJob, Goto, TypeOK, WorkerTypes, Employed
  <2>2. \A j \in Imports : status'[j] = "succeeded" => status[j] = "succeeded"
    BY <1>16 DEF StartBankJob, TypeOK, RowTypes
  <2>3. Covered(job[w], nextIndex[job[w]])
    BY <2>1 DEF CoverInv, RowCovered
  <2>4. WorkerCovered(w)'
    BY <2>1, <2>3 DEF WorkerCovered, Covered, Settled
  <2> QED
    BY <2>1, <2>2, <2>4, CoverageKept
<1>17. ASSUME NEW w \in Workers, NEW ack \in BOOLEAN, FinishBankJob(w, ack) PROVE CoverInv'
  <2>1. /\ pc[w] = "finish" /\ UNCHANGED <<written, reported, nextIndex, job, pos>>
        /\ status' = [status EXCEPT ![job[w]] = "succeeded"]
        /\ pc'[w] \in {"ack", "threw"}
        /\ \A v \in Workers : v # w => pc'[v] = pc[v]
    BY <1>17 DEF FinishBankJob, Conclude, Goto, TypeOK, WorkerTypes
  <2>2. WorkerCovered(w)'
    BY <2>1 DEF WorkerCovered
  <2>3. job[w] \in Imports => Covered(job[w], Items)
    BY <2>1 DEF CoverInv, WorkerCovered
  <2>4. \A j \in Jobs : RowCovered(j)'
    BY <2>1, <2>3 DEF CoverInv, RowCovered, Covered, Settled, TypeOK, RowTypes
  <2>5. \A j, p : Settled(j, p) => Settled(j, p)'
    BY <2>1 DEF Settled
  <2> QED
    BY <2>1, <2>2, <2>4, <2>5, CoverageGrows
<1>18. ASSUME NEW w \in Workers, NEW ack \in BOOLEAN, ImportOne(w, ack) \/ ReportItem(w, ack)
       PROVE  CoverInv'
  <2>1. PICK k \in Imports, i \in Positions :
          k = job[w] /\ i = pos[w] /\ k \in Jobs /\ Covered(k, i)
    <3>1. pc[w] \in {"items", "report"} /\ pos[w] < Items
      BY <1>18 DEF ImportOne, ReportItem, Employed
    <3>2. pos[w] \in Positions
      BY <3>1 DEF TypeOK, WorkerTypes, Positions
    <3>3. job[w] \in Imports /\ Covered(job[w], pos[w])
      BY <3>1 DEF CoverInv, WorkerCovered
    <3> QED
      BY <3>2, <3>3
  <2>2. /\ nextIndex' = [nextIndex EXCEPT ![k] = i + 1]
        /\ job' = job /\ status' = status
    BY <1>18, <2>1, Zenon DEF ImportOne, ReportItem, AdvanceImport
  <2>3. /\ pc'[w] \in {"items", "report", "threw"}
        /\ pos'[w] = IF ack THEN i + 1 ELSE i
        /\ \A v \in Workers : v # w => pc'[v] = pc[v] /\ pos'[v] = pos[v]
    BY <1>18, <2>1 DEF ImportOne, ReportItem, Goto, TypeOK, WorkerTypes
  <2>4. /\ \A j \in Jobs, p \in Positions : Settled(j, p) => Settled(j, p)'
        /\ Settled(k, i)'
    <3>1. CASE ImportOne(w, ack)
      <4>1. /\ written' = [written EXCEPT ![k][i] = @ + 1] /\ reported' = reported
        BY <2>1, <3>1, Zenon DEF ImportOne
      <4>2. \A j \in Jobs, p \in Positions :
              written'[j][p] = IF j = k /\ p = i THEN written[j][p] + 1 ELSE written[j][p]
        BY <2>1, <4>1 DEF TypeOK, RowTypes
      <4>3. \A j \in Jobs, p \in Positions : written[j][p] \in Nat
        BY DEF TypeOK, RowTypes
      <4> QED
        BY <2>1, <4>1, <4>2, <4>3 DEF Settled
    <3>2. CASE ReportItem(w, ack)
      <4>1. reported' = [reported EXCEPT ![k] = @ \cup {i}] /\ written' = written
        BY <2>1, <3>2, Zenon DEF ReportItem
      <4>2. \A j \in Jobs : reported'[j] = IF j = k THEN reported[j] \cup {i} ELSE reported[j]
        BY <2>1, <4>1 DEF TypeOK, RowTypes
      <4> QED
        BY <2>1, <4>1, <4>2 DEF Settled
    <3> QED
      BY <1>18, <3>1, <3>2
  <2>5. \A p \in Positions : p < i + 1 => p < i \/ p = i
    BY <2>1 DEF Positions
  <2>6. \A p \in Positions : p < i + 1 => Settled(k, p)'
    BY <2>1, <2>4, <2>5 DEF Covered
  <2>7. WorkerCovered(w)'
    <3>1. \A p \in Positions : p < pos'[w] => Settled(k, p)'
      BY <2>1, <2>3, <2>4, <2>6 DEF Covered
    <3> QED
      BY <2>1, <2>2, <2>3, <3>1 DEF WorkerCovered, Covered
  <2>8. ASSUME NEW j \in Jobs PROVE RowCovered(j)'
    <3>1. nextIndex'[j] = IF j = k THEN i + 1 ELSE nextIndex[j]
      BY <2>2 DEF TypeOK, RowTypes
    <3>2. RowCovered(j)
      BY DEF CoverInv
    <3> QED
      BY <2>2, <2>4, <2>6, <3>1, <3>2 DEF RowCovered, Covered
  <2> QED
    BY <2>2, <2>3, <2>4, <2>7, <2>8, CoverageGrows
<1> QED
  BY <1>2, <1>3, <1>4, <1>7, <1>8, <1>9, <1>10, <1>12, <1>13, <1>14, <1>15, <1>16, <1>17, <1>18
     DEF Next, RunStep, LocalStep

(* Under any number of crashes, faults, lost acknowledgements and lapsed   *)
(* locks, every item below the checkpoint, and every item of an import     *)
(* that succeeded, is in the bank or on the problems list.                 *)
THEOREM EveryItemSettled == Spec => []NoItemLost
<1>1. Init => TypeOK /\ Employed /\ CoverInv
  <2> SUFFICES ASSUME Init PROVE TypeOK /\ Employed /\ CoverInv
    OBVIOUS
  <2>1. TypeOK /\ Employed
    BY BankSets, BankNulls DEF Init, TypeOK, RowTypes, QueueTypes, WorkerTypes, FailureTypes, Employed,
     Stages, Unfinished, Finished, Positions
  <2>2. CoverInv
    BY DEF Init, CoverInv, WorkerCovered, RowCovered, Covered, Positions
  <2> QED
    BY <2>1, <2>2
<1>2. TypeOK /\ Employed /\ CoverInv /\ [Next]_vars => (TypeOK /\ Employed /\ CoverInv)'
  BY TypeStep, CoverStep
<1>3. TypeOK /\ Employed /\ CoverInv => NoItemLost
  BY BankSets DEF CoverInv, RowCovered, Covered, Settled, NoItemLost, Positions
<1> QED
  BY <1>1, <1>2, <1>3, PTL DEF Spec

-----------------------------------------------------------------------------
(* While no acknowledgement has been lost and no lock has lapsed, the row  *)
(* of a job that is being run says so, the worker is at the checkpoint,    *)
(* and no item is both written and reported.                               *)

Calm == lostAcks = 0 /\ lockLosses = 0

Running == {"read", "record", "items", "report", "export", "finish", "refuse", "threw", "failing"}

WorkerClean(w) ==
    /\ pc[w] \in Running => status[job[w]] = "running"
    /\ pc[w] = "report" => pos[w] = nextIndex[job[w]]

Apart == \A j \in Jobs, p \in Positions : written[j][p] = 0 \/ p \notin reported[j]

CleanInv == (\A w \in Workers : WorkerClean(w)) /\ Apart

(* A lost acknowledgement is not forgotten either. *)
LEMMA AcksCount ==
    ASSUME TypeOK, lostAcks' = 0, [Next]_vars
    PROVE  lostAcks = 0
<1> DEFINE Counted == lostAcks' = lostAcks \/ lostAcks' = lostAcks + 1
<1>1. Counted
  <2>1. ASSUME NEW j \in Jobs,
               CreateBankJob(j) \/ BecomeStale(j) \/ LoseLock(j) \/ Stalled(j) \/ Evict(j)
        PROVE  Counted
    BY <2>1 DEF failureVars, CreateBankJob, BecomeStale, LoseLock, Stalled, Evict
  <2>2. ASSUME NEW r \in Relays,
               ClaimBankJobs(r) \/ EnqueueFails(r) \/ RelayCrash(r)
                 \/ \E j \in Jobs : Enqueue(r, j)
        PROVE  Counted
    BY <2>2 DEF failureVars, ClaimBankJobs, EnqueueFails, RelayCrash, Enqueue
  <2>3. ASSUME NEW w \in Workers, NEW ack \in BOOLEAN, RunStep(w, ack)
        PROVE  Counted
    <3>1. Answered(ack)
      BY <2>3, Zenon DEF RunStep, StartBankJob, RecordParseProblems, ImportOne,
         ReportItem, FinishBankJob, Refuse, FailBankJob
    <3> QED
      BY <3>1 DEF Answered
  <2>4. ASSUME NEW w \in Workers, LocalStep(w)
        PROVE  Counted
    BY <2>4, Zenon DEF LocalStep, failureVars, ReadInput, ItemsDone, ExportBank, Catch,
       ImportOneThrows, Ack, Nack
  <2>5. ASSUME NEW w \in Workers,
               (\E j \in Jobs : Deliver(w, j)) \/ Fault(w) \/ Crash(w)
        PROVE  Counted
    BY <2>5, Zenon DEF failureVars, Deliver, Fault, Crash
  <2>6. CASE UNCHANGED vars
    BY <2>6 DEF vars, failureVars
  <2> QED
    BY <2>1, <2>2, <2>3, <2>4, <2>5, <2>6, Zenon DEF Next
<1> QED
  BY <1>1 DEF TypeOK, FailureTypes

(* In a calm step the caller hears of its commit. *)
LEMMA CalmIsAcknowledged ==
    ASSUME TypeOK, Calm', NEW ack \in BOOLEAN, Answered(ack)
    PROVE  ack
BY DEF TypeOK, FailureTypes, Calm, Answered

(* Nobody else runs the job of a worker that runs it. *)
LEMMA RunsAlone ==
    ASSUME SoleRunner, NEW v \in Workers, NEW w \in Workers, v # w,
           pc[v] # "idle", pc[w] # "idle"
    PROVE  job[v] # job[w]
BY DEF SoleRunner

LEMMA CleanStep ==
    ASSUME TypeOK, Employed, SoleRunner, AtCheckpoint, SettledBelow, CleanInv, Calm', [Next]_vars
    PROVE  CleanInv'
<1> USE BankSets DEF rowVars, queueVars, workerVars, failureVars
<1>1. ASSUME UNCHANGED <<written, reported, nextIndex, pc, job, pos>>,
             \A j \in Jobs : status[j] = "running" => status'[j] = "running"
      PROVE  CleanInv'
  BY <1>1 DEF CleanInv, WorkerClean, Running, Apart, Employed
<1>2. ASSUME NEW j \in Jobs,
             CreateBankJob(j) \/ BecomeStale(j) \/ LoseLock(j) \/ Stalled(j) \/ Evict(j)
      PROVE  CleanInv'
  BY <1>1, <1>2 DEF CreateBankJob, BecomeStale, LoseLock, Stalled, Evict, TypeOK, RowTypes
<1>3. ASSUME NEW r \in Relays,
             \/ ClaimBankJobs(r) \/ EnqueueFails(r) \/ RelayCrash(r)
             \/ \E j \in Jobs : Enqueue(r, j)
      PROVE  CleanInv'
  BY <1>1, <1>3 DEF ClaimBankJobs, Claimable, EnqueueFails, RelayCrash, Enqueue, TypeOK, RowTypes
<1>4. CASE UNCHANGED vars
  BY <1>1, <1>4 DEF vars
<1>5. ASSUME NEW w \in Workers,
             \A v \in Workers : v # w => pc'[v] = pc[v] /\ job'[v] = job[v] /\ pos'[v] = pos[v],
             pc[w] # "idle", WorkerClean(w)', Apart',
             \A j \in Jobs : j # job[w] => status'[j] = status[j] /\ nextIndex'[j] = nextIndex[j]
      PROVE  CleanInv'
  <2>1. ASSUME NEW v \in Workers, v # w, pc[v] # "idle"
        PROVE  /\ job[v] \in Jobs /\ status'[job[v]] = status[job[v]]
               /\ nextIndex'[job[v]] = nextIndex[job[v]]
    BY <1>5, <2>1, RunsAlone DEF Employed
  <2>2. ASSUME NEW v \in Workers, v # w PROVE WorkerClean(v)'
    BY <1>5, <2>1, <2>2 DEF CleanInv, WorkerClean, Running
  <2> QED
    BY <1>5, <2>2 DEF CleanInv
<1>6. ASSUME NEW w \in Workers, pc[w] # "idle", UNCHANGED <<rowVars, job, pos>>, NEW stage,
             Goto(w, stage), stage \in Running => pc[w] \in Running,
             stage = "report" => pc[w] = "items"
      PROVE  CleanInv'
  <2>1. pc'[w] = stage /\ \A v \in Workers : v # w => pc'[v] = pc[v]
    BY <1>6 DEF Goto, TypeOK, WorkerTypes
  <2>2. WorkerClean(w)'
    BY <1>6, <2>1 DEF CleanInv, WorkerClean, AtCheckpoint
  <2> QED
    BY <1>5, <1>6, <2>1, <2>2 DEF CleanInv, Apart
<1>7. ASSUME NEW w \in Workers, ReadInput(w) \/ ItemsDone(w) \/ ExportBank(w) \/ Catch(w)
                                \/ ImportOneThrows(w) \/ Fault(w)
      PROVE  CleanInv'
  BY <1>6, <1>7 DEF ReadInput, ItemsDone, ExportBank, Catch, ImportOneThrows, Fault, Running
<1>8. ASSUME NEW w \in Workers, Release(w), UNCHANGED rowVars, pc[w] # "idle" PROVE CleanInv'
  <2>1. /\ pc'[w] = "idle"
        /\ \A v \in Workers : v # w => pc'[v] = pc[v] /\ job'[v] = job[v] /\ pos'[v] = pos[v]
    BY <1>8 DEF Release, TypeOK, WorkerTypes
  <2>2. WorkerClean(w)'
    BY <2>1 DEF WorkerClean, Running
  <2> QED
    BY <1>5, <1>8, <2>1, <2>2 DEF CleanInv, Apart
<1>9. ASSUME NEW w \in Workers, Ack(w) \/ Nack(w) \/ Crash(w) PROVE CleanInv'
  BY <1>8, <1>9 DEF Ack, Nack, Crash
<1>10. ASSUME NEW w \in Workers, NEW j \in Jobs, Deliver(w, j) PROVE CleanInv'
  <2>1. /\ pc'[w] = "start" /\ UNCHANGED rowVars
        /\ \A v \in Workers : v # w => pc'[v] = pc[v] /\ job'[v] = job[v] /\ pos'[v] = pos[v]
    BY <1>10 DEF Deliver, Goto, TypeOK, WorkerTypes
  <2>2. \A v \in Workers : WorkerClean(v)'
    BY <2>1 DEF CleanInv, WorkerClean, Running
  <2> QED
    BY <2>1, <2>2 DEF CleanInv, Apart
<1>11. ASSUME NEW w \in Workers, NEW ack \in BOOLEAN, StartBankJob(w, ack) PROVE CleanInv'
  <2>1. ack
    BY <1>11, CalmIsAcknowledged DEF StartBankJob
  <2>2. /\ pc[w] = "start" /\ UNCHANGED <<written, reported, nextIndex, job>> /\ job[w] \in Jobs
        /\ status' = [status EXCEPT ![job[w]] = IF @ \in Startable THEN "running" ELSE @]
        /\ pc'[w] = IF status[job[w]] \notin Startable THEN "ack"
                    ELSE IF job[w] \in Imports THEN "read" ELSE "export"
        /\ \A v \in Workers : v # w => pc'[v] = pc[v] /\ job'[v] = job[v] /\ pos'[v] = pos[v]
    BY <1>11, <2>1 DEF StartBankJob, Goto, TypeOK, WorkerTypes, Employed
  <2>3. \A j \in Jobs : status'[j] = IF j = job[w] /\ status[j] \in Startable
                                      THEN "running" ELSE status[j]
    BY <2>2 DEF TypeOK, RowTypes
  <2>4. WorkerClean(w)'
    BY <2>2, <2>3 DEF WorkerClean, Running
  <2> QED
    BY <1>5, <2>2, <2>3, <2>4 DEF CleanInv, Apart
<1>12. ASSUME NEW w \in Workers, NEW ack \in BOOLEAN, RecordParseProblems(w, ack) PROVE CleanInv'
  <2>1. /\ pc[w] = "record" /\ UNCHANGED <<status, written, reported, nextIndex, job, pos>>
        /\ pc'[w] \in {"items", "threw"} /\ \A v \in Workers : v # w => pc'[v] = pc[v]
    BY <1>12 DEF RecordParseProblems, Goto, TypeOK, WorkerTypes
  <2>2. WorkerClean(w)'
    BY <2>1 DEF CleanInv, WorkerClean, Running
  <2> QED
    BY <1>5, <2>1, <2>2 DEF CleanInv, Apart
<1>13. ASSUME NEW w \in Workers, NEW ack \in BOOLEAN,
              FinishBankJob(w, ack) \/ Refuse(w, ack) \/ FailBankJob(w, ack)
       PROVE  CleanInv'
  <2>1. ack
    BY <1>13, CalmIsAcknowledged DEF FinishBankJob, Refuse, FailBankJob
  <2>2. /\ pc[w] # "idle" /\ UNCHANGED <<written, reported, nextIndex, job, pos>>
        /\ \E how : status' = [status EXCEPT ![job[w]] = how]
        /\ \E stage \in {"ack", "nack"} : Goto(w, stage)
    BY <1>13, <2>1 DEF FinishBankJob, Refuse, FailBankJob, Conclude
  <2>3. pc'[w] \in {"ack", "nack"} /\ \A v \in Workers : v # w => pc'[v] = pc[v]
    BY <2>2 DEF Goto, TypeOK, WorkerTypes
  <2>4. WorkerClean(w)'
    BY <2>3 DEF WorkerClean, Running
  <2>5. \A j \in Jobs : j # job[w] => status'[j] = status[j]
    BY <2>2 DEF TypeOK, RowTypes
  <2> QED
    BY <1>5, <2>2, <2>3, <2>4, <2>5 DEF CleanInv, Apart
<1>14. ASSUME NEW w \in Workers, NEW ack \in BOOLEAN, ImportOne(w, ack) \/ ReportItem(w, ack)
       PROVE  CleanInv'
  <2>1. ack
    BY <1>14, CalmIsAcknowledged DEF ImportOne, ReportItem
  <2>2. PICK k \in Jobs, i \in Positions : k = job[w] /\ i = pos[w] /\ i = nextIndex[k]
    <3>1. pc[w] \in {"items", "report"} /\ pos[w] < Items /\ job[w] \in Jobs
      BY <1>14 DEF ImportOne, ReportItem, Employed
    <3>2. pos[w] \in Positions
      BY <3>1 DEF TypeOK, WorkerTypes, Positions
    <3>3. pos[w] = nextIndex[job[w]]
      BY <3>1 DEF CleanInv, WorkerClean, AtCheckpoint
    <3> QED
      BY <3>1, <3>2, <3>3
  <2>3. /\ nextIndex' = [nextIndex EXCEPT ![k] = i + 1] /\ job' = job /\ status' = status
    BY <1>14, <2>2, Zenon DEF ImportOne, ReportItem, AdvanceImport
  <2>4. /\ pc[w] \in {"items", "report"} /\ pc'[w] = "items"
        /\ \A v \in Workers : v # w => pc'[v] = pc[v] /\ pos'[v] = pos[v]
    BY <1>14, <2>1 DEF ImportOne, ReportItem, Goto, TypeOK, WorkerTypes
  <2>5. WorkerClean(w)'
    BY <2>3, <2>4 DEF CleanInv, WorkerClean, Running
  <2>6. written[k][i] = 0 /\ i \notin reported[k]
    BY <2>2 DEF SettledBelow, Positions
  <2>7. Apart'
    <3>1. CASE ImportOne(w, ack)
      <4>1. written' = [written EXCEPT ![k][i] = @ + 1] /\ reported' = reported
        BY <2>2, <3>1, Zenon DEF ImportOne
      <4>2. \A j \in Jobs, p \in Positions :
              ~(j = k /\ p = i) => written'[j][p] = written[j][p]
        BY <4>1 DEF TypeOK, RowTypes
      <4> QED
        BY <2>6, <4>1, <4>2 DEF Apart, CleanInv
    <3>2. CASE ReportItem(w, ack)
      <4>1. reported' = [reported EXCEPT ![k] = @ \cup {i}] /\ written' = written
        BY <2>2, <3>2, Zenon DEF ReportItem
      <4>2. \A j \in Jobs : reported'[j] = IF j = k THEN reported[j] \cup {i} ELSE reported[j]
        BY <4>1 DEF TypeOK, RowTypes
      <4> QED
        BY <2>6, <4>1, <4>2 DEF Apart, CleanInv
    <3> QED
      BY <1>14, <3>1, <3>2
  <2>8. \A j \in Jobs : j # job[w] => nextIndex'[j] = nextIndex[j]
    BY <2>2, <2>3 DEF TypeOK, RowTypes
  <2> QED
    BY <1>5, <2>3, <2>4, <2>5, <2>7, <2>8
<1> QED
  BY <1>2, <1>3, <1>4, <1>7, <1>9, <1>10, <1>11, <1>12, <1>13, <1>14 DEF Next, RunStep, LocalStep

JobInv ==
    /\ TypeOK /\ Employed /\ CoverInv
    /\ lockLosses = 0 => SoleRunner /\ AtCheckpoint /\ SettledBelow
    /\ Calm => CleanInv

LEMMA JobInvariance == Spec => []JobInv
<1>1. Init => JobInv
  <2> SUFFICES ASSUME Init PROVE JobInv
    OBVIOUS
  <2>1. TypeOK /\ Employed
    BY BankSets, BankNulls DEF Init, TypeOK, RowTypes, QueueTypes, WorkerTypes, FailureTypes, Employed,
     Stages, Unfinished, Finished, Positions
  <2>2. CoverInv
    BY DEF Init, CoverInv, WorkerCovered, RowCovered, Covered, Positions
  <2>3. SoleRunner /\ AtCheckpoint
    BY BankNulls DEF Init, SoleRunner, AtCheckpoint
  <2>4. SettledBelow
    BY BankSets DEF Init, SettledBelow, Positions
  <2>5. CleanInv
    BY DEF Init, CleanInv, WorkerClean, Running, Apart
  <2> QED
    BY <2>1, <2>2, <2>3, <2>4, <2>5 DEF JobInv
<1>2. JobInv /\ [Next]_vars => JobInv'
  <2> SUFFICES ASSUME JobInv, [Next]_vars PROVE JobInv'
    OBVIOUS
  <2>1. TypeOK' /\ Employed' /\ CoverInv'
    BY TypeStep, CoverStep DEF JobInv
  <2>2. ASSUME lockLosses' = 0 PROVE (SoleRunner /\ AtCheckpoint /\ SettledBelow)'
    <3>1. SoleRunner /\ AtCheckpoint /\ SettledBelow
      BY <2>2, LossesCount DEF JobInv
    <3> QED
      BY <2>2, <3>1, RunnerStep, CheckpointStep DEF JobInv
  <2>3. ASSUME Calm' PROVE CleanInv'
    <3>1. Calm
      BY <2>3, LossesCount, AcksCount DEF JobInv, Calm
    <3> QED
      BY <2>3, <3>1, CleanStep DEF JobInv, Calm
  <2> QED
    BY <2>1, <2>2, <2>3 DEF JobInv
<1> QED
  BY <1>1, <1>2, PTL DEF Spec

-----------------------------------------------------------------------------
(* The refinement. *)

fateBar == [j \in Imports |-> [p \in Positions |-> FateOf(j, p)]]
phaseBar == [j \in Imports |-> IF status[j] \in Finished THEN status[j] ELSE "open"]

(* An item nothing happens to keeps its fate. *)
LEMMA FateKept ==
    ASSUME NEW j, NEW p, written'[j][p] = written[j][p], p \in reported'[j] <=> p \in reported[j]
    PROVE  FateOf(j, p)' = FateOf(j, p)
<1>1. CASE p \notin reported[j] /\ written[j][p] = 0
  BY <1>1 DEF FateOf
<1>2. CASE p \notin reported[j] /\ written[j][p] = 1
  BY <1>2 DEF FateOf
<1>3. CASE p \in reported[j] /\ written[j][p] = 0
  BY <1>3 DEF FateOf
<1>4. CASE /\ p \notin reported[j] => written[j][p] \notin {0, 1}
           /\ p \in reported[j] => written[j][p] # 0
  BY <1>4 DEF FateOf
<1> QED
  BY <1>1, <1>2, <1>3, <1>4

(* A step that settles no item and ends no import is not seen. *)
LEMMA Unseen ==
    ASSUME UNCHANGED <<written, reported>>,
           \A j \in Imports : \/ status'[j] = status[j]
                              \/ status[j] \notin Finished /\ status'[j] \notin Finished
    PROVE  fateBar' = fateBar /\ phaseBar' = phaseBar
<1>1. fateBar' = fateBar
  BY DEF fateBar, FateOf
<1>2. phaseBar' = phaseBar
  BY DEF phaseBar
<1> QED
  BY <1>1, <1>2

LEMMA LedgerStep ==
    ASSUME JobInv, Calm, Calm', [Next]_vars
    PROVE  Ledger!LedgerNext \/ (fateBar' = fateBar /\ phaseBar' = phaseBar)
<1> USE BankSets DEF rowVars, queueVars, workerVars, failureVars
<1> DEFINE Simulated == Ledger!LedgerNext \/ (fateBar' = fateBar /\ phaseBar' = phaseBar)
<1>1. /\ TypeOK /\ Employed /\ CoverInv /\ CleanInv /\ SoleRunner /\ AtCheckpoint /\ SettledBelow
  BY DEF JobInv, Calm
<1>2. ASSUME NEW j \in Jobs,
             CreateBankJob(j) \/ BecomeStale(j) \/ LoseLock(j) \/ Stalled(j) \/ Evict(j)
      PROVE  Simulated
  BY <1>1, <1>2, Unseen DEF CreateBankJob, BecomeStale, LoseLock, Stalled, Evict, TypeOK, RowTypes,
     Finished
<1>3. ASSUME NEW r \in Relays,
             \/ ClaimBankJobs(r) \/ EnqueueFails(r) \/ RelayCrash(r)
             \/ \E j \in Jobs : Enqueue(r, j)
      PROVE  Simulated
  BY <1>1, <1>3, Unseen DEF ClaimBankJobs, Claimable, EnqueueFails, RelayCrash, Enqueue, TypeOK,
     RowTypes, Finished
<1>4. CASE UNCHANGED vars
  BY <1>4, Unseen DEF vars
<1>5. ASSUME NEW w \in Workers, LocalStep(w) \/ Fault(w) \/ Crash(w) \/ \E j \in Jobs : Deliver(w, j)
      PROVE  Simulated
  <2>1. UNCHANGED rowVars
    BY <1>5, Zenon DEF LocalStep, ReadInput, ItemsDone, ExportBank, Catch, ImportOneThrows, Ack, Nack,
       Fault, Crash, Deliver
  <2> QED
    BY <2>1, Unseen
<1>6. ASSUME NEW w \in Workers, NEW ack \in BOOLEAN, StartBankJob(w, ack) PROVE Simulated
  <2>1. /\ UNCHANGED <<written, reported>> /\ job[w] \in Jobs
        /\ status' = [status EXCEPT ![job[w]] = IF @ \in Startable THEN "running" ELSE @]
    BY <1>1, <1>6 DEF StartBankJob, Employed
  <2> QED
    BY <1>1, <2>1, Unseen DEF TypeOK, RowTypes, Startable, Unfinished, Finished
<1>7. ASSUME NEW w \in Workers, NEW ack \in BOOLEAN, RecordParseProblems(w, ack) PROVE Simulated
  BY <1>7, Unseen DEF RecordParseProblems
<1>8. ASSUME NEW w \in Workers, NEW how \in Finished, pc[w] \in {"finish", "refuse", "failing"},
             Conclude(job[w], how), how = "succeeded" => pc[w] = "finish"
      PROVE  Simulated
  <2>1. /\ job[w] \in Jobs /\ status[job[w]] = "running" /\ UNCHANGED <<written, reported>>
        /\ status' = [status EXCEPT ![job[w]] = how]
    BY <1>1, <1>8 DEF Employed, CleanInv, WorkerClean, Running, Conclude
  <2>2. CASE job[w] \notin Imports
    BY <1>1, <2>1, <2>2, Unseen DEF TypeOK, RowTypes
  <2>3. CASE job[w] \in Imports
    <3>1. fateBar' = fateBar
      BY <2>1 DEF fateBar, FateOf
    <3>2. \A j \in Imports : status'[j] = IF j = job[w] THEN how ELSE status[j]
      BY <1>1, <2>1 DEF TypeOK, RowTypes
    <3>3. phaseBar[job[w]] = "open" /\ phaseBar' = [phaseBar EXCEPT ![job[w]] = how]
      BY <2>1, <2>3, <3>2 DEF phaseBar, Finished
    <3>4. CASE how = "failed"
      BY <2>3, <3>1, <3>3, <3>4 DEF Ledger!LedgerNext, Ledger!Close, fateBar, phaseBar
    <3>5. CASE how = "succeeded"
      <4>1. Covered(job[w], Items)
        BY <1>1, <1>8, <2>3, <3>5 DEF CoverInv, WorkerCovered
      <4>2. \A p \in Positions : written[job[w]][p] > 0 \/ p \in reported[job[w]]
        BY <4>1 DEF Covered, Settled, Positions
      <4>3. \A p \in Positions : written[job[w]][p] # 0 \/ p \in reported[job[w]]
        BY <1>1, <2>1, <4>2 DEF TypeOK, RowTypes
      <4>4. \A p \in Positions : FateOf(job[w], p) # "pending"
        BY <4>3 DEF FateOf
      <4>5. \A p \in Positions : fateBar[job[w]][p] # "pending"
        BY <2>3, <4>4 DEF fateBar
      <4> QED
        BY <2>3, <3>1, <3>3, <3>5, <4>5 DEF Ledger!LedgerNext, Ledger!Complete, fateBar, phaseBar,
           Ledger!Positions, Positions
    <3> QED
      BY <1>8, <3>4, <3>5 DEF Finished
  <2> QED
    BY <2>2, <2>3
<1>9. ASSUME NEW w \in Workers, NEW ack \in BOOLEAN,
             FinishBankJob(w, ack) \/ Refuse(w, ack) \/ FailBankJob(w, ack)
      PROVE  Simulated
  BY <1>8, <1>9 DEF FinishBankJob, Refuse, FailBankJob, Finished
<1>10. ASSUME NEW w \in Workers, NEW ack \in BOOLEAN, ImportOne(w, ack) \/ ReportItem(w, ack)
       PROVE  Simulated
  <2>1. PICK k \in Imports, i \in Positions :
          /\ k = job[w] /\ i = pos[w] /\ k \in Jobs /\ i = nextIndex[k]
          /\ status[k] = "running"
    <3>1. pc[w] \in {"items", "report"} /\ pos[w] < Items /\ job[w] \in Jobs
      BY <1>1, <1>10 DEF ImportOne, ReportItem, Employed
    <3>2. pos[w] \in Positions
      BY <1>1, <3>1 DEF TypeOK, WorkerTypes, Positions
    <3>3. pos[w] = nextIndex[job[w]] /\ status[job[w]] = "running"
      BY <1>1, <3>1 DEF CleanInv, WorkerClean, AtCheckpoint, Running
    <3>4. job[w] \in Imports
      BY <1>1, <3>1 DEF CoverInv, WorkerCovered
    <3> QED
      BY <3>1, <3>2, <3>3, <3>4
  <2>2. /\ written[k][i] = 0 /\ i \notin reported[k]
        /\ \A q \in Positions : q < i => written[k][q] = 1 \/ q \in reported[k]
    BY <1>1, <2>1 DEF SettledBelow, Positions
  <2>3. fateBar[k][i] = "pending" /\ \A q \in Positions : q < i => fateBar[k][q] # "pending"
    BY <2>2 DEF fateBar, FateOf
  <2>4. status' = status
    BY <1>10, Zenon DEF ImportOne, ReportItem
  <2>5. phaseBar[k] = "open" /\ phaseBar' = phaseBar
    BY <2>1, <2>4 DEF phaseBar, Finished
  <2>6. \E how \in {"written", "reported"} : fateBar' = [fateBar EXCEPT ![k][i] = how]
    <3>1. CASE ImportOne(w, ack)
      <4>1. written' = [written EXCEPT ![k][i] = @ + 1] /\ reported' = reported
        BY <2>1, <3>1, Zenon DEF ImportOne
      <4>2. \A j \in Imports, p \in Positions :
              written'[j][p] = IF j = k /\ p = i THEN 1 ELSE written[j][p]
        BY <1>1, <2>2, <4>1 DEF TypeOK, RowTypes
      <4>3. ASSUME NEW j \in Imports, NEW p \in Positions
            PROVE  FateOf(j, p)' = IF j = k /\ p = i THEN "written" ELSE FateOf(j, p)
        <5>1. CASE j = k /\ p = i
          BY <2>1, <2>2, <4>1, <4>2, <5>1 DEF FateOf
        <5>2. CASE ~(j = k /\ p = i)
          <6>1. written'[j][p] = written[j][p] /\ (p \in reported'[j] <=> p \in reported[j])
            BY <4>1, <4>2, <5>2
          <6>2. FateOf(j, p)' = FateOf(j, p)
            BY <6>1, FateKept
          <6> QED
            BY <5>2, <6>2
        <5> QED
          BY <5>1, <5>2
      <4>4. fateBar' = [fateBar EXCEPT ![k][i] = "written"]
        BY <4>3 DEF fateBar
      <4> QED
        BY <4>4
    <3>2. CASE ReportItem(w, ack)
      <4>1. reported' = [reported EXCEPT ![k] = @ \cup {i}] /\ written' = written
        BY <2>1, <3>2, Zenon DEF ReportItem
      <4>2. \A j \in Imports : reported'[j] = IF j = k THEN reported[j] \cup {i} ELSE reported[j]
        BY <1>1, <4>1 DEF TypeOK, RowTypes
      <4>3. ASSUME NEW j \in Imports, NEW p \in Positions
            PROVE  FateOf(j, p)' = IF j = k /\ p = i THEN "reported" ELSE FateOf(j, p)
        <5>1. CASE j = k /\ p = i
          BY <2>1, <2>2, <4>1, <4>2, <5>1 DEF FateOf
        <5>2. CASE ~(j = k /\ p = i)
          <6>1. written'[j][p] = written[j][p] /\ (p \in reported'[j] <=> p \in reported[j])
            BY <4>1, <4>2, <5>2
          <6>2. FateOf(j, p)' = FateOf(j, p)
            BY <6>1, FateKept
          <6> QED
            BY <5>2, <6>2
        <5> QED
          BY <5>1, <5>2
      <4>4. fateBar' = [fateBar EXCEPT ![k][i] = "reported"]
        BY <4>3 DEF fateBar
      <4> QED
        BY <4>4
    <3> QED
      BY <1>10, <3>1, <3>2
  <2> QED
    BY <2>1, <2>3, <2>5, <2>6 DEF Ledger!LedgerNext, Ledger!Settle, Ledger!Positions, fateBar, phaseBar,
       Positions
<1> QED
  BY <1>2, <1>3, <1>4, <1>5, <1>6, <1>7, <1>9, <1>10 DEF Next, RunStep

(* The counters of what cannot happen stay at zero. *)
LEMMA AlwaysCalm ==
    ASSUME MaxLostAcks = 0, MaxLockLosses = 0
    PROVE  Spec => []Calm
<1>1. Init => Calm
  BY DEF Init, Calm
<1>2. TypeOK /\ Calm /\ [Next]_vars => Calm'
  <2> SUFFICES ASSUME TypeOK, Calm, [Next]_vars PROVE Calm'
    OBVIOUS
  <2>1. ASSUME NEW j \in Jobs,
               CreateBankJob(j) \/ BecomeStale(j) \/ LoseLock(j) \/ Stalled(j) \/ Evict(j)
        PROVE  Calm'
    BY <2>1 DEF failureVars, CreateBankJob, BecomeStale, LoseLock, Stalled, Evict, Calm
  <2>2. ASSUME NEW r \in Relays,
               ClaimBankJobs(r) \/ EnqueueFails(r) \/ RelayCrash(r)
                 \/ \E j \in Jobs : Enqueue(r, j)
        PROVE  Calm'
    BY <2>2 DEF failureVars, ClaimBankJobs, EnqueueFails, RelayCrash, Enqueue, Calm
  <2>3. ASSUME NEW w \in Workers, NEW ack \in BOOLEAN, RunStep(w, ack)
        PROVE  Calm'
    <3>1. Answered(ack)
      BY <2>3, Zenon DEF RunStep, StartBankJob, RecordParseProblems, ImportOne,
         ReportItem, FinishBankJob, Refuse, FailBankJob
    <3> QED
      BY <3>1 DEF Answered, Calm
  <2>4. ASSUME NEW w \in Workers,
               LocalStep(w) \/ (\E j \in Jobs : Deliver(w, j)) \/ Fault(w) \/ Crash(w)
        PROVE  UNCHANGED <<lostAcks, lockLosses>>
    BY <2>4, Zenon DEF LocalStep, failureVars, ReadInput, ItemsDone, ExportBank, Catch,
       ImportOneThrows, Ack, Nack, Deliver, Fault, Crash
  <2>5. CASE UNCHANGED vars
    BY <2>5 DEF vars, failureVars, Calm
  <2> QED
    BY <2>1, <2>2, <2>3, <2>4, <2>5 DEF Next, Calm
<1> QED
  BY <1>1, <1>2, TypeCorrect, PTL DEF Spec

(* Where commits are acknowledged and locks are renewed, and whatever else *)
(* goes wrong: seen from the bank and the job's row, the pipeline settles  *)
(* the items of a file once each and in order, and then ends the job once. *)
THEOREM RefinesLedger ==
    ASSUME MaxLostAcks = 0, MaxLockLosses = 0
    PROVE  Spec => ImplementsLedger
<1>1. Init => Ledger!LedgerInit
  <2> SUFFICES ASSUME Init PROVE Ledger!LedgerInit
    OBVIOUS
  <2>1. \A j \in Imports, p \in Positions : FateOf(j, p) = "pending"
    BY BankSets DEF Init, FateOf
  <2>2. \A j \in Imports : status[j] \notin Finished
    BY BankSets DEF Init, Finished
  <2> QED
    BY <2>1, <2>2 DEF Ledger!LedgerInit, Ledger!Positions, Positions
<1>2. JobInv /\ Calm /\ Calm' /\ [Next]_vars => [Ledger!LedgerNext]_Ledger!ledgerVars
  BY LedgerStep DEF fateBar, phaseBar, Ledger!ledgerVars
<1> QED
  BY <1>1, <1>2, JobInvariance, AlwaysCalm, PTL DEF Spec, ImplementsLedger, Ledger!LedgerSpec

-----------------------------------------------------------------------------
(* The counts.  The reader's problems are counted once: on the first run,  *)
(* which the row shows by having no count and no checkpoint yet.           *)

Made(j) == {p \in Positions : written[j][p] = 1}

Told(j) == skipped[j] = Cardinality(reported[j]) + Problems

RowCounted(j) ==
    /\ created[j] = Cardinality(Made(j))
    /\ FirstRun(j) \/ Told(j)
    /\ j \in Imports /\ status[j] = "succeeded" => Told(j)

WorkerCounted(w) ==
    /\ pc[w] = "read" => (first[w] <=> FirstRun(job[w]))
    /\ pc[w] = "record" => FirstRun(job[w])
    /\ pc[w] \in {"items", "report"} => Told(job[w])
    /\ pc[w] = "finish" /\ job[w] \in Imports => Told(job[w])

CountInv == (\A w \in Workers : WorkerCounted(w)) /\ (\A j \in Jobs : RowCounted(j))

(* Before the first checkpoint nothing has been reported. *)
LEMMA FreshReports ==
    ASSUME TypeOK, SettledBelow, NEW j \in Jobs, FirstRun(j)
    PROVE  reported[j] = {} /\ Cardinality(reported[j]) = 0 /\ skipped[j] = 0
<1>1. \A p \in Positions : p >= nextIndex[j]
  BY DEF FirstRun, Positions
<1>2. reported[j] = {}
  BY <1>1 DEF SettledBelow, TypeOK, RowTypes
<1> QED
  BY <1>2, FS_EmptySet DEF FirstRun

LEMMA PositionsFinite ==
    /\ IsFiniteSet(Positions) /\ Cardinality(Positions) = Items
    /\ \A S \in SUBSET Positions : IsFiniteSet(S) /\ Cardinality(S) \in Nat
<1>1. IsFiniteSet(Positions) /\ Cardinality(Positions) = Items
  BY BankSets, FS_Interval DEF Positions
<1> QED
  BY <1>1, FS_Subset, FS_CardinalityType

LEMMA CountStep ==
    ASSUME JobInv, Calm, Calm', CountInv, [Next]_vars
    PROVE  CountInv'
<1> USE BankSets DEF rowVars, queueVars, workerVars, failureVars
<1> DEFINE Counts == <<nextIndex, created, skipped, written, reported>>
<1>1. /\ TypeOK /\ Employed /\ CoverInv /\ CleanInv /\ SoleRunner /\ AtCheckpoint /\ SettledBelow
  BY DEF JobInv, Calm
<1>2. ASSUME UNCHANGED Counts
      PROVE  \A j : /\ FirstRun(j)' <=> FirstRun(j)
                    /\ Told(j)' <=> Told(j)
                    /\ Made(j)' = Made(j) /\ created'[j] = created[j]
  BY <1>2 DEF FirstRun, Told, Made
<1>3. ASSUME UNCHANGED Counts,
             \A j \in Imports : status'[j] = "succeeded" => status[j] = "succeeded" \/ Told(j),
             NEW w \in Workers,
             \A v \in Workers : v # w => pc'[v] = pc[v] /\ job'[v] = job[v] /\ first'[v] = first[v],
             WorkerCounted(w)'
      PROVE  CountInv'
  <2>1. \A j \in Jobs : RowCounted(j)'
    BY <1>2, <1>3 DEF CountInv, RowCounted
  <2>2. ASSUME NEW v \in Workers, v # w PROVE WorkerCounted(v)'
    BY <1>2, <1>3, <2>2 DEF CountInv, WorkerCounted
  <2> QED
    BY <1>3, <2>1, <2>2 DEF CountInv
<1>4. ASSUME UNCHANGED <<Counts, pc, job, first>>,
             \A j \in Imports : status'[j] = "succeeded" => status[j] = "succeeded"
      PROVE  CountInv'
  <2>1. \A j \in Jobs : RowCounted(j)'
    BY <1>2, <1>4 DEF CountInv, RowCounted
  <2>2. \A v \in Workers : WorkerCounted(v)'
    BY <1>2, <1>4 DEF CountInv, WorkerCounted
  <2> QED
    BY <2>1, <2>2 DEF CountInv
<1>5. ASSUME NEW j \in Jobs,
             CreateBankJob(j) \/ BecomeStale(j) \/ LoseLock(j) \/ Stalled(j) \/ Evict(j)
      PROVE  CountInv'
  BY <1>1, <1>4, <1>5 DEF CreateBankJob, BecomeStale, LoseLock, Stalled, Evict, TypeOK, RowTypes
<1>6. ASSUME NEW r \in Relays,
             \/ ClaimBankJobs(r) \/ EnqueueFails(r) \/ RelayCrash(r)
             \/ \E j \in Jobs : Enqueue(r, j)
      PROVE  CountInv'
  BY <1>1, <1>4, <1>6 DEF ClaimBankJobs, EnqueueFails, RelayCrash, Enqueue, TypeOK, RowTypes
<1>7. CASE UNCHANGED vars
  BY <1>4, <1>7 DEF vars
<1>8. ASSUME NEW w \in Workers, UNCHANGED <<Counts, job, first>>,
             \A j \in Imports : status'[j] = "succeeded" => status[j] = "succeeded" \/ Told(j),
             NEW stage, Goto(w, stage),
             \/ stage \in {"nack", "ack", "refuse", "threw", "failing"}
             \/ stage \in {"items", "report"} /\ Told(job[w])
             \/ stage = "record" /\ FirstRun(job[w])
             \/ stage = "finish" /\ (job[w] \in Imports => Told(job[w]))
      PROVE  CountInv'
  <2>1. pc'[w] = stage /\ \A v \in Workers : v # w => pc'[v] = pc[v]
    BY <1>1, <1>8 DEF Goto, TypeOK, WorkerTypes
  <2>2. WorkerCounted(w)'
    BY <1>2, <1>8, <2>1 DEF WorkerCounted
  <2> QED
    BY <1>3, <1>8, <2>1, <2>2
<1>9. ASSUME NEW w \in Workers, Ack(w) \/ Nack(w) \/ Crash(w) PROVE CountInv'
  <2>1. /\ UNCHANGED <<rowVars, first>> /\ pc'[w] = "idle"
        /\ \A v \in Workers : v # w => pc'[v] = pc[v] /\ job'[v] = job[v]
    BY <1>1, <1>9 DEF Ack, Nack, Crash, Release, TypeOK, WorkerTypes
  <2>2. WorkerCounted(w)'
    BY <2>1 DEF WorkerCounted
  <2> QED
    BY <1>3, <2>1, <2>2
<1>10. ASSUME NEW w \in Workers, NEW j \in Jobs, Deliver(w, j) PROVE CountInv'
  <2>1. /\ UNCHANGED <<rowVars, first>> /\ pc'[w] = "start"
        /\ \A v \in Workers : v # w => pc'[v] = pc[v] /\ job'[v] = job[v]
    BY <1>1, <1>10 DEF Deliver, Goto, TypeOK, WorkerTypes
  <2>2. WorkerCounted(w)'
    BY <2>1 DEF WorkerCounted
  <2> QED
    BY <1>3, <2>1, <2>2
<1>11. ASSUME NEW w \in Workers, Fault(w) \/ Catch(w) PROVE CountInv'
  BY <1>8, <1>11 DEF Fault, Catch
<1>12. ASSUME NEW w \in Workers, ItemsDone(w) \/ ImportOneThrows(w) PROVE CountInv'
  <2>1. Told(job[w])
    BY <1>12 DEF ItemsDone, ImportOneThrows, CountInv, WorkerCounted
  <2> QED
    BY <1>8, <1>12, <2>1 DEF ItemsDone, ImportOneThrows
<1>13. ASSUME NEW w \in Workers, ExportBank(w) PROVE CountInv'
  <2>1. job[w] \notin Imports
    BY <1>1, <1>13 DEF ExportBank, CoverInv, WorkerCovered
  <2> QED
    BY <1>8, <1>13, <2>1 DEF ExportBank
<1>14. ASSUME NEW w \in Workers, ReadInput(w) PROVE CountInv'
  <2>1. pc[w] = "read" /\ job[w] \in Jobs /\ (first[w] <=> FirstRun(job[w]))
    BY <1>1, <1>14 DEF ReadInput, Employed, CountInv, WorkerCounted
  <2>2. ~(first[w] /\ Problems > 0) => Told(job[w])
    <3>1. CASE first[w] /\ ~(Problems > 0)
      BY <1>1, <2>1, <3>1, FreshReports DEF Told
    <3>2. CASE ~first[w]
      BY <2>1, <3>2 DEF CountInv, RowCounted
    <3> QED
      BY <3>1, <3>2
  <2> QED
    BY <1>8, <1>14, <2>1, <2>2 DEF ReadInput
<1>15. ASSUME NEW w \in Workers, NEW ack \in BOOLEAN, StartBankJob(w, ack) PROVE CountInv'
  <2>1. /\ pc[w] = "start" /\ UNCHANGED <<Counts, job>>
        /\ pc'[w] \in {"nack", "ack", "read", "export"} /\ first'[w] = FirstRun(job[w])
        /\ \A v \in Workers : v # w => pc'[v] = pc[v] /\ first'[v] = first[v]
    BY <1>1, <1>15 DEF StartBankJob, Goto, TypeOK, WorkerTypes
  <2>2. \A j \in Imports : status'[j] = "succeeded" => status[j] = "succeeded"
    BY <1>1, <1>15 DEF StartBankJob, TypeOK, RowTypes
  <2>3. WorkerCounted(w)'
    BY <1>2, <2>1 DEF WorkerCounted
  <2> QED
    BY <1>3, <2>1, <2>2, <2>3
<1>16. ASSUME NEW w \in Workers, NEW ack \in BOOLEAN, FinishBankJob(w, ack) PROVE CountInv'
  <2>1. /\ UNCHANGED <<Counts, job, first>> /\ status' = [status EXCEPT ![job[w]] = "succeeded"]
        /\ pc[w] = "finish" /\ \E stage \in {"ack", "threw"} : Goto(w, stage)
    BY <1>16 DEF FinishBankJob, Conclude
  <2>2. job[w] \in Imports => Told(job[w])
    BY <2>1 DEF CountInv, WorkerCounted
  <2>3. \A j \in Imports : status'[j] = "succeeded" => status[j] = "succeeded" \/ Told(j)
    BY <1>1, <2>1, <2>2 DEF TypeOK, RowTypes
  <2> QED
    BY <1>8, <2>1, <2>3
<1>17. ASSUME NEW w \in Workers, NEW ack \in BOOLEAN, Refuse(w, ack) \/ FailBankJob(w, ack)
       PROVE  CountInv'
  <2>1. /\ UNCHANGED <<Counts, job, first>> /\ status' = [status EXCEPT ![job[w]] = "failed"]
        /\ \E stage \in {"ack", "threw", "nack"} : Goto(w, stage)
    BY <1>17 DEF Refuse, FailBankJob, Conclude
  <2>2. \A j \in Imports : status'[j] = "succeeded" => status[j] = "succeeded"
    BY <1>1, <2>1 DEF TypeOK, RowTypes
  <2> QED
    BY <1>8, <2>1, <2>2
<1>18. ASSUME NEW w \in Workers, NEW k \in Jobs, k = job[w], pc[w] # "idle",
              \A j \in Jobs : j # k => /\ created'[j] = created[j] /\ skipped'[j] = skipped[j]
                                       /\ nextIndex'[j] = nextIndex[j]
                                       /\ written'[j] = written[j] /\ reported'[j] = reported[j],
              UNCHANGED <<status, job, first>>,
              \A v \in Workers : v # w => pc'[v] = pc[v],
              pc'[w] \in {"items", "threw"}, RowCounted(k)', Told(k)'
       PROVE  CountInv'
  <2>1. ASSUME NEW j \in Jobs, j # k
        PROVE  /\ FirstRun(j)' <=> FirstRun(j)
               /\ Told(j)' <=> Told(j)
               /\ Made(j)' = Made(j) /\ created'[j] = created[j]
    BY <1>18, <2>1 DEF FirstRun, Told, Made
  <2>2. \A j \in Jobs : RowCounted(j)'
    BY <1>18, <2>1 DEF CountInv, RowCounted
  <2>3. ASSUME NEW v \in Workers, v # w PROVE WorkerCounted(v)'
    <3>1. pc[v] # "idle" => job[v] \in Jobs /\ job[v] # k
      BY <1>1, <1>18, <2>3, RunsAlone DEF Employed
    <3> QED
      BY <1>18, <2>1, <2>3, <3>1 DEF CountInv, WorkerCounted
  <2>4. WorkerCounted(w)'
    BY <1>18 DEF WorkerCounted
  <2> QED
    BY <2>2, <2>3, <2>4 DEF CountInv
<1>19. ASSUME NEW w \in Workers, NEW ack \in BOOLEAN, RecordParseProblems(w, ack) PROVE CountInv'
  <2>1. PICK k \in Jobs : k = job[w] /\ FirstRun(k) /\ pc[w] = "record"
    BY <1>1, <1>19 DEF RecordParseProblems, Employed, CountInv, WorkerCounted
  <2>2. /\ skipped' = [skipped EXCEPT ![k] = @ + Problems]
        /\ UNCHANGED <<status, nextIndex, created, written, reported, job, first>>
        /\ pc'[w] \in {"items", "threw"} /\ \A v \in Workers : v # w => pc'[v] = pc[v]
    BY <1>1, <1>19, <2>1 DEF RecordParseProblems, Goto, TypeOK, WorkerTypes
  <2>3. skipped'[k] = Problems /\ \A j \in Jobs : j # k => skipped'[j] = skipped[j]
    BY <1>1, <2>1, <2>2 DEF TypeOK, RowTypes, FirstRun
  <2>4. Told(k)'
    BY <1>1, <2>1, <2>2, <2>3, FreshReports DEF Told
  <2>5. RowCounted(k)'
    BY <2>2, <2>4 DEF CountInv, RowCounted, Made
  <2> QED
    BY <1>18, <2>1, <2>2, <2>3, <2>4, <2>5
<1>20. ASSUME NEW w \in Workers, NEW ack \in BOOLEAN, ImportOne(w, ack) \/ ReportItem(w, ack)
       PROVE  CountInv'
  <2>1. ack
    BY <1>1, <1>20, CalmIsAcknowledged DEF ImportOne, ReportItem
  <2>2. PICK k \in Jobs, i \in Positions :
          /\ k = job[w] /\ i = pos[w] /\ i = nextIndex[k]
          /\ Told(k) /\ pc[w] # "idle"
    <3>1. pc[w] \in {"items", "report"} /\ pos[w] < Items /\ job[w] \in Jobs
      BY <1>1, <1>20 DEF ImportOne, ReportItem, Employed
    <3>2. pos[w] \in Positions
      BY <1>1, <3>1 DEF TypeOK, WorkerTypes, Positions
    <3>3. pos[w] = nextIndex[job[w]]
      BY <1>1, <3>1 DEF CleanInv, WorkerClean, AtCheckpoint
    <3>4. Told(job[w])
      BY <3>1 DEF CountInv, WorkerCounted
    <3> QED
      BY <3>1, <3>2, <3>3, <3>4
  <2>3. /\ written[k][i] = 0 /\ i \notin reported[k] /\ i \notin Made(k)
        /\ created[k] = Cardinality(Made(k))
    <3>1. i >= nextIndex[k]
      BY <2>2 DEF Positions
    <3>2. written[k][i] = 0 /\ i \notin reported[k]
      BY <1>1, <3>1 DEF SettledBelow
    <3>3. created[k] = Cardinality(Made(k))
      BY DEF CountInv, RowCounted
    <3> QED
      BY <3>2, <3>3 DEF Made
  <2>4. /\ pc'[w] = "items" /\ UNCHANGED <<status, job, first>>
        /\ \A v \in Workers : v # w => pc'[v] = pc[v]
    BY <1>1, <1>20, <2>1 DEF ImportOne, ReportItem, Goto, TypeOK, WorkerTypes
  <2>5. nextIndex' = [nextIndex EXCEPT ![k] = i + 1]
    BY <1>20, <2>2, Zenon DEF ImportOne, ReportItem, AdvanceImport
  <2>6. /\ IsFiniteSet(Made(k)) /\ IsFiniteSet(reported[k])
        /\ Cardinality(Made(k)) \in Nat /\ Cardinality(reported[k]) \in Nat
    <3>1. Made(k) \in SUBSET Positions /\ reported[k] \in SUBSET Positions
      BY <1>1 DEF Made, TypeOK, RowTypes
    <3> QED
      BY <3>1, PositionsFinite
  <2>7. CASE ImportOne(w, ack)
    <3>1. /\ written' = [written EXCEPT ![k][i] = @ + 1] /\ UNCHANGED <<reported, skipped>>
          /\ created' = [created EXCEPT ![k] = @ + 1]
      <4>1. /\ written' = [written EXCEPT ![k][i] = @ + 1] /\ reported' = reported
            /\ AdvanceImport(k, i, TRUE)
        BY <2>2, <2>7, Zenon DEF ImportOne
      <4>2. skipped' = [skipped EXCEPT ![k] = @] /\ created' = [created EXCEPT ![k] = @ + 1]
        BY <4>1 DEF AdvanceImport
      <4>3. skipped' = skipped
        BY <1>1, <4>2 DEF TypeOK, RowTypes
      <4> QED
        BY <4>1, <4>2, <4>3
    <3>2. /\ \A j \in Jobs : j # k => /\ created'[j] = created[j]
                                      /\ nextIndex'[j] = nextIndex[j] /\ written'[j] = written[j]
          /\ created'[k] = created[k] + 1
          /\ \A p \in Positions : written'[k][p] = IF p = i THEN 1 ELSE written[k][p]
      BY <1>1, <2>3, <2>5, <3>1 DEF TypeOK, RowTypes
    <3>3. Made(k)' = Made(k) \cup {i}
      BY <3>2 DEF Made
    <3>4. Cardinality(Made(k)') = Cardinality(Made(k)) + 1
      BY <2>3, <2>6, <3>3, FS_AddElement
    <3>5. Told(k)'
      BY <2>2, <3>1 DEF Told
    <3>6. RowCounted(k)'
      BY <2>3, <3>2, <3>4, <3>5 DEF RowCounted
    <3> QED
      BY <1>18, <2>2, <2>4, <3>1, <3>2, <3>5, <3>6
  <2>8. CASE ReportItem(w, ack)
    <3>1. /\ reported' = [reported EXCEPT ![k] = @ \cup {i}] /\ UNCHANGED <<written, created>>
          /\ skipped' = [skipped EXCEPT ![k] = @ + 1]
      <4>1. /\ reported' = [reported EXCEPT ![k] = @ \cup {i}] /\ written' = written
            /\ AdvanceImport(k, i, FALSE)
        BY <2>2, <2>8, Zenon DEF ReportItem
      <4>2. created' = [created EXCEPT ![k] = @]
        BY <4>1 DEF AdvanceImport
      <4>3. created' = created
        BY <1>1, <4>2 DEF TypeOK, RowTypes
      <4> QED
        BY <4>1, <4>3 DEF AdvanceImport
    <3>2. /\ \A j \in Jobs : j # k => /\ skipped'[j] = skipped[j]
                                      /\ nextIndex'[j] = nextIndex[j] /\ reported'[j] = reported[j]
          /\ skipped'[k] = skipped[k] + 1 /\ reported'[k] = reported[k] \cup {i}
      <4>1. \A j \in Jobs : reported'[j] = IF j = k THEN reported[j] \cup {i} ELSE reported[j]
        BY <1>1, <3>1 DEF TypeOK, RowTypes
      <4>2. \A j \in Jobs : skipped'[j] = IF j = k THEN skipped[j] + 1 ELSE skipped[j]
        BY <1>1, <3>1 DEF TypeOK, RowTypes
      <4>3. \A j \in Jobs : j # k => nextIndex'[j] = nextIndex[j]
        BY <1>1, <2>5 DEF TypeOK, RowTypes
      <4> QED
        BY <4>1, <4>2, <4>3
    <3>3. Cardinality(reported'[k]) = Cardinality(reported[k]) + 1
      <4>1. Cardinality(reported[k] \cup {i}) = Cardinality(reported[k]) + 1
        BY <2>3, <2>6, FS_AddElement
      <4>2. reported'[k] = reported[k] \cup {i}
        BY <3>2
      <4> QED
        BY <4>1, <4>2, Zenon
    <3>4. Told(k)'
      BY <2>2, <2>6, <3>2, <3>3 DEF Told
    <3>5. RowCounted(k)'
      BY <2>3, <3>1, <3>4 DEF RowCounted, Made
    <3> QED
      BY <1>18, <2>2, <2>4, <3>1, <3>2, <3>4, <3>5
  <2> QED
    BY <1>20, <2>7, <2>8
<1> QED
  BY <1>5, <1>6, <1>7, <1>9, <1>10, <1>11, <1>12, <1>13, <1>14, <1>15, <1>16, <1>17, <1>19, <1>20
     DEF Next, RunStep, LocalStep

(* An import that succeeded accounts for its whole file, whatever crashes, *)
(* faults and retries it went through: the two counts are those of what is *)
(* in the bank and on the problems list, and together they are the file.   *)
THEOREM TheFileIsAccountedFor == Spec => []NothingVanishes
<1> USE BankSets
<1>1. Init => (Calm => CountInv)
  <2> SUFFICES ASSUME Init PROVE CountInv
    OBVIOUS
  <2>1. ASSUME NEW j \in Jobs PROVE RowCounted(j)
    <3>1. Made(j) = {}
      BY DEF Init, Made
    <3> QED
      BY <3>1, FS_EmptySet DEF Init, RowCounted, FirstRun
  <2>2. \A w \in Workers : WorkerCounted(w)
    BY DEF Init, WorkerCounted
  <2> QED
    BY <2>1, <2>2 DEF CountInv
<1>2. JobInv /\ JobInv' /\ (Calm => CountInv) /\ [Next]_vars => (Calm => CountInv)'
  <2> SUFFICES ASSUME JobInv, Calm => CountInv, [Next]_vars, Calm' PROVE CountInv'
    OBVIOUS
  <2>1. Calm
    BY LossesCount, AcksCount DEF JobInv, Calm
  <2> QED
    BY <2>1, CountStep
<1>3. JobInv /\ (Calm => CountInv) => NothingVanishes
  <2> SUFFICES ASSUME JobInv, Calm => CountInv, lostAcks + lockLosses = 0,
                      NEW j \in Imports, status[j] = "succeeded"
               PROVE  /\ created[j] = Cardinality({p \in Positions : written[j][p] = 1})
                      /\ skipped[j] = Cardinality(reported[j]) + Problems
                      /\ created[j] + skipped[j] = Items + Problems
    BY DEF NothingVanishes
  <2>1. Calm
    BY DEF JobInv, TypeOK, FailureTypes, Calm
  <2>2. TypeOK /\ SettledBelow /\ Apart /\ Covered(j, Items) /\ CountInv /\ j \in Jobs
    BY <2>1 DEF JobInv, Calm, CleanInv, CoverInv, RowCovered
  <2>3. created[j] = Cardinality(Made(j)) /\ Told(j)
    BY <2>2 DEF CountInv, RowCounted
  <2>4. Made(j) \in SUBSET Positions /\ reported[j] \in SUBSET Positions
    BY <2>2 DEF Made, TypeOK, RowTypes
  <2>5. \A p \in Positions : p \in Made(j) \/ p \in reported[j]
    <3>1. \A p \in Positions : p < Items /\ written[j][p] \in Nat /\ written[j][p] <= 1
      BY <2>2 DEF SettledBelow, Positions, TypeOK, RowTypes
    <3> QED
      BY <2>2, <3>1 DEF Covered, Settled, Made
  <2>6. Made(j) \cup reported[j] = Positions /\ Made(j) \cap reported[j] = {}
    BY <2>2, <2>4, <2>5 DEF Apart, Made
  <2>7. /\ IsFiniteSet(Made(j)) /\ IsFiniteSet(reported[j])
        /\ Cardinality(Made(j)) \in Nat /\ Cardinality(reported[j]) \in Nat
    BY <2>4, PositionsFinite
  <2>8. Cardinality(Positions) = Cardinality(Made(j)) + Cardinality(reported[j]) - Cardinality({})
    BY <2>6, <2>7, FS_Union
  <2>9. Cardinality(Made(j)) + Cardinality(reported[j]) = Items
    BY <2>7, <2>8, PositionsFinite, FS_EmptySet
  <2> QED
    BY <2>3, <2>7, <2>9 DEF Made, Told
<1> QED
  BY <1>1, <1>2, <1>3, JobInvariance, PTL DEF Spec
=============================================================================
