------------------------- MODULE QuestionBank_proofs -------------------------
(***************************************************************************)
(* Proofs about QuestionBank, for any number of requests, whatever they    *)
(* ask for, and for any kind of question.                                  *)
(***************************************************************************)
EXTENDS QuestionBank, WellFoundedInduction, TLAPS

(* What the argument needs of the types. *)
RequestTypes ==
    /\ pc \in [Requests -> Stages]
    /\ seen \in [Requests -> [status : Statuses \cup {"none"},
                              archived : Requests \cup {NoOne}]]
    /\ status \in Statuses \cup {"none"}
    /\ archived \in Requests \cup {NoOne}
    /\ DOMAIN op = Requests

(* A request that ends leaves the others where they were. *)
LEMMA EndKeepsOthers ==
    ASSUME RequestTypes, NEW r \in Requests, NEW how, End(r, how)
    PROVE  /\ pc' \in [Requests -> Stages] /\ pc'[r] = "done"
           /\ \A q \in Requests : q # r => pc'[q] = pc[q]
BY DEF RequestTypes, Stages, End

(* Every step of a request keeps the types and the reads. *)
LEMMA HandleStep ==
    ASSUME RequestTypes, ReadsHold, NEW r \in Requests, Handle(r)
    PROVE  RequestTypes' /\ ReadsHold'
<1> USE BankConstants
<1>1. CASE RequireQuestion(r)
  <2>1. /\ pc' = [pc EXCEPT ![r] = "locked"] /\ lock = NoOne /\ lock' = r
        /\ seen' = [seen EXCEPT ![r] = [status |-> status, archived |-> archived]]
        /\ status' = status /\ archived' = archived /\ status # "none" /\ op' = op
    BY <1>1 DEF RequireQuestion, Visible, rowVars
  <2> QED
    BY <2>1 DEF RequestTypes, Stages, ReadsHold
<1>2. CASE NotFound(r)
  <2>1. End(r, "not_found") /\ UNCHANGED <<status, archived, seen, op, lock>>
    BY <1>2 DEF NotFound, rowVars, requestVars
  <2> QED
    BY <2>1, EndKeepsOthers DEF RequestTypes, ReadsHold
<1>3. ASSUME NEW how, Rollback(r, how) PROVE RequestTypes' /\ ReadsHold'
  <2>1. End(r, how) /\ Unlock(r) /\ UNCHANGED <<status, archived, seen, op>>
    BY <1>3 DEF Rollback, rowVars, requestVars
  <2> QED
    BY <2>1, EndKeepsOthers DEF RequestTypes, ReadsHold, Unlock
<1>4. CASE Fails(r)
  BY <1>3, <1>4 DEF Fails
<1>5. CASE RefusePatch(r)
  BY <1>3, <1>5 DEF RefusePatch
<1>6. CASE RefuseVersion(r)
  BY <1>3, <1>6 DEF RefuseVersion
<1>7. ASSUME NEW how, End(r, how), Unlock(r), seen' = seen, op' = op, pc[r] \in {"locked", "decided"},
             status' \in Statuses \cup {"none"}, archived' \in Requests \cup {NoOne}
      PROVE  RequestTypes' /\ ReadsHold'
  BY <1>7, EndKeepsOthers DEF RequestTypes, ReadsHold
<1>8. \A from \in Statuses \cup {"none"} : \A event :
         TransitionQuestion(from, event) \in Statuses \cup {"illegal"}
  BY DEF TransitionQuestion, Statuses
<1>9. \A how : ArchivedAfter(r, how) \in Requests \cup {NoOne}
  BY DEF ArchivedAfter, RequestTypes
<1>10. CASE DeleteQuestion(r)
  <2>1. /\ End(r, "ok") /\ Unlock(r) /\ seen' = seen /\ op' = op /\ pc[r] = "locked"
        /\ status' = status /\ archived' = ArchivedAfter(r, "yes")
    BY <1>10 DEF DeleteQuestion, requestVars
  <2> QED
    BY <2>1, <1>7, <1>9 DEF RequestTypes
<1>11. CASE ReadVersion(r)
  <2>1. /\ pc' = [pc EXCEPT ![r] = "decided"] /\ pc[r] = "locked"
        /\ UNCHANGED <<status, archived, seen, op, lock>> /\ Verdict(r) = "ok"
    BY <1>11 DEF ReadVersion, rowVars
  <2>2. op[r].kind = "publish" => TransitionQuestion(seen[r].status, "publish") # "illegal"
    BY <2>1 DEF Verdict
  <2>3. op[r].kind = "publish" => seen[r].status \in {"review", "published"}
    BY <2>2 DEF TransitionQuestion
  <2> QED
    BY <2>1, <2>3 DEF RequestTypes, Stages, ReadsHold
<1>12. CASE PatchQuestion(r)
  <2>1. /\ End(r, "ok") /\ Unlock(r) /\ seen' = seen /\ op' = op /\ pc[r] = "locked"
        /\ status' = status \/ status' = TargetStatus(r)
        /\ TargetStatus(r) # "illegal"
        /\ archived' = ArchivedAfter(r, op[r].archived)
    BY <1>12 DEF PatchQuestion, requestVars
  <2>2. TargetStatus(r) \in Statuses \cup {"none", "illegal"}
    BY <1>8 DEF TargetStatus, RequestTypes
  <2> QED
    BY <2>1, <2>2, <1>7, <1>9 DEF RequestTypes
<1>13. CASE CreateVersion(r)
  <2>1. CASE number[r] = Latest + 1
    <3>1. /\ End(r, "ok") /\ Unlock(r) /\ seen' = seen /\ op' = op /\ pc[r] = "decided"
          /\ status' = status /\ archived' = archived
      BY <1>13, <2>1 DEF CreateVersion, requestVars
    <3> QED
      BY <3>1, <1>7 DEF RequestTypes
  <2>2. CASE number[r] # Latest + 1
    BY <1>13, <2>2, <1>3 DEF CreateVersion
  <2> QED
    BY <2>1, <2>2
<1>14. CASE UpdateVersion(r)
  <2>1. CASE Unpublished(number[r])
    <3>1. /\ End(r, "ok") /\ Unlock(r) /\ seen' = seen /\ op' = op /\ pc[r] = "decided"
          /\ status' = status /\ archived' = archived
      BY <1>14, <2>1 DEF UpdateVersion, requestVars
    <3> QED
      BY <3>1, <1>7 DEF RequestTypes
  <2>2. CASE ~Unpublished(number[r])
    BY <1>14, <2>2, <1>3 DEF UpdateVersion
  <2> QED
    BY <2>1, <2>2
<1>15. CASE PublishVersion(r)
  <2> DEFINE target == TransitionQuestion(seen[r].status, "publish")
             commits == Unpublished(number[r]) /\ (target # seen[r].status => archived = NoOne)
  <2>1. pc[r] = "decided" /\ op[r].kind = "publish"
    BY <1>15 DEF PublishVersion
  <2>2. target = "published"
    BY <2>1 DEF ReadsHold, TransitionQuestion
  <2>3. CASE commits
    <3>1. /\ End(r, "ok") /\ Unlock(r) /\ seen' = seen /\ op' = op
          /\ status' = status \/ status' = target
          /\ archived' = archived
      BY <1>15, <2>3 DEF PublishVersion, requestVars
    <3> QED
      BY <3>1, <2>1, <2>2, <1>7 DEF RequestTypes, Statuses
  <2>4. CASE ~commits
    BY <1>15, <2>4, <1>3 DEF PublishVersion
  <2> QED
    BY <2>3, <2>4
<1> QED
  BY <1>1, <1>2, <1>4, <1>5, <1>6, <1>10, <1>11, <1>12, <1>13, <1>14, <1>15 DEF Handle

(* So does every other step. *)
LEMMA ReadsStep ==
    ASSUME RequestTypes, ReadsHold, [Next]_vars
    PROVE  RequestTypes' /\ ReadsHold'
<1> USE BankConstants
<1>1. CASE CreateQuestion
  BY <1>1 DEF CreateQuestion, requestVars, RequestTypes, ReadsHold, Statuses
<1>2. ASSUME NEW item \in Items, ImportQuestion(item) PROVE RequestTypes' /\ ReadsHold'
  <2>1. /\ status = "none" /\ status' = item.status /\ item.status \in Statuses
        /\ UNCHANGED <<archived, lock, pc, op, seen>>
    BY <1>2, ItemsWellFormed DEF ImportQuestion, requestVars
  <2> QED
    BY <2>1 DEF RequestTypes, ReadsHold
<1>3. ASSUME NEW r \in Requests, NEW o \in Ops, Begin(r, o) PROVE RequestTypes' /\ ReadsHold'
  <2>1. /\ pc' = [pc EXCEPT ![r] = "waiting"] /\ op' = [op EXCEPT ![r] = o]
        /\ UNCHANGED <<status, archived, lock, seen>>
    BY <1>3 DEF Begin, rowVars
  <2> QED
    BY <2>1 DEF RequestTypes, ReadsHold, Stages
<1>4. CASE UNCHANGED vars
  BY <1>4 DEF vars, rowVars, requestVars, RequestTypes, ReadsHold
<1> QED
  BY <1>1, <1>2, <1>3, <1>4, HandleStep DEF Next

(* Whatever the requests ask for and however they interleave, a request    *)
(* that has the question's row decides on what the row still says.         *)
THEOREM DecisionsAreNeverStale == Spec => []ReadsHold
<1>1. Init => RequestTypes /\ ReadsHold
  BY DEF Init, RequestTypes, ReadsHold, Stages
<1>2. RequestTypes /\ ReadsHold /\ [Next]_vars => (RequestTypes /\ ReadsHold)'
  BY ReadsStep
<1> QED
  BY <1>1, <1>2, PTL DEF Spec

(* Every legal event leads along an edge. *)
LEMMA EventsFollowEdges ==
    ASSUME NEW from \in Statuses, NEW event, TransitionQuestion(from, event) # "illegal"
    PROVE  TransitionQuestion(from, event) \in Edges[from]
BY DEF TransitionQuestion, Edges, Statuses

LEMMA StatusStep ==
    ASSUME RequestTypes, ReadsHold, Next, status # "none", status' # status
    PROVE  status' \in Edges[status]
<1>1. status \in Statuses
  BY DEF RequestTypes
<1>2. PICK r \in Requests : PatchQuestion(r) \/ PublishVersion(r)
  <2>1. ASSUME NEW q \in Requests, NEW how, Rollback(q, how) PROVE FALSE
    BY <2>1 DEF Rollback, rowVars
  <2> QED
    BY <2>1 DEF Next, CreateQuestion, ImportQuestion, Begin, Handle, RequireQuestion,
       NotFound, Fails, RefusePatch, DeleteQuestion, ReadVersion, RefuseVersion,
       CreateVersion, UpdateVersion, rowVars
<1>3. CASE PatchQuestion(r)
  <2>1. /\ pc[r] = "locked" /\ TargetStatus(r) # "illegal"
        /\ status' = TargetStatus(r) /\ op[r].status # "keep"
    BY <1>3 DEF PatchQuestion
  <2>2. seen[r].status = status
    BY <2>1 DEF ReadsHold
  <2>3. TargetStatus(r) = TransitionQuestion(status, EventForTargetStatus(op[r].status))
    BY <2>1, <2>2 DEF TargetStatus
  <2> QED
    BY <1>1, <2>1, <2>3, EventsFollowEdges
<1>4. CASE PublishVersion(r)
  <2>1. pc[r] = "decided" /\ op[r].kind = "publish"
    BY <1>4 DEF PublishVersion
  <2>2. seen[r].status = status /\ status \in {"review", "published"}
    BY <2>1 DEF ReadsHold
  <2>3. status' = TransitionQuestion(status, "publish")
    BY <1>4, <2>2 DEF PublishVersion, Rollback, rowVars
  <2>4. TransitionQuestion(status, "publish") # "illegal"
    BY <2>2 DEF TransitionQuestion
  <2> QED
    BY <1>1, <2>3, <2>4, EventsFollowEdges
<1> QED
  BY <1>2, <1>3, <1>4

(* Two reviewers acting at once never write a transition the question's    *)
(* status did not admit, for any number of requests and any requests.      *)
THEOREM LifecycleKept == Spec => StatusFollowsLifecycle
<1>1. Init => RequestTypes /\ ReadsHold
  BY DEF Init, RequestTypes, ReadsHold, Stages
<1>2. RequestTypes /\ ReadsHold /\ [Next]_vars => (RequestTypes /\ ReadsHold)'
  BY ReadsStep
<1>3. RequestTypes /\ ReadsHold /\ [Next]_vars
        => [status # "none" /\ status' # status => status' \in Edges[status]]_vars
  BY StatusStep
<1> QED
  BY <1>1, <1>2, <1>3, PTL DEF Spec, StatusFollowsLifecycle

-----------------------------------------------------------------------------
(* Sequences whose elements may be anything. *)

IsSeq(s) == \E S : s \in Seq(S)

LEMMA SeqShape ==
    ASSUME NEW s, IsSeq(s)
    PROVE  Len(s) \in Nat /\ DOMAIN s = 1 .. Len(s)
BY DEF IsSeq

LEMMA AppendShape ==
    ASSUME NEW s, IsSeq(s), NEW e
    PROVE  /\ IsSeq(Append(s, e)) /\ Len(Append(s, e)) = Len(s) + 1
           /\ DOMAIN Append(s, e) = 1 .. (Len(s) + 1)
           /\ \A n \in 1 .. Len(s) : Append(s, e)[n] = s[n]
           /\ Append(s, e)[Len(s) + 1] = e
<1>1. PICK S : s \in Seq(S)
  BY DEF IsSeq
<1>2. s \in Seq(S \cup {e})
  BY <1>1
<1>3. Append(s, e) \in Seq(S \cup {e})
  BY <1>2
<1>4. Len(s) \in Nat /\ Len(Append(s, e)) = Len(s) + 1
  BY <1>2
<1>5. DOMAIN Append(s, e) = 1 .. (Len(s) + 1)
  BY <1>3, <1>4
<1>6. /\ \A n \in 1 .. Len(s) : Append(s, e)[n] = s[n]
      /\ Append(s, e)[Len(s) + 1] = e
  BY <1>2
<1> QED
  BY <1>3, <1>4, <1>5, <1>6 DEF IsSeq

LEMMA FunctionIsSeq ==
    ASSUME NEW f, NEW k \in Nat, DOMAIN f = 1 .. k, f = [n \in 1 .. k |-> f[n]]
    PROVE  IsSeq(f) /\ Len(f) = k
<1> DEFINE S == {f[n] : n \in 1 .. k}
<1>1. f \in [1 .. k -> S]
  OBVIOUS
<1>2. f \in Seq(S)
  BY <1>1
<1>3. IsSeq(f)
  BY <1>2 DEF IsSeq
<1>4. Len(f) \in Nat /\ 1 .. Len(f) = 1 .. k
  BY <1>2
<1>5. Len(f) = k
  BY <1>4
<1> QED
  BY <1>3, <1>5

(* A set of version numbers that is not empty has a highest one. *)
LEMMA HighestExists ==
    ASSUME NEW k \in Nat, NEW S \in SUBSET (1 .. k), S # {}
    PROVE  \E n \in S : \A m \in S : m <= n
<1> DEFINE T == {k - n : n \in S}
           Less == {p \in Nat \X Nat : p[1] < p[2]}
<1>1. T \subseteq Nat
  OBVIOUS
<1>2. T # {}
  <2>1. PICK n : n \in S
    OBVIOUS
  <2>2. k - n \in T
    BY <2>1
  <2> QED
    BY <2>2
<1>3. IsWellFoundedOn(Less, Nat)
  BY NatLessThanWellFounded DEF OpToRel
<1>4. PICK x \in T : \A y \in T : <<y, x>> \notin Less
  <2> HIDE DEF T, Less
  <2> QED
    BY <1>1, <1>2, <1>3, WFMin
<1>5. PICK n \in S : x = k - n
  OBVIOUS
<1>6. ASSUME NEW m \in S PROVE m <= n
  <2>1. k - m \in T /\ k - m \in Nat /\ x \in Nat
    BY <1>1
  <2>2. ~ (k - m < x)
    BY <2>1, <1>4
  <2> QED
    BY <2>2, <1>5
<1> QED
  BY <1>6

LEMMA LastOfIsHighest ==
    ASSUME NEW k \in Nat, NEW S \in SUBSET (1 .. k)
    PROVE  /\ S = {} => LastOf(S) = 0
           /\ S # {} => /\ LastOf(S) \in S /\ LastOf(S) # 0
                        /\ \A m \in S : m <= LastOf(S)
<1>1. CASE S = {}
  BY <1>1 DEF LastOf
<1>2. CASE S # {}
  <2>1. \E n \in S : \A m \in S : m <= n
    BY <1>2, HighestExists
  <2>2. LastOf(S) = CHOOSE n \in S : \A m \in S : m <= n
    BY <1>2 DEF LastOf
  <2>3. LastOf(S) \in S /\ \A m \in S : m <= LastOf(S)
    BY <2>1, <2>2
  <2>4. LastOf(S) \in 1 .. k
    BY <2>3
  <2> QED
    BY <1>2, <2>3, <2>4
<1> QED
  BY <1>1, <1>2

-----------------------------------------------------------------------------
(* The versions.  A request that has decided what to write still has the   *)
(* version it read in front of it, and its number is still the right one.  *)

Rows ==
    /\ IsSeq(versions) /\ IsSeq(intended) /\ Len(intended) = Len(versions)
    /\ \A n \in DOMAIN versions : DOMAIN versions[n] = {"content", "published"}
    /\ DOMAIN base = Requests /\ DOMAIN number = Requests

Meets(content, stage) == ValidateKindContent(Kind, ShapeOfContent(content), stage) = {}

DecisionHolds(r) ==
    /\ op[r].kind \in {"create", "edit", "publish"}
    /\ number[r] = IF op[r].kind = "create" THEN Latest + 1 ELSE op[r].version
    /\ op[r].kind # "create" => op[r].version \in DOMAIN versions
    /\ base[r] = BaseOf(r)
    /\ IF op[r].kind = "publish" THEN Meets(versions[number[r]].content, "publish")
       ELSE Meets(MergeVersionContent(base[r], op[r].patch), "draft")

DecisionsHold == \A r \in Requests : pc[r] = "decided" => DecisionHolds(r)

VersionInv == Rows /\ EditsSurvive /\ DecisionsHold

(* A step that writes a version: an import, or the commit of a request.    *)
Imported == \E item \in Items : ImportQuestion(item)
Created(r) == CreateVersion(r) /\ number[r] = Latest + 1
Updated(r) == UpdateVersion(r) /\ Unpublished(number[r])
Published(r) == PublishVersion(r) /\ versions' # versions

(* What every step that writes no version leaves as it was. *)
LEMMA QuietSteps ==
    ASSUME RequestTypes, ReadsHold, Rows, [Next]_vars,
           ~Imported, \A r \in Requests : ~Created(r) /\ ~Updated(r) /\ ~Published(r)
    PROVE  /\ UNCHANGED <<versions, intended>>
           /\ DOMAIN base' = Requests /\ DOMAIN number' = Requests
           /\ \A q \in Requests : pc'[q] = "decided" =>
                \/ ReadVersion(q)
                \/ /\ pc[q] = "decided" /\ op'[q] = op[q]
                   /\ base'[q] = base[q] /\ number'[q] = number[q]
<1> DEFINE Quiet == /\ UNCHANGED <<versions, intended>>
                    /\ DOMAIN base' = Requests /\ DOMAIN number' = Requests
                    /\ \A q \in Requests : pc'[q] = "decided" =>
                         \/ ReadVersion(q)
                         \/ /\ pc[q] = "decided" /\ op'[q] = op[q]
                            /\ base'[q] = base[q] /\ number'[q] = number[q]
<1>1. ASSUME NEW r \in Requests, NEW how, End(r, how), UNCHANGED <<versions, intended, requestVars>>
      PROVE  Quiet
  <2>1. /\ pc'[r] = "done" /\ \A q \in Requests : q # r => pc'[q] = pc[q]
        /\ op' = op /\ base' = base /\ number' = number
    BY <1>1, EndKeepsOthers DEF requestVars
  <2> QED
    BY <1>1, <2>1 DEF Rows
<1>2. ASSUME NEW r \in Requests, NEW how, Rollback(r, how) PROVE Quiet
  BY <1>1, <1>2 DEF Rollback, rowVars
<1>3. CASE CreateQuestion \/ UNCHANGED vars
  BY <1>3 DEF CreateQuestion, vars, rowVars, requestVars, Rows
<1>4. ASSUME NEW r \in Requests, NEW o \in Ops, Begin(r, o) PROVE Quiet
  <2>1. /\ UNCHANGED <<versions, intended, base, number>>
        /\ op' = [op EXCEPT ![r] = o] /\ pc' = [pc EXCEPT ![r] = "waiting"]
    BY <1>4 DEF Begin, rowVars
  <2> QED
    BY <2>1 DEF RequestTypes, Rows
<1>5. ASSUME NEW r \in Requests, RequireQuestion(r) PROVE Quiet
  <2>1. /\ UNCHANGED <<versions, intended, base, number, op>>
        /\ pc' = [pc EXCEPT ![r] = "locked"]
    BY <1>5 DEF RequireQuestion, rowVars
  <2> QED
    BY <2>1 DEF RequestTypes, Rows
<1>6. ASSUME NEW r \in Requests, ReadVersion(r) PROVE Quiet
  <2>1. /\ UNCHANGED <<versions, intended, op>> /\ pc' = [pc EXCEPT ![r] = "decided"]
        /\ base' = [base EXCEPT ![r] = BaseOf(r)]
        /\ number' = [number EXCEPT ![r] =
             IF op[r].kind = "create" THEN Latest + 1 ELSE op[r].version]
    BY <1>6 DEF ReadVersion, rowVars
  <2>2. ASSUME NEW q \in Requests, q # r
        PROVE  pc'[q] = pc[q] /\ base'[q] = base[q] /\ number'[q] = number[q]
    BY <2>1, <2>2 DEF RequestTypes, Rows
  <2> QED
    BY <1>6, <2>1, <2>2 DEF Rows
<1>7. ASSUME NEW r \in Requests, NotFound(r) PROVE Quiet
  BY <1>1, <1>7 DEF NotFound, rowVars
<1>8. ASSUME NEW r \in Requests, Fails(r) \/ RefusePatch(r) \/ RefuseVersion(r) PROVE Quiet
  BY <1>2, <1>8 DEF Fails, RefusePatch, RefuseVersion
<1>9. ASSUME NEW r \in Requests, PatchQuestion(r) \/ DeleteQuestion(r) PROVE Quiet
  BY <1>1, <1>9 DEF PatchQuestion, DeleteQuestion
<1>10. ASSUME NEW r \in Requests, CreateVersion(r) PROVE Quiet
  BY <1>2, <1>10 DEF CreateVersion, Created
<1>11. ASSUME NEW r \in Requests, UpdateVersion(r) PROVE Quiet
  BY <1>2, <1>11 DEF UpdateVersion, Updated
<1>12. ASSUME NEW r \in Requests, PublishVersion(r) PROVE Quiet
  <2>1. versions' = versions /\ UNCHANGED <<intended, requestVars>> /\ \E how : End(r, how)
    BY <1>12 DEF PublishVersion, Published, Rollback, rowVars
  <2> QED
    BY <1>1, <2>1
<1> QED
  BY <1>3, <1>4, <1>5, <1>6, <1>7, <1>8, <1>9, <1>10, <1>11, <1>12 DEF Next, Handle, Imported

(* A verdict of "ok" is what a decision rests on. *)
LEMMA ReadingDecides ==
    ASSUME RequestTypes, Rows, NEW r \in Requests, ReadVersion(r)
    PROVE  DecisionHolds(r)'
<1>1. /\ op[r].kind \in {"create", "edit", "publish"} /\ Verdict(r) = "ok"
      /\ UNCHANGED <<versions, op>>
      /\ base'[r] = BaseOf(r)
      /\ number'[r] = IF op[r].kind = "create" THEN Latest + 1 ELSE op[r].version
  BY DEF ReadVersion, rowVars, Rows
<1>2. op[r].kind # "create" => op[r].version \in DOMAIN versions
  BY <1>1 DEF Verdict
<1>3. IF op[r].kind = "publish" THEN Meets(versions[op[r].version].content, "publish")
      ELSE Meets(MergeVersionContent(BaseOf(r), op[r].patch), "draft")
  <2>1. CASE op[r].kind = "publish"
    BY <1>1, <2>1 DEF Verdict, StageOf, Meets
  <2>2. CASE op[r].kind # "publish"
    BY <1>1, <2>2 DEF Verdict, StageOf, Meets, Patched
  <2> QED
    BY <2>1, <2>2
<1>4. BaseOf(r)' = BaseOf(r) /\ Latest' = Latest
  BY <1>1 DEF BaseOf, Latest
<1> QED
  BY <1>1, <1>2, <1>3, <1>4 DEF DecisionHolds, Meets

(* The request that commits is the only one that had decided anything. *)
LEMMA CommitsAlone ==
    ASSUME RequestTypes, ReadsHold, NEW r \in Requests, pc[r] = "decided", NEW how, End(r, how)
    PROVE  DecisionsHold'
<1>1. pc'[r] = "done" /\ \A q \in Requests : q # r => pc'[q] = pc[q]
  BY EndKeepsOthers
<1>2. \A q \in Requests : q # r => pc[q] # "decided"
  BY DEF ReadsHold
<1> QED
  BY <1>1, <1>2 DEF DecisionsHold

LEMMA VersionStep ==
    ASSUME RequestTypes, ReadsHold, VersionInv, [Next]_vars
    PROVE  VersionInv'
<1>1. /\ Rows /\ EditsSurvive /\ DecisionsHold
      /\ Len(versions) \in Nat /\ DOMAIN versions = 1 .. Len(versions)
      /\ DOMAIN intended = 1 .. Len(versions)
  BY SeqShape DEF VersionInv, Rows
<1>2. CASE ~Imported /\ \A r \in Requests : ~Created(r) /\ ~Updated(r) /\ ~Published(r)
  <2>1. /\ UNCHANGED <<versions, intended>>
        /\ DOMAIN base' = Requests /\ DOMAIN number' = Requests
        /\ \A q \in Requests : pc'[q] = "decided" =>
             \/ ReadVersion(q)
             \/ /\ pc[q] = "decided" /\ op'[q] = op[q]
                /\ base'[q] = base[q] /\ number'[q] = number[q]
    BY <1>1, <1>2, QuietSteps
  <2>2. Rows' /\ EditsSurvive'
    BY <1>1, <2>1 DEF Rows, EditsSurvive
  <2>3. ASSUME NEW q \in Requests, pc'[q] = "decided" PROVE DecisionHolds(q)'
    <3>1. CASE ReadVersion(q)
      BY <1>1, <3>1, ReadingDecides
    <3>2. CASE /\ pc[q] = "decided" /\ op'[q] = op[q]
               /\ base'[q] = base[q] /\ number'[q] = number[q]
      BY <1>1, <2>1, <3>2 DEF DecisionsHold, DecisionHolds, BaseOf, Latest, Meets
    <3> QED
      BY <2>1, <2>3, <3>1, <3>2
  <2> QED
    BY <2>2, <2>3 DEF VersionInv, DecisionsHold
<1>3. ASSUME NEW item \in Items, ImportQuestion(item) PROVE VersionInv'
  <2> DEFINE k == Len(item.versions)
  <2>1. k \in Nat /\ DOMAIN item.versions = 1 .. k
    BY ItemsWellFormed
  <2>2. /\ versions' = [n \in 1 .. k |->
             [content |-> item.versions[n].content,
              published |-> IF item.versions[n].published THEN Importer ELSE NoOne]]
        /\ intended' = [n \in 1 .. k |-> item.versions[n].content]
        /\ UNCHANGED <<pc, base, number, op>> /\ status = "none"
    BY <1>3, <2>1 DEF ImportQuestion, requestVars
  <2> HIDE DEF k
  <2>3. IsSeq(versions') /\ Len(versions') = k
    BY <2>1, <2>2, FunctionIsSeq
  <2>4. IsSeq(intended') /\ Len(intended') = k
    BY <2>1, <2>2, FunctionIsSeq
  <2>5. Rows' /\ EditsSurvive'
    BY <1>1, <2>2, <2>3, <2>4 DEF Rows, EditsSurvive
  <2>6. DecisionsHold'
    BY <2>2 DEF DecisionsHold, ReadsHold
  <2> QED
    BY <2>5, <2>6 DEF VersionInv
<1>4. ASSUME NEW r \in Requests, Created(r) PROVE VersionInv'
  <2> DEFINE v == [content |-> MergeVersionContent(base[r], op[r].patch), published |-> NoOne]
             i == MergeVersionContent(IF Latest = 0 THEN Blank ELSE intended[Latest], op[r].patch)
  <2>1. /\ pc[r] = "decided" /\ op[r].kind = "create"
        /\ versions' = Append(versions, v) /\ intended' = Append(intended, i)
        /\ End(r, "ok") /\ base' = base /\ number' = number
    BY <1>4 DEF Created, CreateVersion, requestVars
  <2>2. base[r] = IF Latest = 0 THEN Blank ELSE versions[Latest].content
    BY <1>1, <2>1 DEF DecisionsHold, DecisionHolds, BaseOf
  <2>3. v.content = i
    BY <1>1, <2>2 DEF EditsSurvive, Latest
  <2>4. DOMAIN v = {"content", "published"}
    OBVIOUS
  <2> HIDE DEF v, i
  <2>5. /\ IsSeq(versions') /\ Len(versions') = Len(versions) + 1
        /\ DOMAIN versions' = 1 .. (Len(versions) + 1)
        /\ \A n \in 1 .. Len(versions) : versions'[n] = versions[n]
        /\ versions'[Len(versions) + 1] = v
    BY <1>1, <2>1, AppendShape DEF Rows
  <2>6. /\ IsSeq(intended') /\ Len(intended') = Len(versions) + 1
        /\ \A n \in 1 .. Len(versions) : intended'[n] = intended[n]
        /\ intended'[Len(versions) + 1] = i
    BY <1>1, <2>1, AppendShape DEF Rows
  <2>7. \A n \in DOMAIN versions' : n \in 1 .. Len(versions) \/ n = Len(versions) + 1
    BY <1>1, <2>5
  <2>8. Rows'
    BY <1>1, <2>1, <2>4, <2>5, <2>6, <2>7 DEF Rows
  <2>9. EditsSurvive'
    BY <1>1, <2>3, <2>5, <2>6, <2>7 DEF EditsSurvive
  <2> QED
    BY <2>1, <2>8, <2>9, CommitsAlone DEF VersionInv
<1>5. ASSUME NEW r \in Requests, Updated(r) PROVE VersionInv'
  <2> DEFINE c == MergeVersionContent(base[r], op[r].patch)
  <2>1. /\ pc[r] = "decided" /\ op[r].kind = "edit"
        /\ versions' = [versions EXCEPT ![number[r]].content = c]
        /\ intended' = [intended EXCEPT ![number[r]] = MergeVersionContent(@, op[r].patch)]
        /\ End(r, "ok") /\ base' = base /\ number' = number
    BY <1>5 DEF Updated, UpdateVersion, requestVars
  <2>2. number[r] \in DOMAIN versions /\ base[r] = versions[number[r]].content
    BY <1>1, <2>1 DEF DecisionsHold, DecisionHolds, BaseOf
  <2>3. c = MergeVersionContent(intended[number[r]], op[r].patch)
    BY <1>1, <2>2 DEF EditsSurvive
  <2> HIDE DEF c
  <2>4. /\ IsSeq(versions') /\ Len(versions') = Len(versions)
        /\ DOMAIN versions' = DOMAIN versions
    BY <1>1, <2>1, FunctionIsSeq
  <2>5. IsSeq(intended') /\ Len(intended') = Len(versions)
    BY <1>1, <2>1, FunctionIsSeq
  <2>6. \A n \in DOMAIN versions :
          /\ DOMAIN versions'[n] = {"content", "published"}
          /\ versions'[n].content = IF n = number[r] THEN c ELSE versions[n].content
    BY <1>1, <2>1, <2>2 DEF Rows
  <2>7. \A n \in DOMAIN versions : intended'[n] = IF n = number[r] THEN c ELSE intended[n]
    BY <1>1, <2>1, <2>3
  <2>8. Rows' /\ EditsSurvive'
    BY <1>1, <2>1, <2>4, <2>5, <2>6, <2>7 DEF Rows, EditsSurvive
  <2> QED
    BY <2>1, <2>8, CommitsAlone DEF VersionInv
<1>6. ASSUME NEW r \in Requests, Published(r) PROVE VersionInv'
  <2>1. /\ pc[r] = "decided" /\ op[r].kind = "publish"
        /\ versions' = [versions EXCEPT ![number[r]].published = r]
        /\ End(r, "ok") /\ base' = base /\ number' = number /\ intended' = intended
    BY <1>6 DEF Published, PublishVersion, Rollback, rowVars, requestVars
  <2>2. number[r] \in DOMAIN versions
    BY <1>1, <2>1 DEF DecisionsHold, DecisionHolds
  <2>3. /\ IsSeq(versions') /\ Len(versions') = Len(versions)
        /\ DOMAIN versions' = DOMAIN versions
    BY <1>1, <2>1, FunctionIsSeq
  <2>4. \A n \in DOMAIN versions :
          /\ DOMAIN versions'[n] = {"content", "published"}
          /\ versions'[n].content = versions[n].content
    BY <1>1, <2>1, <2>2 DEF Rows
  <2>5. Rows' /\ EditsSurvive'
    BY <1>1, <2>1, <2>3, <2>4 DEF Rows, EditsSurvive
  <2> QED
    BY <2>1, <2>5, CommitsAlone DEF VersionInv
<1> QED
  BY <1>2, <1>3, <1>4, <1>5, <1>6 DEF Imported

BankInv == RequestTypes /\ ReadsHold /\ VersionInv

LEMMA BankInvariance == Spec => []BankInv
<1>1. Init => BankInv
  <2> SUFFICES ASSUME Init PROVE BankInv
    OBVIOUS
  <2>1. RequestTypes /\ ReadsHold
    BY DEF Init, RequestTypes, ReadsHold, Stages
  <2>2. IsSeq(<<>>) /\ Len(<<>>) = 0 /\ DOMAIN <<>> = {}
    <3>1. <<>> \in Seq({})
      OBVIOUS
    <3> QED
      BY <3>1 DEF IsSeq
  <2>3. Rows
    BY <2>2 DEF Init, Rows
  <2>4. EditsSurvive /\ DecisionsHold
    BY <2>2 DEF Init, EditsSurvive, DecisionsHold
  <2> QED
    BY <2>1, <2>3, <2>4 DEF BankInv, VersionInv
<1>2. BankInv /\ [Next]_vars => BankInv'
  BY ReadsStep, VersionStep DEF BankInv
<1> QED
  BY <1>1, <1>2, PTL DEF Spec

(* However many authors create and edit versions at once, and whatever     *)
(* their patches are, each version holds what the committed requests made  *)
(* of it in the order they committed.                                      *)
THEOREM NoEditIsLost == Spec => []EditsSurvive
<1>1. BankInv => EditsSurvive
  BY DEF BankInv, VersionInv
<1> QED
  BY <1>1, BankInvariance, PTL

-----------------------------------------------------------------------------
(* The pointer.  A question has a current version exactly when its status  *)
(* says it has been served, and then that version is frozen.               *)

Pointer ==
    /\ op \in [Requests -> Ops \cup {NoOp}]
    /\ status = "none" => DOMAIN versions = {}
    /\ Served(status) <=> current # 0
    /\ current # 0 => current \in DOMAIN versions /\ versions[current].published # NoOne
    /\ \A n \in DOMAIN versions : versions[n].published # NoOne => current # 0

LEMMA PointerStep ==
    ASSUME BankInv, Pointer, [Next]_vars
    PROVE  Pointer'
<1> USE BankConstants
<1>1. /\ RequestTypes /\ ReadsHold /\ Rows /\ DecisionsHold
      /\ Len(versions) \in Nat /\ DOMAIN versions = 1 .. Len(versions)
  BY SeqShape DEF BankInv, VersionInv, Rows
<1>2. ASSUME UNCHANGED <<op, versions, status, current>> PROVE Pointer'
  BY <1>2 DEF Pointer, Served
<1>3. ASSUME NEW r \in Requests, NEW how, Rollback(r, how) PROVE Pointer'
  BY <1>2, <1>3 DEF Rollback, rowVars, requestVars
<1>4. CASE CreateQuestion
  <2>1. UNCHANGED <<op, versions, current>> /\ status = "none" /\ status' = "draft"
    BY <1>4 DEF CreateQuestion, requestVars
  <2> QED
    BY <2>1 DEF Pointer, Served
<1>5. ASSUME NEW item \in Items, ImportQuestion(item) PROVE Pointer'
  <2> DEFINE k == Len(item.versions)
             frozen == {n \in 1 .. k : item.versions[n].published}
  <2>1. k \in Nat /\ DOMAIN item.versions = 1 .. k /\ item.status \in Statuses
    BY ItemsWellFormed
  <2>2. /\ versions' = [n \in 1 .. k |->
             [content |-> item.versions[n].content,
              published |-> IF item.versions[n].published THEN Importer ELSE NoOne]]
        /\ current' = LastOf(frozen) /\ status' = item.status /\ op' = op
        /\ Served(item.status) <=> \E n \in 1 .. k : item.versions[n].published
    BY <1>5, <2>1 DEF ImportQuestion, CheckBankItem, requestVars
  <2>3. DOMAIN versions' = 1 .. k /\ \A n \in 1 .. k : versions'[n].published # NoOne <=> n \in frozen
    BY <2>2
  <2>4. /\ frozen = {} => LastOf(frozen) = 0
        /\ frozen # {} => LastOf(frozen) \in frozen /\ LastOf(frozen) # 0
    BY <2>1, LastOfIsHighest
  <2>5. Served(item.status) <=> frozen # {}
    BY <2>2
  <2>6. frozen \subseteq 1 .. k
    OBVIOUS
  <2> HIDE DEF frozen, k
  <2> QED
    BY <2>1, <2>2, <2>3, <2>4, <2>5, <2>6 DEF Pointer, Served, Statuses
<1>6. ASSUME NEW r \in Requests, NEW o \in Ops, Begin(r, o) PROVE Pointer'
  BY <1>6 DEF Begin, rowVars, Pointer, Served
<1>7. ASSUME NEW r \in Requests,
             RequireQuestion(r) \/ NotFound(r) \/ DeleteQuestion(r) \/ ReadVersion(r)
      PROVE  Pointer'
  BY <1>2, <1>7 DEF RequireQuestion, NotFound, DeleteQuestion, ReadVersion, rowVars, requestVars
<1>8. ASSUME NEW r \in Requests, Fails(r) \/ RefusePatch(r) \/ RefuseVersion(r) PROVE Pointer'
  BY <1>3, <1>8 DEF Fails, RefusePatch, RefuseVersion
<1>9. ASSUME NEW r \in Requests, PatchQuestion(r) PROVE Pointer'
  <2>1. /\ pc[r] = "locked" /\ op[r].kind = "patch" /\ UNCHANGED <<op, versions, current>>
        /\ TargetStatus(r) # "illegal"
        /\ status' = IF op[r].status = "keep" THEN status ELSE TargetStatus(r)
    BY <1>9 DEF PatchQuestion, requestVars
  <2>2. seen[r].status = status /\ status \in Statuses
    BY <1>1, <2>1 DEF ReadsHold, RequestTypes
  <2>3. op[r].status \in {"keep", "draft", "review", "retired"}
    BY <2>1, OpsWellFormed DEF Pointer, NoOp
  <2>4. CASE op[r].status = "keep"
    BY <1>2, <2>1, <2>4
  <2>5. CASE op[r].status # "keep"
    <3>1. EventForTargetStatus(op[r].status) \in {"submit_for_review", "retire", "request_changes"}
      BY <2>3, <2>5 DEF EventForTargetStatus
    <3>2. status' = TransitionQuestion(status, EventForTargetStatus(op[r].status))
      BY <2>1, <2>2, <2>5 DEF TargetStatus
    <3>3. status' \in {"draft", "review", "retired"} /\ (Served(status') <=> Served(status))
      BY <2>1, <2>2, <2>5, <3>1, <3>2 DEF TransitionQuestion, Served, TargetStatus
    <3> QED
      BY <2>1, <3>3 DEF Pointer, Served
  <2> QED
    BY <2>4, <2>5
<1>10. ASSUME NEW r \in Requests, CreateVersion(r) PROVE Pointer'
  <2>1. CASE number[r] # Latest + 1
    BY <1>3, <1>10, <2>1 DEF CreateVersion
  <2>2. CASE number[r] = Latest + 1
    <3> DEFINE v == [content |-> MergeVersionContent(base[r], op[r].patch), published |-> NoOne]
    <3>1. /\ pc[r] = "decided" /\ versions' = Append(versions, v)
          /\ UNCHANGED <<op, status, current>>
      BY <1>10, <2>2 DEF CreateVersion, requestVars
    <3>2. status # "none"
      BY <1>1, <3>1 DEF ReadsHold
    <3>3. v.published = NoOne
      OBVIOUS
    <3> HIDE DEF v
    <3>4. /\ DOMAIN versions' = 1 .. (Len(versions) + 1)
          /\ \A n \in 1 .. Len(versions) : versions'[n] = versions[n]
          /\ versions'[Len(versions) + 1] = v
      BY <1>1, <3>1, AppendShape DEF Rows
    <3>5. \A n \in DOMAIN versions' : n \in DOMAIN versions \/ n = Len(versions) + 1
      BY <1>1, <3>4
    <3>6. DOMAIN versions \subseteq DOMAIN versions'
      BY <1>1, <3>4
    <3> QED
      BY <1>1, <3>1, <3>2, <3>3, <3>4, <3>5, <3>6 DEF Pointer, Served
  <2> QED
    BY <2>1, <2>2
<1>11. ASSUME NEW r \in Requests, UpdateVersion(r) PROVE Pointer'
  <2>1. CASE ~Unpublished(number[r])
    BY <1>3, <1>11, <2>1 DEF UpdateVersion
  <2>2. CASE Unpublished(number[r])
    <3>1. /\ pc[r] = "decided" /\ UNCHANGED <<op, status, current>>
          /\ versions' = [versions EXCEPT ![number[r]].content =
               MergeVersionContent(base[r], op[r].patch)]
      BY <1>11, <2>2 DEF UpdateVersion, requestVars
    <3>2. /\ DOMAIN versions' = DOMAIN versions
          /\ \A n \in DOMAIN versions : versions'[n].published = versions[n].published
      BY <1>1, <3>1 DEF Rows
    <3> QED
      BY <3>1, <3>2 DEF Pointer, Served
  <2> QED
    BY <2>1, <2>2
<1>12. ASSUME NEW r \in Requests, PublishVersion(r) PROVE Pointer'
  <2> DEFINE target == TransitionQuestion(seen[r].status, "publish")
             commits == Unpublished(number[r]) /\ (target # seen[r].status => archived = NoOne)
  <2>1. CASE ~commits
    BY <1>3, <1>12, <2>1 DEF PublishVersion
  <2>2. CASE commits
    <3>1. /\ pc[r] = "decided" /\ op[r].kind = "publish" /\ op' = op
          /\ versions' = [versions EXCEPT ![number[r]].published = r]
          /\ current' = number[r]
          /\ status' = IF target # seen[r].status THEN target ELSE status
      BY <1>12, <2>2 DEF PublishVersion, requestVars
    <3>2. number[r] \in DOMAIN versions
      BY <1>1, <3>1 DEF DecisionsHold, DecisionHolds
    <3>3. target = "published" /\ seen[r].status = status
      BY <1>1, <3>1 DEF ReadsHold, TransitionQuestion
    <3>4. status' = "published"
      BY <3>1, <3>3
    <3>5. DOMAIN versions' = DOMAIN versions /\ versions'[number[r]].published = r /\ r # NoOne
      BY <1>1, <3>1, <3>2 DEF Rows
    <3>6. number[r] # 0
      BY <1>1, <3>2
    <3> QED
      BY <3>1, <3>2, <3>4, <3>5, <3>6 DEF Pointer, Served
  <2> QED
    BY <2>1, <2>2
<1>13. CASE UNCHANGED vars
  BY <1>2, <1>13 DEF vars, rowVars, requestVars
<1> QED
  BY <1>4, <1>5, <1>6, <1>7, <1>8, <1>9, <1>10, <1>11, <1>12, <1>13 DEF Next, Handle

LEMMA PointerInvariance == Spec => []Pointer
<1>1. Init => Pointer
  BY DEF Init, Pointer, Served
<1> QED
  BY <1>1, PointerStep, BankInvariance, PTL DEF Spec

(* No step of any request rewrites or drops a published version. *)
LEMMA FrozenStep ==
    ASSUME BankInv, Pointer, [Next]_vars, NEW n \in DOMAIN versions, versions[n].published # NoOne
    PROVE  n \in DOMAIN versions' /\ versions'[n] = versions[n]
<1>1. /\ RequestTypes /\ ReadsHold /\ Rows /\ DecisionsHold
      /\ Len(versions) \in Nat /\ DOMAIN versions = 1 .. Len(versions)
  BY SeqShape DEF BankInv, VersionInv, Rows
<1>2. CASE ~Imported /\ \A r \in Requests : ~Created(r) /\ ~Updated(r) /\ ~Published(r)
  BY <1>1, <1>2, QuietSteps
<1>3. ASSUME NEW r \in Requests, Created(r) PROVE n \in DOMAIN versions' /\ versions'[n] = versions[n]
  <2>1. \E e : versions' = Append(versions, e)
    BY <1>3 DEF Created, CreateVersion
  <2> QED
    BY <1>1, <2>1, AppendShape DEF Rows
<1>4. ASSUME NEW r \in Requests, Updated(r) PROVE n \in DOMAIN versions' /\ versions'[n] = versions[n]
  <2>1. n # number[r]
    BY <1>4 DEF Updated, Unpublished
  <2> QED
    BY <1>4, <2>1 DEF Updated, UpdateVersion
<1>5. ASSUME NEW r \in Requests, Published(r) PROVE n \in DOMAIN versions' /\ versions'[n] = versions[n]
  <2>1. /\ versions' = [versions EXCEPT ![number[r]].published = r] /\ Unpublished(number[r])
    BY <1>5 DEF Published, PublishVersion, Rollback, rowVars
  <2>2. n # number[r]
    BY <2>1 DEF Unpublished
  <2> QED
    BY <2>1, <2>2
<1> QED
  <2>1. ~Imported
    <3> SUFFICES ASSUME NEW item \in Items, ImportQuestion(item) PROVE FALSE
      BY DEF Imported
    <3>1. status = "none"
      BY DEF ImportQuestion
    <3> QED
      BY <3>1 DEF Pointer
  <2> QED
    BY <1>2, <1>3, <1>4, <1>5, <2>1

(* ADR-003 for any number of authors, reviewers and publishers: once       *)
(* published, a version's content and the instant it was published at are  *)
(* never written again, and the version is never lost.                     *)
THEOREM PublishedIsFrozen == Spec => FrozenForever
<1>1. BankInv /\ Pointer /\ [Next]_vars =>
        [\A n \in DOMAIN versions :
           versions[n].published # NoOne =>
              n \in DOMAIN versions' /\ versions'[n] = versions[n]]_vars
  BY FrozenStep
<1> QED
  BY <1>1, BankInvariance, PointerInvariance, PTL DEF Spec, FrozenForever

-----------------------------------------------------------------------------
(* The bar.  The importer asks no more of a version than the API does,     *)
(* except of a coding question, where a fixture of white space is none to  *)
(* the API and one too many to the importer.                               *)

BankMeets(content, stage) == ValidateKindContent(Kind, ShapeOfBankVersion(content), stage) = {}

LEMMA ImporterIsNoStricter ==
    ASSUME Kind # "coding", NEW c, NEW stage, Meets(c, stage)
    PROVE  BankMeets(c, stage)
<1>1. WrongKind(Kind, ShapeOfBankVersion(c)) = WrongKind(Kind, ShapeOfContent(c))
  BY DEF WrongKind, ShapeOfBankVersion, ShapeOfContent
<1>2. Incomplete(Kind, ShapeOfBankVersion(c)) \subseteq Incomplete(Kind, ShapeOfContent(c))
  BY DEF Incomplete, ShapeOfBankVersion, ShapeOfContent
<1> QED
  BY <1>1, <1>2 DEF Meets, BankMeets, ValidateKindContent

Stage(n) == IF versions[n].published # NoOne THEN "publish" ELSE "draft"

Bars == \A n \in DOMAIN versions : BankMeets(versions[n].content, Stage(n))

LEMMA BarsStep ==
    ASSUME Kind # "coding", BankInv, Bars, [Next]_vars
    PROVE  Bars'
<1> USE BankConstants
<1>1. /\ RequestTypes /\ ReadsHold /\ Rows /\ DecisionsHold
      /\ Len(versions) \in Nat /\ DOMAIN versions = 1 .. Len(versions)
  BY SeqShape DEF BankInv, VersionInv, Rows
<1>2. CASE ~Imported /\ \A r \in Requests : ~Created(r) /\ ~Updated(r) /\ ~Published(r)
  <2>1. versions' = versions
    BY <1>1, <1>2, QuietSteps
  <2> QED
    BY <2>1 DEF Bars, BankMeets, Stage
<1>3. ASSUME NEW item \in Items, ImportQuestion(item) PROVE Bars'
  <2>1. versions' = [n \in DOMAIN item.versions |->
             [content |-> item.versions[n].content,
              published |-> IF item.versions[n].published THEN Importer ELSE NoOne]]
    BY <1>3 DEF ImportQuestion
  <2>2. \A n \in DOMAIN item.versions :
          BankMeets(item.versions[n].content,
                    IF item.versions[n].published THEN "publish" ELSE "draft")
    BY <1>3 DEF ImportQuestion, CheckBankItem, BankMeets
  <2>3. \A n \in DOMAIN versions' :
          /\ n \in DOMAIN item.versions
          /\ versions'[n].content = item.versions[n].content
          /\ Stage(n)' = IF item.versions[n].published THEN "publish" ELSE "draft"
    BY <2>1 DEF Stage
  <2> QED
    BY <2>2, <2>3 DEF Bars, BankMeets
<1>4. ASSUME NEW r \in Requests, Created(r) PROVE Bars'
  <2> DEFINE v == [content |-> MergeVersionContent(base[r], op[r].patch), published |-> NoOne]
  <2>1. pc[r] = "decided" /\ op[r].kind = "create" /\ versions' = Append(versions, v)
    BY <1>4 DEF Created, CreateVersion
  <2>2. Meets(v.content, "draft")
    BY <1>1, <2>1 DEF DecisionsHold, DecisionHolds
  <2>3. BankMeets(v.content, "draft")
    BY <2>2, ImporterIsNoStricter
  <2>4. v.published = NoOne
    OBVIOUS
  <2> HIDE DEF v
  <2>5. /\ \A n \in 1 .. Len(versions) : versions'[n] = versions[n]
        /\ versions'[Len(versions) + 1] = v
        /\ \A n \in DOMAIN versions' : n \in DOMAIN versions \/ n = Len(versions) + 1
    BY <1>1, <2>1, AppendShape DEF Rows
  <2> QED
    BY <1>1, <2>3, <2>4, <2>5 DEF Bars, BankMeets, Stage
<1>5. ASSUME NEW r \in Requests, Updated(r) PROVE Bars'
  <2> DEFINE c == MergeVersionContent(base[r], op[r].patch)
  <2>1. /\ pc[r] = "decided" /\ op[r].kind = "edit" /\ Unpublished(number[r])
        /\ versions' = [versions EXCEPT ![number[r]].content = c]
    BY <1>5 DEF Updated, UpdateVersion
  <2>2. Meets(c, "draft")
    BY <1>1, <2>1 DEF DecisionsHold, DecisionHolds
  <2>3. BankMeets(c, "draft")
    BY <2>2, ImporterIsNoStricter
  <2> HIDE DEF c
  <2>4. \A n \in DOMAIN versions' :
          /\ n \in DOMAIN versions /\ versions'[n].published = versions[n].published
          /\ versions'[n].content = IF n = number[r] THEN c ELSE versions[n].content
    BY <1>1, <2>1 DEF Rows
  <2> QED
    BY <2>1, <2>3, <2>4 DEF Bars, BankMeets, Stage, Unpublished
<1>6. ASSUME NEW r \in Requests, Published(r) PROVE Bars'
  <2>1. /\ pc[r] = "decided" /\ op[r].kind = "publish"
        /\ versions' = [versions EXCEPT ![number[r]].published = r]
    BY <1>6 DEF Published, PublishVersion, Rollback, rowVars
  <2>2. Meets(versions[number[r]].content, "publish")
    BY <1>1, <2>1 DEF DecisionsHold, DecisionHolds
  <2>3. BankMeets(versions[number[r]].content, "publish")
    BY <2>2, ImporterIsNoStricter
  <2>4. \A n \in DOMAIN versions' :
          /\ n \in DOMAIN versions /\ versions'[n].content = versions[n].content
          /\ versions'[n].published = IF n = number[r] THEN r ELSE versions[n].published
    BY <1>1, <2>1 DEF Rows
  <2> QED
    BY <2>3, <2>4 DEF Bars, BankMeets, Stage
<1> QED
  BY <1>2, <1>3, <1>4, <1>5, <1>6 DEF Imported

(* For every kind of question but coding, and whatever the requests and    *)
(* the imported items are: a served question points at a frozen version,   *)
(* and the importer would take the question back as it stands.             *)
THEOREM OneBank ==
    ASSUME Kind # "coding"
    PROVE  Spec => []LifecycleMatchesVersions
<1>1. Init => Bars
  BY DEF Init, Bars
<1>2. BankInv /\ Bars /\ [Next]_vars => Bars'
  BY BarsStep
<1>3. BankInv /\ Pointer /\ Bars => LifecycleMatchesVersions
  <2> SUFFICES ASSUME BankInv, Pointer, Bars PROVE LifecycleMatchesVersions
    OBVIOUS
  <2>1. IsSeq(versions)
    BY DEF BankInv, VersionInv, Rows
  <2>2. Len(versions) \in Nat /\ DOMAIN versions = 1 .. Len(versions)
    BY <2>1, SeqShape
  <2>3. /\ AsBankItem.status = status /\ DOMAIN AsBankItem.versions = DOMAIN versions
        /\ \A n \in DOMAIN versions :
             /\ AsBankItem.versions[n].content = versions[n].content
             /\ AsBankItem.versions[n].published <=> versions[n].published # NoOne
    BY DEF AsBankItem
  <2>4. ASSUME versions # <<>> PROVE AsBankItem.versions # <<>>
    <3>1. DOMAIN versions # {}
      <4>1. PICK S : versions \in Seq(S)
        BY <2>1 DEF IsSeq
      <4> QED
        BY <2>2, <2>4, <4>1
    <3> QED
      BY <2>3, <3>1
  <2>5. versions # <<>> => CheckBankItem(AsBankItem)
    BY <2>3, <2>4 DEF CheckBankItem, Bars, BankMeets, Stage, Pointer
  <2> QED
    BY <2>5 DEF Pointer, LifecycleMatchesVersions
<1> QED
  BY <1>1, <1>2, <1>3, BankInvariance, PointerInvariance, PTL DEF Spec

-----------------------------------------------------------------------------
(* The audit log. *)

LEMMA ReplayOfPrefix ==
    ASSUME NEW k \in Nat, NEW a, NEW b, \A n \in 1 .. k : b[n] = a[n],
           NEW j \in 0 .. k, NEW first
    PROVE  Replayed(b, j, first) = Replayed(a, j, first)
<1> DEFINE A == {m \in 1 .. j : a[m] # "unsaid"}
           B == {m \in 1 .. j : b[m] # "unsaid"}
<1>1. 1 .. j \subseteq 1 .. k
  OBVIOUS
<1>2. A = B /\ A \in SUBSET (1 .. k)
  BY <1>1
<1>3. LastOf(A) # 0 => LastOf(A) \in A
  BY <1>2, LastOfIsHighest
<1>4. LastOf(A) # 0 => b[LastOf(A)] = a[LastOf(A)]
  BY <1>2, <1>3
<1> QED
  BY <1>2, <1>4 DEF Replayed

LEMMA ReplayOfNext ==
    ASSUME NEW k \in Nat, NEW a, NEW first
    PROVE  Replayed(a, k + 1, first) =
             IF a[k + 1] = "unsaid" THEN Replayed(a, k, first) ELSE a[k + 1]
<1> DEFINE A == {m \in 1 .. k : a[m] # "unsaid"}
           B == {m \in 1 .. (k + 1) : a[m] # "unsaid"}
<1>1. \A m : m \in 1 .. (k + 1) <=> m \in 1 .. k \/ m = k + 1
  OBVIOUS
<1>2. CASE a[k + 1] = "unsaid"
  <2>1. A = B
    BY <1>1, <1>2
  <2> QED
    BY <1>2, <2>1 DEF Replayed
<1>3. CASE a[k + 1] # "unsaid"
  <2>1. k + 1 \in B /\ B \in SUBSET (1 .. (k + 1)) /\ k + 1 \in Nat
    BY <1>3
  <2>2. LastOf(B) \in B /\ LastOf(B) # 0 /\ k + 1 <= LastOf(B)
    BY <2>1, LastOfIsHighest
  <2>3. LastOf(B) = k + 1
    BY <2>1, <2>2
  <2> QED
    BY <1>3, <2>3 DEF Replayed
<1> QED
  BY <1>2, <1>3

(* A row that starts from what the log said last, and ends at what the     *)
(* question's row becomes, keeps a log that replays replaying.             *)
Replays(k, before, after, now, first) ==
    /\ \A n \in 1 .. k : before[n] \in {Replayed(after, n - 1, first), "unsaid"}
    /\ Replayed(after, k, first) = now

LEMMA ReplayGrows ==
    ASSUME NEW k \in Nat, NEW b, NEW a, NEW b2, NEW a2, NEW now, NEW now2, NEW first,
           Replays(k, b, a, now, first),
           \A n \in 1 .. k : b2[n] = b[n] /\ a2[n] = a[n],
           b2[k + 1] \in {now, "unsaid"},
           IF a2[k + 1] = "unsaid" THEN now2 = now ELSE a2[k + 1] = now2
    PROVE  Replays(k + 1, b2, a2, now2, first)
<1>1. \A j \in 0 .. k : Replayed(a2, j, first) = Replayed(a, j, first)
  BY ReplayOfPrefix
<1>2. Replayed(a2, k, first) = now
  BY <1>1 DEF Replays
<1>3. Replayed(a2, k + 1, first) = now2
  BY <1>2, ReplayOfNext
<1>4. ASSUME NEW n \in 1 .. (k + 1)
      PROVE  b2[n] \in {Replayed(a2, n - 1, first), "unsaid"}
  <2>1. CASE n = k + 1
    <3>1. n - 1 = k
      BY <2>1
    <3> QED
      BY <1>2, <2>1, <3>1
  <2>2. CASE n # k + 1
    <3>1. n \in 1 .. k /\ n - 1 \in 0 .. k
      BY <2>2
    <3> QED
      BY <1>1, <3>1 DEF Replays
  <2> QED
    BY <2>1, <2>2
<1> QED
  BY <1>3, <1>4 DEF Replays

Before(field) == [n \in DOMAIN audit |-> audit[n][field][1]]
After(field) == [n \in DOMAIN audit |-> audit[n][field][2]]

AuditInv ==
    /\ IsSeq(audit)
    /\ Replays(Len(audit), Before("status"), After("status"), status, "none")
    /\ Replays(Len(audit), Before("archived"), After("archived"), Flag(archived), "no")

(* What the audit row of any step must say for the log to go on replaying. *)
LEMMA AuditRowFits ==
    ASSUME AuditInv, NEW s0, NEW a0, NEW s1, NEW a1, Audited(s0, a0, s1, a1),
           s0 = status, s1 = status', s1 # "unsaid",
           a0 \in {Flag(archived), "unsaid"},
           IF a1 = "unsaid" THEN Flag(archived') = Flag(archived) ELSE a1 = Flag(archived')
    PROVE  AuditInv'
<1> DEFINE row == [status |-> <<s0, s1>>, archived |-> <<a0, a1>>]
           k == Len(audit)
<1>1. audit' = Append(audit, row)
  BY DEF Audited
<1>2. /\ row["status"][1] = s0 /\ row["status"][2] = s1
      /\ row["archived"][1] = a0 /\ row["archived"][2] = a1
  OBVIOUS
<1> HIDE DEF row
<1>3. /\ k \in Nat /\ DOMAIN audit = 1 .. k
      /\ IsSeq(audit') /\ Len(audit') = k + 1 /\ DOMAIN audit' = 1 .. (k + 1)
      /\ \A n \in 1 .. k : audit'[n] = audit[n]
      /\ audit'[k + 1] = row
  BY <1>1, SeqShape, AppendShape DEF AuditInv
<1> HIDE DEF k
<1>4. ASSUME NEW f \in {"status", "archived"}
      PROVE  /\ \A n \in 1 .. k : Before(f)'[n] = Before(f)[n] /\ After(f)'[n] = After(f)[n]
             /\ Before(f)'[k + 1] = row[f][1] /\ After(f)'[k + 1] = row[f][2]
  <2>1. \A n \in 1 .. k : n \in 1 .. (k + 1)
    BY <1>3
  <2>2. k + 1 \in 1 .. (k + 1)
    BY <1>3
  <2> QED
    BY <1>3, <2>1, <2>2 DEF Before, After
<1>5. /\ Replays(k, Before("status"), After("status"), status, "none")
      /\ Replays(k, Before("archived"), After("archived"), Flag(archived), "no")
  BY DEF AuditInv, k
<1>6. Replays(k + 1, Before("status")', After("status")', status', "none")
  <2>1. Before("status")'[k + 1] = status /\ After("status")'[k + 1] = status' /\ status' # "unsaid"
    BY <1>2, <1>4
  <2>2. \A n \in 1 .. k : /\ Before("status")'[n] = Before("status")[n]
                          /\ After("status")'[n] = After("status")[n]
    BY <1>4
  <2>3. /\ Before("status")'[k + 1] \in {status, "unsaid"}
        /\ IF After("status")'[k + 1] = "unsaid" THEN status' = status
           ELSE After("status")'[k + 1] = status'
    BY <2>1
  <2> HIDE DEF Before, After
  <2> QED
    BY <1>3, <1>5, <2>2, <2>3, ReplayGrows
<1>7. Replays(k + 1, Before("archived")', After("archived")', Flag(archived'), "no")
  BY <1>2, <1>3, <1>4, <1>5, ReplayGrows
<1> QED
  BY <1>3, <1>6, <1>7 DEF AuditInv, Flag

LEMMA AuditStep ==
    ASSUME BankInv, AuditInv, [Next]_vars
    PROVE  AuditInv'
<1> USE BankConstants
<1>1. RequestTypes /\ ReadsHold /\ DecisionsHold
  BY DEF BankInv, VersionInv
<1>2. ASSUME UNCHANGED <<audit, status, archived>> PROVE AuditInv'
  BY <1>2 DEF AuditInv, Before, After, Flag
<1>3. ASSUME NEW r \in Requests, NEW how, Rollback(r, how) PROVE AuditInv'
  BY <1>2, <1>3 DEF Rollback, rowVars
<1>4. \A a : Flag(a) # "unsaid"
  BY DEF Flag
<1>5. \A s \in Statuses : s # "unsaid"
  BY DEF Statuses
<1>6. CASE CreateQuestion
  <2>1. /\ status = "none" /\ status' = "draft" /\ archived' = archived
        /\ Audited("none", "unsaid", "draft", Flag(archived))
    BY <1>6 DEF CreateQuestion
  <2> QED
    BY <2>1, <1>4, AuditRowFits
<1>7. ASSUME NEW item \in Items, ImportQuestion(item) PROVE AuditInv'
  <2>1. /\ status = "none" /\ status' = item.status /\ archived' = archived
        /\ Audited("none", "unsaid", item.status, "unsaid") /\ item.status \in Statuses
    BY <1>7, ItemsWellFormed DEF ImportQuestion
  <2> QED
    BY <2>1, <1>5, AuditRowFits
<1>8. ASSUME NEW r \in Requests,
             \/ RequireQuestion(r) \/ NotFound(r) \/ ReadVersion(r) \/ UNCHANGED vars
             \/ \E o \in Ops : Begin(r, o)
      PROVE  AuditInv'
  BY <1>2, <1>8 DEF RequireQuestion, NotFound, ReadVersion, Begin, vars, rowVars
<1>9. ASSUME NEW r \in Requests, Fails(r) \/ RefusePatch(r) \/ RefuseVersion(r) PROVE AuditInv'
  BY <1>3, <1>9 DEF Fails, RefusePatch, RefuseVersion
<1>10. ASSUME NEW r \in Requests, CreateVersion(r) \/ UpdateVersion(r) PROVE AuditInv'
  BY <1>2, <1>3, <1>10 DEF CreateVersion, UpdateVersion
<1>11. ASSUME NEW r \in Requests, pc[r] \in {"locked", "decided"}
       PROVE  seen[r].status = status /\ seen[r].archived = archived /\ status \in Statuses
  BY <1>1, <1>11 DEF ReadsHold, RequestTypes
<1>12. RequestTypes'
  BY <1>1, ReadsStep
<1>13. ASSUME NEW r \in Requests, PatchQuestion(r) PROVE AuditInv'
  <2>1. /\ pc[r] = "locked" /\ Audited(seen[r].status, Flag(seen[r].archived), status', Flag(archived'))
    BY <1>13 DEF PatchQuestion, AuditPatch
  <2>2. status' # "unsaid"
    BY <1>12 DEF RequestTypes, Statuses
  <2> QED
    BY <2>1, <2>2, <1>4, <1>11, AuditRowFits
<1>14. ASSUME NEW r \in Requests, DeleteQuestion(r) PROVE AuditInv'
  <2>1. /\ pc[r] = "locked" /\ status' = status
        /\ Audited(seen[r].status, Flag(seen[r].archived), status, Flag(archived'))
    BY <1>14 DEF DeleteQuestion
  <2> QED
    BY <2>1, <1>4, <1>5, <1>11, AuditRowFits
<1>15. ASSUME NEW r \in Requests, PublishVersion(r) PROVE AuditInv'
  <2> DEFINE target == TransitionQuestion(seen[r].status, "publish")
             commits == Unpublished(number[r]) /\ (target # seen[r].status => archived = NoOne)
  <2>1. CASE ~commits
    BY <1>3, <1>15, <2>1 DEF PublishVersion
  <2>2. CASE commits
    <3>1. /\ pc[r] = "decided" /\ op[r].kind = "publish" /\ archived' = archived
          /\ status' = IF target # seen[r].status THEN target ELSE status
          /\ Audited(seen[r].status, "unsaid", target, "unsaid")
      BY <1>15, <2>2 DEF PublishVersion
    <3>2. target = "published" /\ seen[r].status = status
      BY <1>1, <3>1 DEF ReadsHold, TransitionQuestion
    <3>3. status' = target
      BY <3>1, <3>2
    <3> QED
      BY <3>1, <3>2, <3>3, AuditRowFits
  <2> QED
    BY <2>1, <2>2
<1>16. CASE UNCHANGED vars
  BY <1>2, <1>16 DEF vars, rowVars
<1> QED
  BY <1>6, <1>7, <1>8, <1>9, <1>10, <1>13, <1>14, <1>15, <1>16 DEF Next, Handle

(* The audit log of a question replays into the question's row, whatever   *)
(* the requests do to it and however many there are.                       *)
THEOREM AuditLogReplays == Spec => []AuditReplays
<1>1. Init => AuditInv
  <2> SUFFICES ASSUME Init PROVE AuditInv
    OBVIOUS
  <2>1. audit = <<>> /\ status = "none" /\ Flag(archived) = "no"
    BY DEF Init, Flag
  <2>2. IsSeq(audit) /\ Len(audit) = 0
    <3>1. <<>> \in Seq({})
      OBVIOUS
    <3> QED
      BY <2>1, <3>1 DEF IsSeq
  <2>3. \A a, first : Replayed(a, 0, first) = first
    <3>1. \A a : {m \in 1 .. 0 : a[m] # "unsaid"} = {}
      OBVIOUS
    <3> QED
      BY <3>1 DEF Replayed, LastOf
  <2>4. 1 .. 0 = {}
    OBVIOUS
  <2> QED
    BY <2>1, <2>2, <2>3, <2>4 DEF AuditInv, Replays
<1>2. BankInv /\ AuditInv /\ [Next]_vars => AuditInv'
  BY AuditStep
<1>3. AuditInv => AuditReplays
  <2> SUFFICES ASSUME AuditInv PROVE AuditReplays
    OBVIOUS
  <2>1. DOMAIN audit = 1 .. Len(audit)
    BY SeqShape DEF AuditInv
  <2>2. /\ DOMAIN Before("status") = 1 .. Len(audit)
        /\ DOMAIN Before("archived") = 1 .. Len(audit)
    BY <2>1 DEF Before
  <2>3. /\ Chained(Before("status"), After("status"), status, "none")
        /\ Chained(Before("archived"), After("archived"), Flag(archived), "no")
    BY <2>2 DEF AuditInv, Replays, Chained
  <2> QED
    BY <2>3 DEF AuditReplays, Before, After
<1> QED
  BY <1>1, <1>2, <1>3, BankInvariance, PTL DEF Spec
=============================================================================
