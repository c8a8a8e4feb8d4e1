------------------------- MODULE Redemption_proofs -------------------------
(***************************************************************************)
(* Proofs about Redemption, for every set of requests and invitations.     *)
(***************************************************************************)
EXTENDS Redemption, FiniteSetTheorems, TLAPS

(* The inductive invariant.  The allowance alone is not inductive: that a  *)
(* commit keeps it follows from the count under the lock still being the   *)
(* truth, which follows from the lock being exclusive.                     *)
IndInv ==
    /\ TypeOK
    /\ LockDiscipline
    /\ CountStaysTrue
    /\ CommittedAreDone
    /\ DraftStaysTrue
    /\ SittingsWithinAllowance

(* The sittings of any invitation are a finite set: the code counts them. *)
LEMMA SittingsFinite ==
    ASSUME TypeOK, NEW i
    PROVE  IsFiniteSet(SittingsOf(i)) /\ Cardinality(SittingsOf(i)) \in Nat
<1>1. SittingsOf(i) \subseteq Requests
  BY DEF SittingsOf, TypeOK
<1> QED
  BY <1>1, RequestsFinite, FS_Subset, FS_CardinalityType

(* The life of an attempt token is a natural number of seconds. *)
LEMMA LifeType == AttemptTokenLife \in Nat
BY ColumnTypes DEF AttemptTokenLife

(* A step that commits no attempt and re-aims no committed one leaves the  *)
(* sittings of every invitation alone.                                     *)
LEMMA SittingsUnchanged ==
    ASSUME attempts' = attempts, \A r \in attempts : token'[r] = token[r]
    PROVE  \A i : SittingsOf(i)' = SittingsOf(i)
BY DEF SittingsOf

(* What COMMIT does to the sittings: exactly one more, of the invitation   *)
(* whose token the request presented.                                      *)
LEMMA SittingsAtCommit ==
    ASSUME IndInv, NEW r \in Requests, pc[r] = "audited", CommitRows(r)
    PROVE  /\ Cardinality(SittingsOf(token[r]))'
                = Cardinality(SittingsOf(token[r])) + 1
           /\ \A i \in Invitations : i # token[r] =>
                SittingsOf(i)' = SittingsOf(i)
<1>1. r \notin attempts
  BY DEF IndInv, CommittedAreDone
<1>2. attempts' = attempts \cup {r} /\ token' = token
  BY DEF CommitRows
<1>3. SittingsOf(token[r])' = SittingsOf(token[r]) \cup {r}
  BY <1>2 DEF SittingsOf
<1>4. r \notin SittingsOf(token[r])
  BY <1>1 DEF SittingsOf
<1>5. Cardinality(SittingsOf(token[r]) \cup {r}) = Cardinality(SittingsOf(token[r])) + 1
  BY <1>4, SittingsFinite, FS_AddElement DEF IndInv
<1>6. Cardinality(SittingsOf(token[r]))' = Cardinality(SittingsOf(token[r])') 
  BY <1>2 
<1>7. ASSUME NEW i \in Invitations, i # token[r] PROVE SittingsOf(i)' = SittingsOf(i)
  BY <1>2, <1>7 DEF SittingsOf
<1> QED
  BY <1>3, <1>5, <1>6, <1>7

(* Steps that write no attempt row.  Each leaves every sitting alone and   *)
(* moves one request along the lock protocol.                              *)
LEMMA QuietSteps ==
    ASSUME IndInv, NEW r \in Requests,
           \/ RefuseMalformed(r)
           \/ \E i \in Invitations \cup {NoInvitation} : FindOrgByTokenHash(r, i)
           \/ SelectInvitation(r) \/ LockInvitation(r) \/ FindVanished(r)
           \/ CountSittings(r) \/ Refuse(r) \/ CreateAttempt(r) \/ RecordRedemption(r)
           \/ Rollback(r)
    PROVE  IndInv'
<1> USE ColumnTypes, NullsDistinct
<1>1. attempts' = attempts /\ \A q \in attempts : token'[q] = token[q]
  BY DEF IndInv, TypeOK, CommittedAreDone, RefuseMalformed, FindOrgByTokenHash,
     SelectInvitation, LockInvitation, FindVanished, CountSittings, Refuse, CreateAttempt,
     RecordRedemption, Rollback, tableVars
<1>2. \A i : SittingsOf(i)' = SittingsOf(i)
  BY <1>1, SittingsUnchanged
<1>3. \A i : Cardinality(SittingsOf(i)) \in Nat
  BY SittingsFinite DEF IndInv
<1>4. TypeOK'
  <2>1. CASE RefuseMalformed(r)
    BY <2>1 DEF IndInv, TypeOK, RefuseMalformed, tableVars, Refusals
  <2>2. ASSUME NEW i \in Invitations \cup {NoInvitation}, FindOrgByTokenHash(r, i)
        PROVE  TypeOK'
    BY <2>2 DEF IndInv, TypeOK, FindOrgByTokenHash, tableVars, Refusals
  <2>3. CASE LockInvitation(r)
    BY <2>3 DEF IndInv, TypeOK, LockInvitation, tableVars, Holding
  <2>4. CASE FindVanished(r)
    BY <2>4 DEF IndInv, TypeOK, FindVanished, tableVars, Refusals
  <2>5. CASE CountSittings(r)
    BY <2>5, <1>3 DEF IndInv, TypeOK, CountSittings, tableVars, Holding
  <2>6. CASE Refuse(r)
    <3>1. Verdict(r) \in Refusals
      BY <2>6 DEF Refuse, Verdict, Refusals
    <3> QED
      BY <2>6, <3>1 DEF IndInv, TypeOK, Refuse, tableVars
  <2>7. CASE CreateAttempt(r)
    BY <2>7 DEF IndInv, TypeOK, CreateAttempt, tableVars, Holding
  <2>8. CASE RecordRedemption(r)
    <3>1. token[r] \in Invitations
      BY <2>8 DEF IndInv, LockDiscipline, RecordRedemption, Holding
    <3>2. [attempt |-> r, invitation |-> token[r],
           sitting |-> seen[r] + 1, max |-> MaxAttempts[token[r]]] \in AuditRows
      <4>1. seen[r] + 1 \in Nat /\ MaxAttempts[token[r]] \in Nat
        BY <3>1 DEF IndInv, TypeOK
      <4> QED
        BY <3>1, <4>1 DEF AuditRows
    <3>3. draft' \in [Requests -> AuditRows \cup {Nothing}]
      BY <2>8, <3>2 DEF IndInv, TypeOK, RecordRedemption
    <3>4. minted' \in [Requests -> Nat]
      BY <2>8, LifeType DEF IndInv, TypeOK, RecordRedemption
    <3> QED
      BY <2>8, <3>3, <3>4 DEF IndInv, TypeOK, RecordRedemption, tableVars, Holding
  <2>9. CASE Rollback(r)
    BY <2>9 DEF IndInv, TypeOK, Rollback, tableVars
  <2>10. CASE SelectInvitation(r)
    BY <2>10 DEF IndInv, TypeOK, SelectInvitation, tableVars
  <2> QED
    BY <2>1, <2>2, <2>3, <2>4, <2>5, <2>6, <2>7, <2>8, <2>9, <2>10
<1>5. LockDiscipline'
  <2> /\ lock \in [Invitations -> Requests \cup {NoOne}]
      /\ pc \in [Requests -> {"idle", "routed", "waiting", "done"} \cup Holding]
      /\ token \in [Requests -> Invitations \cup {NoInvitation}]
      /\ rows \subseteq Invitations
      /\ LockDiscipline
      /\ NoOne \notin Requests
    BY DEF IndInv, TypeOK
  <2> USE DEF Holding
  <2> DEFINE Disciplined(q) ==
        /\ pc[q] \in {"routed", "waiting"} \cup Holding => token[q] \in Invitations
        /\ pc[q] \in Holding => lock[token[q]] = q
        /\ \A i \in Invitations : lock[i] = q => pc[q] \in Holding /\ token[q] = i
  <2> \A q \in Requests : Disciplined(q)
    BY DEF LockDiscipline
  <2> SUFFICES ASSUME NEW q \in Requests PROVE Disciplined(q)'
    BY DEF LockDiscipline
  <2>1. CASE RefuseMalformed(r)
    BY <2>1 DEF RefuseMalformed
  <2>2. ASSUME NEW i \in Invitations \cup {NoInvitation}, FindOrgByTokenHash(r, i)
        PROVE  Disciplined(q)'
    BY <2>2 DEF FindOrgByTokenHash
  <2>3. CASE LockInvitation(r)
    BY <2>3 DEF LockInvitation
  <2>4. CASE FindVanished(r)
    BY <2>4 DEF FindVanished
  <2>5. CASE CountSittings(r)
    BY <2>5 DEF CountSittings
  <2>6. CASE Refuse(r)
    BY <2>6 DEF Refuse
  <2>7. CASE CreateAttempt(r)
    BY <2>7 DEF CreateAttempt
  <2>8. CASE RecordRedemption(r)
    BY <2>8 DEF RecordRedemption
  <2>9. CASE Rollback(r)
    BY <2>9 DEF Rollback
  <2>10. CASE SelectInvitation(r)
    BY <2>10 DEF SelectInvitation
  <2> QED
    BY <2>1, <2>2, <2>3, <2>4, <2>5, <2>6, <2>7, <2>8, <2>9, <2>10
<1>6. CountStaysTrue'
  <2> SUFFICES ASSUME NEW q \in Requests
               PROVE  /\ pc'[q] \in {"counted", "inserted", "audited"} =>
                           seen'[q] = Cardinality(SittingsOf(token[q])')
                      /\ pc'[q] \in {"inserted", "audited"} =>
                           seen'[q] < MaxAttempts[token[q]]
                      /\ pc'[q] \in {"counted", "inserted", "audited"} =>
                           token'[q] = token[q]
    BY DEF CountStaysTrue, SittingsOf
  <2> USE <1>2 DEF IndInv, TypeOK, CountStaysTrue
  <2>1. CASE RefuseMalformed(r)
    BY <2>1 DEF RefuseMalformed
  <2>2. ASSUME NEW i \in Invitations \cup {NoInvitation}, FindOrgByTokenHash(r, i)
        PROVE  /\ pc'[q] \in {"counted", "inserted", "audited"} =>
                    seen'[q] = Cardinality(SittingsOf(token[q])')
               /\ pc'[q] \in {"inserted", "audited"} =>
                    seen'[q] < MaxAttempts[token[q]]
               /\ pc'[q] \in {"counted", "inserted", "audited"} =>
                    token'[q] = token[q]
    BY <2>2 DEF FindOrgByTokenHash
  <2>3. CASE LockInvitation(r)
    BY <2>3 DEF LockInvitation
  <2>4. CASE FindVanished(r)
    BY <2>4 DEF FindVanished
  <2>5. CASE CountSittings(r)
    BY <2>5 DEF CountSittings
  <2>6. CASE Refuse(r)
    BY <2>6 DEF Refuse
  <2>7. CASE CreateAttempt(r)
    <3>1. token[r] \in Invitations
      BY <2>7 DEF LockDiscipline, CreateAttempt, Holding
    <3>2. ~ (seen[r] >= MaxAttempts[token[r]])
      BY <2>7 DEF CreateAttempt, Verdict
    <3>3. seen[r] \in Nat /\ MaxAttempts[token[r]] \in Nat
      BY <3>1 DEF IndInv, TypeOK
    <3>4. seen[r] < MaxAttempts[token[r]]
      BY <3>2, <3>3
    <3> QED
      BY <2>7, <3>4 DEF CreateAttempt
  <2>8. CASE RecordRedemption(r)
    BY <2>8 DEF RecordRedemption
  <2>9. CASE Rollback(r)
    BY <2>9 DEF Rollback
  <2>10. CASE SelectInvitation(r)
    BY <2>10 DEF SelectInvitation
  <2> QED
    BY <2>1, <2>2, <2>3, <2>4, <2>5, <2>6, <2>7, <2>8, <2>9, <2>10
<1>7. CommittedAreDone'
  <2>1. r \notin attempts
    BY DEF IndInv, CommittedAreDone, RefuseMalformed, FindOrgByTokenHash,
       SelectInvitation, LockInvitation, FindVanished, CountSittings, Refuse, CreateAttempt,
       RecordRedemption, Rollback, Holding
  <2>2. \A q \in attempts : pc'[q] = pc[q]
    BY <2>1 DEF IndInv, TypeOK, RefuseMalformed, FindOrgByTokenHash,
       SelectInvitation, LockInvitation, FindVanished, CountSittings, Refuse, CreateAttempt,
       RecordRedemption, Rollback
  <2> QED
    BY <1>1, <2>2 DEF IndInv, CommittedAreDone
<1>8. DraftStaysTrue'
  <2> USE DEF IndInv, TypeOK, DraftStaysTrue
  <2>1. CASE RecordRedemption(r)
    BY <2>1 DEF RecordRedemption
  <2>2. CASE Rollback(r)
    BY <2>2 DEF Rollback
  <2>3. ASSUME NEW i \in Invitations \cup {NoInvitation}, FindOrgByTokenHash(r, i)
        PROVE  DraftStaysTrue'
    BY <2>3 DEF FindOrgByTokenHash
  <2>4. CASE RefuseMalformed(r) \/ SelectInvitation(r) \/ LockInvitation(r)
             \/ FindVanished(r)
    BY <2>4 DEF RefuseMalformed, SelectInvitation, LockInvitation, FindVanished
  <2>5. CASE CountSittings(r) \/ Refuse(r) \/ CreateAttempt(r)
    BY <2>5 DEF CountSittings, Refuse, CreateAttempt
  <2> QED
    BY <2>1, <2>2, <2>3, <2>4, <2>5
<1>9. SittingsWithinAllowance'
  BY <1>2 DEF IndInv, SittingsWithinAllowance
<1> QED
  BY <1>4, <1>5, <1>6, <1>7, <1>8, <1>9 DEF IndInv

(* The committing steps: the one more sitting was still within the         *)
(* allowance, because the count made under the lock was still the truth.   *)
LEMMA CommitSteps ==
    ASSUME IndInv, NEW r \in Requests, Commit(r) \/ CommitUnacknowledged(r)
    PROVE  IndInv'
<1> USE ColumnTypes, NullsDistinct
<1>1. pc[r] = "audited" /\ CommitRows(r)
  BY DEF Commit, CommitUnacknowledged
<1>2. token[r] \in Invitations /\ lock[token[r]] = r
  BY <1>1 DEF IndInv, LockDiscipline, Holding
<1>3. /\ Cardinality(SittingsOf(token[r]))' = Cardinality(SittingsOf(token[r])) + 1
      /\ \A i \in Invitations : i # token[r] => SittingsOf(i)' = SittingsOf(i)
  BY <1>1, SittingsAtCommit
<1>4. Cardinality(SittingsOf(token[r])) < MaxAttempts[token[r]]
  BY <1>1 DEF IndInv, CountStaysTrue
<1>5. TypeOK'
  <2>1. draft[r] \in AuditRows
    <3>1. seen[r] + 1 \in Nat /\ MaxAttempts[token[r]] \in Nat
      BY <1>2 DEF IndInv, TypeOK
    <3>2. draft[r] = [attempt |-> r, invitation |-> token[r],
                      sitting |-> seen[r] + 1, max |-> MaxAttempts[token[r]]]
      BY <1>1 DEF IndInv, DraftStaysTrue
    <3> QED
      BY <1>2, <3>1, <3>2 DEF AuditRows
  <2>2. outcome' \in [Requests -> {"pending", "ok", "error"} \cup Refusals]
        /\ redeemed' \in Nat
    BY DEF IndInv, TypeOK, Commit, CommitUnacknowledged
  <2>3. attempts' \subseteq Requests /\ audit' \subseteq AuditRows
    BY <1>1, <2>1 DEF IndInv, TypeOK, CommitRows
  <2>4. /\ lock' \in [Invitations -> Requests \cup {NoOne}]
        /\ pc' \in [Requests -> {"idle", "routed", "waiting", "done"} \cup Holding]
        /\ draft' \in [Requests -> AuditRows \cup {Nothing}]
    BY <1>1 DEF IndInv, TypeOK, CommitRows
  <2> QED
    BY <1>1, <2>2, <2>3, <2>4 DEF IndInv, TypeOK, CommitRows
<1>6. LockDiscipline'
  BY <1>1, <1>2 DEF IndInv, TypeOK, LockDiscipline, CommitRows, Holding
<1>7. CountStaysTrue'
  <2> SUFFICES ASSUME NEW q \in Requests,
                      pc'[q] \in {"counted", "inserted", "audited"}
               PROVE  /\ seen'[q] = Cardinality(SittingsOf(token[q]))'
                      /\ pc'[q] \in {"inserted", "audited"} =>
                           seen'[q] < MaxAttempts[token'[q]]
    BY DEF CountStaysTrue
  <2>1. q # r /\ pc'[q] = pc[q] /\ seen' = seen /\ token' = token
    BY <1>1 DEF CommitRows, IndInv, TypeOK
  <2>2. token[q] \in Invitations /\ token[q] # token[r]
    BY <1>2, <2>1 DEF IndInv, LockDiscipline, Holding
  <2>3. SittingsOf(token[q])' = SittingsOf(token[q])
    BY <1>3, <2>1, <2>2 DEF SittingsOf
  <2> QED
    BY <2>1, <2>3 DEF IndInv, CountStaysTrue
<1>8. CommittedAreDone'
  BY <1>1, <1>2 DEF IndInv, TypeOK, CommittedAreDone, CommitRows
<1>9. DraftStaysTrue'
  BY <1>1 DEF IndInv, TypeOK, DraftStaysTrue, CommitRows
<1>10. SittingsWithinAllowance'
  <2> SUFFICES ASSUME NEW i \in Invitations
               PROVE  Cardinality(SittingsOf(i))' <= MaxAttempts[i]
    BY DEF SittingsWithinAllowance
  <2>1. CASE i = token[r]
    <3>1. Cardinality(SittingsOf(token[r])) \in Nat /\ MaxAttempts[token[r]] \in Nat
      BY <1>2, SittingsFinite DEF IndInv
    <3>2. SittingsOf(i)' = SittingsOf(token[r])'
      BY <1>1, <2>1 DEF SittingsOf, CommitRows
    <3> QED
      BY <1>3, <1>4, <2>1, <3>1, <3>2
  <2>2. CASE i # token[r]
    BY <1>3, <2>2 DEF IndInv, SittingsWithinAllowance
  <2> QED
    BY <2>1, <2>2
<1> QED
  BY <1>5, <1>6, <1>7, <1>8, <1>9, <1>10 DEF IndInv

(* The clock, staff and a stutter disturb nothing the invariant speaks of. *)
LEMMA EnvironmentSteps ==
    ASSUME IndInv,
           \/ Tick \/ WithdrawAssessment \/ UNCHANGED vars
           \/ \E i \in Invitations : RevokeInvitation(i)
    PROVE  IndInv'
<1>1. /\ attempts' = attempts /\ lock' = lock /\ requestVars' = requestVars
      /\ outcome' = outcome /\ redeemed' = redeemed /\ audit' = audit
      /\ rows' \subseteq rows
  BY DEF Tick, WithdrawAssessment, RevokeInvitation, vars, tableVars
<1>2. now' \in Nat /\ published' \in BOOLEAN
  <2>1. now' = now \/ now' = now + 1
    BY DEF Tick, WithdrawAssessment, RevokeInvitation, vars
  <2>2. published' = published \/ published' = FALSE
    BY DEF Tick, WithdrawAssessment, RevokeInvitation, vars, tableVars
  <2>3. now' \in Nat
    BY <2>1 DEF IndInv, TypeOK
  <2>4. published' \in BOOLEAN
    BY <2>2, Zenon DEF IndInv, TypeOK
  <2> QED
    BY <2>3, <2>4
<1>3. TypeOK'
  BY <1>1, <1>2 DEF IndInv, TypeOK, requestVars
<1>4. \A i : SittingsOf(i)' = SittingsOf(i)
  BY <1>1 DEF SittingsOf, requestVars
<1>5. LockDiscipline' /\ CommittedAreDone' /\ DraftStaysTrue'
  BY <1>1 DEF IndInv, LockDiscipline, CommittedAreDone, DraftStaysTrue, requestVars
<1>6. CountStaysTrue'
  BY <1>1, <1>4 DEF IndInv, CountStaysTrue, requestVars, SittingsOf
<1>7. SittingsWithinAllowance'
  BY <1>4 DEF IndInv, SittingsWithinAllowance
<1> QED
  BY <1>3, <1>5, <1>6, <1>7 DEF IndInv

LEMMA InvariantStep == IndInv /\ [Next]_vars => IndInv'
<1> SUFFICES ASSUME IndInv, [Next]_vars PROVE IndInv'
  OBVIOUS
<1>1. ASSUME NEW r \in Requests, RequestStep(r) PROVE IndInv'
  BY <1>1, QuietSteps, CommitSteps DEF RequestStep
<1> QED
  BY <1>1, EnvironmentSteps DEF Next

LEMMA InvariantInit == Init => IndInv
<1> SUFFICES ASSUME Init PROVE IndInv
  OBVIOUS
<1> USE ColumnTypes, NullsDistinct
<1>1. TypeOK
  BY DEF Init, TypeOK
<1>2. \A i : SittingsOf(i) = {}
  BY DEF Init, SittingsOf
<1>3. SittingsWithinAllowance
  BY <1>2, FS_EmptySet DEF SittingsWithinAllowance
<1>4. LockDiscipline /\ CountStaysTrue /\ CommittedAreDone /\ DraftStaysTrue
  BY DEF Init, LockDiscipline, CountStaysTrue, CommittedAreDone,
     DraftStaysTrue, Holding
<1> QED
  BY <1>1, <1>3, <1>4 DEF IndInv

THEOREM Invariance == Spec => []IndInv
BY InvariantInit, InvariantStep, PTL DEF Spec

(* Type correctness, for every set of requests and invitations. *)
THEOREM TypeCorrect == Spec => []TypeOK
<1>1. IndInv => TypeOK
  BY DEF IndInv
<1> QED
  BY <1>1, Invariance, PTL

(* However many redemptions race, crash, or lose their acknowledgement, no *)
(* invitation is sat more often than its max_attempts.                     *)
THEOREM AllowanceNeverExceeded == Spec => []SittingsWithinAllowance
<1>1. IndInv => SittingsWithinAllowance
  BY DEF IndInv
<1> QED
  BY <1>1, Invariance, PTL

-----------------------------------------------------------------------------
(* Every step of the protocol is one sitting taken, or nothing, to a       *)
(* reader who sees only the attempts table.                                *)
LEMMA RefinementStep ==
    IndInv /\ [Next]_vars =>
        [Abstract!Next]_([i \in Invitations |-> Cardinality(SittingsOf(i))])
<1> SUFFICES ASSUME IndInv, [Next]_vars
             PROVE  [Abstract!Next]_([i \in Invitations |-> Cardinality(SittingsOf(i))])
  OBVIOUS
<1> DEFINE taken == [i \in Invitations |-> Cardinality(SittingsOf(i))]
<1>1. ASSUME \A i : SittingsOf(i)' = SittingsOf(i) PROVE taken' = taken
  BY <1>1
<1>2. ASSUME NEW r \in Requests, Commit(r) \/ CommitUnacknowledged(r)
      PROVE  Abstract!Next
  <2>1. pc[r] = "audited" /\ CommitRows(r)
    BY <1>2 DEF Commit, CommitUnacknowledged
  <2>2. token[r] \in Invitations
    BY <2>1 DEF IndInv, LockDiscipline, Holding
  <2>3. taken[token[r]] < MaxAttempts[token[r]]
    BY <2>1, <2>2 DEF IndInv, CountStaysTrue
  <2>4. /\ Cardinality(SittingsOf(token[r]))' = Cardinality(SittingsOf(token[r])) + 1
        /\ \A i \in Invitations : i # token[r] => SittingsOf(i)' = SittingsOf(i)
    BY <2>1, SittingsAtCommit
  <2>5. token' = token
    BY <2>1 DEF CommitRows
  <2>6. SittingsOf(token[r])' = {q \in attempts' : token[q] = token[r]}
    BY <2>5 DEF SittingsOf
  <2>7. taken' = [taken EXCEPT ![token[r]] = @ + 1]
    BY <2>2, <2>4, <2>5, <2>6 DEF SittingsOf
  <2>8. Abstract!Take(token[r])
    BY <2>3, <2>7 DEF Abstract!Take
  <2> QED
    BY <2>2, <2>8 DEF Abstract!Next
<1>3. ASSUME NEW r \in Requests, RequestStep(r),
             ~ (Commit(r) \/ CommitUnacknowledged(r))
      PROVE  taken' = taken
  <2>1. attempts' = attempts /\ \A q \in attempts : token'[q] = token[q]
    BY <1>3 DEF RequestStep, IndInv, TypeOK, CommittedAreDone, RefuseMalformed,
       FindOrgByTokenHash, SelectInvitation, LockInvitation, FindVanished,
       CountSittings, Refuse,
       CreateAttempt, RecordRedemption, Rollback, tableVars
  <2> QED
    BY <1>1, <2>1, SittingsUnchanged
<1>4. ASSUME Tick \/ WithdrawAssessment \/ UNCHANGED vars
               \/ \E i \in Invitations : RevokeInvitation(i)
      PROVE  taken' = taken
  <2>1. attempts' = attempts /\ token' = token
    BY <1>4 DEF Tick, WithdrawAssessment, RevokeInvitation, vars, tableVars,
       requestVars
  <2> QED
    BY <1>1, <2>1 DEF SittingsOf
<1> QED
  BY <1>2, <1>3, <1>4 DEF Next

(* Redemption implements the abstract allowance: the initial state has no  *)
(* sittings, and every step takes one within the allowance or takes none.  *)
THEOREM RefinesSittings == Spec => ImplementsSittings
<1>1. Init => Abstract!Init
  <2> SUFFICES ASSUME Init PROVE Abstract!Init
    OBVIOUS
  <2>1. \A i : SittingsOf(i) = {}
    BY DEF Init, SittingsOf
  <2> QED
    BY <2>1, FS_EmptySet DEF Abstract!Init
<1> QED
  BY <1>1, RefinementStep, Invariance, PTL DEF Spec, ImplementsSittings, Abstract!Spec
-----------------------------------------------------------------------------
(* What the audit table, the answers and the clock say.  Each property is  *)
(* kept by every step once IndInv is known; what it needs besides follows. *)

(* A request that has not ended has not been answered. *)
Unanswered == \A r \in Requests : pc[r] # "done" => outcome[r] = "pending"

(* The instant a request decided at was inside the window and is not       *)
(* ahead of the clock; the token it minted was dated after it.             *)
Dated(r) ==
    /\ at[r] >= OpensAt[token[r]] /\ at[r] < ExpiresAt[token[r]]
    /\ at[r] <= now
LongEnough(r) ==
    StartWindow + Duration + Tail <= MaxLife => minted[r] >= at[r] + StartWindow + Duration

DecidedInTime ==
    \A r \in Requests :
        /\ pc[r] \in {"inserted", "audited"} => Dated(r)
        /\ pc[r] = "audited" => LongEnough(r)

(* Nothing but a commit touches the two tables.                            *)
LEMMA TablesChangeAtCommit ==
    ASSUME IndInv, [Next]_vars
    PROVE  \/ \E r \in Requests : Commit(r) \/ CommitUnacknowledged(r)
           \/ /\ attempts' = attempts /\ audit' = audit
              /\ \A q \in attempts : token'[q] = token[q]
<1>1. ASSUME NEW r \in Requests, RequestStep(r), ~ (Commit(r) \/ CommitUnacknowledged(r))
      PROVE  attempts' = attempts /\ audit' = audit /\ \A q \in attempts : token'[q] = token[q]
  BY <1>1 DEF RequestStep, IndInv, TypeOK, CommittedAreDone, RefuseMalformed,
     FindOrgByTokenHash, SelectInvitation, LockInvitation, FindVanished,
     CountSittings, Refuse, CreateAttempt, RecordRedemption, Rollback, tableVars
<1>2. ASSUME Tick \/ WithdrawAssessment \/ UNCHANGED vars
               \/ \E i \in Invitations : RevokeInvitation(i)
      PROVE  attempts' = attempts /\ audit' = audit /\ token' = token
  BY <1>2 DEF Tick, WithdrawAssessment, RevokeInvitation, vars, tableVars, requestVars
<1> QED
  BY <1>1, <1>2 DEF Next

(* Both tables gain one row at a commit, and the audit row numbers the     *)
(* sitting next after those already there.  The audit table is finite, so  *)
(* its rows can be counted.                                                *)
AuditInv == AuditAccountsForSittings /\ IsFiniteSet(audit)

LEMMA AuditAtCommit ==
    ASSUME IndInv, AuditInv, NEW r \in Requests, Commit(r) \/ CommitUnacknowledged(r)
    PROVE  AuditInv'
<1> USE ColumnTypes, NullsDistinct
<1>1. pc[r] = "audited" /\ CommitRows(r)
  BY DEF Commit, CommitUnacknowledged
<1>2. token[r] \in Invitations
  BY <1>1 DEF IndInv, LockDiscipline, Holding
<1> DEFINE n == Cardinality(SittingsOf(token[r]))
           row == [attempt |-> r, invitation |-> token[r], sitting |-> n + 1,
                   max |-> MaxAttempts[token[r]]]
           numbers(log, i) == {a.sitting : a \in {b \in log : b.invitation = i}}
<1>3. draft[r] = row
  BY <1>1 DEF IndInv, DraftStaysTrue, CountStaysTrue
<1>4. attempts' = attempts \cup {r} /\ audit' = audit \cup {row}
  BY <1>1, <1>3 DEF CommitRows
<1>5. r \notin attempts /\ row \notin audit
  <2>1. r \notin attempts
    BY <1>1 DEF IndInv, CommittedAreDone
  <2>2. row.attempt = r
    OBVIOUS
  <2> QED
    BY <2>1, <2>2 DEF AuditInv, AuditAccountsForSittings
<1>6. {a.attempt : a \in audit'} = attempts'
  <2>1. row.attempt = r
    OBVIOUS
  <2>2. {a.attempt : a \in audit} = attempts
    BY DEF AuditInv, AuditAccountsForSittings
  <2> HIDE DEF row
  <2> QED
    BY <1>4, <2>1, <2>2
<1>7. Cardinality(audit') = Cardinality(attempts') /\ IsFiniteSet(audit')
  <2>1. IsFiniteSet(attempts)
    BY RequestsFinite, FS_Subset DEF IndInv, TypeOK
  <2>2. Cardinality(attempts') = Cardinality(attempts) + 1
    BY <1>4, <1>5, <2>1, FS_AddElement
  <2>3. Cardinality(audit') = Cardinality(audit) + 1 /\ IsFiniteSet(audit')
    BY <1>4, <1>5, FS_AddElement DEF AuditInv
  <2> QED
    BY <2>2, <2>3 DEF AuditInv, AuditAccountsForSittings
<1>8. ASSUME NEW i \in Invitations
      PROVE  numbers(audit', i) = 1 .. Cardinality(SittingsOf(i)')
  <2>1. numbers(audit, i) = 1 .. Cardinality(SittingsOf(i))
    BY DEF AuditInv, AuditAccountsForSittings
  <2>2. CASE i = token[r]
    <3>1. n \in Nat
      BY SittingsFinite DEF IndInv
    <3>2. Cardinality(SittingsOf(i)') = n + 1
      <4>1. SittingsOf(i)' = SittingsOf(token[r])'
        BY <1>1, <2>2 DEF SittingsOf, CommitRows
      <4> QED
        BY <1>1, <4>1, SittingsAtCommit
    <3>3. numbers(audit', i) = numbers(audit, i) \cup {n + 1}
      <4>1. row.invitation = i /\ row.sitting = n + 1
        BY <2>2
      <4> HIDE DEF row
      <4> QED
        BY <1>4, <4>1
    <3>4. 1 .. n + 1 = (1 .. n) \cup {n + 1}
      BY <3>1
    <3> QED
      BY <2>1, <2>2, <3>2, <3>3, <3>4
  <2>3. CASE i # token[r]
    <3>1. SittingsOf(i)' = SittingsOf(i)
      BY <1>1, <2>3, SittingsAtCommit
    <3>2. row.invitation # i
      BY <2>3
    <3>3. numbers(audit', i) = numbers(audit, i)
      <4> HIDE DEF row
      <4> QED
        BY <1>4, <3>2
    <3> QED
      BY <2>1, <3>1, <3>3
  <2> QED
    BY <2>2, <2>3
<1>9. \A i \in Invitations : Cardinality(SittingsOf(i)') = Cardinality(SittingsOf(i))'
  OBVIOUS
<1> QED
  BY <1>6, <1>7, <1>8, <1>9 DEF AuditInv, AuditAccountsForSittings

LEMMA AuditStep == IndInv /\ AuditInv /\ [Next]_vars => AuditInv'
<1> SUFFICES ASSUME IndInv, AuditInv, [Next]_vars PROVE AuditInv'
  OBVIOUS
<1>1. CASE /\ attempts' = attempts /\ audit' = audit
           /\ \A q \in attempts : token'[q] = token[q]
  <2>1. \A i : SittingsOf(i)' = SittingsOf(i)
    BY <1>1, SittingsUnchanged
  <2> QED
    BY <1>1, <2>1 DEF AuditInv, AuditAccountsForSittings
<1> QED
  BY <1>1, TablesChangeAtCommit, AuditAtCommit

(* Every committed attempt has its audit row, no other row is there, and   *)
(* the sittings of an invitation are numbered 1, 2, .. without gap or      *)
(* repeat, whatever raced, crashed or rolled back.                         *)
THEOREM AuditIsComplete == Spec => []AuditAccountsForSittings
<1>1. Init => AuditInv
  <2> SUFFICES ASSUME Init PROVE AuditInv
    OBVIOUS
  <2>1. attempts = {} /\ audit = {} /\ \A i : SittingsOf(i) = {}
    BY DEF Init, SittingsOf
  <2>2. 1 .. 0 = {}
    OBVIOUS
  <2> QED
    BY <2>1, <2>2, FS_EmptySet DEF AuditInv, AuditAccountsForSittings
<1>2. AuditInv => AuditAccountsForSittings
  BY DEF AuditInv
<1> QED
  BY <1>1, <1>2, AuditStep, Invariance, PTL DEF Spec
(* The answers: one request is answered at a time, a token is answered     *)
(* only with a commit, and a refusal is never given to a request that has  *)
(* committed.                                                              *)
AnswerInv == OutcomeMatchesTable /\ Unanswered

LEMMA AnswerStep == IndInv /\ AnswerInv /\ [Next]_vars => AnswerInv'
<1> SUFFICES ASSUME IndInv, AnswerInv, [Next]_vars PROVE AnswerInv'
  OBVIOUS
<1> DEFINE served == {r \in Requests : outcome[r] = "ok"}
<1>1. /\ pc \in [Requests -> {"idle", "routed", "waiting", "done"} \cup Holding]
      /\ outcome \in [Requests -> {"pending", "ok", "error"} \cup Refusals]
      /\ attempts \subseteq Requests
      /\ \A r \in attempts : pc[r] = "done"
      /\ \A r \in Requests : /\ pc[r] # "done" => outcome[r] = "pending"
                             /\ outcome[r] = "ok" => r \in attempts
                             /\ outcome[r] \in Refusals => r \notin attempts
      /\ redeemed = Cardinality(served)
  BY DEF IndInv, TypeOK, CommittedAreDone, AnswerInv, OutcomeMatchesTable, Unanswered
<1>2. IsFiniteSet(served)
  BY RequestsFinite, FS_Subset
<1>3. ASSUME NEW r \in Requests, Commit(r) PROVE AnswerInv'
  <2>1. /\ pc[r] = "audited" /\ pc' = [pc EXCEPT ![r] = "done"]
        /\ outcome' = [outcome EXCEPT ![r] = "ok"] /\ attempts' = attempts \cup {r}
        /\ redeemed' = redeemed + 1
    BY <1>3 DEF Commit, CommitRows
  <2>2. served' = served \cup {r} /\ r \notin served
    BY <1>1, <2>1
  <2>3. redeemed' = Cardinality(served')
    BY <1>1, <1>2, <2>1, <2>2, FS_AddElement
  <2>4. Unanswered'
    BY <1>1, <2>1 DEF Unanswered
  <2>5. \A q \in Requests : /\ outcome'[q] = "ok" => q \in attempts'
                            /\ outcome'[q] \in Refusals => q \notin attempts'
    BY <1>1, <2>1 DEF Refusals
  <2>6. redeemed' = Cardinality({q \in Requests : outcome'[q] = "ok"})
    BY <2>3
  <2> QED
    BY <2>4, <2>5, <2>6 DEF AnswerInv, OutcomeMatchesTable
<1>4. ASSUME NEW r \in Requests, pc[r] # "done", pc' = [pc EXCEPT ![r] = "done"],
             NEW a \in {"error"} \cup Refusals, outcome' = [outcome EXCEPT ![r] = a],
             redeemed' = redeemed,
             attempts' = attempts \/ (a = "error" /\ attempts' = attempts \cup {r})
      PROVE  AnswerInv'
  <2>1. served' = served
    BY <1>1, <1>4 DEF Refusals
  <2>2. Unanswered'
    BY <1>1, <1>4 DEF Unanswered
  <2>3. \A q \in Requests : /\ outcome'[q] = "ok" => q \in attempts'
                            /\ outcome'[q] \in Refusals => q \notin attempts'
    BY <1>1, <1>4 DEF Refusals
  <2> QED
    BY <1>1, <1>4, <2>1, <2>2, <2>3 DEF AnswerInv, OutcomeMatchesTable
<1>5. ASSUME outcome' = outcome, redeemed' = redeemed, attempts' = attempts,
             \A q \in Requests : pc'[q] # "done" => pc[q] # "done"
      PROVE  AnswerInv'
  BY <1>1, <1>5 DEF AnswerInv, OutcomeMatchesTable, Unanswered
<1>6. ASSUME NEW r \in Requests, RequestStep(r) PROVE AnswerInv'
  <2>1. CASE RefuseMalformed(r) \/ FindVanished(r)
    <3>1. PICK a \in {"malformed", "no_such_invitation"} : outcome' = [outcome EXCEPT ![r] = a]
      BY <2>1 DEF RefuseMalformed, FindVanished
    <3>2. /\ pc[r] # "done" /\ pc' = [pc EXCEPT ![r] = "done"]
          /\ attempts' = attempts /\ redeemed' = redeemed
      BY <2>1 DEF RefuseMalformed, FindVanished, tableVars
    <3> QED
      BY <1>4, <3>1, <3>2 DEF Refusals
  <2>2. ASSUME NEW i \in Invitations \cup {NoInvitation}, FindOrgByTokenHash(r, i)
        PROVE  AnswerInv'
    <3>1. CASE i \in rows
      BY <1>1, <1>5, <2>2, <3>1 DEF FindOrgByTokenHash, tableVars
    <3>2. CASE i \notin rows
      BY <1>4, <2>2, <3>2 DEF FindOrgByTokenHash, tableVars, Refusals
    <3> QED
      BY <3>1, <3>2
  <2>3. CASE SelectInvitation(r) \/ LockInvitation(r) \/ CountSittings(r)
             \/ CreateAttempt(r) \/ RecordRedemption(r)
    BY <1>1, <1>5, <2>3 DEF SelectInvitation, LockInvitation, CountSittings, CreateAttempt,
       RecordRedemption, tableVars
  <2>4. CASE Refuse(r)
    <3>1. Verdict(r) \in Refusals
      BY <2>4 DEF Refuse, Verdict, Refusals
    <3>2. /\ pc[r] # "done" /\ pc' = [pc EXCEPT ![r] = "done"]
          /\ outcome' = [outcome EXCEPT ![r] = Verdict(r)]
          /\ attempts' = attempts /\ redeemed' = redeemed
      BY <2>4 DEF Refuse, tableVars
    <3> QED
      BY <1>4, <3>1, <3>2
  <2>5. CASE CommitUnacknowledged(r)
    BY <1>4, <2>5 DEF CommitUnacknowledged, CommitRows
  <2>6. CASE Rollback(r)
    BY <1>4, <2>6 DEF Rollback, tableVars, Holding
  <2> QED
    BY <1>3, <1>6, <2>1, <2>2, <2>3, <2>4, <2>5, <2>6 DEF RequestStep
<1>7. ASSUME Tick \/ WithdrawAssessment \/ UNCHANGED vars
               \/ \E i \in Invitations : RevokeInvitation(i)
      PROVE  AnswerInv'
  BY <1>5, <1>7 DEF Tick, WithdrawAssessment, RevokeInvitation, vars, tableVars, requestVars
<1> QED
  BY <1>6, <1>7 DEF Next

(* A caller holds a token only for an attempt in the table, a refusal has  *)
(* consumed nothing, and the metric counts the callers that hold a token.  *)
THEOREM AnswersMatchTheTable == Spec => []OutcomeMatchesTable
<1>1. Init => AnswerInv
  <2> SUFFICES ASSUME Init PROVE AnswerInv
    OBVIOUS
  <2>1. {r \in Requests : outcome[r] = "ok"} = {}
    BY DEF Init
  <2> QED
    BY <2>1, FS_EmptySet DEF Init, AnswerInv, OutcomeMatchesTable, Unanswered, Refusals
<1>2. AnswerInv => OutcomeMatchesTable
  BY DEF AnswerInv
<1> QED
  BY <1>1, <1>2, AnswerStep, Invariance, PTL DEF Spec

(* The clock: the window is asked under the lock, in the transaction that  *)
(* inserts, and the token is minted after the decision.                    *)
WindowInv == SittingInsideWindow /\ DecidedInTime

LEMMA WindowStep == IndInv /\ WindowInv /\ [Next]_vars => WindowInv'
<1> SUFFICES ASSUME IndInv, WindowInv, [Next]_vars PROVE WindowInv'
  OBVIOUS
<1> USE ColumnTypes
<1>1. /\ pc \in [Requests -> {"idle", "routed", "waiting", "done"} \cup Holding]
      /\ token \in [Requests -> Invitations \cup {NoInvitation}]
      /\ at \in [Requests -> Nat] /\ minted \in [Requests -> Nat] /\ now \in Nat
      /\ attempts \subseteq Requests
      /\ \A r \in attempts : pc[r] = "done" /\ token[r] \in Invitations
      /\ \A r \in Requests : pc[r] \in {"routed", "waiting"} \cup Holding => token[r] \in Invitations
  BY DEF IndInv, TypeOK, CommittedAreDone, LockDiscipline
<1>2. ASSUME NEW r \in Requests, CreateAttempt(r) PROVE WindowInv'
  <2>1. token[r] \in Invitations
    BY <1>1, <1>2 DEF CreateAttempt, Holding
  <2>2. now >= OpensAt[token[r]] /\ now < ExpiresAt[token[r]]
    <3>1. ~(now < OpensAt[token[r]]) /\ ~(now >= ExpiresAt[token[r]])
      BY <1>2 DEF CreateAttempt, Verdict
    <3>2. OpensAt[token[r]] \in Nat /\ ExpiresAt[token[r]] \in Nat
      BY <2>1
    <3> QED
      BY <1>1, <3>1, <3>2
  <2>3. /\ at' = [at EXCEPT ![r] = now] /\ pc' = [pc EXCEPT ![r] = "inserted"]
        /\ pc[r] = "counted" /\ now' = now /\ token' = token /\ minted' = minted
        /\ attempts' = attempts
    BY <1>2 DEF CreateAttempt, tableVars
  <2> QED
    BY <1>1, <2>2, <2>3 DEF WindowInv, SittingInsideWindow, DecidedInTime, Dated, LongEnough
<1>3. ASSUME NEW r \in Requests, RecordRedemption(r) PROVE WindowInv'
  <2>1. /\ minted' = [minted EXCEPT ![r] = now + AttemptTokenLife]
        /\ pc[r] = "inserted" /\ pc' = [pc EXCEPT ![r] = "audited"]
        /\ now' = now /\ token' = token /\ at' = at /\ attempts' = attempts
    BY <1>3 DEF RecordRedemption, tableVars
  <2>2. at[r] <= now
    BY <2>1 DEF WindowInv, DecidedInTime, Dated
  <2>3. StartWindow + Duration + Tail <= MaxLife =>
          now + AttemptTokenLife >= at[r] + StartWindow + Duration
    BY <1>1, <2>2 DEF AttemptTokenLife
  <2>4. now + AttemptTokenLife \in Nat
    BY <1>1, LifeType
  <2> QED
    BY <1>1, <2>1, <2>3, <2>4 DEF WindowInv, SittingInsideWindow, DecidedInTime, Dated, LongEnough
<1>4. ASSUME NEW r \in Requests, Commit(r) \/ CommitUnacknowledged(r) PROVE WindowInv'
  <2>1. /\ pc[r] = "audited" /\ pc' = [pc EXCEPT ![r] = "done"]
        /\ attempts' = attempts \cup {r} /\ now' = now /\ token' = token
        /\ at' = at /\ minted' = minted
    BY <1>4 DEF Commit, CommitUnacknowledged, CommitRows
  <2> QED
    BY <1>1, <2>1 DEF WindowInv, SittingInsideWindow, DecidedInTime, Dated, LongEnough
<1>5. ASSUME at' = at, minted' = minted, attempts' = attempts, now' \in {now, now + 1},
             \A q \in Requests : /\ q \in attempts => token'[q] = token[q]
                                 /\ pc'[q] \in {"inserted", "audited"} =>
                                      pc'[q] = pc[q] /\ token'[q] = token[q]
      PROVE  WindowInv'
  <2>1. now' >= now /\ now' \in Nat
    BY <1>1, <1>5
  <2>2. ASSUME NEW q \in attempts'
        PROVE  at'[q] = at[q] /\ minted'[q] = minted[q] /\ token'[q] = token[q] /\ q \in attempts
    BY <1>1, <1>5, <2>2
  <2>3. SittingInsideWindow'
    BY <2>2 DEF WindowInv, SittingInsideWindow
  <2>4. ASSUME NEW q \in Requests
        PROVE  /\ pc'[q] \in {"inserted", "audited"} => Dated(q)'
               /\ pc'[q] = "audited" => LongEnough(q)'
    <3>1. CASE pc'[q] \in {"inserted", "audited"}
      <4>1. /\ at'[q] = at[q] /\ minted'[q] = minted[q] /\ token'[q] = token[q] /\ pc'[q] = pc[q]
            /\ at[q] \in Nat
        BY <1>1, <1>5, <3>1
      <4> QED
        BY <1>1, <2>1, <3>1, <4>1 DEF WindowInv, DecidedInTime, Dated, LongEnough
    <3> QED
      BY <3>1
  <2> QED
    BY <2>3, <2>4 DEF WindowInv, DecidedInTime
<1>6. ASSUME NEW r \in Requests, RequestStep(r) PROVE WindowInv'
  <2>1. CASE RefuseMalformed(r) \/ SelectInvitation(r) \/ LockInvitation(r) \/ FindVanished(r)
             \/ CountSittings(r)
    BY <1>1, <1>5, <2>1 DEF RefuseMalformed, SelectInvitation, LockInvitation, FindVanished,
       CountSittings, tableVars
  <2>2. CASE Refuse(r) \/ Rollback(r)
    BY <1>1, <1>5, <2>2 DEF Refuse, Rollback, tableVars
  <2>3. ASSUME NEW i \in Invitations \cup {NoInvitation}, FindOrgByTokenHash(r, i)
        PROVE  WindowInv'
    BY <1>1, <1>5, <2>3 DEF FindOrgByTokenHash, tableVars
  <2> QED
    BY <1>2, <1>3, <1>4, <1>6, <2>1, <2>2, <2>3 DEF RequestStep
<1>7. ASSUME Tick \/ WithdrawAssessment \/ UNCHANGED vars
               \/ \E i \in Invitations : RevokeInvitation(i)
      PROVE  WindowInv'
  <2>1. requestVars' = requestVars /\ attempts' = attempts /\ now' \in {now, now + 1}
    BY <1>7 DEF Tick, WithdrawAssessment, RevokeInvitation, vars, tableVars
  <2> QED
    BY <1>5, <2>1 DEF requestVars
<1> QED
  BY <1>6, <1>7 DEF Next

(* A sitting is dated inside its invitation's window however long the      *)
(* request waited for its lock, and its token outlives the assessment.     *)
THEOREM SittingsAreInTime == Spec => []SittingInsideWindow
<1>1. Init => WindowInv
  BY DEF Init, WindowInv, SittingInsideWindow, DecidedInTime
<1>2. WindowInv => SittingInsideWindow
  BY DEF WindowInv
<1> QED
  BY <1>1, <1>2, WindowStep, Invariance, PTL DEF Spec
=============================================================================
