----------------------- MODULE InvitationIssue_proofs -----------------------
(***************************************************************************)
(* Proofs about InvitationIssue, for any number of publishers and batches, *)
(* any pasted lists, allowances, lifetimes and bounds.                     *)
(***************************************************************************)
EXTENDS InvitationIssue, FiniteSetTheorems, WellFoundedInduction, TLAPS

(* Publishing.  The request that has run its UPDATE holds the row's lock   *)
(* and the assessment is still a draft; nobody else gets past the lock.    *)
PublishInv ==
    /\ publishPc \in [Publishers -> {"idle", "read", "checked", "updated", "done"}]
    /\ publishAnswer \in [Publishers -> {"none", "invalid", "conflict", "ok", "error"}]
    /\ published \in BOOLEAN
    /\ publishAudit \subseteq Publishers
    /\ \A p \in Publishers :
         /\ publishPc[p] = "updated" => publishLock = p /\ ~published
         /\ publishAnswer[p] = "ok" => p \in publishAudit
    /\ published <=> publishAudit # {}
    /\ \A p, q \in publishAudit : p = q

LEMMA PublishStart == Init => PublishInv
<1> SUFFICES ASSUME Init PROVE PublishInv
  OBVIOUS
<1>1. ~published /\ publishAudit = {}
  BY DEF Init
<1>2. \A p \in Publishers : publishPc[p] = "idle" /\ publishAnswer[p] = "none"
  BY DEF Init
<1>3. /\ publishPc \in [Publishers -> {"idle", "read", "checked", "updated", "done"}]
      /\ publishAnswer \in [Publishers -> {"none", "invalid", "conflict", "ok", "error"}]
      /\ published \in BOOLEAN
  BY DEF Init
<1> QED
  BY <1>1, <1>2, <1>3 DEF PublishInv

LEMMA PublishInvStep == PublishInv /\ [Next]_vars => PublishInv'
<1> SUFFICES ASSUME PublishInv, [Next]_vars PROVE PublishInv'
  OBVIOUS
<1> USE IssueConstants DEF PublishInv
<1>1. ASSUME NEW p \in Publishers, RefusePublish(p) PROVE PublishInv'
  BY <1>1 DEF RefusePublish
<1>2. ASSUME NEW p \in Publishers, ReadPublishState(p) PROVE PublishInv'
  BY <1>2 DEF ReadPublishState
<1>3. ASSUME NEW p \in Publishers, CheckShortfalls(p) PROVE PublishInv'
  BY <1>3 DEF CheckShortfalls
<1>4. ASSUME NEW p \in Publishers, PublishAssessment(p) PROVE PublishInv'
  BY <1>4 DEF PublishAssessment, StillDraft
<1>5. ASSUME NEW p \in Publishers, NEW ack \in BOOLEAN, CommitPublish(p, ack)
      PROVE  PublishInv'
  <2>1. publishAudit' = {p} /\ publishAudit = {}
    BY <1>5 DEF CommitPublish
  <2> QED
    BY <1>5, <2>1 DEF CommitPublish
<1>6. ASSUME NEW p \in Publishers, RollbackPublish(p) PROVE PublishInv'
  BY <1>6 DEF RollbackPublish
<1>7. CASE UNCHANGED publishVars
  BY <1>7 DEF publishVars
<1>8. ASSUME NEW b \in Batches, OpenBatch(b) \/ BatchStep(b) \/ RollbackBatch(b)
      PROVE  UNCHANGED publishVars
  BY <1>8 DEF OpenBatch, BatchStep, CheckPublished, LiveInvitedEmails, PassOver,
              UpsertCandidate, IssueInvitation, CommitBatch, RollbackBatch
<1>9. CASE (\E i \in invitations : Sit(i)) \/ Tick \/ BankMoves
  BY <1>9, <1>7 DEF Sit, Tick, BankMoves
<1>10. CASE UNCHANGED vars
  BY <1>10, <1>7 DEF vars
<1> QED
  BY <1>1, <1>2, <1>3, <1>4, <1>5, <1>6, <1>7, <1>8, <1>9, <1>10
     DEF Next, PublishStep

(* Two requests to publish at once: one UPDATE finds a draft, one audit    *)
(* row is written, and only its request is told that it worked.            *)
THEOREM OnePublish == Spec => []PublishedOnce
<1>1. PublishInv => PublishedOnce
  <2> SUFFICES ASSUME PublishInv PROVE PublishedOnce
    OBVIOUS
  <2>1. CASE publishAudit = {}
    BY <2>1, FS_EmptySet DEF PublishInv, PublishedOnce
  <2>2. ASSUME NEW p \in publishAudit PROVE PublishedOnce
    <3>1. publishAudit = {p}
      BY <2>2 DEF PublishInv
    <3>2. Cardinality(publishAudit) = 1
      BY <3>1, FS_Singleton
    <3> QED
      BY <3>1, <3>2 DEF PublishInv, PublishedOnce
  <2> QED
    BY <2>1, <2>2
<1> QED
  BY <1>1, PublishStart, PublishInvStep, PTL DEF Spec

-----------------------------------------------------------------------------
(* The list.  What a batch has done so far is what its place on the list   *)
(* says: each address it passed for the first time is issued or skipped,   *)
(* and nothing else is.                                                    *)

FirstTime(b, n) == \A m \in 1 .. n - 1 : Lower[Pasted[b][m]] # Lower[Pasted[b][n]]

Firsts(b, k) == {n \in 1 .. k - 1 : FirstTime(b, n)}

BatchTypes ==
    /\ pc \in [Batches -> {"idle", "opened", "checked", "loop", "seated", "done"}]
    /\ place \in [Batches -> Nat \ {0}]
    /\ DOMAIN draft = Batches /\ DOMAIN live = Batches
    /\ \A b \in Batches :
         /\ DOMAIN draft[b] = {"issued", "skipped", "opening", "applications"}
         /\ place[b] <= Len(Pasted[b]) + 1

Sorted(b) ==
    /\ \A i \in draft[b].issued : i = <<b, i[2]>> /\ i[2] \in Firsts(b, place[b])
    /\ draft[b].skipped \subseteq Firsts(b, place[b])
    /\ \A i \in draft[b].issued : KeyOf(i) \notin live[b]
    /\ pc[b] \in {"idle", "opened", "checked"} => draft[b] = Empty /\ place[b] = 1
    /\ pc[b] = "seated" =>
         place[b] <= Len(Pasted[b]) /\ ~Seen(b) /\ Here(b) \notin live[b]

Complete(b) ==
    \A n \in Firsts(b, place[b]) : n \in draft[b].skipped <=> <<b, n>> \notin draft[b].issued

ListInv ==
    /\ BatchTypes
    /\ \A b \in Batches : Sorted(b) /\ (pc[b] # "done" => Complete(b))

LEMMA NextFirst ==
    ASSUME NEW b \in Batches, BatchTypes, place[b] <= Len(Pasted[b])
    PROVE  /\ Seen(b) => Firsts(b, place[b] + 1) = Firsts(b, place[b])
           /\ ~Seen(b) => Firsts(b, place[b] + 1) = Firsts(b, place[b]) \cup {place[b]}
           /\ place[b] \notin Firsts(b, place[b])
           /\ place[b] + 1 <= Len(Pasted[b]) + 1 /\ place[b] + 1 \in Nat \ {0}
<1>1. place[b] \in Nat \ {0} /\ Len(Pasted[b]) \in Nat
  BY IssueConstants DEF BatchTypes
<1>2. 1 .. (place[b] + 1) - 1 = (1 .. place[b] - 1) \cup {place[b]}
  BY <1>1
<1>3. Seen(b) <=> ~FirstTime(b, place[b])
  BY DEF Seen, FirstTime, Here
<1>4. place[b] \notin 1 .. place[b] - 1
  BY <1>1
<1>5. Firsts(b, place[b] + 1) =
        Firsts(b, place[b]) \cup {n \in {place[b]} : FirstTime(b, n)}
  BY <1>2 DEF Firsts
<1>6. place[b] + 1 <= Len(Pasted[b]) + 1 /\ place[b] + 1 \in Nat \ {0}
  BY <1>1
<1> QED
  BY <1>3, <1>4, <1>5, <1>6 DEF Firsts

LEMMA ListStart == Init => ListInv
<1> SUFFICES ASSUME Init PROVE ListInv
  OBVIOUS
<1>1. \A b \in Batches : /\ pc[b] = "idle" /\ place[b] = 1 /\ draft[b] = Empty
                         /\ Len(Pasted[b]) \in Nat
  BY IssueConstants DEF Init
<1>2. BatchTypes
  BY <1>1 DEF Init, BatchTypes, Empty
<1>3. ASSUME NEW b \in Batches PROVE Sorted(b) /\ Complete(b)
  <2>1. Firsts(b, place[b]) = {}
    BY <1>1, <1>3 DEF Firsts
  <2>2. draft[b].issued = {} /\ draft[b].skipped = {}
    BY <1>1, <1>3 DEF Empty
  <2> QED
    BY <1>1, <1>3, <2>1, <2>2 DEF Sorted, Complete
<1> QED
  BY <1>2, <1>3 DEF ListInv

(* A step of one batch leaves the others as they were. *)
LEMMA ListMove ==
    ASSUME ListInv, NEW b \in Batches, BatchTypes',
           \A c \in Batches \ {b} : /\ pc'[c] = pc[c] /\ place'[c] = place[c]
                                    /\ draft'[c] = draft[c] /\ live'[c] = live[c],
           Sorted(b)', pc'[b] # "done" => Complete(b)'
    PROVE  ListInv'
<1>1. ASSUME NEW c \in Batches \ {b}
      PROVE  Sorted(c)' /\ (pc'[c] # "done" => Complete(c)')
  BY DEF ListInv, Sorted, Complete, Seen, Here
<1> QED
  BY <1>1 DEF ListInv

LEMMA ListInvStep == ListInv /\ [Next]_vars => ListInv'
<1> SUFFICES ASSUME ListInv, [Next]_vars PROVE ListInv'
  OBVIOUS
<1>1. ASSUME NEW b \in Batches, OpenBatch(b) \/ CheckPublished(b) PROVE ListInv'
  <2>1. /\ UNCHANGED <<place, draft, live>>
        /\ \A c \in Batches \ {b} : pc'[c] = pc[c]
        /\ pc[b] \in {"idle", "opened"} /\ pc'[b] \in {"opened", "checked", "done"}
        /\ BatchTypes'
    BY <1>1 DEF OpenBatch, CheckPublished, ListInv, BatchTypes
  <2>2. Sorted(b)' /\ Complete(b)'
    BY <2>1 DEF ListInv, Sorted, Complete, Seen, Here
  <2> QED
    BY <2>1, <2>2, ListMove
<1>2. ASSUME NEW b \in Batches, LiveInvitedEmails(b) PROVE ListInv'
  <2>1. /\ UNCHANGED <<place, draft>>
        /\ \A c \in Batches \ {b} : pc'[c] = pc[c] /\ live'[c] = live[c]
        /\ pc[b] = "checked" /\ pc'[b] = "loop"
        /\ BatchTypes'
    BY <1>2 DEF LiveInvitedEmails, ListInv, BatchTypes
  <2>2. draft[b].issued = {}
    BY <2>1 DEF ListInv, Sorted, Empty
  <2>3. Sorted(b)' /\ Complete(b)'
    BY <2>1, <2>2 DEF ListInv, Sorted, Complete
  <2> QED
    BY <2>1, <2>3, ListMove
<1>3. ASSUME NEW b \in Batches, PassOver(b) PROVE ListInv'
  <2>1. /\ UNCHANGED <<pc, live>>
        /\ \A c \in Batches \ {b} : place'[c] = place[c] /\ draft'[c] = draft[c]
        /\ pc[b] = "loop" /\ place[b] <= Len(Pasted[b]) /\ place'[b] = place[b] + 1
        /\ DOMAIN draft' = Batches /\ DOMAIN draft'[b] = DOMAIN draft[b]
        /\ draft'[b].issued = draft[b].issued
        /\ draft'[b].skipped =
             IF Seen(b) THEN draft[b].skipped ELSE draft[b].skipped \cup {place[b]}
        /\ place' \in [Batches -> Nat \ {0}]
    BY <1>3 DEF PassOver, ListInv, BatchTypes
  <2>2. BatchTypes'
    BY <2>1, NextFirst DEF ListInv, BatchTypes
  <2>3. /\ Seen(b) => Firsts(b, place'[b]) = Firsts(b, place[b])
        /\ ~Seen(b) => Firsts(b, place'[b]) = Firsts(b, place[b]) \cup {place[b]}
        /\ place[b] \notin Firsts(b, place[b])
    BY <2>1, NextFirst DEF ListInv
  <2>4. Sorted(b)'
    BY <2>1, <2>3 DEF ListInv, Sorted
  <2>5. <<b, place[b]>> \notin draft[b].issued
    BY <2>3 DEF ListInv, Sorted
  <2>6. Complete(b)'
    BY <2>1, <2>3, <2>5 DEF ListInv, Sorted, Complete
  <2> QED
    BY <2>1, <2>2, <2>4, <2>6, ListMove
<1>4. ASSUME NEW b \in Batches, UpsertCandidate(b) PROVE ListInv'
  <2>1. /\ UNCHANGED <<place, draft, live>>
        /\ \A c \in Batches \ {b} : pc'[c] = pc[c]
        /\ pc[b] = "loop" /\ pc'[b] = "seated"
        /\ place[b] <= Len(Pasted[b]) /\ ~Seen(b) /\ Here(b) \notin live[b]
        /\ BatchTypes'
    BY <1>4 DEF UpsertCandidate, ListInv, BatchTypes
  <2>2. Sorted(b)' /\ Complete(b)'
    BY <2>1 DEF ListInv, Sorted, Complete, Seen, Here
  <2> QED
    BY <2>1, <2>2, ListMove
<1>5. ASSUME NEW b \in Batches, IssueInvitation(b) PROVE ListInv'
  <2>0. \E o, a : draft' = [draft EXCEPT ![b].opening = o, ![b].applications = a,
                                         ![b].issued = @ \cup {<<b, place[b]>>}]
    BY <1>5 DEF IssueInvitation
  <2>1. /\ UNCHANGED live
        /\ \A c \in Batches \ {b} :
             pc'[c] = pc[c] /\ place'[c] = place[c] /\ draft'[c] = draft[c]
        /\ pc[b] = "seated" /\ pc'[b] = "loop" /\ place'[b] = place[b] + 1
        /\ DOMAIN draft' = Batches /\ DOMAIN draft'[b] = DOMAIN draft[b]
        /\ draft'[b].issued = draft[b].issued \cup {<<b, place[b]>>}
        /\ draft'[b].skipped = draft[b].skipped
        /\ place' \in [Batches -> Nat \ {0}]
        /\ pc' \in [Batches -> {"idle", "opened", "checked", "loop", "seated", "done"}]
    <3>1. /\ UNCHANGED live
          /\ pc[b] = "seated" /\ pc' = [pc EXCEPT ![b] = "loop"]
          /\ place' = [place EXCEPT ![b] = @ + 1]
      BY <1>5 DEF IssueInvitation
    <3> QED
      BY <2>0, <3>1 DEF ListInv, BatchTypes
  <2>2. place[b] <= Len(Pasted[b]) /\ ~Seen(b) /\ Here(b) \notin live[b]
    BY <2>1 DEF ListInv, Sorted
  <2>3. BatchTypes'
    BY <2>1, <2>2, NextFirst DEF ListInv, BatchTypes
  <2>4. /\ Firsts(b, place'[b]) = Firsts(b, place[b]) \cup {place[b]}
        /\ place[b] \notin Firsts(b, place[b])
    BY <2>1, <2>2, NextFirst DEF ListInv
  <2>5. KeyOf(<<b, place[b]>>) = Here(b)
    BY DEF KeyOf, Here
  <2>6. Sorted(b)'
    <3>1. \A i \in draft'[b].issued : i = <<b, i[2]>> /\ i[2] \in Firsts(b, place'[b])
      BY <2>1, <2>4 DEF ListInv, Sorted
    <3>2. draft'[b].skipped \subseteq Firsts(b, place'[b])
      BY <2>1, <2>4 DEF ListInv, Sorted
    <3>3. \A i \in draft'[b].issued : KeyOf(i) \notin live'[b]
      BY <2>1, <2>2, <2>5 DEF ListInv, Sorted
    <3> QED
      BY <2>1, <3>1, <3>2, <3>3 DEF Sorted
  <2>7. place[b] \notin draft[b].skipped
    BY <2>4 DEF ListInv, Sorted
  <2>8. Complete(b)'
    BY <2>1, <2>4, <2>7 DEF ListInv, Sorted, Complete
  <2> QED
    BY <2>1, <2>3, <2>6, <2>8, ListMove
<1>6. ASSUME NEW b \in Batches, CommitBatch(b) PROVE ListInv'
  <2>1. /\ UNCHANGED <<place, draft, live>>
        /\ \A c \in Batches \ {b} : pc'[c] = pc[c]
        /\ pc'[b] = "done"
        /\ BatchTypes'
    BY <1>6 DEF CommitBatch, ListInv, BatchTypes
  <2>2. Sorted(b)'
    BY <2>1 DEF ListInv, Sorted
  <2> QED
    BY <2>1, <2>2, ListMove
<1>7. ASSUME NEW b \in Batches, RollbackBatch(b) PROVE ListInv'
  <2>1. /\ UNCHANGED <<place, live>>
        /\ \A c \in Batches \ {b} : pc'[c] = pc[c] /\ draft'[c] = draft[c]
        /\ pc'[b] = "done" /\ draft'[b] = Empty
        /\ BatchTypes'
    BY <1>7 DEF RollbackBatch, ListInv, BatchTypes, Empty
  <2>2. Sorted(b)'
    BY <2>1 DEF Sorted, Empty
  <2> QED
    BY <2>1, <2>2, ListMove
<1>8. CASE UNCHANGED <<pc, place, draft, live>>
  BY <1>8 DEF ListInv, BatchTypes, Sorted, Complete, Seen, Here
<1>9. ASSUME NEW p \in Publishers, PublishStep(p) \/ RollbackPublish(p)
      PROVE  UNCHANGED <<pc, place, draft, live>>
  BY <1>9 DEF PublishStep, RefusePublish, ReadPublishState, CheckShortfalls,
              PublishAssessment, CommitPublish, RollbackPublish, batchVars
<1>10. CASE (\E i \in invitations : Sit(i)) \/ Tick \/ BankMoves
  BY <1>10, <1>8 DEF Sit, Tick, BankMoves, batchVars
<1>11. CASE UNCHANGED vars
  BY <1>11, <1>8 DEF vars, batchVars
<1> QED
  BY <1>1, <1>2, <1>3, <1>4, <1>5, <1>6, <1>7, <1>8, <1>9, <1>10, <1>11
     DEF Next, BatchStep

-----------------------------------------------------------------------------
(* The tables.  What is in them was put there by the commit of a batch     *)
(* that had come to the end of its list.                                   *)

Filed ==
    /\ IsFiniteSet(audit)
    /\ \A a \in audit :
         /\ a.by \in Batches /\ pc[a.by] = "done" /\ Complete(a.by)
         /\ place[a.by] = Len(Pasted[a.by]) + 1
         /\ a = AuditOf(a.by)
         /\ draft[a.by].issued \subseteq invitations
    /\ \A i \in invitations :
         i \in draft[i[1]].issued /\ \E a \in audit : a.by = i[1]

LEMMA FiledStart == Init => Filed
BY FS_EmptySet DEF Init, Filed

(* Nothing of a batch that has ended changes any more. *)
LEMMA FiledKept ==
    ASSUME ListInv, Filed, UNCHANGED <<audit, invitations>>,
           \A c \in Batches : pc[c] = "done" =>
               pc'[c] = pc[c] /\ place'[c] = place[c] /\ draft'[c] = draft[c]
    PROVE  Filed'
<1>1. ASSUME NEW a \in audit
      PROVE  /\ a.by \in Batches /\ pc'[a.by] = "done" /\ Complete(a.by)'
             /\ place'[a.by] = Len(Pasted[a.by]) + 1
             /\ a = AuditOf(a.by)'
             /\ draft'[a.by].issued \subseteq invitations
  <2>1. PICK b \in Batches : b = a.by
    BY DEF Filed
  <2>2. pc'[b] = pc[b] /\ place'[b] = place[b] /\ draft'[b] = draft[b]
    BY <2>1 DEF Filed
  <2> QED
    BY <2>1, <2>2 DEF Filed, Complete, AuditOf
<1>2. ASSUME NEW i \in invitations
      PROVE  i \in draft'[i[1]].issued /\ \E a \in audit : a.by = i[1]
  BY DEF Filed
<1> QED
  BY <1>1, <1>2 DEF Filed

LEMMA FiledStep == ListInv /\ Filed /\ [Next]_vars => Filed'
<1> SUFFICES ASSUME ListInv, Filed, [Next]_vars PROVE Filed'
  OBVIOUS
<1> USE DEF ListInv, BatchTypes
<1>1. ASSUME NEW b \in Batches,
             \/ OpenBatch(b) \/ CheckPublished(b) \/ LiveInvitedEmails(b) \/ PassOver(b)
             \/ UpsertCandidate(b) \/ IssueInvitation(b) \/ RollbackBatch(b)
      PROVE  Filed'
  <2>1. /\ UNCHANGED <<audit, invitations>>
        /\ pc[b] # "done"
        /\ \A c \in Batches \ {b} :
             pc'[c] = pc[c] /\ place'[c] = place[c] /\ draft'[c] = draft[c]
    BY <1>1 DEF OpenBatch, CheckPublished, LiveInvitedEmails, PassOver,
                UpsertCandidate, IssueInvitation, RollbackBatch, tableVars
  <2> QED
    BY <2>1, FiledKept
<1>2. ASSUME NEW b \in Batches, CommitBatch(b) PROVE Filed'
  <2>1. /\ audit' = audit \cup {AuditOf(b)}
        /\ invitations' = invitations \cup draft[b].issued
        /\ pc[b] = "loop" /\ place[b] > Len(Pasted[b])
        /\ UNCHANGED <<place, draft>>
        /\ \A c \in Batches \ {b} : pc'[c] = pc[c]
        /\ pc'[b] = "done"
    BY <1>2 DEF CommitBatch
  <2>2. place[b] = Len(Pasted[b]) + 1
    <3>1. Len(Pasted[b]) \in Nat /\ place[b] \in Nat
      BY IssueConstants
    <3> QED
      BY <2>1, <3>1
  <2>3. AuditOf(b).by = b /\ AuditOf(b)' = AuditOf(b) /\ Complete(b)'
    BY <2>1 DEF AuditOf, Complete
  <2>4. IsFiniteSet(audit')
    BY <2>1, FS_AddElement DEF Filed
  <2>5. ASSUME NEW a \in audit'
        PROVE  /\ a.by \in Batches /\ pc'[a.by] = "done" /\ Complete(a.by)'
               /\ place'[a.by] = Len(Pasted[a.by]) + 1
               /\ a = AuditOf(a.by)'
               /\ draft'[a.by].issued \subseteq invitations'
    <3>1. CASE a = AuditOf(b)
      BY <2>1, <2>2, <2>3, <3>1
    <3>2. CASE a \in audit
      <4>1. PICK c \in Batches \ {b} : c = a.by
        BY <2>1, <3>2 DEF Filed
      <4>2. Complete(c)' /\ AuditOf(c)' = AuditOf(c) /\ pc'[c] = pc[c]
        BY <2>1, <3>2, <4>1 DEF Filed, Complete, AuditOf
      <4> QED
        BY <2>1, <3>2, <4>1, <4>2 DEF Filed
    <3> QED
      BY <2>1, <3>1, <3>2
  <2>6. ASSUME NEW i \in invitations'
        PROVE  i \in draft'[i[1]].issued /\ \E a \in audit' : a.by = i[1]
    <3>1. CASE i \in draft[b].issued
      <4>1. i[1] = b
        BY <3>1 DEF Sorted
      <4> QED
        BY <2>1, <2>3, <3>1, <4>1
    <3>2. CASE i \in invitations
      BY <2>1, <3>2 DEF Filed
    <3> QED
      BY <2>1, <3>1, <3>2
  <2> QED
    BY <2>4, <2>5, <2>6 DEF Filed
<1>3. CASE UNCHANGED <<audit, invitations, pc, place, draft>>
  BY <1>3, FiledKept
<1>4. ASSUME NEW p \in Publishers, PublishStep(p) \/ RollbackPublish(p)
      PROVE  UNCHANGED <<audit, invitations, pc, place, draft>>
  BY <1>4 DEF PublishStep, RefusePublish, ReadPublishState, CheckShortfalls,
              PublishAssessment, CommitPublish, RollbackPublish, batchVars, tableVars
<1>5. CASE (\E i \in invitations : Sit(i)) \/ Tick \/ BankMoves
  BY <1>5, <1>3 DEF Sit, Tick, BankMoves, batchVars, tableVars
<1>6. CASE UNCHANGED vars
  BY <1>6, <1>3 DEF vars, batchVars, tableVars
<1> QED
  BY <1>1, <1>2, <1>3, <1>4, <1>5, <1>6 DEF Next, BatchStep

-----------------------------------------------------------------------------
(* Counting.  A batch at the end of its list has issued or skipped each    *)
(* address once, at its first place.                                       *)

LEMMA LowestExists ==
    ASSUME NEW S \in SUBSET Nat, S # {}
    PROVE  \E n \in S : \A m \in S : n <= m
<1> DEFINE Less == {p \in Nat \X Nat : p[1] < p[2]}
<1>1. IsWellFoundedOn(Less, Nat)
  BY NatLessThanWellFounded DEF OpToRel
<1>2. PICK n \in S : \A m \in S : <<m, n>> \notin Less
  <2> HIDE DEF Less
  <2> QED
    BY <1>1, WFMin
<1>3. ASSUME NEW m \in S PROVE n <= m
  <2>1. ~ (m < n) /\ m \in Nat /\ n \in Nat
    BY <1>2
  <2> QED
    BY <2>1
<1> QED
  BY <1>3

LEMMA FirstsAreTheAddresses ==
    ASSUME NEW b \in Batches
    PROVE  LET F == Firsts(b, Len(Pasted[b]) + 1)
               K == {Lower[Pasted[b][n]] : n \in DOMAIN Pasted[b]}
           IN  IsFiniteSet(F) /\ IsFiniteSet(K) /\ Cardinality(F) = Cardinality(K)
<1> DEFINE len == Len(Pasted[b])
           F == Firsts(b, len + 1)
           Key == [n \in 1 .. len |-> Lower[Pasted[b][n]]]
           K == {Key[n] : n \in 1 .. len}
           f == [n \in F |-> Key[n]]
<1>1. len \in Nat /\ DOMAIN Pasted[b] = 1 .. len
  BY IssueConstants
<1>2. F = {n \in 1 .. len : \A m \in 1 .. n - 1 : Key[m] # Key[n]}
  <2>1. 1 .. (len + 1) - 1 = 1 .. len
    BY <1>1
  <2>2. \A n \in 1 .. len : \A m \in 1 .. n - 1 : m \in 1 .. len
    BY <1>1
  <2> QED
    BY <2>1, <2>2 DEF Firsts, FirstTime
<1>3. IsFiniteSet(F)
  <2>1. IsFiniteSet(1 .. len)
    BY <1>1, FS_Interval
  <2> QED
    BY <1>2, <2>1, FS_Subset
<1>4. f \in Injection(F, K)
  <2>1. f \in [F -> K]
    BY <1>2
  <2>2. ASSUME NEW n \in F, NEW m \in F, n # m PROVE f[n] # f[m]
    <3>1. n \in 1 .. len /\ m \in 1 .. len /\ (n < m \/ m < n)
      BY <1>1, <1>2, <2>2
    <3>2. CASE n < m
      <4>1. n \in 1 .. m - 1
        BY <3>1, <3>2
      <4> QED
        BY <1>2, <4>1
    <3>3. CASE m < n
      <4>1. m \in 1 .. n - 1
        BY <3>1, <3>3
      <4> QED
        BY <1>2, <4>1
    <3> QED
      BY <3>1, <3>2, <3>3
  <2> HIDE DEF f, F, K
  <2> QED
    BY <2>1, <2>2 DEF Injection, IsInjective
<1>5. f \in Surjection(F, K)
  <2>1. f \in [F -> K]
    BY <1>2
  <2>2. ASSUME NEW k \in K PROVE \E n \in F : f[n] = k
    <3> DEFINE At == {n \in 1 .. len : Key[n] = k}
    <3>1. At # {} /\ At \subseteq Nat
      BY <1>1
    <3>2. PICK n \in At : \A m \in At : n <= m
      <4> HIDE DEF At
      <4> QED
        BY <3>1, LowestExists
    <3>3. \A m \in 1 .. n - 1 : Key[m] # Key[n]
      <4>1. n \in 1 .. len
        OBVIOUS
      <4>2. ASSUME NEW m \in 1 .. n - 1 PROVE m \in 1 .. len /\ ~ (n <= m)
        BY <1>1, <4>1
      <4> QED
        BY <3>2, <4>2
    <3>4. n \in F /\ f[n] = k
      BY <1>2, <3>2, <3>3
    <3> QED
      BY <3>4
  <2> HIDE DEF f, F, K
  <2> QED
    BY <2>1, <2>2 DEF Surjection
<1>6. IsFiniteSet(K) /\ Cardinality(K) = Cardinality(F)
  <2> HIDE DEF f, F, K
  <2>1. ExistsBijection(F, K)
    BY <1>4, <1>5 DEF ExistsBijection, Bijection
  <2> QED
    BY <1>3, <2>1, FS_Bijection
<1>7. K = {Lower[Pasted[b][n]] : n \in DOMAIN Pasted[b]}
  BY <1>1
<1> QED
  BY <1>3, <1>6, <1>7

LEMMA EndOfList ==
    ASSUME NEW b \in Batches, Sorted(b), Complete(b), place[b] = Len(Pasted[b]) + 1
    PROVE  Cardinality(draft[b].issued) + Cardinality(draft[b].skipped) =
             Cardinality({Lower[Pasted[b][n]] : n \in DOMAIN Pasted[b]})
<1> DEFINE F == Firsts(b, Len(Pasted[b]) + 1)
           P == {n \in F : <<b, n>> \in draft[b].issued}
           S == draft[b].skipped
           f == [n \in P |-> <<b, n>>]
<1>1. /\ IsFiniteSet(F)
      /\ Cardinality(F) = Cardinality({Lower[Pasted[b][n]] : n \in DOMAIN Pasted[b]})
  BY FirstsAreTheAddresses
<1>2. P \cup S = F /\ P \cap S = {}
  BY DEF Sorted, Complete
<1> HIDE DEF F
<1>3. IsFiniteSet(P) /\ IsFiniteSet(S)
  BY <1>1, <1>2, FS_Subset
<1>4. ExistsBijection(P, draft[b].issued)
  <2>1. \A i \in draft[b].issued : i[2] \in P /\ i = <<b, i[2]>>
    BY DEF Sorted, F
  <2>2. f \in [P -> draft[b].issued] /\ \A n, m \in P : f[n] = f[m] => n = m
    OBVIOUS
  <2>3. \A i \in draft[b].issued : \E n \in P : f[n] = i
    BY <2>1
  <2> HIDE DEF f, P
  <2>4. f \in Injection(P, draft[b].issued)
    BY <2>2 DEF Injection, IsInjective
  <2>5. f \in Surjection(P, draft[b].issued)
    BY <2>2, <2>3 DEF Surjection
  <2> QED
    BY <2>4, <2>5 DEF ExistsBijection, Bijection
<1>4a. S = draft[b].skipped
  OBVIOUS
<1> HIDE DEF P, S, f
<1>5. Cardinality(draft[b].issued) = Cardinality(P)
  BY <1>3, <1>4, FS_Bijection
<1>6. Cardinality(P \cup S) = Cardinality(P) + Cardinality(S) - Cardinality(P \cap S)
  BY <1>3, FS_Union
<1>7. Cardinality(P \cap S) = 0
  BY <1>2, FS_EmptySet
<1>8. Cardinality(P) \in Nat /\ Cardinality(S) \in Nat
  BY <1>3, FS_CardinalityType
<1>8a. Cardinality(F) = Cardinality(P \cup S)
  BY <1>2
<1>9. Cardinality(F) = Cardinality(P) + Cardinality(S)
  BY <1>6, <1>7, <1>8, <1>8a
<1> QED
  BY <1>1, <1>4a, <1>5, <1>9

(* The audit row of a batch counts the invitations that are in the table,  *)
(* and with the skipped ones they are the different people on the list.    *)
THEOREM CountsAreTrue == Spec => []AuditCountsTrue
<1>1. ListInv /\ Filed => AuditCountsTrue
  <2> SUFFICES ASSUME ListInv, Filed, NEW a \in audit
               PROVE  /\ a.issued = Cardinality({i \in invitations : i[1] = a.by})
                      /\ a.issued + a.skipped =
                           Cardinality({Lower[Pasted[a.by][n]] : n \in DOMAIN Pasted[a.by]})
    BY DEF AuditCountsTrue
  <2>1. PICK b \in Batches : b = a.by
    BY DEF Filed
  <2>2. /\ Complete(b) /\ Sorted(b) /\ place[b] = Len(Pasted[b]) + 1
        /\ a = AuditOf(b) /\ draft[b].issued \subseteq invitations
    BY <2>1 DEF Filed, ListInv
  <2>3. {i \in invitations : i[1] = b} = draft[b].issued
    BY <2>2 DEF Filed, Sorted
  <2>4. a.issued = Cardinality(draft[b].issued) /\ a.skipped = Cardinality(draft[b].skipped)
    BY <2>2 DEF AuditOf
  <2> QED
    BY <2>1, <2>2, <2>3, <2>4, EndOfList
<1> QED
  BY <1>1, ListStart, ListInvStep, FiledStart, FiledStep, PTL DEF Spec

-----------------------------------------------------------------------------
(* What a batch read.  An invitation whose batch had committed before      *)
(* another batch read the live addresses is among what that one passes     *)
(* over, unless it was no longer live at the instant the read was made     *)
(* for.  Neither the clock nor a sitting makes it live again.              *)

ClockTypes ==
    /\ now \in Nat
    /\ issuedAt \in [Batches -> Nat]
    /\ readNo \in [Batches -> Nat] /\ commitNo \in [Batches -> Nat]
    /\ DOMAIN live = Batches /\ DOMAIN sittings = Batches
    /\ \A b \in Batches : sittings[b] \in [DOMAIN Pasted[b] -> Nat]

Numbered ==
    /\ \A b \in Batches :
         /\ issuedAt[b] <= now
         /\ readNo[b] <= Cardinality(audit) /\ commitNo[b] <= Cardinality(audit)
         /\ pc[b] \in {"idle", "opened", "checked"} => readNo[b] = 0
    /\ \A k \in invitations : commitNo[k[1]] >= 1

Read(b, k) ==
    commitNo[k[1]] <= readNo[b] => KeyOf(k) \in live[b] \/ ~Live(k, issuedAt[b])

ReadInv ==
    /\ ClockTypes
    /\ Numbered
    /\ \A b \in Batches : \A k \in invitations : Read(b, k)

LEMMA ReadStart == Init => ReadInv
<1> SUFFICES ASSUME Init PROVE ReadInv
  OBVIOUS
<1>1. Cardinality(audit) = 0 /\ invitations = {}
  BY FS_EmptySet DEF Init
<1>2. ClockTypes
  BY DEF Init, ClockTypes
<1> QED
  BY <1>1, <1>2 DEF Init, ReadInv, Numbered

(* An invitation in the table is a place on the list of a batch that ended. *)
LEMMA Issued ==
    ASSUME ListInv, Filed, ClockTypes, NEW k \in invitations
    PROVE  /\ k[1] \in Batches /\ pc[k[1]] = "done" /\ k[2] \in DOMAIN Pasted[k[1]]
           /\ KeyOf(k) \notin live[k[1]]
           /\ SittingsTaken(k) \in Nat /\ ExpiresAt(k) \in Nat /\ MaxAttempts[k[1]] \in Nat
<1>1. PICK b \in Batches : k[1] = b /\ pc[b] = "done" /\ k \in draft[b].issued
  BY DEF Filed
<1>2. k[2] \in Firsts(b, place[b]) /\ KeyOf(k) \notin live[b]
  BY <1>1 DEF ListInv, Sorted
<1>3. k[2] \in DOMAIN Pasted[b]
  <2>1. Len(Pasted[b]) \in Nat /\ DOMAIN Pasted[b] = 1 .. Len(Pasted[b])
    BY IssueConstants
  <2>2. place[b] \in Nat /\ place[b] <= Len(Pasted[b]) + 1
    BY DEF ListInv, BatchTypes
  <2> QED
    BY <1>2, <2>1, <2>2 DEF Firsts
<1> QED
  BY <1>1, <1>2, <1>3, IssueConstants DEF ClockTypes, SittingsTaken, ExpiresAt

LEMMA NeverLiveAgain ==
    ASSUME ListInv, Filed, ClockTypes, NEW k \in invitations, NEW t \in Nat, NEW u \in Nat,
           t <= u, issuedAt'[k[1]] = issuedAt[k[1]], SittingsTaken(k)' \in Nat,
           SittingsTaken(k) <= SittingsTaken(k)', ~Live(k, t)
    PROVE  ~(ExpiresAt(k)' > u /\ SittingsTaken(k)' < MaxAttempts[k[1]])
<1>1. ExpiresAt(k)' = ExpiresAt(k)
  BY DEF ExpiresAt
<1>2. SittingsTaken(k) \in Nat /\ ExpiresAt(k) \in Nat /\ MaxAttempts[k[1]] \in Nat
  BY Issued
<1> QED
  BY <1>1, <1>2 DEF Live

(* Most steps change none of what the reads are about. *)
LEMMA ReadKept ==
    ASSUME ListInv, Filed, ReadInv, UNCHANGED <<audit, invitations, readNo, commitNo>>,
           now' \in Nat, now <= now', ClockTypes',
           \A b \in Batches : /\ pc'[b] \in {"idle", "opened", "checked"} =>
                                     pc[b] \in {"idle", "opened", "checked"}
                              /\ issuedAt'[b] <= now'
                              /\ \/ live'[b] = live[b] /\ issuedAt'[b] = issuedAt[b]
                                 \/ readNo[b] = 0
                              /\ pc[b] = "done" => issuedAt'[b] = issuedAt[b],
           \A k \in invitations : SittingsTaken(k) <= SittingsTaken(k)'
    PROVE  ReadInv'
<1>1. Numbered'
  BY DEF ReadInv, Numbered
<1>2. ASSUME NEW b \in Batches, NEW k \in invitations, commitNo[k[1]] <= readNo[b]
      PROVE  KeyOf(k) \in live'[b] \/ ~Live(k, issuedAt[b])'
  <2>1. commitNo[k[1]] >= 1 /\ commitNo[k[1]] \in Nat /\ k[1] \in Batches
        /\ pc[k[1]] = "done" /\ k[2] \in DOMAIN Pasted[k[1]]
    BY Issued DEF ReadInv, Numbered, ClockTypes
  <2>2. readNo[b] # 0
    BY <1>2, <2>1
  <2>3. live'[b] = live[b] /\ issuedAt'[b] = issuedAt[b] /\ issuedAt[b] \in Nat
    BY <2>2 DEF ReadInv, ClockTypes
  <2>4. KeyOf(k) \in live[b] \/ ~Live(k, issuedAt[b])
    BY <1>2 DEF ReadInv, Read
  <2>5. ASSUME ~Live(k, issuedAt[b]) PROVE ~Live(k, issuedAt[b])'
    <3>1. SittingsTaken(k)' \in Nat
      BY <2>1 DEF ClockTypes, SittingsTaken
    <3>2. ~(ExpiresAt(k)' > issuedAt[b] /\ SittingsTaken(k)' < MaxAttempts[k[1]])
      BY <2>1, <2>3, <2>5, <3>1, NeverLiveAgain DEF ReadInv
    <3> QED
      BY <2>3, <3>2 DEF Live
  <2> QED
    BY <2>3, <2>4, <2>5
<1> QED
  BY <1>1, <1>2 DEF ReadInv, Read, KeyOf

LEMMA ReadStep == ListInv /\ Filed /\ ReadInv /\ [Next]_vars => ReadInv'
<1> SUFFICES ASSUME ListInv, Filed, ReadInv, [Next]_vars PROVE ReadInv'
  OBVIOUS
<1> USE DEF ReadInv, ClockTypes, SittingsTaken
<1>1. ASSUME NEW b \in Batches, OpenBatch(b) PROVE ReadInv'
  <2>1. /\ UNCHANGED <<audit, invitations, readNo, commitNo, now, live, sittings>>
        /\ issuedAt' = [issuedAt EXCEPT ![b] = now] /\ pc[b] = "idle"
        /\ pc' = [pc EXCEPT ![b] = "opened"]
    BY <1>1 DEF OpenBatch, tableVars
  <2>2. readNo[b] = 0
    BY <2>1 DEF Numbered
  <2>3. ClockTypes'
    BY <2>1
  <2>4. \A k \in invitations : SittingsTaken(k) <= SittingsTaken(k)'
    BY <2>1, Issued
  <2>5. ASSUME NEW c \in Batches
        PROVE  /\ pc'[c] \in {"idle", "opened", "checked"} =>
                    pc[c] \in {"idle", "opened", "checked"}
               /\ issuedAt'[c] <= now'
               /\ \/ live'[c] = live[c] /\ issuedAt'[c] = issuedAt[c]
                  \/ readNo[c] = 0
               /\ pc[c] = "done" => issuedAt'[c] = issuedAt[c]
    <3>1. CASE c = b
      BY <2>1, <2>2, <3>1
    <3>2. CASE c # b
      BY <2>1, <3>2 DEF Numbered, ListInv, BatchTypes
    <3> QED
      BY <3>1, <3>2
  <2> QED
    BY <2>1, <2>3, <2>4, <2>5, ReadKept
<1>2. ASSUME NEW b \in Batches,
             \/ CheckPublished(b) \/ PassOver(b) \/ UpsertCandidate(b) \/ IssueInvitation(b)
             \/ RollbackBatch(b)
      PROVE  ReadInv'
  <2>1. /\ UNCHANGED <<audit, invitations, readNo, commitNo, now, live, sittings, issuedAt>>
        /\ \A c \in Batches \ {b} : pc'[c] = pc[c]
        /\ pc[b] \in {"opened", "checked"} \/ pc'[b] \notin {"idle", "opened", "checked"}
    BY <1>2 DEF CheckPublished, PassOver, UpsertCandidate, IssueInvitation, RollbackBatch,
                tableVars, ListInv, BatchTypes
  <2>2. \A k \in invitations : SittingsTaken(k) <= SittingsTaken(k)'
    BY <2>1, Issued
  <2> QED
    BY <2>1, <2>2, ReadKept DEF Numbered
<1>3. ASSUME NEW b \in Batches, LiveInvitedEmails(b) PROVE ReadInv'
  <2>1. /\ UNCHANGED <<audit, invitations, commitNo, now, sittings, issuedAt>>
        /\ live' = [live EXCEPT ![b] = LiveEmails(issuedAt[b])]
        /\ readNo' = [readNo EXCEPT ![b] = Cardinality(audit)]
        /\ pc[b] = "checked" /\ pc' = [pc EXCEPT ![b] = "loop"]
    BY <1>3 DEF LiveInvitedEmails, tableVars
  <2>2. Cardinality(audit) \in Nat
    BY FS_CardinalityType DEF Filed
  <2>3. ClockTypes'
    BY <2>1, <2>2
  <2>4. Numbered'
    BY <2>1, <2>2 DEF Numbered, ListInv, BatchTypes
  <2>5. ASSUME NEW c \in Batches, NEW k \in invitations PROVE Read(c, k)'
    <3>1. KeyOf(k)' = KeyOf(k) /\ Live(k, issuedAt[c])' = Live(k, issuedAt[c])
      BY <2>1 DEF KeyOf, Live, ExpiresAt
    <3>2. CASE c = b
      <4>1. live'[b] = LiveEmails(issuedAt[b])
        BY <2>1
      <4> QED
        BY <3>1, <3>2, <4>1 DEF Read, LiveEmails
    <3>3. CASE c # b
      BY <2>1, <3>1, <3>3 DEF Read
    <3> QED
      BY <3>2, <3>3
  <2> QED
    BY <2>1, <2>3, <2>4, <2>5
<1>4. ASSUME NEW b \in Batches, CommitBatch(b) PROVE ReadInv'
  <2>1. /\ UNCHANGED <<now, live, readNo, sittings, issuedAt, draft>>
        /\ audit' = audit \cup {AuditOf(b)}
        /\ invitations' = invitations \cup draft[b].issued
        /\ commitNo' = [commitNo EXCEPT ![b] = Cardinality(audit) + 1]
        /\ pc[b] = "loop" /\ pc' = [pc EXCEPT ![b] = "done"]
    BY <1>4 DEF CommitBatch
  <2>2. Cardinality(audit) \in Nat
    BY FS_CardinalityType DEF Filed
  <2>3. Cardinality(audit') = Cardinality(audit) + 1
    <3>1. AuditOf(b) \notin audit
      BY <2>1 DEF Filed, AuditOf
    <3> QED
      BY <2>1, <3>1, FS_AddElement DEF Filed
  <2>4. ClockTypes'
    BY <2>1, <2>2
  <2>5. \A i \in draft[b].issued : i[1] = b
    BY DEF ListInv, Sorted
  <2>6. Numbered'
    <3>1. ASSUME NEW c \in Batches
          PROVE  /\ issuedAt'[c] <= now'
                 /\ readNo'[c] <= Cardinality(audit')
                 /\ commitNo'[c] <= Cardinality(audit')
                 /\ pc'[c] \in {"idle", "opened", "checked"} => readNo'[c] = 0
      BY <2>1, <2>2, <2>3 DEF Numbered, ListInv, BatchTypes
    <3>2. ASSUME NEW k \in invitations' PROVE commitNo'[k[1]] >= 1
      <4>1. CASE k[1] = b
        BY <2>1, <2>2, <4>1
      <4>2. CASE k[1] # b
        BY <2>1, <2>5, <4>2, Issued DEF Numbered
      <4> QED
        BY <4>1, <4>2
    <3> QED
      BY <3>1, <3>2 DEF Numbered
  <2>7. ASSUME NEW c \in Batches, NEW k \in invitations' PROVE Read(c, k)'
    <3>1. KeyOf(k)' = KeyOf(k) /\ Live(k, issuedAt[c])' = Live(k, issuedAt[c])
      BY <2>1 DEF KeyOf, Live, ExpiresAt
    <3>2. CASE k[1] = b
      <4>1. commitNo'[k[1]] = Cardinality(audit) + 1 /\ readNo'[c] <= Cardinality(audit)
            /\ readNo'[c] \in Nat
        BY <2>1, <3>2 DEF Numbered
      <4> QED
        BY <2>2, <4>1 DEF Read
    <3>3. CASE k[1] # b
      <4>1. k \in invitations /\ commitNo'[k[1]] = commitNo[k[1]]
        BY <2>1, <2>5, <3>3, Issued
      <4> QED
        BY <2>1, <3>1, <4>1 DEF Read
    <3> QED
      BY <3>2, <3>3
  <2> QED
    BY <2>4, <2>6, <2>7
<1>5. CASE UNCHANGED <<tableVars, sittings, batchVars>> /\ now' \in {now, now + 1}
  <2>1. /\ UNCHANGED <<audit, invitations, readNo, commitNo, live, sittings, issuedAt, pc>>
        /\ now' \in Nat /\ now <= now'
    BY <1>5 DEF tableVars, batchVars
  <2>2. ClockTypes'
    BY <2>1
  <2>3. \A b \in Batches : issuedAt'[b] <= now'
    BY <2>1 DEF Numbered
  <2>4. \A k \in invitations : SittingsTaken(k) <= SittingsTaken(k)'
    BY <2>1, Issued
  <2> QED
    BY <2>1, <2>2, <2>3, <2>4, ReadKept
<1>6. ASSUME NEW i \in invitations, Sit(i) PROVE ReadInv'
  <2>1. /\ UNCHANGED <<audit, invitations, readNo, commitNo, live, now, issuedAt, pc>>
        /\ sittings' = [sittings EXCEPT ![i[1]][i[2]] = @ + 1]
    BY <1>6 DEF Sit, tableVars, batchVars
  <2>2. i[1] \in Batches /\ i[2] \in DOMAIN Pasted[i[1]]
    BY Issued
  <2>3. ClockTypes'
    BY <2>1, <2>2
  <2>4. ASSUME NEW k \in invitations PROVE SittingsTaken(k) <= SittingsTaken(k)'
    BY <2>1, <2>2, Issued
  <2> QED
    BY <2>1, <2>3, <2>4, ReadKept DEF Numbered
<1>7. ASSUME NEW p \in Publishers, PublishStep(p) \/ RollbackPublish(p)
      PROVE  UNCHANGED <<tableVars, sittings, batchVars, now>>
  BY <1>7 DEF PublishStep, RefusePublish, ReadPublishState, CheckShortfalls,
              PublishAssessment, CommitPublish, RollbackPublish
<1>8. CASE Tick \/ BankMoves
  BY <1>8, <1>5 DEF Tick, BankMoves
<1>9. CASE UNCHANGED vars
  BY <1>9, <1>5 DEF vars
<1> QED
  BY <1>1, <1>2, <1>3, <1>4, <1>5, <1>6, <1>7, <1>8, <1>9 DEF Next, BatchStep

(* Two live links to one person come from two batches that overlapped:     *)
(* each had read the live addresses before the other committed.            *)
THEOREM OverlapIsTheOnlyWay == Spec => []DuplicatesOnlyFromOverlap
<1>1. ListInv /\ Filed /\ ReadInv => DuplicatesOnlyFromOverlap
  <2> SUFFICES ASSUME ListInv, Filed, ReadInv,
                      NEW i \in invitations, NEW k \in invitations,
                      i # k, KeyOf(i) = KeyOf(k), Live(i, now), Live(k, now)
               PROVE  i[1] # k[1] /\ readNo[i[1]] < commitNo[k[1]]
                                  /\ readNo[k[1]] < commitNo[i[1]]
    BY DEF DuplicatesOnlyFromOverlap
  <2>1. ASSUME i[1] = k[1] PROVE FALSE
    <3>1. PICK b \in Batches : /\ i = <<b, i[2]>> /\ i[2] \in Firsts(b, place[b])
                               /\ k = <<b, k[2]>> /\ k[2] \in Firsts(b, place[b])
                               /\ place[b] \in Nat
      BY <2>1, Issued DEF Filed, ListInv, BatchTypes, Sorted, ReadInv
    <3>2. i[2] # k[2] /\ Lower[Pasted[b][i[2]]] = Lower[Pasted[b][k[2]]]
      BY <3>1 DEF KeyOf
    <3>3. i[2] \in 1 .. place[b] - 1 /\ k[2] \in 1 .. place[b] - 1
          /\ FirstTime(b, i[2]) /\ FirstTime(b, k[2])
      BY <3>1 DEF Firsts
    <3>4. i[2] \in 1 .. k[2] - 1 \/ k[2] \in 1 .. i[2] - 1
      BY <3>1, <3>2, <3>3
    <3> QED
      BY <3>2, <3>3, <3>4 DEF FirstTime
  <2>2. ASSUME NEW x \in invitations, NEW y \in invitations,
               KeyOf(x) = KeyOf(y), Live(y, now)
        PROVE  readNo[x[1]] < commitNo[y[1]]
    <3>1. /\ x[1] \in Batches /\ y[1] \in Batches /\ KeyOf(x) \notin live[x[1]]
          /\ SittingsTaken(y) \in Nat /\ ExpiresAt(y) \in Nat /\ MaxAttempts[y[1]] \in Nat
      BY Issued DEF ReadInv
    <3>2. issuedAt[x[1]] <= now /\ issuedAt[x[1]] \in Nat /\ now \in Nat
          /\ readNo[x[1]] \in Nat /\ commitNo[y[1]] \in Nat
      BY <3>1 DEF ReadInv, ClockTypes, Numbered
    <3>3. Live(y, issuedAt[x[1]])
      BY <2>2, <3>1, <3>2 DEF Live
    <3>4. ~(commitNo[y[1]] <= readNo[x[1]])
      BY <2>2, <3>1, <3>3 DEF ReadInv, Read
    <3> QED
      BY <3>2, <3>4
  <2> QED
    BY <2>1, <2>2
<1> QED
  BY <1>1, ListStart, ListInvStep, FiledStart, FiledStep, ReadStart, ReadStep, PTL DEF Spec
=============================================================================
