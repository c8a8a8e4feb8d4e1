--------------------------- MODULE InvitationIssue ---------------------------
(***************************************************************************)
(* Publishing one assessment, and issuing invitations to it in batches.    *)
(* Several recruiters do both at once, each request in one audited         *)
(* transaction at READ COMMITTED: a statement sees what has committed      *)
(* before it began, and a row one transaction has written holds back the   *)
(* others until it ends.                                                   *)
(*                                                                         *)
(* An invitation is named by the batch that issued it and its place in the *)
(* pasted list.  What redemption later does with it is in Redemption.tla;  *)
(* here a sitting only counts up.                                          *)
(***************************************************************************)
EXTENDS Integers, FiniteSets, Sequences

CONSTANTS
    Publishers,     \* POST /assessments/:id/publish requests
    Batches,        \* POST /assessments/:id/invitations requests
    Emails,         \* email addresses, compared without case
    Pasted,         \* the list each batch carries: addresses as typed
    Lower,          \* an address as typed, in lower case
    MaxAttempts,    \* max_attempts of each batch
    Lifetime,       \* expires_in_days of each batch
    Needed,         \* pick_count of the assessment's rule, 0 for no rule
    MaxSupply,      \* bound on the questions the bank can offer
    MaxTime,        \* bound on the clock
    NoOne           \* nobody holds the lock

ASSUME IssueConstants ==
    /\ Lower \in [DOMAIN Lower -> Emails]
    /\ \A b \in Batches : Pasted[b] \in Seq(DOMAIN Lower)
    /\ MaxAttempts \in [Batches -> Nat \ {0}]
    /\ Lifetime \in [Batches -> Nat \ {0}]
    /\ Needed \in Nat /\ MaxSupply \in Nat /\ MaxTime \in Nat
    /\ NoOne \notin Publishers \cup Batches

VARIABLES
    now,
    supply,         \* countAvailable: questions that match the rule today
    published,      \* assessments.status = 'published'
    publishLock,    \* row lock of the assessment
    publishPc, publishAnswer, publishAudit,
    invitations,    \* committed invitation rows: <<batch, place>>
    sittings,       \* attempts that point at each invitation
    openings,       \* committed job_openings rows of this title, by batch
    applications,   \* committed <<email, opening>> rows
    seats,          \* candidate row locks: a batch, or NoOne
    pc,             \* where each batch is
    began,          \* transaction start order, which is opened_at
    issuedAt,       \* the instant each batch read before its transaction
    live,           \* liveInvitedEmails, as the batch read it
    place,          \* next entry of the list
    draft,          \* the batch's uncommitted rows
    audit,          \* committed invitation.create audit rows
    readNo, commitNo    \* how many batches had committed at the read, and when

publishVars == <<published, publishLock, publishPc, publishAnswer, publishAudit>>
tableVars == <<invitations, openings, applications, audit>>
batchVars == <<pc, began, issuedAt, live, place, draft, readNo, commitNo>>
vars == <<now, supply, publishVars, tableVars, sittings, seats, batchVars>>

KeyOf(i) == Lower[Pasted[i[1]][i[2]]]
Here(b) == Lower[Pasted[b][place[b]]]

Empty == [issued |-> {}, skipped |-> {}, opening |-> FALSE, applications |-> {}]

Init ==
    /\ now = 0 /\ supply = MaxSupply
    /\ published = FALSE /\ publishLock = NoOne
    /\ publishPc = [p \in Publishers |-> "idle"]
    /\ publishAnswer = [p \in Publishers |-> "none"]
    /\ publishAudit = {}
    /\ invitations = {} /\ openings = {} /\ applications = {} /\ audit = {}
    /\ sittings = [b \in Batches |-> [n \in DOMAIN Pasted[b] |-> 0]]
    /\ seats = [e \in Emails |-> NoOne]
    /\ pc = [b \in Batches |-> "idle"]
    /\ began = [b \in Batches |-> 0]
    /\ issuedAt = [b \in Batches |-> 0]
    /\ live = [b \in Batches |-> {}]
    /\ place = [b \in Batches |-> 1]
    /\ draft = [b \in Batches |-> Empty]
    /\ readNo = [b \in Batches |-> 0]
    /\ commitNo = [b \in Batches |-> 0]

-----------------------------------------------------------------------------
(* Publishing. *)

RefusePublish(p) ==
    /\ publishPc[p] = "idle"
    /\ published \/ Needed = 0
    /\ publishPc' = [publishPc EXCEPT ![p] = "done"]
    /\ publishAnswer' = [publishAnswer EXCEPT ![p] =
         IF published THEN "conflict" ELSE "invalid"]
    /\ UNCHANGED <<now, supply, published, publishLock, publishAudit>>
    /\ UNCHANGED <<tableVars, sittings, seats, batchVars>>

ReadPublishState(p) ==
    /\ publishPc[p] = "idle"
    /\ ~published /\ Needed > 0
    /\ publishPc' = [publishPc EXCEPT ![p] = "read"]
    /\ UNCHANGED <<now, supply, published, publishLock, publishAnswer, publishAudit>>
    /\ UNCHANGED <<tableVars, sittings, seats, batchVars>>

(* The bank is asked again: a question retired since composition counts. *)
CheckShortfalls(p) ==
    /\ publishPc[p] = "read"
    /\ publishPc' = [publishPc EXCEPT ![p] = IF supply < Needed THEN "done" ELSE "checked"]
    /\ publishAnswer' = [publishAnswer EXCEPT ![p] = IF supply < Needed THEN "invalid" ELSE @]
    /\ UNCHANGED <<now, supply, published, publishLock, publishAudit>>
    /\ UNCHANGED <<tableVars, sittings, seats, batchVars>>

(* Mutant of StillDraft: the UPDATE trusts the status read earlier. *)
StillDraftAsRead == TRUE

(* The WHERE of the UPDATE, evaluated once the row lock is granted. *)
StillDraft == ~published

PublishAssessment(p) ==
    /\ publishPc[p] = "checked"
    /\ publishLock = NoOne
    /\ IF StillDraft
         THEN /\ publishLock' = p
              /\ publishPc' = [publishPc EXCEPT ![p] = "updated"]
              /\ UNCHANGED publishAnswer
         ELSE /\ publishPc' = [publishPc EXCEPT ![p] = "done"]
              /\ publishAnswer' = [publishAnswer EXCEPT ![p] = "conflict"]
              /\ UNCHANGED publishLock
    /\ UNCHANGED <<now, supply, published, publishAudit>>
    /\ UNCHANGED <<tableVars, sittings, seats, batchVars>>

(* The audit row and the commit, whose acknowledgement may be lost. *)
CommitPublish(p, ack) ==
    /\ publishPc[p] = "updated"
    /\ published' = TRUE
    /\ publishAudit' = publishAudit \cup {p}
    /\ publishLock' = NoOne
    /\ publishPc' = [publishPc EXCEPT ![p] = "done"]
    /\ publishAnswer' = [publishAnswer EXCEPT ![p] = IF ack THEN "ok" ELSE "error"]
    /\ UNCHANGED <<now, supply, tableVars, sittings, seats, batchVars>>

RollbackPublish(p) ==
    /\ publishPc[p] \in {"read", "checked", "updated"}
    /\ publishLock' = IF publishLock = p THEN NoOne ELSE publishLock
    /\ publishPc' = [publishPc EXCEPT ![p] = "done"]
    /\ publishAnswer' = [publishAnswer EXCEPT ![p] = "error"]
    /\ UNCHANGED <<now, supply, published, publishAudit>>
    /\ UNCHANGED <<tableVars, sittings, seats, batchVars>>

-----------------------------------------------------------------------------
(* Inviting. *)

ExpiresAt(i) == issuedAt[i[1]] + Lifetime[i[1]]

SittingsTaken(i) == sittings[i[1]][i[2]]

(* Not expired and not fully used. *)
Live(i, t) == ExpiresAt(i) > t /\ SittingsTaken(i) < MaxAttempts[i[1]]

(* Mutant of LiveEmails: an invitation somebody has begun to use is passed *)
(* over, whatever it still allows.                                         *)
LiveEmailsUnstarted(t) ==
    {KeyOf(i) : i \in {k \in invitations : Live(k, t) /\ SittingsTaken(k) = 0}}

LiveEmails(t) == {KeyOf(i) : i \in {k \in invitations : Live(k, t)}}

(* issuedAt and expiresAt are computed before the transaction begins. *)
OpenBatch(b) ==
    /\ pc[b] = "idle"
    /\ issuedAt' = [issuedAt EXCEPT ![b] = now]
    /\ began' = [began EXCEPT ![b] = Cardinality({c \in Batches : pc[c] # "idle"}) + 1]
    /\ pc' = [pc EXCEPT ![b] = "opened"]
    /\ UNCHANGED <<now, supply, publishVars, tableVars, sittings, seats>>
    /\ UNCHANGED <<live, place, draft, readNo, commitNo>>

(* Redemption refuses a draft, so the links are not issued.  The handler   *)
(* also refuses an assessment with no role, which nothing composes today.  *)
CheckPublished(b) ==
    /\ pc[b] = "opened"
    /\ pc' = [pc EXCEPT ![b] = IF published THEN "checked" ELSE "done"]
    /\ UNCHANGED <<now, supply, publishVars, tableVars, sittings, seats>>
    /\ UNCHANGED <<began, issuedAt, live, place, draft, readNo, commitNo>>

LiveInvitedEmails(b) ==
    /\ pc[b] = "checked"
    /\ live' = [live EXCEPT ![b] = LiveEmails(issuedAt[b])]
    /\ readNo' = [readNo EXCEPT ![b] = Cardinality(audit)]
    /\ pc' = [pc EXCEPT ![b] = "loop"]
    /\ UNCHANGED <<now, supply, publishVars, tableVars, sittings, seats>>
    /\ UNCHANGED <<began, issuedAt, place, draft, commitNo>>

(* The address occurred earlier in this paste. *)
Seen(b) == \E n \in 1 .. place[b] - 1 : Lower[Pasted[b][n]] = Here(b)

PassOver(b) ==
    /\ pc[b] = "loop" /\ place[b] <= Len(Pasted[b])
    /\ Seen(b) \/ Here(b) \in live[b]
    /\ draft' = [draft EXCEPT ![b].skipped = IF Seen(b) THEN @ ELSE @ \cup {place[b]}]
    /\ place' = [place EXCEPT ![b] = @ + 1]
    /\ UNCHANGED <<now, supply, publishVars, tableVars, sittings, seats>>
    /\ UNCHANGED <<pc, began, issuedAt, live, readNo, commitNo>>

(* The upsert waits for any other batch that has touched the candidate. *)
UpsertCandidate(b) ==
    /\ pc[b] = "loop" /\ place[b] <= Len(Pasted[b])
    /\ ~Seen(b) /\ Here(b) \notin live[b]
    /\ seats[Here(b)] \in {NoOne, b}
    /\ seats' = [seats EXCEPT ![Here(b)] = b]
    /\ pc' = [pc EXCEPT ![b] = "seated"]
    /\ UNCHANGED <<now, supply, publishVars, tableVars, sittings>>
    /\ UNCHANGED <<began, issuedAt, live, place, draft, readNo, commitNo>>

(* The openings a statement of b can see: the committed ones and its own. *)
VisibleOpenings(b) == openings \cup (IF draft[b].opening THEN {b} ELSE {})

(* applicationFor and createInvitation: the role's opening is inserted     *)
(* where none is visible, the oldest visible one is used otherwise.        *)
IssueInvitation(b) ==
    LET visible == VisibleOpenings(b)
        opening == IF visible = {} THEN b
                   ELSE CHOOSE o \in visible : \A c \in visible : began[o] <= began[c]
    IN
    /\ pc[b] = "seated"
    /\ draft' = [draft EXCEPT
         ![b].opening = @ \/ visible = {},
         ![b].applications = @ \cup {<<Here(b), opening>>},
         ![b].issued = @ \cup {<<b, place[b]>>}]
    /\ place' = [place EXCEPT ![b] = @ + 1]
    /\ pc' = [pc EXCEPT ![b] = "loop"]
    /\ UNCHANGED <<now, supply, publishVars, tableVars, sittings, seats>>
    /\ UNCHANGED <<began, issuedAt, live, readNo, commitNo>>

ReleaseSeats(b) ==
    seats' = [e \in Emails |-> IF seats[e] = b THEN NoOne ELSE seats[e]]

(* Mutant of AuditOf: the batch is audited by the length of the paste. *)
AuditOfPaste(b) ==
    [by |-> b, issued |-> Len(Pasted[b]) - Cardinality(draft[b].skipped),
     skipped |-> Cardinality(draft[b].skipped)]

AuditOf(b) ==
    [by |-> b, issued |-> Cardinality(draft[b].issued),
     skipped |-> Cardinality(draft[b].skipped)]

(* The end of request.audited: the audit row and the commit.  A lost       *)
(* acknowledgement changes only what the caller is told, which nothing     *)
(* here depends on.                                                        *)
CommitBatch(b) ==
    /\ pc[b] = "loop" /\ place[b] > Len(Pasted[b])
    /\ audit' = audit \cup {AuditOf(b)}
    /\ invitations' = invitations \cup draft[b].issued
    /\ openings' = VisibleOpenings(b)
    /\ applications' = applications \cup draft[b].applications
    /\ ReleaseSeats(b)
    /\ commitNo' = [commitNo EXCEPT ![b] = Cardinality(audit) + 1]
    /\ pc' = [pc EXCEPT ![b] = "done"]
    /\ UNCHANGED <<now, supply, publishVars, sittings>>
    /\ UNCHANGED <<began, issuedAt, live, place, draft, readNo>>

(* Mutant of RollbackBatch: the transaction is abandoned, not rolled back. *)
RollbackBatchHolding(b) ==
    /\ pc[b] \in {"opened", "checked", "loop", "seated"}
    /\ pc' = [pc EXCEPT ![b] = "done"]
    /\ draft' = [draft EXCEPT ![b] = Empty]
    /\ UNCHANGED <<now, supply, publishVars, tableVars, sittings, seats>>
    /\ UNCHANGED <<began, issuedAt, live, place, readNo, commitNo>>

(* Any statement throws: nothing of the batch is kept. *)
RollbackBatch(b) ==
    /\ pc[b] \in {"opened", "checked", "loop", "seated"}
    /\ ReleaseSeats(b)
    /\ pc' = [pc EXCEPT ![b] = "done"]
    /\ draft' = [draft EXCEPT ![b] = Empty]
    /\ UNCHANGED <<now, supply, publishVars, tableVars, sittings>>
    /\ UNCHANGED <<began, issuedAt, live, place, readNo, commitNo>>

(* b wants a candidate that c has, and c one that b has: PostgreSQL's      *)
(* deadlock detector aborts one of the two.  A cycle of three needs three  *)
(* candidates, more than the instances have.                               *)
WaitsFor(b, c) ==
    /\ b # c
    /\ pc[b] = "loop" /\ place[b] <= Len(Pasted[b])
    /\ ~Seen(b) /\ Here(b) \notin live[b]
    /\ seats[Here(b)] = c

BreakDeadlock(b) ==
    /\ \E c \in Batches : WaitsFor(b, c) /\ WaitsFor(c, b)
    /\ RollbackBatch(b)

-----------------------------------------------------------------------------
(* The environment: the clock, authors publishing and retiring questions,  *)
(* and candidates redeeming what they hold.                                *)

Tick ==
    /\ now < MaxTime
    /\ now' = now + 1
    /\ UNCHANGED <<supply, publishVars, tableVars, sittings, seats, batchVars>>

BankMoves ==
    /\ supply' \in {supply - 1, supply + 1} \cap (0 .. MaxSupply)
    /\ UNCHANGED <<now, publishVars, tableVars, sittings, seats, batchVars>>

Sit(i) ==
    /\ i \in invitations
    /\ Live(i, now)
    /\ sittings' = [sittings EXCEPT ![i[1]][i[2]] = @ + 1]
    /\ UNCHANGED <<now, supply, publishVars, tableVars, seats, batchVars>>

-----------------------------------------------------------------------------
PublishStep(p) ==
    \/ RefusePublish(p) \/ ReadPublishState(p) \/ CheckShortfalls(p)
    \/ PublishAssessment(p)
    \/ \E ack \in BOOLEAN : CommitPublish(p, ack)

BatchStep(b) ==
    \/ CheckPublished(b) \/ LiveInvitedEmails(b) \/ PassOver(b)
    \/ UpsertCandidate(b) \/ IssueInvitation(b) \/ CommitBatch(b)

Next ==
    \/ \E p \in Publishers : PublishStep(p) \/ RollbackPublish(p)
    \/ \E b \in Batches : OpenBatch(b) \/ BatchStep(b) \/ RollbackBatch(b)
    \/ \E i \in invitations : Sit(i)
    \/ Tick \/ BankMoves

Spec == Init /\ [][Next]_vars

(* A request in flight is driven by the event loop, PostgreSQL grants a    *)
(* free lock to a waiter and breaks a deadlock.                            *)
Fairness ==
    \A b \in Batches : WF_vars(BatchStep(b)) /\ WF_vars(BreakDeadlock(b))

LiveSpec == Spec /\ Fairness

-----------------------------------------------------------------------------
(* Properties. *)

(* Two recruiters publishing at once produce one transition and one        *)
(* conflict: one audit row, and one caller who was told it worked.         *)
PublishedOnce ==
    /\ Cardinality(publishAudit) <= 1
    /\ {p \in Publishers : publishAnswer[p] = "ok"} \subseteq publishAudit
    /\ published <=> publishAudit # {}

(* "two live links is two sittings nobody decided to allow": nobody holds  *)
(* two live invitations to the assessment.                                 *)
OneLiveInvitation ==
    \A i, k \in invitations :
        KeyOf(i) = KeyOf(k) /\ Live(i, now) /\ Live(k, now) => i = k

(* What does hold: two live links to one person come from two batches that *)
(* overlapped, each having read the live addresses before the other        *)
(* committed.  One batch never issues two, nor does a batch that starts    *)
(* after the first has answered.                                           *)
DuplicatesOnlyFromOverlap ==
    \A i, k \in invitations :
        i # k /\ KeyOf(i) = KeyOf(k) /\ Live(i, now) /\ Live(k, now) =>
            /\ i[1] # k[1]
            /\ readNo[i[1]] < commitNo[k[1]]
            /\ readNo[k[1]] < commitNo[i[1]]

(* The audit row of a batch counts what it left in the tables: the issued  *)
(* count is the invitations it committed, and issued and skipped together  *)
(* are the different people on the pasted list.                            *)
AuditCountsTrue ==
    \A a \in audit :
        /\ a.issued = Cardinality({i \in invitations : i[1] = a.by})
        /\ a.issued + a.skipped =
             Cardinality({Lower[Pasted[a.by][n]] : n \in DOMAIN Pasted[a.by]})

(* Every batch that has begun is answered, also when two of them lock the  *)
(* same candidates in opposite orders.                                     *)
EveryBatchAnswered ==
    \A b \in Batches : pc[b] # "idle" ~> pc[b] = "done"

=============================================================================
