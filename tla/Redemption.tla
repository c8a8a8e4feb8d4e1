----------------------------- MODULE Redemption -----------------------------
(***************************************************************************)
(* POST /candidate/redeem: exchanging an invitation token for an attempt   *)
(* token.  Many requests run at once, each in two database transactions:  *)
(* the first routes the token to an organisation, the second locks the    *)
(* invitation row, counts the sittings, decides, inserts the attempt and   *)
(* its audit row and mints the token.                                      *)
(*                                                                         *)
(* A request is one-shot and names the attempt it may create: the attempt  *)
(* id the database generates is unique per insert, and a request inserts   *)
(* at most once.  Rows written by an open transaction stay in `draft`      *)
(* until its commit.  PostgreSQL runs the transactions at READ COMMITTED,  *)
(* so each statement sees what has committed before it.                    *)
(***************************************************************************)
EXTENDS Integers, FiniteSets

CONSTANTS
    Invitations,    \* invitation rows
    Requests,       \* calls of redeem()
    MaxAttempts,    \* invitations.max_attempts
    OpensAt,        \* invitations.opens_at; 0 where the column is null
    ExpiresAt,      \* invitations.expires_at
    Seated,         \* invitations whose application names a candidate
    Duration,       \* assessments.duration_seconds, in ticks
    StartWindow,    \* ATTEMPT_TOKEN_START_WINDOW_SECONDS
    Tail,           \* ATTEMPT_TOKEN_TAIL_SECONDS
    MaxLife,        \* MAX_ATTEMPT_TOKEN_LIFE_SECONDS
    MaxTime,        \* bound on the clock
    NoInvitation,   \* a token that hashes to no row
    NoOne           \* a row lock nobody holds

ASSUME RequestsFinite == IsFiniteSet(Requests)

ASSUME ColumnTypes ==
    /\ MaxAttempts \in [Invitations -> Nat]
    /\ OpensAt \in [Invitations -> Nat]
    /\ ExpiresAt \in [Invitations -> Nat]
    /\ Seated \subseteq Invitations
    /\ Duration \in Int
    /\ StartWindow \in Nat /\ Tail \in Nat /\ MaxLife \in Nat
    /\ MaxTime \in Nat

ASSUME NullsDistinct == NoInvitation \notin Invitations /\ NoOne \notin Requests

VARIABLES
    now,        \* the server's clock
    rows,       \* committed invitation rows
    published,  \* assessments.status = 'published'
    attempts,   \* committed attempts rows
    audit,      \* committed candidate.invitation_redeem audit rows
    lock,       \* row lock of each invitation: a request, or NoOne
    pc,         \* where each request is
    token,      \* the invitation whose token the request presents
    listed,     \* requests whose SELECT read the assessment as published
    seen,       \* sittings_taken as the request counted it
    at,         \* the instant the request decided at
    draft,      \* audit row the open transaction has written, if any
    minted,     \* expiry of the token minted in the transaction
    outcome,    \* what the caller was told
    redeemed    \* invitations_redeemed_total

requestVars == <<pc, token, listed, seen, at, draft, minted>>
tableVars == <<rows, published, attempts, audit>>
vars == <<now, tableVars, lock, requestVars, outcome, redeemed>>

Nothing == [attempt |-> NoOne]

Refusals == {"malformed", "no_such_invitation", "not_yet_open", "expired",
             "assessment_not_published", "invitation_incomplete",
             "already_redeemed"}

(* A transaction that holds the invitation's row lock. *)
Holding == {"locked", "counted", "inserted", "audited"}

AuditRows == [attempt : Requests, invitation : Invitations,
              sitting : Nat, max : Nat]

TypeOK ==
    /\ now \in Nat
    /\ rows \subseteq Invitations
    /\ published \in BOOLEAN
    /\ attempts \subseteq Requests
    /\ audit \subseteq AuditRows
    /\ lock \in [Invitations -> Requests \cup {NoOne}]
    /\ pc \in [Requests -> {"idle", "routed", "waiting", "done"} \cup Holding]
    /\ token \in [Requests -> Invitations \cup {NoInvitation}]
    /\ listed \subseteq Requests
    /\ seen \in [Requests -> Nat]
    /\ at \in [Requests -> Nat]
    /\ draft \in [Requests -> AuditRows \cup {Nothing}]
    /\ minted \in [Requests -> Nat]
    /\ outcome \in [Requests -> {"pending", "ok", "error"} \cup Refusals]
    /\ redeemed \in Nat

Init ==
    /\ now = 0
    /\ rows = Invitations
    /\ published = TRUE
    /\ attempts = {}
    /\ audit = {}
    /\ lock = [i \in Invitations |-> NoOne]
    /\ pc = [r \in Requests |-> "idle"]
    /\ token = [r \in Requests |-> NoInvitation]
    /\ listed = {}
    /\ seen = [r \in Requests |-> 0]
    /\ at = [r \in Requests |-> 0]
    /\ draft = [r \in Requests |-> Nothing]
    /\ minted = [r \in Requests |-> 0]
    /\ outcome = [r \in Requests |-> "pending"]
    /\ redeemed = 0

(* attemptTokenLifeSeconds: time to begin, the assessment, time to submit, *)
(* all under a ceiling; a duration that is not positive counts as none.    *)
AttemptTokenLife ==
    LET bounded == IF Duration > 0 THEN Duration ELSE 0
        life == StartWindow + bounded + Tail
    IN  IF life < MaxLife THEN life ELSE MaxLife

(* The attempts that point back at invitation i. *)
SittingsOf(i) == {r \in attempts : token[r] = i}

-----------------------------------------------------------------------------
(* redeem() up to its first await: the presented token is trimmed and      *)
(* bounded, hashed, and looked up through invitation_org_for_token.        *)

RefuseMalformed(r) ==
    /\ pc[r] = "idle"
    /\ pc' = [pc EXCEPT ![r] = "done"]
    /\ outcome' = [outcome EXCEPT ![r] = "malformed"]
    /\ UNCHANGED <<now, tableVars, lock, token, listed, seen, at, draft, minted, redeemed>>

FindOrgByTokenHash(r, i) ==
    /\ pc[r] = "idle"
    /\ token' = [token EXCEPT ![r] = i]
    /\ IF i \in rows
         THEN /\ pc' = [pc EXCEPT ![r] = "routed"]
              /\ UNCHANGED outcome
         ELSE /\ pc' = [pc EXCEPT ![r] = "done"]
              /\ outcome' = [outcome EXCEPT ![r] = "no_such_invitation"]
    /\ UNCHANGED <<now, tableVars, lock, listed, seen, at, draft, minted, redeemed>>

(* The second transaction's SELECT ... FOR UPDATE OF i begins.  It reads   *)
(* the joined assessment as committed at this point, however long it then  *)
(* waits for the invitation's row.                                         *)
SelectInvitation(r) ==
    /\ pc[r] = "routed"
    /\ token[r] \in rows
    /\ listed' = IF published THEN listed \cup {r} ELSE listed
    /\ pc' = [pc EXCEPT ![r] = "waiting"]
    /\ UNCHANGED <<now, tableVars, lock, token, seen, at, draft, minted, outcome, redeemed>>

(* Mutant of LockInvitation: the SELECT without FOR UPDATE does not wait. *)
LockInvitationUnlocked(r) ==
    /\ pc[r] = "waiting"
    /\ token[r] \in rows
    /\ pc' = [pc EXCEPT ![r] = "locked"]
    /\ UNCHANGED <<now, tableVars, lock, token, listed, seen, at, draft, minted, outcome, redeemed>>

(* The statement returns once no other transaction holds the row, and      *)
(* finds nothing if the row is gone.                                       *)
LockInvitation(r) ==
    LET i == token[r] IN
    /\ pc[r] = "waiting"
    /\ i \in rows
    /\ lock[i] = NoOne
    /\ lock' = [lock EXCEPT ![i] = r]
    /\ pc' = [pc EXCEPT ![r] = "locked"]
    /\ UNCHANGED <<now, tableVars, token, listed, seen, at, draft, minted, outcome, redeemed>>

FindVanished(r) ==
    /\ pc[r] \in {"routed", "waiting"}
    /\ token[r] \notin rows
    /\ pc' = [pc EXCEPT ![r] = "done"]
    /\ outcome' = [outcome EXCEPT ![r] = "no_such_invitation"]
    /\ UNCHANGED <<now, tableVars, lock, token, listed, seen, at, draft, minted, redeemed>>

(* The second statement of the locked transaction: count the sittings. *)
CountSittings(r) ==
    /\ pc[r] = "locked"
    /\ seen' = [seen EXCEPT ![r] = Cardinality(SittingsOf(token[r]))]
    /\ pc' = [pc EXCEPT ![r] = "counted"]
    /\ UNCHANGED <<now, tableVars, lock, token, listed, at, draft, minted, outcome, redeemed>>

(* Mutants of Verdict: the expiry boundary admits, the allowance is off by *)
(* one.                                                                    *)
VerdictLateExpiry(r) ==
    LET i == token[r] IN
    IF now < OpensAt[i] THEN "not_yet_open"
    ELSE IF now > ExpiresAt[i] THEN "expired"
    ELSE IF r \notin listed THEN "assessment_not_published"
    ELSE IF i \notin Seated THEN "invitation_incomplete"
    ELSE IF seen[r] >= MaxAttempts[i] THEN "already_redeemed"
    ELSE "ok"

VerdictOneTooMany(r) ==
    LET i == token[r] IN
    IF now < OpensAt[i] THEN "not_yet_open"
    ELSE IF now >= ExpiresAt[i] THEN "expired"
    ELSE IF r \notin listed THEN "assessment_not_published"
    ELSE IF i \notin Seated THEN "invitation_incomplete"
    ELSE IF seen[r] > MaxAttempts[i] THEN "already_redeemed"
    ELSE "ok"

(* The first of the policy's checks that refuses, in the order the code    *)
(* makes them; "ok" when none does.  The hash confirmation never refuses a *)
(* row the hash index found.                                               *)
Verdict(r) ==
    LET i == token[r] IN
    IF now < OpensAt[i] THEN "not_yet_open"
    ELSE IF now >= ExpiresAt[i] THEN "expired"
    ELSE IF r \notin listed THEN "assessment_not_published"
    ELSE IF i \notin Seated THEN "invitation_incomplete"
    ELSE IF seen[r] >= MaxAttempts[i] THEN "already_redeemed"
    ELSE "ok"

(* Mutant of Refuse: the refusing path leaves its transaction open. *)
RefuseHoldingLock(r) ==
    /\ pc[r] = "counted"
    /\ Verdict(r) # "ok"
    /\ outcome' = [outcome EXCEPT ![r] = Verdict(r)]
    /\ pc' = [pc EXCEPT ![r] = "done"]
    /\ UNCHANGED <<now, tableVars, lock, token, listed, seen, at, draft, minted, redeemed>>

(* A refusal returns from the callback, which commits an empty transaction. *)
Refuse(r) ==
    /\ pc[r] = "counted"
    /\ Verdict(r) # "ok"
    /\ outcome' = [outcome EXCEPT ![r] = Verdict(r)]
    /\ lock' = [lock EXCEPT ![token[r]] = NoOne]
    /\ pc' = [pc EXCEPT ![r] = "done"]
    /\ UNCHANGED <<now, tableVars, token, listed, seen, at, draft, minted, redeemed>>

CreateAttempt(r) ==
    /\ pc[r] = "counted"
    /\ Verdict(r) = "ok"
    /\ at' = [at EXCEPT ![r] = now]
    /\ pc' = [pc EXCEPT ![r] = "inserted"]
    /\ UNCHANGED <<now, tableVars, lock, token, listed, seen, draft, minted, outcome, redeemed>>

(* Mutant of RecordRedemption: the sitting is not counted from one. *)
RecordRedemptionFromZero(r) ==
    /\ pc[r] = "inserted"
    /\ draft' = [draft EXCEPT ![r] =
         [attempt |-> r, invitation |-> token[r],
          sitting |-> seen[r], max |-> MaxAttempts[token[r]]]]
    /\ minted' = [minted EXCEPT ![r] = now + AttemptTokenLife]
    /\ pc' = [pc EXCEPT ![r] = "audited"]
    /\ UNCHANGED <<now, tableVars, lock, token, listed, seen, at, outcome, redeemed>>

(* recordRedemption writes the audit row in the same transaction; then     *)
(* mintAttemptToken reads the clock again for the token's expiry.          *)
RecordRedemption(r) ==
    /\ pc[r] = "inserted"
    /\ draft' = [draft EXCEPT ![r] =
         [attempt |-> r, invitation |-> token[r],
          sitting |-> seen[r] + 1, max |-> MaxAttempts[token[r]]]]
    /\ minted' = [minted EXCEPT ![r] = now + AttemptTokenLife]
    /\ pc' = [pc EXCEPT ![r] = "audited"]
    /\ UNCHANGED <<now, tableVars, lock, token, listed, seen, at, outcome, redeemed>>

(* What COMMIT makes visible: both rows at once, and the lock released. *)
CommitRows(r) ==
    /\ attempts' = attempts \cup {r}
    /\ audit' = audit \cup {draft[r]}
    /\ lock' = [lock EXCEPT ![token[r]] = NoOne]
    /\ draft' = [draft EXCEPT ![r] = Nothing]
    /\ pc' = [pc EXCEPT ![r] = "done"]
    /\ UNCHANGED <<now, rows, published, token, listed, seen, at, minted>>

(* withLockedInvitation resolves: the metric is counted after the commit   *)
(* and the caller receives the token.                                      *)
Commit(r) ==
    /\ pc[r] = "audited"
    /\ CommitRows(r)
    /\ outcome' = [outcome EXCEPT ![r] = "ok"]
    /\ redeemed' = redeemed + 1

(* The commit took effect and its acknowledgement, or the process, did     *)
(* not survive: the caller sees an error and no token.                     *)
CommitUnacknowledged(r) ==
    /\ pc[r] = "audited"
    /\ CommitRows(r)
    /\ outcome' = [outcome EXCEPT ![r] = "error"]
    /\ UNCHANGED redeemed

(* Mutant of Rollback: the token leaves before the transaction commits. *)
RollbackAfterAnswer(r) ==
    /\ pc[r] \in Holding
    /\ lock' = [lock EXCEPT ![token[r]] = NoOne]
    /\ draft' = [draft EXCEPT ![r] = Nothing]
    /\ pc' = [pc EXCEPT ![r] = "done"]
    /\ outcome' = [outcome EXCEPT ![r] = IF pc[r] = "audited" THEN "ok" ELSE "error"]
    /\ UNCHANGED <<now, tableVars, token, listed, seen, at, minted, redeemed>>

(* A statement throws, or the process or its connection dies, while the    *)
(* transaction is open: PostgreSQL rolls back and releases the lock.       *)
Rollback(r) ==
    /\ pc[r] \in {"routed", "waiting"} \cup Holding
    /\ lock' = [lock EXCEPT ![token[r]] = IF @ = r THEN NoOne ELSE @]
    /\ draft' = [draft EXCEPT ![r] = Nothing]
    /\ pc' = [pc EXCEPT ![r] = "done"]
    /\ outcome' = [outcome EXCEPT ![r] = "error"]
    /\ UNCHANGED <<now, tableVars, token, listed, seen, at, minted, redeemed>>

-----------------------------------------------------------------------------
(* The environment. *)

Tick ==
    /\ now < MaxTime
    /\ now' = now + 1
    /\ UNCHANGED <<tableVars, lock, requestVars, outcome, redeemed>>

(* Staff revoke an invitation or a candidate is erased.  The delete waits  *)
(* for the row lock, and the foreign key from attempts forbids it once a   *)
(* sitting exists.                                                         *)
RevokeInvitation(i) ==
    /\ i \in rows
    /\ lock[i] = NoOne
    /\ SittingsOf(i) = {}
    /\ rows' = rows \ {i}
    /\ UNCHANGED <<now, published, attempts, audit, lock, requestVars, outcome, redeemed>>

(* The assessment leaves 'published'.  Redemption reads it unlocked, so    *)
(* one that had already begun its SELECT is still admitted.                *)
WithdrawAssessment ==
    /\ published
    /\ published' = FALSE
    /\ UNCHANGED <<now, rows, attempts, audit, lock, requestVars, outcome, redeemed>>

-----------------------------------------------------------------------------
RequestStep(r) ==
    \/ RefuseMalformed(r)
    \/ \E i \in Invitations \cup {NoInvitation} : FindOrgByTokenHash(r, i)
    \/ SelectInvitation(r)
    \/ LockInvitation(r)
    \/ FindVanished(r)
    \/ CountSittings(r)
    \/ Refuse(r)
    \/ CreateAttempt(r)
    \/ RecordRedemption(r)
    \/ Commit(r)
    \/ CommitUnacknowledged(r)
    \/ Rollback(r)

Next ==
    \/ \E r \in Requests : RequestStep(r)
    \/ Tick
    \/ \E i \in Invitations : RevokeInvitation(i)
    \/ WithdrawAssessment

(* A request that has started is driven by the server's event loop, and    *)
(* the database grants a free lock to a waiter.  Nothing obliges a         *)
(* candidate to redeem, the clock to stop, or staff to act.                *)
Progress(r) ==
    \/ SelectInvitation(r) \/ LockInvitation(r) \/ FindVanished(r) \/ CountSittings(r)
    \/ Refuse(r) \/ CreateAttempt(r) \/ RecordRedemption(r) \/ Commit(r)

Fairness == \A r \in Requests : WF_vars(Progress(r))

Spec == Init /\ [][Next]_vars

LiveSpec == Spec /\ Fairness

-----------------------------------------------------------------------------
(* The inductive invariant behind the allowance: who holds which lock, and *)
(* that what a lock holder has counted stays the truth until it commits.   *)

LockDiscipline ==
    /\ \A r \in Requests :
         /\ pc[r] \in {"routed", "waiting"} \cup Holding => token[r] \in Invitations
         /\ pc[r] \in Holding => lock[token[r]] = r
    /\ \A i \in Invitations, r \in Requests :
         lock[i] = r => pc[r] \in Holding /\ token[r] = i

CountStaysTrue ==
    \A r \in Requests :
        /\ pc[r] \in {"counted", "inserted", "audited"} =>
             seen[r] = Cardinality(SittingsOf(token[r]))
        /\ pc[r] \in {"inserted", "audited"} =>
             seen[r] < MaxAttempts[token[r]]

CommittedAreDone ==
    \A r \in attempts : pc[r] = "done" /\ token[r] \in Invitations

DraftStaysTrue ==
    \A r \in Requests : pc[r] = "audited" =>
        draft[r] = [attempt |-> r, invitation |-> token[r],
                    sitting |-> seen[r] + 1, max |-> MaxAttempts[token[r]]]

-----------------------------------------------------------------------------
(* Properties. *)

(* Two browser tabs racing never take more sittings than max_attempts      *)
(* allows: the count and the insert are one decision under the row lock.   *)
SittingsWithinAllowance ==
    \A i \in Invitations : Cardinality(SittingsOf(i)) <= MaxAttempts[i]

(* An attempt that commits has its audit row and a redemption that rolls   *)
(* back has neither; and the audited sitting numbers of one invitation     *)
(* are exactly 1, 2, .. with no gap and no repeat, whatever the order in   *)
(* which the redemptions ran.                                              *)
AuditAccountsForSittings ==
    /\ {a.attempt : a \in audit} = attempts
    /\ Cardinality(audit) = Cardinality(attempts)
    /\ \A i \in Invitations :
         {a.sitting : a \in {b \in audit : b.invitation = i}}
           = 1 .. Cardinality(SittingsOf(i))

(* A token reaches the caller only for an attempt that is in the table, a  *)
(* refused caller has consumed nothing, and invitations_redeemed_total     *)
(* counts the callers that hold a token, never one whose attempt rolled    *)
(* back.                                                                   *)
OutcomeMatchesTable ==
    /\ \A r \in Requests :
         /\ outcome[r] = "ok" => r \in attempts
         /\ outcome[r] \in Refusals => r \notin attempts
    /\ redeemed = Cardinality({r \in Requests : outcome[r] = "ok"})

(* A sitting is dated inside the invitation's window even when the request *)
(* waited for the lock across its edge, and unless the ceiling cuts it     *)
(* short its token outlives an assessment begun at the end of the start    *)
(* window.                                                                 *)
SittingInsideWindow ==
    \A r \in attempts :
        /\ at[r] >= OpensAt[token[r]] /\ at[r] < ExpiresAt[token[r]]
        /\ StartWindow + Duration + Tail <= MaxLife =>
             minted[r] >= at[r] + StartWindow + Duration

(* No request waits for ever on another's lock: one that was routed to an  *)
(* organisation is answered.                                               *)
EveryRequestAnswered ==
    \A r \in Requests : pc[r] = "routed" ~> outcome[r] # "pending"

(* Redemption implements the abstract allowance. *)
Abstract == INSTANCE Sittings WITH
    taken <- [i \in Invitations |-> Cardinality(SittingsOf(i))]

ImplementsSittings == Abstract!Spec
=============================================================================
