---------------------------- MODULE Access_proofs ----------------------------
(***************************************************************************)
(* Proofs about who and what is let through: the tickets of the            *)
(* collaboration service, for every life, skew, sweep interval and drift;  *)
(* and the decisions the code makes as functions, for every request,       *)
(* audited call, environment, version, answer and deadline, where TLC      *)
(* evaluates them on the inputs of Laws.                                   *)
(***************************************************************************)
EXTENDS WsTicket, Laws, FiniteSetTheorems, WellFoundedInduction, TLAPS

-----------------------------------------------------------------------------
(* Websocket tickets.                                                      *)

(* What the argument needs of the types: the times are integers. *)
Times ==
    /\ now \in Int /\ drift \in Int /\ pause \in Nat
    /\ issuedAt \in [Tickets -> Int \cup {Never}]
    /\ redeemed \in [Tickets -> Int \cup {Never}]
    /\ admitted \in [Tickets -> Nat]

(* Every step keeps the times integers. *)
LEMMA TimesStep ==
    ASSUME Times, [Next]_vars
    PROVE  Times'
<1> USE TicketConstants
<1>1. ASSUME NEW t \in Tickets, IssueTicket(t) PROVE Times'
  BY <1>1 DEF Times, IssueTicket
<1>2. ASSUME NEW t \in Tickets, NEW lag \in 0 .. pause, AdmitPresented(t, lag)
      PROVE  Times'
  BY <1>2 DEF Times, AdmitPresented, ClaimReads, Sweep, Retention, Here
<1>3. ASSUME NEW t \in Tickets, NEW lag \in 0 .. pause, RefuseReplayed(t, lag)
      PROVE  Times'
  BY <1>3 DEF Times, RefuseReplayed, ClaimReads, Sweep
<1>4. ASSUME NEW t \in Tickets, RefuseUnverified(t) PROVE Times'
  BY <1>4 DEF Times, RefuseUnverified
<1>5. CASE EndSession
  BY <1>5 DEF Times, EndSession
<1>6. CASE Tick
  BY <1>6 DEF Times, Tick
<1>7. CASE Restart
  BY <1>7 DEF Times, Restart
<1>8. CASE UNCHANGED vars
  BY <1>8 DEF Times, vars
<1> QED
  BY <1>1, <1>2, <1>3, <1>4, <1>5, <1>6, <1>7, <1>8 DEF Next

(* Neither the clocks' disagreement nor the pause changes in a behaviour. *)
LEMMA ClocksFixed ==
    ASSUME [Next]_vars
    PROVE  drift' = drift /\ pause' = pause
BY DEF Next, vars, IssueTicket, AdmitPresented, RefuseReplayed, RefuseUnverified,
   EndSession, Tick, Restart

(* No step dates a ticket in the future of the API's clock. *)
LEMMA IssuedStep ==
    ASSUME Times, IssuedInThePast, [Next]_vars
    PROVE  IssuedInThePast'
<1> USE TicketConstants
<1>1. /\ now' \in Int /\ now <= now'
      /\ \A t \in Tickets : issuedAt'[t] = issuedAt[t] \/ issuedAt'[t] = now
  BY DEF Times, Next, vars, IssueTicket, AdmitPresented, RefuseReplayed, ClaimReads,
     RefuseUnverified, EndSession, Tick, Restart
<1> QED
  BY <1>1 DEF Times, IssuedInThePast

(* A step keeps an admitted ticket remembered until it cannot verify.      *)
(* Admitting one dates its entry at least TTL + pause after its issue:    *)
(* a ticket is accepted at most Skew before its own date, and no earlier   *)
(* than the drift allows, while the entry is kept for TTL + Skew.  A sweep *)
(* drops only what has run out.                                            *)
LEMMA RememberedStep ==
    ASSUME PauseCovered, Times, IssuedInThePast, RememberedWhileValid, [Next]_vars
    PROVE  RememberedWhileValid'
<1> USE TicketConstants
<1>1. ASSUME NEW t \in Tickets, IssueTicket(t) PROVE RememberedWhileValid'
  BY <1>1 DEF Times, RememberedWhileValid, IssueTicket, Here
<1>2. ASSUME NEW t \in Tickets, NEW lag \in 0 .. pause, AdmitPresented(t, lag)
      PROVE  RememberedWhileValid'
  <2> SUFFICES ASSUME NEW u \in Tickets, admitted'[u] > 0
               PROVE  /\ issuedAt'[u] # Never
                      /\ admitted'[u] = 1
                      /\ \/ redeemed'[u] # Never
                            /\ redeemed'[u] >= issuedAt'[u] + TTL + pause'
                         \/ Here' >= issuedAt'[u] + TTL
    BY DEF RememberedWhileValid
  <2>1. /\ issuedAt' = issuedAt /\ Here' = Here + lag /\ Here \in Int
        /\ pause' = pause /\ pause \in Nat /\ drift \in Int
        /\ issuedAt[t] # Never /\ ~Remembered(t, Here + lag) /\ Verdict(t) = "ok"
    BY <1>2 DEF Times, AdmitPresented, ClaimReads, Here
  <2>2. /\ issuedAt[t] \in Int /\ Here - issuedAt[t] >= -Skew
        /\ Here - issuedAt[t] < TTL
    BY <2>1 DEF Times, Verdict
  <2>3. Here - issuedAt[t] >= drift
    BY <2>1, <2>2 DEF Times, IssuedInThePast, Here
  <2>4. Here + Skew >= issuedAt[t] + pause
    BY <2>1, <2>2, <2>3 DEF PauseCovered
  <2>5. CASE u = t
    <3>1. admitted[t] = 0
      BY <2>1, <2>2 DEF Times, RememberedWhileValid, Remembered
    <3>2. admitted'[t] = 1 /\ redeemed'[t] = Here + lag + TTL + Skew
      BY <1>2, <2>1, <3>1 DEF Times, AdmitPresented, Sweep, Retention
    <3> QED
      BY <2>1, <2>2, <2>4, <2>5, <3>2
  <2>6. CASE u # t
    <3>1. /\ admitted'[u] = admitted[u]
          /\ \/ redeemed'[u] = redeemed[u]
             \/ redeemed[u] # Never /\ redeemed[u] <= Here + lag
      BY <1>2, <2>6 DEF Times, AdmitPresented, Sweep
    <3> QED
      BY <2>1, <3>1 DEF Times, RememberedWhileValid
  <2> QED
    BY <2>5, <2>6
<1>3. ASSUME NEW t \in Tickets, NEW lag \in 0 .. pause, RefuseReplayed(t, lag)
      PROVE  RememberedWhileValid'
  BY <1>3 DEF Times, RememberedWhileValid, RefuseReplayed, ClaimReads, Sweep, Here
<1>4. ASSUME NEW t \in Tickets, RefuseUnverified(t) PROVE RememberedWhileValid'
  BY <1>4 DEF RememberedWhileValid, RefuseUnverified, Here
<1>5. CASE EndSession
  BY <1>5 DEF RememberedWhileValid, EndSession, Here
<1>6. CASE Tick
  BY <1>6 DEF Times, RememberedWhileValid, Tick, Here
<1>7. CASE Restart
  BY <1>7 DEF RememberedWhileValid, Restart
<1>8. CASE UNCHANGED vars
  BY <1>8 DEF RememberedWhileValid, vars, Here
<1> QED
  BY <1>1, <1>2, <1>3, <1>4, <1>5, <1>6, <1>7, <1>8 DEF Next

(* For any number of tickets, restarts and presentations and any life,     *)
(* skew and drift, a process admits each ticket at most once, provided the *)
(* retention of TTL + Skew covers the pause between verify's and claim's   *)
(* reading of the clock: with no pause it is exactly long enough for any   *)
(* disagreement of the clocks, and with one it is long enough unless the   *)
(* service's clock is slow by nearly the whole skew.                       *)
THEOREM TicketsAreSingleUse == Spec => []AdmittedOnce
<1> USE TicketConstants
<1> DEFINE Inv == /\ Times /\ IssuedInThePast
                  /\ PauseCovered => RememberedWhileValid
<1>1. Init => Inv
  <2> SUFFICES ASSUME Init PROVE Inv
    OBVIOUS
  <2>1. now \in Int /\ drift \in Int /\ pause \in Nat
    BY DEF Init
  <2>2. Times
    BY <2>1 DEF Init, Times
  <2>3. RememberedWhileValid /\ IssuedInThePast
    BY DEF Init, RememberedWhileValid, IssuedInThePast
  <2> QED
    BY <2>2, <2>3
<1>2. Inv /\ [Next]_vars => Inv'
  <2> SUFFICES ASSUME Inv, [Next]_vars PROVE Inv'
    OBVIOUS
  <2>1. Times' /\ IssuedInThePast'
    BY TimesStep, IssuedStep
  <2>2. PauseCovered' => PauseCovered
    BY ClocksFixed DEF PauseCovered
  <2>3. PauseCovered => RememberedWhileValid'
    BY RememberedStep
  <2> QED
    BY <2>1, <2>2, <2>3
<1>3. Inv => AdmittedOnce
  <2> SUFFICES ASSUME Inv, PauseCovered, NEW t \in Tickets
               PROVE  admitted[t] <= 1
    BY DEF AdmittedOnce
  <2>1. admitted[t] \in Nat
    BY DEF Times
  <2>2. admitted[t] > 0 => admitted[t] = 1
    BY DEF RememberedWhileValid
  <2> QED
    BY <2>1, <2>2
<1> QED
  BY <1>1, <1>2, <1>3, PTL DEF Spec

-----------------------------------------------------------------------------
(* The store and what it says of a ticket.                                 *)

(* An entry is there only for a ticket that was admitted. *)
EntriesAreEarned == \A t \in Tickets : redeemed[t] # Never => admitted[t] > 0

(* The last sweep was not in the future of the service's clock, which a    *)
(* restart can only set back to the epoch.                                 *)
SweptInThePast ==
    /\ now \in Nat /\ drift \in -MaxDrift .. MaxDrift
    /\ lastSweep \in Int /\ lastSweep <= Here

StoreInv == Times /\ EntriesAreEarned /\ ReplayMeansAdmitted /\ SweptInThePast /\ StoreForgets

LEMMA SweepKeepsTime ==
    ASSUME Times, SweptInThePast, NEW lag \in 0 .. pause, ClaimReads(lag), drift' = drift,
           lastSweep' = SweptAt(Here + lag)
    PROVE  SweptInThePast' /\ lastSweep' <= Here + lag
BY TicketConstants DEF Times, SweptInThePast, ClaimReads, SweptAt, Here

LEMMA StoreStep == StoreInv /\ [Next]_vars => StoreInv'
<1> SUFFICES ASSUME StoreInv, [Next]_vars PROVE StoreInv'
  OBVIOUS
<1> USE TicketConstants
<1>1. Times /\ Times' /\ EntriesAreEarned /\ ReplayMeansAdmitted /\ SweptInThePast /\ StoreForgets
  BY TimesStep DEF StoreInv
<1>2. ASSUME NEW t \in Tickets, NEW lag \in 0 .. pause, AdmitPresented(t, lag)
      PROVE  StoreInv'
  <2>1. SweptInThePast' /\ lastSweep' <= Here + lag /\ lastSweep' = SweptAt(Here + lag)
    BY <1>1, <1>2, SweepKeepsTime DEF AdmitPresented
  <2>2. /\ Here \in Int /\ lag \in Nat /\ lastSweep \in Int /\ lastSweep' \in Int
        /\ admitted \in [Tickets -> Nat] /\ admitted' = [admitted EXCEPT ![t] = @ + 1]
        /\ refused' = refused
        /\ redeemed' = [Sweep(Here + lag) EXCEPT ![t] = Here + lag + Retention]
    BY <1>1, <1>2, <2>1 DEF Times, SweptInThePast, AdmitPresented, Here
  <2>3. EntriesAreEarned' /\ ReplayMeansAdmitted'
    BY <1>1, <2>2 DEF EntriesAreEarned, ReplayMeansAdmitted, Sweep
  <2>4. Retention > 0
    BY <1>1, <1>2, <2>2 DEF AdmitPresented, Verdict, Retention, Times
  <2>5. ASSUME NEW u \in Tickets, redeemed'[u] # Never PROVE redeemed'[u] > lastSweep'
    <3>1. CASE u = t
      <4>1. redeemed'[u] = Here + lag + Retention /\ Retention \in Int
        BY <2>2, <3>1 DEF Sweep, Retention
      <4> QED
        BY <2>1, <2>2, <2>4, <4>1
    <3>2. CASE u # t
      BY <1>1, <2>1, <2>2, <2>5, <3>2 DEF Times, Sweep, SweptAt, StoreForgets
    <3> QED
      BY <3>1, <3>2
  <2> QED
    BY <1>1, <2>1, <2>3, <2>5 DEF StoreInv, StoreForgets
<1>3. ASSUME NEW t \in Tickets, NEW lag \in 0 .. pause, RefuseReplayed(t, lag)
      PROVE  StoreInv'
  <2>1. SweptInThePast' /\ lastSweep' = SweptAt(Here + lag)
    BY <1>1, <1>3, SweepKeepsTime DEF RefuseReplayed
  <2>2. /\ Here \in Int /\ lag \in Nat /\ lastSweep \in Int
        /\ admitted' = admitted /\ redeemed' = Sweep(Here + lag)
        /\ refused' = [refused EXCEPT ![t] = @ \cup {"replayed"}]
    BY <1>1, <1>3 DEF Times, SweptInThePast, RefuseReplayed, Here
  <2>3. admitted[t] > 0
    BY <1>1, <1>3 DEF RefuseReplayed, Remembered, EntriesAreEarned
  <2>4. EntriesAreEarned' /\ ReplayMeansAdmitted'
    BY <1>1, <2>2, <2>3 DEF EntriesAreEarned, ReplayMeansAdmitted, Sweep
  <2>5. StoreForgets'
    BY <1>1, <2>1, <2>2 DEF Times, Sweep, SweptAt, StoreForgets
  <2> QED
    BY <1>1, <2>1, <2>4, <2>5 DEF StoreInv
<1>4. ASSUME NEW t \in Tickets, RefuseUnverified(t) PROVE StoreInv'
  <2>1. Verdict(t) # "replayed"
    BY DEF Verdict
  <2> QED
    BY <1>1, <1>4, <2>1 DEF RefuseUnverified, StoreInv, EntriesAreEarned, ReplayMeansAdmitted,
       SweptInThePast, StoreForgets, Here
<1>5. ASSUME \/ EndSession \/ Tick \/ UNCHANGED vars \/ \E t \in Tickets : IssueTicket(t)
      PROVE  StoreInv'
  <2>1. /\ redeemed' = redeemed /\ admitted' = admitted /\ refused' = refused
        /\ lastSweep' = lastSweep /\ drift' = drift /\ now' \in {now, now + 1}
    BY <1>5 DEF EndSession, Tick, vars, IssueTicket
  <2>2. SweptInThePast'
    <3>1. lastSweep \in Int /\ now \in Nat /\ drift \in Int /\ lastSweep <= now + drift
      BY <1>1 DEF SweptInThePast, Here
    <3>2. lastSweep <= (now + 1) + drift
      BY <3>1
    <3>3. CASE now' = now
      BY <1>1, <2>1, <3>1, <3>3 DEF SweptInThePast, Here
    <3>4. CASE now' = now + 1
      BY <1>1, <2>1, <3>1, <3>2, <3>4 DEF SweptInThePast, Here
    <3> QED
      BY <2>1, <3>3, <3>4
  <2>3. EntriesAreEarned' /\ ReplayMeansAdmitted' /\ StoreForgets'
    BY <1>1, <2>1 DEF EntriesAreEarned, ReplayMeansAdmitted, StoreForgets
  <2> QED
    BY <1>1, <2>2, <2>3 DEF StoreInv
<1>6. CASE Restart
  BY <1>1, <1>6 DEF Restart, StoreInv, EntriesAreEarned, ReplayMeansAdmitted, SweptInThePast,
     StoreForgets, Here, Epoch
<1> QED
  BY <1>2, <1>3, <1>4, <1>5, <1>6 DEF Next

LEMMA StoreInvariance == Spec => []StoreInv
<1> USE TicketConstants
<1>1. Init => StoreInv
  <2> SUFFICES ASSUME Init PROVE StoreInv
    OBVIOUS
  <2>1. now = 0 /\ drift \in -MaxDrift .. MaxDrift /\ pause \in Nat /\ lastSweep = Epoch
    BY DEF Init
  <2>2. Times
    BY <2>1 DEF Init, Times
  <2>3. SweptInThePast
    BY <2>1 DEF SweptInThePast, Here, Epoch
  <2>4. EntriesAreEarned /\ ReplayMeansAdmitted /\ StoreForgets
    BY DEF Init, EntriesAreEarned, ReplayMeansAdmitted, StoreForgets
  <2> QED
    BY <2>2, <2>3, <2>4 DEF StoreInv
<1> QED
  BY <1>1, StoreStep, PTL DEF Spec

(* Whatever the clocks say, a ticket is called replayed only when the      *)
(* running process has admitted somebody on it.                            *)
THEOREM ReplaysAreReal == Spec => []ReplayMeansAdmitted
<1>1. StoreInv => ReplayMeansAdmitted
  BY DEF StoreInv
<1> QED
  BY <1>1, StoreInvariance, PTL

(* The store holds only what was within its retention at the last sweep:   *)
(* a ticket that verifies is always given a positive retention.            *)
THEOREM SweepsForget == Spec => []StoreForgets
<1>1. StoreInv => StoreForgets
  BY DEF StoreInv
<1> QED
  BY <1>1, StoreInvariance, PTL


-----------------------------------------------------------------------------
(* Requests.                                                               *)

(* The request hooks in their order, for any request: whatever the store of*)
(* counters says, a handler runs only when a cookie was not used from      *)
(* another origin, when the caller is a staff member who holds the route's *)
(* permission and no candidate's token came with it, and on a route that   *)
(* declared a permission unless it is listed as public.                    *)
THEOREM CallersAreDeclared ==
    ASSUME NEW request, NEW closing \in BOOLEAN, NEW used, NEW storeUp, NEW bearer, NEW session,
           bearer # Missing => bearer.kind = "candidate",
           session # Missing => session.kind = "staff"
    PROVE  OnlyDeclaredCallers(request, closing, used, storeUp, bearer, session)
<1> DEFINE principal == PrincipalOf(bearer, session)
           declared == AuthorisationFor(PUBLIC_ROUTES, request)
           denial == Enforce(declared, principal)
           limited == RateLimited(request.url, request.scope, used, storeUp)
<1> SUFFICES ASSUME Respond(request, closing, used, storeUp, bearer, session) = "handled"
             PROVE  /\ ~(request.method \in STATE_CHANGING_METHODS /\ request.cookies # Missing
                            /\ request.origin = "theirs")
                    /\ request.matched /\ request.permission # Missing =>
                           bearer = Missing /\ session # Missing /\ request.permission \in session.permissions
                    /\ request.matched /\ Listed(PUBLIC_ROUTES, request.method, request.url) = {} =>
                           request.permission # Missing
  BY DEF OnlyDeclaredCallers
<1>1. CsrfRejection(request) = Missing /\ principal # [kind |-> "crossed"] /\ denial = Missing
  <2> HIDE DEF principal, declared, limited
  <2>1. Respond(request, closing, used, storeUp, bearer, session) =
           CASE closing -> "unavailable"
             [] ~closing /\ CsrfRejection(request) # Missing -> "forbidden"
             [] ~closing /\ CsrfRejection(request) = Missing /\ limited -> "rate_limited"
             [] OTHER -> IF principal = [kind |-> "crossed"] THEN "unauthenticated"
                         ELSE IF denial # Missing THEN DenialCode(denial) ELSE "handled"
    BY DEF Respond, principal, declared, limited
  <2>2. DenialCode(denial) # "handled"
    BY DEF DenialCode
  <2> QED
    BY <2>1, <2>2
<1>2. ~(request.method \in STATE_CHANGING_METHODS /\ request.cookies # Missing
          /\ request.origin = "theirs")
  BY <1>1, PolicyConstants DEF CsrfRejection
<1>3. ASSUME request.matched, request.permission # Missing
      PROVE  bearer = Missing /\ session # Missing /\ request.permission \in session.permissions
  <2>1. declared = [kind |-> "permission", permission |-> request.permission]
    BY <1>3 DEF AuthorisationFor
  <2>2. principal # Missing /\ Can(principal, request.permission)
    BY <1>1, <2>1, PolicyConstants DEF Enforce
  <2>3. principal.kind = "staff" /\ request.permission \in principal.permissions
    BY <2>2 DEF Can
  <2> QED
    BY <2>2, <2>3 DEF PrincipalOf
<1>4. ASSUME request.matched, Listed(PUBLIC_ROUTES, request.method, request.url) = {}, request.permission = Missing
      PROVE  FALSE
  <2>1. declared = [kind |-> "undeclared"]
    BY <1>4 DEF AuthorisationFor
  <2> QED
    BY <1>1, <2>1, PolicyConstants DEF Enforce
<1> QED
  BY <1>2, <1>3, <1>4

-----------------------------------------------------------------------------
(* The audit trail.                                                        *)

(* Whoever acts, and whatever the record was asked to hold. *)
LEMMA WhatIsPreparedIsTaken ==
    ASSUME NEW entry, PrepareAuditEntry(entry).refused = Missing,
           entry.reason \in Nat \cup {Missing},
           entry.actor.kind \in {"staff", "candidate", "job"},
           entry.actor.kind = "staff" => entry.actor.id # Missing
    PROVE  LET row == PrepareAuditEntry(entry) IN
           /\ TableAccepts(row)
           /\ row.actorUser = Missing /\ entry.actor.kind # "job" => "actor_attempt_id" \in row.after
<1> DEFINE given == IF entry.reason = Missing THEN 0 ELSE entry.reason
           keys == (IF entry.after = Missing \/ entry.after.levels = <<>> THEN {} ELSE entry.after.levels[1])
                   \cup (IF given > 0 THEN {"reason"} ELSE {})
                   \cup (IF entry.actor.kind = "candidate" THEN {"actor_attempt_id"} ELSE {})
           row == PrepareAuditEntry(entry)
<1>1. /\ ~(given = 0 /\ RequiresReason(entry.action))
      /\ PrefixAllows(entry.actor, entry.action.prefix)
      /\ row = [refused |-> Missing, actorUser |-> ActorColumn(entry.actor), action |-> entry.action,
                reason |-> given, after |-> keys]
  BY AuditConstants DEF PrepareAuditEntry, REFUSALS
<1>2. given \in Nat
  OBVIOUS
<1> HIDE DEF row
<1>3. row.actorUser = ActorColumn(entry.actor) /\ row.action = entry.action
      /\ row.reason = given /\ row.after = keys
  BY <1>1
<1>4. RequiresReason(row.action) => "reason" \in row.after /\ row.reason > 0
  <2>1. RequiresReason(row.action) => given > 0
    BY <1>1, <1>2, <1>3
  <2>2. given > 0 => "reason" \in keys
    OBVIOUS
  <2> QED
    BY <2>1, <2>2, <1>3
<1>5. row.actorUser = Missing => entry.actor.kind # "staff"
  BY <1>3 DEF ActorColumn
<1>6. row.actorUser = Missing => row.action.prefix \in {"job.", "candidate."}
  BY <1>1, <1>3, <1>5 DEF PrefixAllows
<1>7. entry.actor.kind = "candidate" => "actor_attempt_id" \in row.after
  BY <1>3
<1> QED
  BY <1>4, <1>5, <1>6, <1>7 DEF TableAccepts, row

(* Whatever a request claims of where it came from, the address recorded   *)
(* is one the column takes.                                                *)
LEMMA AddressIsTaken ==
    ASSUME NEW forwarded, NEW socket
    PROVE  LET ip == AuditClientAddress(forwarded, socket) IN ip # Missing => IsAuditableAddress(ip)
BY DEF AuditClientAddress

(* Two entries that differ in nothing but an address the column takes are  *)
(* refused alike.                                                          *)
LEMMA AddressDecidesNothing ==
    ASSUME NEW x, NEW y,
           x.actor = y.actor, x.action = y.action, x.entityTypeWellFormed = y.entityTypeWellFormed,
           x.entityId = y.entityId, x.reason = y.reason, x.before = y.before, x.after = y.after, x.at = y.at,
           x.ip # Missing => IsAuditableAddress(x.ip), y.ip # Missing => IsAuditableAddress(y.ip)
    PROVE  PrepareAuditEntry(x).refused = PrepareAuditEntry(y).refused
<1>1. \A n : MergedSize(x, n) = MergedSize(y, n)
  BY DEF MergedSize
<1> QED
  BY <1>1, SMT DEF PrepareAuditEntry

(* registerAudit's audited(), for any principal, spec, call and patch:     *)
(* the work commits exactly when one audit row does, the row is one the    *)
(* table's constraints accept, a row without a staff member names the      *)
(* attempt it was made in, and whether the work commits does not depend on *)
(* the address the client claims.                                          *)
THEOREM WorkIsRecorded ==
    ASSUME NEW principal, NEW spec, NEW call, NEW worked \in BOOLEAN, NEW patch,
           principal # Missing =>
              \/ principal.kind = "staff" /\ principal.user # Missing
              \/ principal.kind = "candidate",
           {"action", "entityTypeWellFormed", "entityId", "reason", "before", "after"} \subseteq DOMAIN spec,
           "forwarded" \in DOMAIN call,
           Over(patch, spec).reason \in Nat \cup {Missing}
    PROVE  RecordOrNothing(principal, spec, call, worked, patch)
<1>1. CASE principal = Missing
  BY <1>1 DEF RecordOrNothing, Audited
<1>2. CASE principal # Missing
  <2> DEFINE known(c) == [actor |-> AuditActorFor(principal), at |-> c.at,
                          ip |-> AuditClientAddress(c.forwarded, c.socket)]
             early(c) == Over(known(c), spec)
             entry(c) == Over(known(c), Amended(spec, patch))
             first(c) == PrepareAuditEntry(early(c))
             final(c) == PrepareAuditEntry(entry(c))
             outcome(c) == Audited(principal, spec, c, worked, patch)
             moved == [call EXCEPT !.forwarded = Nowhere]
  <2>1. entry(call).actor = AuditActorFor(principal) /\ entry(call).reason \in Nat \cup {Missing}
    BY DEF Over, Amended
  <2>2. /\ entry(call).actor.kind \in {"staff", "candidate"}
        /\ entry(call).actor.kind = "staff" => entry(call).actor.id # Missing
    BY <1>2, <2>1 DEF AuditActorFor
  <2>3. final(call).refused = Missing =>
           TableAccepts(final(call)) /\ (final(call).actorUser = Missing => "actor_attempt_id" \in final(call).after)
    <3> HIDE DEF entry
    <3> QED
      BY <2>1, <2>2, WhatIsPreparedIsTaken
  <2>4. first(moved).refused = first(call).refused
    <3>1. \A c : known(c).ip # Missing => IsAuditableAddress(known(c).ip)
      BY AddressIsTaken
    <3>2. moved.at = call.at
      OBVIOUS
    <3>3. \A f \in {"actor", "action", "entityTypeWellFormed", "entityId", "reason", "before", "after", "at"} :
             early(moved)[f] = early(call)[f]
      BY <3>2 DEF Over
    <3>4. early(moved).ip = known(moved).ip /\ early(call).ip = known(call).ip
      BY DEF Over
    <3> HIDE DEF early, known, moved
    <3> QED
      BY <3>1, <3>3, <3>4, AddressDecidesNothing
  <2>5. final(moved).refused = final(call).refused
    <3>1. \A c : known(c).ip # Missing => IsAuditableAddress(known(c).ip)
      BY AddressIsTaken
    <3>2. moved.at = call.at
      OBVIOUS
    <3>3. \A f \in {"actor", "action", "entityTypeWellFormed", "entityId", "reason", "before", "after", "at"} :
             entry(moved)[f] = entry(call)[f]
      BY <3>2 DEF Over, Amended
    <3>4. entry(moved).ip = known(moved).ip /\ entry(call).ip = known(call).ip
      BY DEF Over
    <3> HIDE DEF entry, known, moved
    <3> QED
      BY <3>1, <3>3, <3>4, AddressDecidesNothing
  <2>6. \A c : IF first(c).refused = Missing /\ worked /\ final(c).refused = Missing
               THEN outcome(c).committed = TRUE /\ outcome(c).rows = {final(c)}
               ELSE outcome(c).committed = FALSE /\ outcome(c).rows = {}
    <3> TAKE c
    <3> HIDE DEF first, final
    <3> QED
      BY <1>2 DEF Audited, first, final
  <2> HIDE DEF first, final, outcome, moved
  <2>7. /\ outcome(call).committed <=> outcome(call).rows # {}
        /\ outcome(call).committed => worked
        /\ \A row \in outcome(call).rows :
              /\ TableAccepts(row)
              /\ row.actorUser = Missing => "actor_attempt_id" \in row.after
    BY <2>3, <2>6
  <2>8. outcome(moved).committed = outcome(call).committed
    BY <2>4, <2>5, <2>6
  <2> QED
    BY <2>7, <2>8 DEF RecordOrNothing, outcome, moved
<1> QED
  BY <1>1, <1>2

-----------------------------------------------------------------------------
(* Configuration.                                                          *)

(* A feature with no variable half set has all of them or none. *)
LEMMA FeatureWholeOrOff ==
    ASSUME NEW env, NEW feature, HalfSet(env, feature) = {}
    PROVE  Cardinality({v \in feature : env[v] # Missing}) \in {0, Cardinality(feature)}
<1> DEFINE given == {v \in feature : env[v] # Missing}
<1>1. CASE \E v \in feature : env[v] # Missing
  <2>1. given = feature
    BY <1>1 DEF HalfSet
  <2> QED
    BY <2>1
<1>2. CASE ~\E v \in feature : env[v] # Missing
  <2>1. given = {}
    BY <1>2
  <2> QED
    BY <2>1, FS_EmptySet
<1> QED
  BY <1>1, <1>2

(* An environment that passes all three passes, field by field. *)
LEMMA PassedMeans ==
    ASSUME NEW given, LoadConfig(given).issues = {},
           \A v \in DOMAIN given : given[v] # Missing
    PROVE  LET raw == NormaliseEnv(given)
               env == Over(raw, Defaults)
           IN  /\ LoadConfig(given) = [issues |-> {}, config |-> Shape(env)]
               /\ ParseIssues(raw) = {}
               /\ CrossFieldIssues(env) = {}
               /\ IsDeployed(env) => DeployedTierIssues(env) = {}
<1> DEFINE raw == NormaliseEnv(given)
           env == Over(raw, Defaults)
           issues == IF ParseIssues(raw) # {} THEN ParseIssues(raw)
                     ELSE CrossFieldIssues(env)
                            \cup (IF IsDeployed(env) THEN DeployedTierIssues(env) ELSE {})
<1>1. LoadConfig(given) = IF issues # {} THEN [issues |-> issues]
                          ELSE [issues |-> {}, config |-> Shape(env)]
  BY DEF LoadConfig
<1> HIDE DEF raw, env
<1>2. issues = {}
  <2> HIDE DEF issues
  <2> QED
    BY <1>1
<1>3. LoadConfig(given) = [issues |-> {}, config |-> Shape(env)]
  BY <1>1, <1>2
<1>4. /\ ParseIssues(raw) = {} /\ CrossFieldIssues(env) = {}
      /\ IsDeployed(env) => DeployedTierIssues(env) = {}
  BY <1>2
<1> QED
  BY <1>3, <1>4 DEF raw, env

(* The sandbox's two time limits are whole numbers once read. *)
LEMMA LimitsAreNumbers ==
    ASSUME NEW raw, ParseIssues(raw) = {}
    PROVE  \A v \in {"EXEC_CPU_TIME_MS", "EXEC_WALL_TIME_MS"} : Over(raw, Defaults)[v] \in Int
<1> DEFINE limits == {"EXEC_CPU_TIME_MS", "EXEC_WALL_TIME_MS"}
<1>1. \A v \in limits : v \in DOMAIN Band
  BY DEF Band, Over
<1>2. \A v \in limits : v \in DOMAIN raw => raw[v] \in Int
  <2> SUFFICES ASSUME NEW v \in limits, v \in DOMAIN raw
               PROVE  raw[v] \in Int
    OBVIOUS
  <2>1. Parses(v, raw[v])
    BY DEF ParseIssues
  <2>2. raw[v] \in Band[v][1]..Band[v][2]
    BY <1>1, <2>1 DEF Parses, ParsesInt
  <2> QED
    BY <2>2
<1>3. \A v \in limits : v \in DOMAIN Defaults /\ Defaults[v] \in Int
  BY DEF Defaults, Over, Oidc, Livekit
<1> HIDE DEF limits
<1>4. \A v \in limits : Over(raw, Defaults)[v] \in Int
  BY <1>2, <1>3 DEF Over
<1> QED
  BY <1>4 DEF limits

(* loadConfig and what index.ts exports of it, for any environment: one    *)
(* that is refused throws wherever it is read and its message holds no     *)
(* secret; one that boots has whole features, a processor limit within the *)
(* wall-clock one and, on a deployed tier, strong secrets, encrypted       *)
(* endpoints and no debug log that was not asked for; and what is printed  *)
(* of it shows no secret.                                                  *)
THEOREM WhatBootsIsSound ==
    ASSUME NEW given, \A v \in DOMAIN given : given[v] # Missing
    PROVE  BootIsSound(given)
<1> DEFINE outcome == LoadConfig(given)
           raw == NormaliseEnv(given)
           env == Over(raw, Defaults)
<1>1. ASSUME outcome.issues # {}
      PROVE  BootIsSound(given)
  <2>1. ReadPart(given) = "throws"
    BY <1>1 DEF ReadPart
  <2>2. \A v \in outcome.issues \cap Sealed : DescribeReceived(v, given) # "the value"
    BY DEF DescribeReceived
  <2> HIDE DEF outcome
  <2> QED
    BY <1>1, <2>1, <2>2 DEF BootIsSound, outcome
<1>2. ASSUME outcome.issues = {}
      PROVE  BootIsSound(given)
  <2>1. /\ outcome = [issues |-> {}, config |-> Shape(env)]
        /\ ParseIssues(raw) = {} /\ CrossFieldIssues(env) = {}
        /\ IsDeployed(env) => DeployedTierIssues(env) = {}
    BY <1>2, PassedMeans
  <2> DEFINE config == Shape(env)
  <2>2. \A v \in Required : env[v] # Missing
    <3>1. \A v \in Required : v \in DOMAIN raw
      BY <2>1 DEF ParseIssues
    <3> QED
      BY <3>1 DEF Over, NormaliseEnv
  <2>3. env["EXEC_CPU_TIME_MS"] \in Int /\ env["EXEC_WALL_TIME_MS"] \in Int
    BY <2>1, LimitsAreNumbers
  <2> HIDE DEF env, raw
  <2>4. \A feature \in {Oidc, Livekit} :
           Cardinality({v \in feature : env[v] # Missing}) \in {0, Cardinality(feature)}
    <3>1. HalfSet(env, Oidc) = {} /\ HalfSet(env, Livekit) = {}
      BY <2>1 DEF CrossFieldIssues
    <3> QED
      BY <3>1, FeatureWholeOrOff
  <2>5. env["EXEC_CPU_TIME_MS"] <= env["EXEC_WALL_TIME_MS"]
    <3>1. ~(env["EXEC_WALL_TIME_MS"] < env["EXEC_CPU_TIME_MS"])
      BY <2>1 DEF CrossFieldIssues
    <3> QED
      BY <2>3, <3>1
  <2>6. /\ config.deployed = IsDeployed(env) /\ config.values = env
        /\ config.oidc = ToFeature(env, Oidc) /\ config.livekit = ToFeature(env, Livekit)
        /\ config.logLevel = IF env["LOG_LEVEL"] # Missing THEN env["LOG_LEVEL"]
                             ELSE IF IsDeployed(env) THEN "info" ELSE "debug"
    BY DEF Shape
  <2> HIDE DEF config
  <2>7. ASSUME config.deployed
        PROVE  /\ \A v \in SecretValues : env[v].bytes >= MIN_SECRET_BYTES /\ ~env[v].placeholder
               /\ config.oidc => env["OIDC_CLIENT_SECRET"].bytes >= MIN_SECRET_BYTES
               /\ config.oidc => env["OIDC_ISSUER"].protocol = "https:"
               /\ config.livekit => env["LIVEKIT_URL"].protocol = "wss:"
               /\ config.logLevel = "debug" => env["LOG_LEVEL"] = "debug"
    <3>1. IsDeployed(env) /\ DeployedTierIssues(env) = {}
      BY <2>1, <2>6, <2>7
    <3>2. /\ \A v \in DOMAIN Tls : RequireProtocol(env, v)
          /\ \A v \in SecretValues \cup {"OIDC_CLIENT_SECRET", "LIVEKIT_API_SECRET"} : Strong(env, v)
          /\ \A v \in Placeheld : ~env[v].placeholder
      BY <3>1 DEF DeployedTierIssues
    <3>3. \A v \in SecretValues : env[v].bytes >= MIN_SECRET_BYTES /\ ~env[v].placeholder
      BY <2>2, <3>2 DEF Strong, SecretValues, Required, Placeheld
    <3>4. config.oidc => env["OIDC_CLIENT_SECRET"].bytes >= MIN_SECRET_BYTES
      BY <2>6, <3>2 DEF ToFeature, Oidc, Strong
    <3>5. /\ "OIDC_ISSUER" \in DOMAIN Tls /\ Tls["OIDC_ISSUER"] = "https:"
          /\ "LIVEKIT_URL" \in DOMAIN Tls /\ Tls["LIVEKIT_URL"] = "wss:"
      BY DEF Tls, Over
    <3>6. config.oidc => env["OIDC_ISSUER"].protocol = "https:"
      BY <2>6, <3>2, <3>5 DEF ToFeature, Oidc, RequireProtocol
    <3>7. config.livekit => env["LIVEKIT_URL"].protocol = "wss:"
      BY <2>6, <3>2, <3>5 DEF ToFeature, Livekit, RequireProtocol
    <3>8. config.logLevel = "debug" => env["LOG_LEVEL"] = "debug"
      BY <2>6, <3>1
    <3> QED
      BY <3>3, <3>4, <3>6, <3>7, <3>8
  <2>8. \A v \in Sealed : Render(given, v) \notin {"shown", "the failure"}
    <3>1. \A v \in Sealed : v \in RedactedWhole \/ v \in RedactedDsns
      BY DEF Sealed, Dsns, SecretValues, RedactedWhole, RedactedDsns
    <3> QED
      BY <1>2, <3>1 DEF Render, RedactConfig
  <2>9. ReadPart(given) = "value"
    BY <1>2 DEF ReadPart
  <2>10. outcome.config = config
    BY <2>1 DEF config
  <2> HIDE DEF outcome
  <2> QED
    BY <1>2, <2>4, <2>5, <2>6, <2>7, <2>8, <2>9, <2>10 DEF BootIsSound, outcome
<1> QED
  BY <1>1, <1>2

-----------------------------------------------------------------------------
(* What a candidate is served.                                             *)

(* What each of a record's fields is made of decides the record. *)
LEMMA PicksAgree ==
    ASSUME NEW v, NEW w, NEW fields, \A f \in fields : v[f] = w[f]
    PROVE  Pick(v, fields) = Pick(w, fields)
BY DEF Pick

(* The brief of a program depends on the shown fields of its spec and on   *)
(* how many cases are samples and how many are hidden, and on nothing else.*)
LEMMA BriefsAgree ==
    ASSUME NEW v, NEW w, SameQuestionAsked(v, w),
           \A i \in DOMAIN v.test_cases : v.test_cases[i].is_sample \in BOOLEAN,
           \A i \in DOMAIN w.test_cases : w.test_cases[i].is_sample \in BOOLEAN
    PROVE  CandidateCodingBrief(v) = CandidateCodingBrief(w)
<1> DEFINE Cases(x, s) == {i \in DOMAIN x.test_cases : x.test_cases[i].is_sample = s}
           Shown(x) == IF x.coding_spec = Missing
                       THEN [allowed_languages |-> <<>>, starter_code |-> 0, time_limit_ms |-> 5000,
                             memory_limit_kb |-> 262144, fixture_sql |-> Missing]
                       ELSE Pick(x.coding_spec, BriefFields)
           Counts(x) == [sample_case_count |-> Cardinality(Cases(x, TRUE)),
                         hidden_case_count |-> Cardinality(Cases(x, FALSE))]
<1>1. Counts(v) = Counts(w)
  BY DEF SameQuestionAsked
<1>2. Shown(v) = Shown(w)
  <2>1. CASE v.coding_spec = Missing
    BY <2>1 DEF SameQuestionAsked
  <2>2. CASE v.coding_spec # Missing
    <3>1. w.coding_spec # Missing /\ \A f \in BriefFields : v.coding_spec[f] = w.coding_spec[f]
      BY <2>2 DEF SameQuestionAsked, BriefFields, SpecFields
    <3> QED
      BY <2>2, <3>1, PicksAgree
  <2> QED
    BY <2>1, <2>2
<1>3. ASSUME NEW x, \A i \in DOMAIN x.test_cases : x.test_cases[i].is_sample \in BOOLEAN
      PROVE  CandidateCodingBrief(x) = Over(Shown(x), Counts(x))
  <2>1. /\ Cases(x, TRUE) = {i \in DOMAIN x.test_cases : x.test_cases[i].is_sample}
        /\ Cases(x, FALSE) = {i \in DOMAIN x.test_cases : ~x.test_cases[i].is_sample}
    BY <1>3
  <2> QED
    BY <2>1 DEF CandidateCodingBrief
<1> HIDE DEF Shown, Counts
<1>4. CandidateCodingBrief(v) = Over(Shown(v), Counts(v)) /\ CandidateCodingBrief(w) = Over(Shown(w), Counts(w))
  BY <1>3
<1> QED
  BY <1>1, <1>2, <1>4

(* toCandidateView, for any kind and any two versions that ask the same    *)
(* question: whatever their keys, solutions, rationales and hidden cases   *)
(* are, the candidate is sent the same.                                    *)
THEOREM AnswersStayHidden ==
    ASSUME NEW kind, NEW v, NEW w,
           \A i \in DOMAIN v.test_cases : v.test_cases[i].is_sample \in BOOLEAN,
           \A i \in DOMAIN w.test_cases : w.test_cases[i].is_sample \in BOOLEAN
    PROVE  CandidateLearnsNothing(kind, v, w)
<1> SUFFICES ASSUME SameQuestionAsked(v, w)
             PROVE  ToCandidateView(kind, v) = ToCandidateView(kind, w)
  BY DEF CandidateLearnsNothing
<1>1. Pick(v, CandidateCommon) = Pick(w, CandidateCommon)
  <2>1. \A f \in CandidateCommon : v[f] = w[f]
    BY DEF SameQuestionAsked, CandidateCommon
  <2> QED
    BY <2>1, PicksAgree
<1>2. v["id"] = w["id"]
  BY DEF SameQuestionAsked
<1>3. Each(CandidateOption, v.options) = Each(CandidateOption, w.options)
  BY DEF SameQuestionAsked
<1>4. CandidateCodingBrief(v) = CandidateCodingBrief(w)
  BY BriefsAgree
<1> QED
  BY <1>1, <1>2, <1>3, <1>4 DEF ToCandidateView

-----------------------------------------------------------------------------
(* The console and the coverage report.                                    *)

(* guidanceFor says blocked exactly when a role's badge does, thin only    *)
(* when one does, ready only when every badge is and nothing is in review, *)
(* and a role offers composing exactly when it is not blocked.             *)
LEMMA GuidanceIsConsistent ==
    ASSUME NEW verdicts, NEW reviewCount \in Nat,
           \A i \in DOMAIN verdicts : verdicts[i] # Missing => verdicts[i].ready \in BOOLEAN
    PROVE  GuidanceAgrees(verdicts, reviewCount)
<1> DEFINE rule == GuidanceFor(verdicts, reviewCount)
           badges == {VerdictBadge(verdicts[i]) : i \in DOMAIN verdicts}
           Known(i) == i \in DOMAIN verdicts /\ verdicts[i] # Missing
<1>1. \A i \in DOMAIN verdicts : VerdictBadge(verdicts[i]) \in badges
  OBVIOUS
<1>2. \A i \in DOMAIN verdicts :
         /\ VerdictBadge(verdicts[i]) = "blocked" <=> Known(i) /\ ~verdicts[i].ready
         /\ VerdictBadge(verdicts[i]) = "thin" <=> Known(i) /\ verdicts[i].ready /\ verdicts[i].thin # {}
         /\ VerdictBadge(verdicts[i]) \in {"blocked", "thin", "ready", "checking"}
  BY DEF VerdictBadge
<1>3. \A b \in badges : \E i \in DOMAIN verdicts : b = VerdictBadge(verdicts[i])
  OBVIOUS
<1> HIDE DEF badges
<1>4. "blocked" \in badges => rule = "blocked"
  <2> SUFFICES ASSUME "blocked" \in badges PROVE rule = "blocked"
    OBVIOUS
  <2>1. PICK i \in DOMAIN verdicts : VerdictBadge(verdicts[i]) = "blocked"
    BY <1>3
  <2>2. verdicts # <<>>
    BY <2>1
  <2> QED
    BY <1>2, <2>1, <2>2 DEF GuidanceFor
<1>5. rule = "blocked" => "blocked" \in badges
  <2> SUFFICES ASSUME rule = "blocked" PROVE "blocked" \in badges
    OBVIOUS
  <2>1. \E i \in DOMAIN verdicts : Known(i) /\ ~verdicts[i].ready
    BY DEF GuidanceFor
  <2> QED
    BY <1>1, <1>2, <2>1
<1>6. rule = "thin" => "thin" \in badges
  <2> SUFFICES ASSUME rule = "thin" PROVE "thin" \in badges
    OBVIOUS
  <2>1. \E i \in DOMAIN verdicts : Known(i) /\ verdicts[i].ready /\ verdicts[i].thin # {}
    BY DEF GuidanceFor
  <2> QED
    BY <1>1, <1>2, <2>1
<1>7. rule = "ready" => reviewCount = 0 /\ badges \subseteq {"ready", "checking"}
  <2> SUFFICES ASSUME rule = "ready" PROVE reviewCount = 0 /\ badges \subseteq {"ready", "checking"}
    OBVIOUS
  <2>1. /\ reviewCount = 0
        /\ \A i \in DOMAIN verdicts : Known(i) => verdicts[i].ready /\ verdicts[i].thin = {}
    BY DEF GuidanceFor
  <2> QED
    BY <1>2, <1>3, <2>1
<1>8. \A i \in DOMAIN verdicts : verdicts[i] # Missing =>
         (RoleAction(verdicts[i]) = "compose") = (VerdictBadge(verdicts[i]) # "blocked")
  BY <1>2 DEF RoleAction
<1> QED
  BY <1>4, <1>5, <1>6, <1>7, <1>8 DEF GuidanceAgrees, badges

(* The gaps the API reports are the skills the console calls blocked, and  *)
(* the order of a role's requirements leaves no two of them undecided.     *)
LEMMA GapsAreTheBlocked ==
    ASSUME NEW requirements, NEW bank,
           \A r \in requirements : r.skill \in Int /\ r.required \in BOOLEAN /\ r.min \in Int
    PROVE  GapsAgree(requirements, bank)
<1> DEFINE coverage == Coverage(requirements, bank)
           Row(r) == [key |-> r.skill, is_required |-> r.required, in_band |-> coverage[r].inBand]
           rows == {Row(r) : r \in requirements}
           weighted == {[key |-> r.skill, is_required |-> r.required, weight |-> r.min] : r \in requirements}
<1>1. Gaps(requirements, bank) = {row.key : row \in VerdictFor(rows).blocked}
  <2> HIDE DEF coverage
  <2>1. VerdictFor(rows).blocked = {row \in rows : row.is_required /\ row.in_band = 0}
    BY DEF VerdictFor
  <2>2. Gaps(requirements, bank) =
           {r.skill : r \in {x \in requirements : x.required /\ coverage[x].inBand = 0}}
    BY DEF Gaps, coverage
  <2>3. \A r \in requirements : /\ Row(r).key = r.skill /\ Row(r).in_band = coverage[r].inBand
                                /\ Row(r).is_required = r.required
    OBVIOUS
  <2> DEFINE gaps == {r.skill : r \in {x \in requirements : x.required /\ coverage[x].inBand = 0}}
             blocked == {row \in rows : row.is_required /\ row.in_band = 0}
  <2> HIDE DEF Row
  <2>4. ASSUME NEW k \in gaps PROVE k \in {row.key : row \in blocked}
    <3>1. PICK r \in requirements : r.required /\ coverage[r].inBand = 0 /\ k = r.skill
      OBVIOUS
    <3>2. Row(r) \in blocked /\ Row(r).key = k
      BY <2>3, <3>1
    <3> HIDE DEF blocked
    <3> QED
      BY <3>2
  <2>5. ASSUME NEW k \in {row.key : row \in blocked} PROVE k \in gaps
    <3>1. PICK row \in blocked : k = row.key
      OBVIOUS
    <3>2. PICK r \in requirements : row = Row(r)
      OBVIOUS
    <3> QED
      BY <2>3, <3>1, <3>2
  <2> HIDE DEF gaps, blocked
  <2>6. gaps = {row.key : row \in blocked}
    BY <2>4, <2>5
  <2> QED
    BY <2>1, <2>2, <2>6 DEF gaps, blocked
<1>2. ASSUME NEW a \in weighted, NEW b \in weighted, a # b
      PROVE  RequirementBefore(a, b) # RequirementBefore(b, a)
  <2>1. PICK r \in requirements : a = [key |-> r.skill, is_required |-> r.required, weight |-> r.min]
    OBVIOUS
  <2>2. PICK s \in requirements : b = [key |-> s.skill, is_required |-> s.required, weight |-> s.min]
    OBVIOUS
  <2>3. r.skill # s.skill \/ r.required # s.required \/ r.min # s.min
    BY <1>2, <2>1, <2>2
  <2>4. /\ a.key \in Int /\ a.is_required \in BOOLEAN /\ a.weight \in Int
        /\ b.key \in Int /\ b.is_required \in BOOLEAN /\ b.weight \in Int
        /\ a.key # b.key \/ a.is_required # b.is_required \/ a.weight # b.weight
    BY <2>1, <2>2, <2>3
  <2>5. CASE a.is_required # b.is_required
    BY <2>4, <2>5 DEF RequirementBefore
  <2>6. CASE a.is_required = b.is_required /\ a.weight # b.weight
    BY <2>4, <2>6 DEF RequirementBefore
  <2>7. CASE a.is_required = b.is_required /\ a.weight = b.weight
    BY <2>4, <2>7 DEF RequirementBefore
  <2> QED
    BY <2>5, <2>6, <2>7
<1> QED
  BY <1>1, <1>2 DEF GapsAgree

(* shouldRetryQuery and the query cache's handler: whatever an answer is, a*)
(* query is asked once or, for a fault that may pass, three times; a query *)
(* told that nobody is signed in is not asked again and drops the cached   *)
(* profile, unless it is the session's own; and what was thrown is shown as*)
(* an internal error.                                                      *)
LEMMA FailuresAreSettled ==
    ASSUME NEW response, NEW accepts
    PROVE  FailuresSettle(response, accepts)
<1> DEFINE outcome == Request(response, accepts)
           again == {n \in 0..MAX_QUERY_RETRIES + 1 : ShouldRetryQuery(n, outcome)}
<1> HIDE DEF outcome
<1>1. IsRetryable(outcome) => again = {0, 1}
  BY DEF ShouldRetryQuery, MAX_QUERY_RETRIES, IsRetryable
<1>2. ~IsRetryable(outcome) => again = {}
  BY DEF ShouldRetryQuery
<1>3. Cardinality({0, 1}) = 2 /\ Cardinality({}) = 0
  <2>1. Cardinality({}) = 0 /\ IsFiniteSet({})
    BY FS_EmptySet
  <2>2. {0} = {} \cup {0} /\ {0, 1} = {0} \cup {1}
    OBVIOUS
  <2>3. IsFiniteSet({0}) /\ Cardinality({0}) = 1
    BY FS_Singleton
  <2>4. Cardinality({0} \cup {1}) = Cardinality({0}) + 1
    BY <2>3, FS_AddElement
  <2> QED
    BY <2>1, <2>2, <2>3, <2>4
<1>4. /\ IsRetryable(outcome) => TimesAsked(FALSE, outcome) = 3
      /\ ~IsRetryable(outcome) => TimesAsked(FALSE, outcome) = 1
  BY <1>1, <1>2, <1>3 DEF TimesAsked
<1>5. IsUnauthenticated(outcome) => ~IsRetryable(outcome)
  BY DEF IsUnauthenticated, IsRetryable, RETRYABLE
<1>6. IsUnauthenticated(outcome) =>
         /\ SessionAfter("profile", FALSE, outcome) = Missing
         /\ SessionAfter("profile", TRUE, outcome) = "profile"
  BY DEF SessionAfter
<1>7. outcome.kind = "thrown" => ToDisplayEnvelope(outcome).code = "internal"
  BY DEF ToDisplayEnvelope
<1>8. TimesAsked(FALSE, outcome) \in {1, MAX_QUERY_RETRIES + 1}
  <2>1. 3 = MAX_QUERY_RETRIES + 1
    BY DEF MAX_QUERY_RETRIES
  <2>2. CASE IsRetryable(outcome)
    BY <1>4, <2>1, <2>2
  <2>3. CASE ~IsRetryable(outcome)
    BY <1>4, <2>3
  <2> QED
    BY <2>2, <2>3
<1> QED
  BY <1>4, <1>5, <1>6, <1>7, <1>8 DEF FailuresSettle, outcome

-----------------------------------------------------------------------------
(* Deadlines and the attempt's life.                                       *)

(* Rounding up, by the two units the deadline is rounded in. *)
LEMMA Ceiling ==
    ASSUME NEW n \in Int
    PROVE  /\ Ceil(n, 100) \in Int /\ 100 * Ceil(n, 100) >= n /\ 100 * Ceil(n, 100) < n + 100
           /\ Ceil(n, 1000) \in Int /\ 1000 * Ceil(n, 1000) >= n /\ 1000 * Ceil(n, 1000) < n + 1000
BY DEF Ceil

(* Rounding up keeps the order.                                            *)
LEMMA CeilingGrows ==
    ASSUME NEW m \in Int, NEW n \in Int, m <= n
    PROVE  Ceil(m, 100) <= Ceil(n, 100)
BY DEF Ceil

(* computeDeadline and secondsRemaining, for any start, length, extra time *)
(* and moment: extra time never shortens an attempt, rounding gives the    *)
(* candidate less than a second, and the page shows time left exactly      *)
(* before the deadline, so never to a candidate whom the server would call *)
(* late.                                                                   *)
THEOREM DeadlinesAreFair ==
    ASSUME NEW startedAt \in Nat, NEW seconds \in 1 .. MAX_DURATION_SECONDS,
           NEW pct \in 0 .. MAX_EXTRA_TIME_PCT, NEW at \in Nat
    PROVE  DeadlineIsFair(startedAt, seconds, pct, at)
<1> DEFINE deadline == ComputeDeadline(startedAt, seconds, pct)
           exact(p) == seconds * (100 + p)
<1>1. startedAt \in Int /\ seconds \in Nat /\ pct \in Nat /\ at \in Int
  OBVIOUS
<1>2. \A p \in Nat : exact(p) \in Nat /\ exact(p) >= 100 * seconds /\ exact(p + 1) >= exact(p)
  <2>1. \A s, p \in Nat : s * (100 + p) = 100 * s + s * p /\ s * p \in Nat
    OBVIOUS
  <2>2. \A s, p \in Nat : s * (p + 1) = s * p + s
    OBVIOUS
  <2> QED
    BY <1>1, <2>1, <2>2
<1>3. \A p \in 0 .. MAX_EXTRA_TIME_PCT :
         ComputeDeadline(startedAt, seconds, p) = startedAt + 1000 * Ceil(exact(p), 100)
  BY DEF ComputeDeadline
<1>4. 1000 * exact(pct) = 1000 * seconds * (100 + pct)
  <2>1. \A s, p \in Nat : 1000 * (s * (100 + p)) = 1000 * s * (100 + p)
    OBVIOUS
  <2> QED
    BY <1>1, <2>1
<1> HIDE DEF exact
<1>5. /\ deadline \in Int /\ deadline >= startedAt + 1000 * seconds
      /\ 100 * (deadline - startedAt) >= 1000 * exact(pct)
      /\ 100 * (deadline - startedAt) < 1000 * exact(pct) + 100000
  <2>1. deadline = startedAt + 1000 * Ceil(exact(pct), 100)
    BY <1>3
  <2>2. exact(pct) \in Int /\ exact(pct) >= 100 * seconds
    BY <1>1, <1>2
  <2>3. /\ Ceil(exact(pct), 100) \in Int /\ 100 * Ceil(exact(pct), 100) >= exact(pct)
        /\ 100 * Ceil(exact(pct), 100) < exact(pct) + 100
    BY <2>2, Ceiling
  <2> HIDE DEF deadline
  <2> QED
    BY <1>1, <2>1, <2>2, <2>3
<1>6. ASSUME pct < MAX_EXTRA_TIME_PCT
      PROVE  ComputeDeadline(startedAt, seconds, pct + 1) >= deadline
  <2>1. pct + 1 \in 0 .. MAX_EXTRA_TIME_PCT
    BY <1>6 DEF MAX_EXTRA_TIME_PCT
  <2>2. exact(pct + 1) >= exact(pct) /\ exact(pct + 1) \in Int /\ exact(pct) \in Int
    BY <1>1, <1>2
  <2>3. Ceil(exact(pct), 100) <= Ceil(exact(pct + 1), 100)
    BY <2>2, CeilingGrows
  <2>4. Ceil(exact(pct), 100) \in Int /\ Ceil(exact(pct + 1), 100) \in Int
    BY <2>2, Ceiling
  <2>5. /\ ComputeDeadline(startedAt, seconds, pct) = startedAt + 1000 * Ceil(exact(pct), 100)
        /\ ComputeDeadline(startedAt, seconds, pct + 1) = startedAt + 1000 * Ceil(exact(pct + 1), 100)
    BY <1>3, <2>1
  <2> QED
    BY <1>1, <2>3, <2>4, <2>5
<1>7. (SecondsRemaining(deadline, at) > 0) <=> (at < deadline)
  <2> HIDE DEF deadline
  <2>1. CASE at < deadline
    <3>1. deadline - at \in Int /\ deadline - at > 0 /\ ~(at >= deadline)
      BY <1>1, <1>5, <2>1
    <3>2. Ceil(deadline - at, 1000) \in Int /\ 1000 * Ceil(deadline - at, 1000) >= deadline - at
      BY <3>1, Ceiling
    <3>3. SecondsRemaining(deadline, at) = Ceil(deadline - at, 1000)
      BY <3>1 DEF SecondsRemaining
    <3> QED
      BY <1>1, <1>5, <2>1, <3>1, <3>2, <3>3
  <2>2. CASE at >= deadline
    BY <1>1, <1>5, <2>2 DEF SecondsRemaining
  <2> QED
    BY <1>1, <1>5, <2>1, <2>2
<1>8. SecondsRemaining(deadline, at) > 0 => ~IsPastDeadline(deadline, at)
  <2> HIDE DEF deadline
  <2> QED
    BY <1>1, <1>5, <1>7 DEF IsPastDeadline
<1>9. /\ 100 * (deadline - startedAt) >= 1000 * seconds * (100 + pct)
      /\ 100 * (deadline - startedAt) < 1000 * seconds * (100 + pct) + 100000
  <2> HIDE DEF deadline
  <2> QED
    BY <1>4, <1>5
<1> QED
  BY <1>5, <1>6, <1>7, <1>8, <1>9 DEF DeadlineIsFair

(* transition() takes an attempt along an edge of the table, whatever its   *)
(* event carries, or refuses it.                                           *)
THEOREM EventsKeepToEdges ==
    ASSUME NEW from \in ATTEMPT_STATUSES, NEW event, Transition(from, event).to # Missing
    PROVE  CanTransition(from, Transition(from, event).to)
BY DEF Transition, Goes, Stays, CanTransition, EDGES, ATTEMPT_STATUSES

-----------------------------------------------------------------------------
(* Marks.                                                                  *)

(* A set of naturals with anything in it has a least element. *)
LEMMA LeastOne == \A T \in SUBSET Nat : T # {} => \E m \in T : \A n \in T : m <= n
<1> SUFFICES ASSUME NEW T \in SUBSET Nat, T # {} PROVE \E m \in T : \A n \in T : m <= n
  OBVIOUS
<1>1. PICK m \in T : \A n \in T : ~ (<<n, m>> \in OpToRel(<, Nat))
  BY NatLessThanWellFounded, WFMin, Zenon
<1>2. \A n \in T : ~ (n < m)
  BY <1>1, Zenon DEF OpToRel
<1> QED
  BY <1>2

(* The tolerance is even-handed. *)
LEMMA ToleranceSymmetric ==
    ASSUME NEW m \in Int, NEW n \in Int, NEW absolute \in Int, NEW relative \in Int
    PROVE  WithinTolerance(m, n, absolute, relative) <=> WithinTolerance(n, m, absolute, relative)
<1>1. Magnitude(m - n) = Magnitude(n - m) /\ Magnitude(m) \in Nat /\ Magnitude(n) \in Nat
  BY DEF Magnitude
<1>2. (IF Magnitude(m) > Magnitude(n) THEN Magnitude(m) ELSE Magnitude(n))
        = (IF Magnitude(n) > Magnitude(m) THEN Magnitude(n) ELSE Magnitude(m))
  BY <1>1
<1> QED
  BY <1>1, <1>2 DEF WithinTolerance

(* A text whose words read as whole numbers, or as none. *)
Numbered(text) ==
    /\ Tokenise(text) = [i \in 1 .. Len(Tokenise(text)) |-> Tokenise(text)[i]]
    /\ Len(Tokenise(text)) \in Nat
    /\ \A i \in 1 .. Len(Tokenise(text)) : Tokenise(text)[i].number \in Int \cup {Missing}

(* Where the numeric comparison passes, told without the order it looks in. *)
Agree(e, a, options) ==
    /\ ~(options.absolute < 0 \/ options.relative < 0)
    /\ Len(e) = Len(a)
    /\ \A i \in DOMAIN e :
          /\ e[i].number # Missing /\ a[i].number # Missing
          /\ WithinTolerance(e[i].number, a[i].number, options.absolute, options.relative)

(* The numeric comparison passes exactly when every token does: the order  *)
(* in which it looks for the first fault decides the reason, never the     *)
(* verdict.                                                                *)
LEMMA NumericPasses ==
    ASSUME NEW x, NEW y, NEW options, Numbered(x), Numbered(y)
    PROVE  CompareNumeric(x, y, options).passed = Agree(Tokenise(x), Tokenise(y), options)
<1> DEFINE e == Tokenise(x)
           a == Tokenise(y)
           Fault(i) == IF e[i].number = Missing \/ a[i].number = Missing THEN "not_a_number"
                       ELSE IF WithinTolerance(e[i].number, a[i].number, options.absolute, options.relative)
                       THEN "match" ELSE "mismatch"
           faults == {i \in DOMAIN e : Fault(i) # "match"}
           first == CHOOSE i \in faults : \A j \in faults : i <= j
           reason == IF options.absolute < 0 \/ options.relative < 0 THEN "invalid_tolerance"
                     ELSE IF Len(e) # Len(a) THEN "length_mismatch"
                     ELSE IF faults = {} THEN "match"
                     ELSE Fault(first)
<1>1. CompareNumeric(x, y, options).passed = (reason = "match")
  BY DEF CompareNumeric, Outcome
<1>2. faults # {} => first \in faults
  <2> SUFFICES ASSUME faults # {} PROVE first \in faults
    OBVIOUS
  <2>1. faults \subseteq Nat
    <3>1. DOMAIN e = 1 .. Len(e)
      BY DEF Numbered
    <3> HIDE DEF e
    <3> QED
      BY <3>1
  <2> HIDE DEF faults
  <2>2. \E m \in faults : \A n \in faults : m <= n
    BY <2>1, LeastOne
  <2> QED
    BY <2>2
<1>3. (faults = {}) <=> \A i \in DOMAIN e : /\ e[i].number # Missing /\ a[i].number # Missing
                          /\ WithinTolerance(e[i].number, a[i].number, options.absolute, options.relative)
  OBVIOUS
<1>4. \A i \in faults : Fault(i) # "match"
  OBVIOUS
<1> HIDE DEF e, a, Fault, faults, first
<1>5. (reason = "match") = Agree(e, a, options)
  BY <1>2, <1>3, <1>4 DEF Agree
<1> QED
  BY <1>1, <1>5 DEF e, a

(* What each way of comparing comes down to. *)
LEMMA ComparedBy ==
    ASSUME NEW x, NEW y, NEW options
    PROVE  /\ CompareCase("exact", x, y, options).passed = (x = y)
           /\ CompareCase("trimmed", x, y, options).passed = (Normalise(x) = Normalise(y))
           /\ CompareCase("case_insensitive", x, y, options).passed
                = (Lower(Normalise(x)) = Lower(Normalise(y)))
           /\ CompareCase("numeric_tolerance", x, y, options) = CompareNumeric(x, y, options)
<1>1. CompareCase("exact", x, y, options) = MatchVerdict("exact", x = y)
  BY SMT DEF CompareCase
<1>2. CompareCase("trimmed", x, y, options) = MatchVerdict("trimmed", Normalise(x) = Normalise(y))
  BY SMT DEF CompareCase
<1>3. CompareCase("case_insensitive", x, y, options)
        = MatchVerdict("case_insensitive", Lower(Normalise(x)) = Lower(Normalise(y)))
  BY SMT DEF CompareCase
<1>4. CompareCase("numeric_tolerance", x, y, options) = CompareNumeric(x, y, options)
  BY SMT DEF CompareCase
<1>5. \A mode : \A b \in BOOLEAN : MatchVerdict(mode, b).passed = b
  BY DEF MatchVerdict, Outcome
<1> QED
  BY <1>1, <1>2, <1>3, <1>4, <1>5

(* compareCase, for any key, any answer and any tolerance: what the exact  *)
(* comparison accepts the trimmed one does, what that accepts the case-    *)
(* insensitive one does, and each of them and the numeric one says the same*)
(* of the answer against the key as of the key against the answer.         *)
THEOREM StricterImpliesLooser ==
    ASSUME NEW x, NEW y, NEW options, Numbered(x), Numbered(y),
           options.absolute \in Int, options.relative \in Int
    PROVE  ModesNest(x, y, options)
<1>3. CompareNumeric(x, y, options).passed = CompareNumeric(y, x, options).passed
  <2> DEFINE e == Tokenise(x)
             a == Tokenise(y)
  <2>1. /\ CompareNumeric(x, y, options).passed = Agree(e, a, options)
        /\ CompareNumeric(y, x, options).passed = Agree(a, e, options)
    BY NumericPasses
  <2>2. /\ DOMAIN e = 1 .. Len(e) /\ \A i \in DOMAIN e : e[i].number \in Int \cup {Missing}
        /\ DOMAIN a = 1 .. Len(a) /\ \A i \in DOMAIN a : a[i].number \in Int \cup {Missing}
    BY DEF Numbered
  <2> HIDE DEF e, a
  <2>3. Agree(e, a, options) => Agree(a, e, options)
    BY <2>2, ToleranceSymmetric DEF Agree
  <2>4. Agree(a, e, options) => Agree(e, a, options)
    BY <2>2, ToleranceSymmetric DEF Agree
  <2>5. Agree(e, a, options) = Agree(a, e, options)
    BY <2>3, <2>4 DEF Agree
  <2> QED
    BY <2>1, <2>5
<1>4. \A mode \in GRADING_MODES \ {"regex"} :
         CompareCase(mode, y, x, options).passed = CompareCase(mode, x, y, options).passed
  <2>1. GRADING_MODES \ {"regex"} = {"exact", "trimmed", "case_insensitive", "numeric_tolerance"}
    BY DEF GRADING_MODES
  <2>2. CompareCase("exact", y, x, options).passed = CompareCase("exact", x, y, options).passed
    BY ComparedBy
  <2>3. CompareCase("trimmed", y, x, options).passed = CompareCase("trimmed", x, y, options).passed
    BY ComparedBy
  <2>4. CompareCase("case_insensitive", y, x, options).passed
          = CompareCase("case_insensitive", x, y, options).passed
    BY ComparedBy
  <2>5. CompareCase("numeric_tolerance", y, x, options).passed
          = CompareCase("numeric_tolerance", x, y, options).passed
    BY <1>3, ComparedBy
  <2> QED
    BY <2>1, <2>2, <2>3, <2>4, <2>5
<1>5. /\ CompareCase("exact", x, y, options).passed => CompareCase("trimmed", x, y, options).passed
      /\ CompareCase("trimmed", x, y, options).passed => CompareCase("case_insensitive", x, y, options).passed
  BY ComparedBy
<1> QED
  BY <1>4, <1>5 DEF ModesNest

(* A whole mark is so many millionths.                                     *)
LEMMA WholeMarks ==
    ASSUME NEW n \in Int
    PROVE  RoundScore(n, 1) = 1000000 * n
BY SMT DEF RoundScore

(* gradeShortAnswer, for any answer, list of keys and marks, negative ones *)
(* included: it refuses to mark exactly when the maximum or some key's     *)
(* score is negative, whichever key would have matched; and otherwise an   *)
(* answer earns between nothing and the maximum, however much its key says *)
(* it is worth, and something only where a key matches it.                 *)
THEOREM ShortAnswersAreFair ==
    ASSUME NEW answer, NEW keys, NEW maxScore \in Int, Len(keys) \in Nat, DOMAIN keys = 1 .. Len(keys),
           \A i \in DOMAIN keys : keys[i].score \in Int \cup {Missing}
    PROVE  ShortAnswerFair(answer, keys, maxScore)
<1> DEFINE hits == {i \in DOMAIN keys :
                       CompareCase(keys[i].mode, keys[i].expected, answer, keys[i].options).passed}
           first == CHOOSE i \in hits : \A j \in hits : i <= j
           worth == IF keys[first].score = Missing \/ keys[first].score > maxScore
                    THEN maxScore ELSE keys[first].score
           malformed == maxScore < 0 \/ \E i \in DOMAIN keys : keys[i].score # Missing /\ keys[i].score < 0
           mark == GradeShortAnswer(answer, keys, maxScore)
<1>1. mark = IF malformed THEN Missing ELSE IF hits = {} THEN 0 ELSE RoundScore(worth, 1)
  BY DEF GradeShortAnswer
<1>2. hits # {} => first \in hits
  <2> SUFFICES ASSUME hits # {} PROVE first \in hits
    OBVIOUS
  <2>1. hits \subseteq Nat
    OBVIOUS
  <2> HIDE DEF hits
  <2>2. \E m \in hits : \A n \in hits : m <= n
    BY <2>1, LeastOne
  <2> QED
    BY <2>2
<1>3. \A i \in hits : i \in DOMAIN keys
  OBVIOUS
<1> HIDE DEF first, mark
<1>4. hits # {} /\ ~malformed => worth \in 0 .. maxScore
  BY <1>2, <1>3
<1>5. RoundScore(maxScore, 1) = 1000000 * maxScore
  BY WholeMarks, SMT
<1>6. ~malformed => mark \in 0 .. RoundScore(maxScore, 1)
  <2> SUFFICES ASSUME ~malformed PROVE mark \in 0 .. RoundScore(maxScore, 1)
    OBVIOUS
  <2>1. 0 <= maxScore
    OBVIOUS
  <2> HIDE DEF malformed
  <2>2. CASE hits = {}
    BY <1>1, <1>5, <2>1, <2>2, SMT
  <2>3. CASE hits # {}
    <3> HIDE DEF worth, hits
    <3>1. worth \in Int /\ 0 <= worth /\ worth <= maxScore
      BY <1>4, <2>3
    <3>2. RoundScore(worth, 1) = 1000000 * worth
      BY <3>1, WholeMarks, SMT
    <3>3. mark = 1000000 * worth
      BY <1>1, <2>3, <3>2, SMT
    <3> QED
      BY <1>5, <3>1, <3>3, SMT
  <2> QED
    BY <2>2, <2>3
<1>7. mark = Missing <=> malformed
  <2> HIDE DEF malformed, worth, hits
  <2> QED
    BY <1>1, <1>5, <1>6, ScoringConstants, SMT
<1>8. ~malformed /\ mark > 0 => \E i \in DOMAIN keys :
         CompareCase(keys[i].mode, keys[i].expected, answer, keys[i].options).passed
  <2> HIDE DEF malformed, worth
  <2> QED
    BY <1>1
<1> QED
  BY <1>6, <1>7, <1>8 DEF ShortAnswerFair, mark

(* How many options are right, and how many of the right and of the wrong  *)
(* ones were chosen.                                                       *)
LEMMA ChoiceCounts ==
    ASSUME NEW right, NEW chosen, IsFiniteSet(right), IsFiniteSet(chosen), right # {}
    PROVE  LET hits == Cardinality(chosen \cap right)
               misses == Cardinality(chosen \ right)
               size == Cardinality(right)
           IN  /\ hits \in Nat /\ misses \in Nat /\ size \in Nat /\ size > 0 /\ hits <= size
               /\ (hits = size) <=> (right \subseteq chosen)
               /\ (misses = 0) <=> (chosen \subseteq right)
<1>1. IsFiniteSet(chosen \cap right) /\ Cardinality(chosen \cap right) <= Cardinality(right)
  BY FS_Subset
<1>2. Cardinality(chosen \cap right) = Cardinality(right) => chosen \cap right = right
  BY FS_Subset
<1>3. IsFiniteSet(chosen \ right)
  BY FS_Subset
<1>4. /\ Cardinality(chosen \cap right) \in Nat /\ Cardinality(chosen \ right) \in Nat
      /\ Cardinality(right) \in Nat
  BY <1>1, <1>3, FS_CardinalityType
<1>5. Cardinality(right) # 0
  BY FS_EmptySet
<1>6. (Cardinality(chosen \ right) = 0) <=> (chosen \ right = {})
  BY <1>3, FS_EmptySet
<1>7. (right \subseteq chosen) => chosen \cap right = right
  OBVIOUS
<1> QED
  BY <1>1, <1>2, <1>4, <1>5, <1>6, <1>7

(* Whole division by a positive number. *)
LEMMA Quotient ==
    ASSUME NEW a \in Int, NEW b \in Nat, b > 0
    PROVE  (a \div b) \in Int /\ b * (a \div b) <= a /\ a < b * (a \div b) + b
BY SMTT(30)

(* What whole division cannot pass, from either side.                      *)
LEMMA QuotientBelow ==
    ASSUME NEW a \in Int, NEW b \in Nat, b > 0, NEW q \in Int
    PROVE  /\ a < b * (q + 1) => (a \div b) <= q
           /\ a >= b * q => (a \div b) >= q
<1> DEFINE k == a \div b
<1>1. k \in Int /\ b * k <= a /\ a < b * k + b
  BY Quotient
<1> HIDE DEF k
<1>2. ASSUME a < b * (q + 1), k > q PROVE FALSE
  <2>1. k >= q + 1 /\ q + 1 \in Int
    BY <1>1, <1>2
  <2>2. \A u, v \in Int : u >= v => b * u >= b * v
    OBVIOUS
  <2>3. b * k >= b * (q + 1)
    BY <1>1, <2>1, <2>2
  <2> QED
    BY <1>1, <1>2, <2>3
<1>3. ASSUME a >= b * q, k < q PROVE FALSE
  <2>1. q >= k + 1 /\ k + 1 \in Int
    BY <1>1, <1>3
  <2>2. \A u, v \in Int : u >= v => b * u >= b * v
    OBVIOUS
  <2>3. b * q >= b * (k + 1)
    BY <1>1, <2>1, <2>2
  <2>4. b * (k + 1) = b * k + b
    BY <1>1
  <2> QED
    BY <1>1, <1>3, <2>3, <2>4
<1> QED
  BY <1>1, <1>2, <1>3 DEF k

(* More right options than one mark has millionths, twice over, and one     *)
(* option's part of a mark would be lost in rounding.                       *)
MAX_PARTS == 1999999

(* Six places: what is at most q is marked at most q, exactly q when it is, *)
(* and below it when it is not, unless the parts are too small to tell.    *)
LEMMA RoundedAgainst ==
    ASSUME NEW n \in Int, NEW d \in Nat, d > 0, NEW q \in Nat, n <= q * d
    PROVE  /\ RoundScore(n, d) \in Int /\ RoundScore(n, d) <= 1000000 * q
           /\ n >= 0 => RoundScore(n, d) >= 0
           /\ n = q * d => RoundScore(n, d) = 1000000 * q
           /\ n < q * d /\ q > 0 /\ d <= MAX_PARTS => RoundScore(n, d) < 1000000 * q
<1> DEFINE dd == 2 * d
           m == 1000000 * q
           t == q * d
<1>1. dd \in Nat /\ dd > 0 /\ m \in Nat /\ t \in Nat
  BY SMT
<1>2. dd * m = 2000000 * t /\ dd * (m + 1) = 2000000 * t + 2 * d
  <2>1. \A u, v \in Nat : (2 * v) * (1000000 * u) = 2000000 * (u * v)
    BY SMT
  <2>2. \A u, v \in Nat : (2 * v) * (u + 1) = (2 * v) * u + 2 * v
    BY SMT
  <2>3. dd * m = 2000000 * t
    BY <2>1
  <2>4. dd * (m + 1) = dd * m + 2 * d
    BY <1>1, <2>2
  <2> QED
    BY <2>3, <2>4
<1> HIDE DEF t
<1>3. n <= t /\ (n = q * d <=> n = t) /\ (n < q * d <=> n < t)
  BY DEF t
<1>4. CASE n >= 0
  <2> DEFINE a == 2 * n * 1000000 + d
  <2>1. a \in Int /\ a = 2000000 * n + d /\ RoundScore(n, d) = a \div dd
    BY <1>4, SMT DEF RoundScore
  <2> HIDE DEF a, dd, m
  <2>2. (a \div dd) \in Int
    BY <1>1, <2>1, Quotient
  <2>3. (a \div dd) <= m
    <3>1. a < dd * (m + 1)
      BY <1>1, <1>2, <1>3, <2>1, SMT
    <3> QED
      BY <1>1, <2>1, <3>1, QuotientBelow
  <2>4. (a \div dd) >= 0
    <3>1. dd * 0 = 0
      BY <1>1
    <3>2. a >= dd * 0
      BY <1>1, <1>4, <2>1, <3>1, SMT
    <3> QED
      BY <1>1, <2>1, <3>2, QuotientBelow
  <2>5. ASSUME n = t PROVE (a \div dd) >= m
    <3>1. a >= dd * m
      BY <1>1, <1>2, <2>1, <2>5, SMT
    <3> QED
      BY <1>1, <2>1, <3>1, QuotientBelow
  <2>6. ASSUME n < t, q > 0, d <= MAX_PARTS PROVE (a \div dd) <= m - 1
    <3>1. m - 1 \in Int /\ (m - 1) + 1 = m
      BY <1>1
    <3>2. n <= t - 1
      BY <1>1, <2>6
    <3>3. a < dd * m
      BY <1>1, <1>2, <2>1, <2>6, <3>2, SMT DEF MAX_PARTS
    <3>4. a < dd * ((m - 1) + 1)
      BY <3>1, <3>3
    <3> QED
      BY <1>1, <2>1, <3>1, <3>4, QuotientBelow
  <2>7. (a \div dd) = RoundScore(n, d)
    BY <2>1
  <2>8. /\ RoundScore(n, d) \in Int /\ RoundScore(n, d) <= m /\ RoundScore(n, d) >= 0
        /\ n = t => RoundScore(n, d) >= m
        /\ n < t /\ q > 0 /\ d <= MAX_PARTS => RoundScore(n, d) <= m - 1
    BY <2>2, <2>3, <2>4, <2>5, <2>6, <2>7
  <2>9. m = 1000000 * q
    BY DEF m
  <2> QED
    BY <1>1, <1>3, <2>8, <2>9, SMT
<1>5. CASE n < 0
  <2> DEFINE a == 2 * (-n) * 1000000 + d
  <2>1. a \in Int /\ a >= 0 /\ RoundScore(n, d) = -(a \div dd)
    BY <1>5, SMT DEF RoundScore
  <2> HIDE DEF a, dd
  <2>2. (a \div dd) \in Int
    BY <1>1, <2>1, Quotient
  <2>3. (a \div dd) >= 0
    <3>1. dd * 0 = 0
      BY <1>1
    <3>2. a >= dd * 0
      BY <1>1, <2>1, <3>1
    <3> QED
      BY <1>1, <2>1, <3>2, QuotientBelow
  <2>4. RoundScore(n, d) \in Int /\ RoundScore(n, d) <= 0
    BY <2>1, <2>2, <2>3
  <2>5. q > 0 => m > 0
    BY SMT
  <2> HIDE DEF m
  <2>6. /\ RoundScore(n, d) <= m /\ n # t
        /\ n < t /\ q > 0 /\ d <= MAX_PARTS => RoundScore(n, d) < m
    BY <1>1, <1>3, <1>5, <2>4, <2>5
  <2>7. m = 1000000 * q
    BY DEF m
  <2> QED
    BY <1>3, <1>5, <2>4, <2>6, <2>7, SMT
<1> QED
  BY <1>4, <1>5

(* What is earned option by option, before it is held between its limits. *)
LEMMA EarnedAgainstAll ==
    ASSUME NEW max \in Nat, NEW negative \in Nat, NEW hits \in Nat, NEW misses \in Nat, NEW size \in Nat,
           size > 0, hits <= size
    PROVE  LET raw == max * hits - negative * misses * size IN
           /\ raw \in Int /\ max * size \in Nat /\ raw <= max * size
           /\ max > 0 => /\ max * size > 0
                         /\ raw = max * size <=> hits = size /\ (negative = 0 \/ misses = 0)
<1> DEFINE lost == negative * misses * size
           got == max * hits
           all == max * size
<1>1. lost \in Nat /\ got \in Nat /\ all \in Nat
  <2>1. \A u, v \in Nat : u * v \in Nat
    OBVIOUS
  <2>2. negative * misses \in Nat
    BY <2>1
  <2> QED
    BY <2>1, <2>2
<1>2. lost = 0 <=> negative = 0 \/ misses = 0
  <2>1. \A u, v \in Nat : u * v = 0 <=> u = 0 \/ v = 0
    BY SMT
  <2>2. negative * misses \in Nat
    OBVIOUS
  <2>3. lost = 0 <=> negative * misses = 0 \/ size = 0
    BY <2>1, <2>2
  <2>4. negative * misses = 0 <=> negative = 0 \/ misses = 0
    BY <2>1
  <2> QED
    BY <2>3, <2>4
<1>3. got <= all
  <2>1. \A u, v, w \in Nat : u <= v => w * u <= w * v
    BY SMT
  <2> QED
    BY <2>1
<1>4. max > 0 /\ hits < size => got < all
  <2>1. \A u, v, w \in Nat : u < v /\ w > 0 => w * u < w * v
    BY SMT
  <2> QED
    BY <2>1
<1>5. max > 0 => all > 0
  <2>1. \A u, v \in Nat : u > 0 /\ v > 0 => u * v > 0
    BY SMT
  <2> QED
    BY <2>1
<1>6. hits = size => got = all
  OBVIOUS
<1> HIDE DEF lost, got, all
<1>7. /\ got - lost \in Int /\ all \in Nat /\ got - lost <= all
      /\ max > 0 => all > 0 /\ (got - lost = all <=> hits = size /\ (negative = 0 \/ misses = 0))
  BY <1>1, <1>2, <1>3, <1>4, <1>5, <1>6
<1> QED
  BY <1>7 DEF lost, got, all

(* gradeMcq, for any options, any answer and any marks: the mark is never  *)
(* above the maximum, it is below zero only where that is allowed and      *)
(* something was chosen, and it is the maximum exactly for the right       *)
(* options (with nothing more, unless a wrong one costs nothing).  The     *)
(* bound on the right options keeps one option's part of the marks above   *)
(* the sixth place; the contract allows a question 26.                     *)
THEOREM ChoicesAreFair ==
    ASSUME NEW selected, NEW correct, NEW options,
           options.max \in Int, options.negative \in Int,
           options.partial \in BOOLEAN, options.allowNegative \in BOOLEAN,
           IsFiniteSet(ToSet(selected)), IsFiniteSet(ToSet(correct)),
           Cardinality(ToSet(correct)) <= MAX_PARTS
    PROVE  McqFair(selected, correct, options)
<1> DEFINE right == ToSet(correct)
           chosen == ToSet(selected)
           hits == Cardinality(chosen \cap right)
           misses == Cardinality(chosen \ right)
           size == Cardinality(right)
           max == options.max
           negative == options.negative
           raw == max * hits - negative * misses * size
           whole == max * size
           value == Clamp(raw, IF options.allowNegative THEN raw ELSE 0, whole)
           mark == GradeMcq(selected, correct, options)
           top == RoundScore(max, 1)
           full == \/ chosen = right
                   \/ options.partial /\ negative = 0 /\ right \subseteq chosen
<1> SUFFICES ASSUME mark # Missing
             PROVE  /\ mark <= top
                    /\ mark < 0 => options.allowNegative /\ selected # <<>>
                    /\ max > 0 => (mark = top <=> full)
  BY DEF McqFair
<1>1. mark = IF right = {} \/ max < 0 \/ negative < 0 THEN Missing
             ELSE IF chosen = {} THEN 0
             ELSE IF ~options.partial
             THEN IF misses = 0 /\ hits = size THEN RoundScore(max, 1)
                  ELSE IF options.allowNegative THEN RoundScore(-negative, 1) ELSE 0
             ELSE RoundScore(value, size)
  BY DEF GradeMcq
<1>2. IsFiniteSet(right) /\ IsFiniteSet(chosen) /\ max \in Int /\ negative \in Int /\ size <= MAX_PARTS
  OBVIOUS
<1>3. selected = <<>> => chosen = {}
  BY DEF ToSet
<1> HIDE DEF mark
<1>4. right # {} /\ max \in Nat /\ negative \in Nat
  <2> HIDE DEF right, chosen, hits, misses, size, value, max, negative
  <2> QED
    BY <1>1, <1>2
<1> HIDE DEF right, chosen
<1>5. /\ hits \in Nat /\ misses \in Nat /\ size \in Nat /\ size > 0 /\ hits <= size
      /\ hits = size <=> right \subseteq chosen
      /\ misses = 0 <=> chosen \subseteq right
  BY <1>2, <1>4, ChoiceCounts
<1> HIDE DEF hits, misses, size, max, negative
<1>6. top = 1000000 * max /\ top \in Nat
  BY <1>4, WholeMarks, SMT
<1>7. max > 0 => top > 0
  BY <1>4, <1>6, SMT
<1>8. RoundScore(-negative, 1) \in Int /\ RoundScore(-negative, 1) <= 0
  <2>1. RoundScore(-negative, 1) = 1000000 * (-negative)
    BY <1>4, WholeMarks, SMT
  <2> QED
    BY <1>4, <2>1, SMT
<1> HIDE DEF top, value, raw, whole
<1>9. CASE chosen = {}
  <2>1. mark = 0 /\ ~full
    BY <1>1, <1>4, <1>9
  <2> HIDE DEF full
  <2> QED
    BY <1>6, <1>7, <2>1
<1>10. CASE chosen # {} /\ ~options.partial
  <2>1. full <=> misses = 0 /\ hits = size
    BY <1>5, <1>10
  <2>2. mark = IF misses = 0 /\ hits = size THEN top
               ELSE IF options.allowNegative THEN RoundScore(-negative, 1) ELSE 0
    BY <1>1, <1>4, <1>10 DEF top
  <2> HIDE DEF full
  <2> QED
    BY <1>3, <1>6, <1>7, <1>8, <1>10, <2>1, <2>2
<1>11. CASE chosen # {} /\ options.partial
  <2>1. full <=> hits = size /\ (negative = 0 \/ misses = 0)
    BY <1>5, <1>11
  <2>2. mark = RoundScore(value, size)
    BY <1>1, <1>4, <1>11
  <2> HIDE DEF full
  <2>3. /\ raw \in Int /\ whole \in Nat /\ raw <= whole
        /\ max > 0 => /\ whole > 0
                      /\ raw = whole <=> hits = size /\ (negative = 0 \/ misses = 0)
    BY <1>4, <1>5, EarnedAgainstAll DEF raw, whole
  <2>4. /\ value \in Int /\ value <= whole
        /\ ~options.allowNegative => value >= 0
        /\ max > 0 => (value = whole <=> raw = whole)
    BY <2>3 DEF value, Clamp
  <2>5. whole = max * size
    BY DEF whole
  <2>6. /\ RoundScore(value, size) \in Int /\ RoundScore(value, size) <= 1000000 * max
        /\ value >= 0 => RoundScore(value, size) >= 0
        /\ value = max * size => RoundScore(value, size) = 1000000 * max
        /\ value < max * size /\ max > 0 => RoundScore(value, size) < 1000000 * max
    <3>1. value <= max * size
      BY <2>4, <2>5
    <3> QED
      BY <1>2, <1>4, <1>5, <2>4, <3>1, RoundedAgainst, SMT
  <2>7. /\ mark \in Int /\ mark <= top
        /\ value >= 0 => mark >= 0
        /\ value = whole => mark = top
        /\ value < whole /\ max > 0 => mark < top
    BY <1>6, <2>2, <2>5, <2>6
  <2>8. max > 0 => (mark = top <=> full)
    BY <1>6, <2>1, <2>3, <2>4, <2>7
  <2>9. mark < 0 => options.allowNegative /\ selected # <<>>
    BY <1>3, <1>11, <2>4, <2>7
  <2> QED
    BY <2>7, <2>8, <2>9
<1> QED
  BY <1>9, <1>10, <1>11

-----------------------------------------------------------------------------
(* What is let through, recorded and shown, together.                      *)

(* Whatever it is asked about, the code lets through, records and shows    *)
(* what it should: the laws that TLC evaluates on the inputs of Laws hold  *)
(* of every request, audited call, version, report, answer and environment.*)
THEOREM AccessIsAlwaysSound == WellFormedInput => AccessIsSound
<1> SUFFICES ASSUME WellFormedInput PROVE AccessIsSound
  OBVIOUS
<1>1. CASE input.law = "audit"
  <2>1. RecordOrNothing(input.principal, input.spec, input.call, input.worked, input.patch)
    BY <1>1, WorkIsRecorded DEF WellFormedInput
  <2> QED
    BY <1>1, <2>1 DEF AccessIsSound
<1>2. CASE input.law = "callers"
  <2>1. \A up \in BOOLEAN :
           OnlyDeclaredCallers(input.request, input.closing, input.used, up, input.bearer, input.session)
    BY <1>2, CallersAreDeclared DEF WellFormedInput
  <2> QED
    BY <1>2, <2>1 DEF AccessIsSound
<1>3. CASE input.law = "views"
  <2>1. CandidateLearnsNothing(input.kind, input.v, input.w)
    BY <1>3, AnswersStayHidden DEF WellFormedInput
  <2> QED
    BY <1>3, <2>1 DEF AccessIsSound
<1>4. CASE input.law = "guidance"
  <2>1. GuidanceAgrees(input.verdicts, input.review)
    BY <1>4, GuidanceIsConsistent DEF WellFormedInput
  <2> QED
    BY <1>4, <2>1 DEF AccessIsSound
<1>5. CASE input.law = "gaps"
  <2>1. GapsAgree(input.requirements, input.bank)
    BY <1>5, GapsAreTheBlocked DEF WellFormedInput
  <2> QED
    BY <1>5, <2>1 DEF AccessIsSound
<1>6. CASE input.law = "failures"
  <2>1. FailuresSettle(input.response, input.accepts)
    BY FailuresAreSettled
  <2> QED
    BY <1>6, <2>1 DEF AccessIsSound
<1>7. CASE input.law = "boot"
  <2>1. BootIsSound(input.given)
    BY <1>7, WhatBootsIsSound DEF WellFormedInput
  <2> QED
    BY <1>7, <2>1 DEF AccessIsSound
<1>8. CASE input.law \notin {"audit", "callers", "views", "guidance", "gaps", "failures", "boot"}
  BY <1>8 DEF AccessIsSound
<1> QED
  BY <1>1, <1>2, <1>3, <1>4, <1>5, <1>6, <1>7, <1>8
=============================================================================
