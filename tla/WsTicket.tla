------------------------------ MODULE WsTicket ------------------------------
(***************************************************************************)
(* The ticket that admits a browser to the collaboration service.  The API *)
(* mints one for a session, signed and dated by its own clock; the browser *)
(* puts it in a WebSocket URL, where it can be copied; the collaboration   *)
(* service verifies it against its own clock and its own secret, and       *)
(* remembers what it has admitted only for as long as the ticket could     *)
(* still verify.                                                           *)
(***************************************************************************)
EXTENDS Integers

CONSTANTS
    Tickets,        \* tickets the API may mint
    TTL,            \* WS_TICKET_TTL_SECONDS
    Skew,           \* WS_TICKET_CLOCK_SKEW_SECONDS
    SweepInterval,  \* SWEEP_INTERVAL_MS
    MaxDrift,       \* bound on how far the two clocks disagree
    MaxPause,       \* bound on the time between verify's clock read and claim's
    SigningKey,     \* the key the API signs tickets with
    TicketSecret,   \* the key the collaboration service verifies with
    MaxTime,        \* bound on the clock
    MaxRestarts,    \* bound on restarts of the collaboration service
    Never           \* not issued, or not remembered

ASSUME TicketConstants ==
    /\ TTL \in Nat /\ Skew \in Nat /\ SweepInterval \in Nat
    /\ MaxDrift \in Nat /\ MaxPause \in Nat /\ MaxTime \in Nat /\ MaxRestarts \in Nat
    /\ Never \notin Int

VARIABLES
    now,        \* the API's clock
    drift,      \* the service's clock, less the API's
    pause,      \* the longest time between verify's clock read and claim's
    ended,      \* the interview session has ended
    issuedAt,   \* iat of each ticket, or Never
    redeemed,   \* when the service may forget each ticket, or Never
    lastSweep,
    admitted,   \* admissions of each ticket by the running process
    refused,    \* reasons each ticket has been refused with
    restarts

vars == <<now, drift, pause, ended, issuedAt, redeemed, lastSweep, admitted, refused, restarts>>

(* The service's clock. *)
Here == now + drift

(* lastSweep starts at the epoch, long before any instant of the run. *)
Epoch == -MaxDrift - SweepInterval

(* Mutant of Retention: the skew is forgotten. *)
RetentionWithoutSkew == TTL

(* REPLAY_RETENTION_MS *)
Retention == TTL + Skew

Init ==
    /\ now = 0
    /\ drift \in -MaxDrift .. MaxDrift
    /\ pause \in 0 .. MaxPause
    /\ ended = FALSE
    /\ issuedAt = [t \in Tickets |-> Never]
    /\ redeemed = [t \in Tickets |-> Never]
    /\ lastSweep = Epoch
    /\ admitted = [t \in Tickets |-> 0]
    /\ refused = [t \in Tickets |-> {}]
    /\ restarts = 0

(* POST /sessions/:id/ticket refuses an absent or ended session. *)
IssueTicket(t) ==
    /\ issuedAt[t] = Never
    /\ ~ended
    /\ issuedAt' = [issuedAt EXCEPT ![t] = now]
    /\ UNCHANGED <<now, drift, pause, ended, redeemed, lastSweep, admitted, refused, restarts>>

(* verifyWsTicket: signature, then age. *)
Verdict(t) ==
    LET age == Here - issuedAt[t] IN
    IF SigningKey # TicketSecret THEN "signature_invalid"
    ELSE IF age < -Skew THEN "not_yet_valid"
    ELSE IF age >= TTL THEN "expired"
    ELSE "ok"

(* Mutant of Sweep: the interval is noted and nothing is dropped. *)
SweepNothing(at) ==
    [t \in Tickets |-> redeemed[t]]

(* Dropping the entries past their retention, once per interval. *)
Sweep(at) ==
    [t \in Tickets |->
        IF at - lastSweep >= SweepInterval /\ redeemed[t] # Never
             /\ redeemed[t] <= at
        THEN Never ELSE redeemed[t]]

SweptAt(at) == IF at - lastSweep < SweepInterval THEN lastSweep ELSE at

(* The entry is still remembered, and not past its retention. *)
Remembered(t, at) == redeemed[t] # Never /\ redeemed[t] > at

(* authorise runs in one turn of the event loop, but verifyWsTicket and    *)
(* claim each read the clock: claim's instant may be a little later.       *)
ClaimReads(lag) == now + lag <= MaxTime /\ now' = now + lag

(* Mutant of AdmitPresented: the claim comes before the verification. *)
AdmitUnverified(t, lag) ==
    /\ issuedAt[t] # Never
    /\ ~Remembered(t, Here + lag)
    /\ ClaimReads(lag)
    /\ redeemed' = [Sweep(Here + lag) EXCEPT ![t] = Here + lag + Retention]
    /\ lastSweep' = SweptAt(Here + lag)
    /\ admitted' = [admitted EXCEPT ![t] = IF Verdict(t) = "ok" THEN @ + 1 ELSE @]
    /\ UNCHANGED <<drift, pause, ended, issuedAt, refused, restarts>>

(* authorise, for a ticket that verifies and is not remembered. *)
AdmitPresented(t, lag) ==
    /\ issuedAt[t] # Never
    /\ Verdict(t) = "ok" /\ ~Remembered(t, Here + lag)
    /\ ClaimReads(lag)
    /\ redeemed' = [Sweep(Here + lag) EXCEPT ![t] = Here + lag + Retention]
    /\ lastSweep' = SweptAt(Here + lag)
    /\ admitted' = [admitted EXCEPT ![t] = @ + 1]
    /\ UNCHANGED <<drift, pause, ended, issuedAt, refused, restarts>>

RefuseReplayed(t, lag) ==
    /\ issuedAt[t] # Never
    /\ Verdict(t) = "ok" /\ Remembered(t, Here + lag)
    /\ ClaimReads(lag)
    /\ redeemed' = Sweep(Here + lag)
    /\ lastSweep' = SweptAt(Here + lag)
    /\ refused' = [refused EXCEPT ![t] = @ \cup {"replayed"}]
    /\ UNCHANGED <<drift, pause, ended, issuedAt, admitted, restarts>>

(* Nothing unverified reaches the store. *)
RefuseUnverified(t) ==
    /\ issuedAt[t] # Never
    /\ Verdict(t) # "ok"
    /\ refused' = [refused EXCEPT ![t] = @ \cup {Verdict(t)}]
    /\ UNCHANGED <<now, drift, pause, ended, issuedAt, redeemed, lastSweep, admitted, restarts>>

EndSession ==
    /\ ~ended
    /\ ended' = TRUE
    /\ UNCHANGED <<now, drift, pause, issuedAt, redeemed, lastSweep, admitted, refused, restarts>>

Tick ==
    /\ now < MaxTime
    /\ now' = now + 1
    /\ UNCHANGED <<drift, pause, ended, issuedAt, redeemed, lastSweep, admitted, refused, restarts>>

(* The set is in memory: a new process remembers nothing. *)
Restart ==
    /\ restarts < MaxRestarts
    /\ restarts' = restarts + 1
    /\ redeemed' = [t \in Tickets |-> Never]
    /\ lastSweep' = Epoch
    /\ admitted' = [t \in Tickets |-> 0]
    /\ refused' = [t \in Tickets |-> {}]
    /\ UNCHANGED <<now, drift, pause, ended, issuedAt>>

Next ==
    \/ \E t \in Tickets :
          \/ IssueTicket(t) \/ RefuseUnverified(t)
          \/ \E lag \in 0 .. pause : AdmitPresented(t, lag) \/ RefuseReplayed(t, lag)
    \/ EndSession \/ Tick \/ Restart

Spec == Init /\ [][Next]_vars

-----------------------------------------------------------------------------
(* Retention outlasts acceptance: an admitted ticket has been admitted     *)
(* once, and it is remembered for as long as it could verify and the pause *)
(* beyond, so that a claim which reads the clock after verify still finds  *)
(* the entry.                                                              *)
RememberedWhileValid ==
    \A t \in Tickets : admitted[t] > 0 =>
        /\ issuedAt[t] # Never
        /\ admitted[t] = 1
        /\ \/ redeemed[t] # Never /\ redeemed[t] >= issuedAt[t] + TTL + pause
           \/ Here >= issuedAt[t] + TTL

(* A ticket is dated by the API's clock, which does not run backwards. *)
IssuedInThePast ==
    \A t \in Tickets : issuedAt[t] # Never => issuedAt[t] <= now

(* Properties. *)

(* The retention covers the pause: verify and claim read one instant, or   *)
(* the service's clock is not slow by all but the pause of the skew.       *)
PauseCovered == pause = 0 \/ drift >= pause - Skew

(* A ticket is accepted once: a copy of the URL, however late and however  *)
(* far the two clocks disagree, is not a second way in.  One process keeps *)
(* this promise; its memory does not survive a restart.  It needs verify   *)
(* and claim to read one instant, or a service clock that is not slow by   *)
(* the whole skew.                                                         *)
AdmittedOnce == PauseCovered => \A t \in Tickets : admitted[t] <= 1

(* Nobody is told a ticket was replayed unless somebody was admitted on    *)
(* it: a refused presentation never spends the ticket.                     *)
ReplayMeansAdmitted ==
    \A t \in Tickets : "replayed" \in refused[t] => admitted[t] > 0

(* The set of remembered tickets does not grow for ever: what it holds was *)
(* still within its retention at the last sweep.                           *)
StoreForgets ==
    \A t \in Tickets : redeemed[t] # Never => redeemed[t] > lastSweep

(* "The API signs tickets with SESSION_SECRET and this service verifies    *)
(* them locally": a ticket the API minted is never refused for its         *)
(* signature.                                                              *)
IssuedTicketsVerify ==
    \A t \in Tickets : "signature_invalid" \notin refused[t]

=============================================================================
