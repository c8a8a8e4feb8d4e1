----------------------------- MODULE TenantPool -----------------------------
(***************************************************************************)
(* The only way into the database: withOrg and withElevated                *)
(* (packages/db/src/client.ts).                                            *)
(*                                                                         *)
(* A connection carries `app.current_org` twice over: a value local to its *)
(* open transaction, which the commit or the rollback discards, and a      *)
(* session value that outlives both.  withOrg sets the first, and refuses  *)
(* to run on a connection that arrives with the second.  The job role sees *)
(* every organisation; what it owes for that is an audit row in the        *)
(* transaction of its work and a line in the log before it.                *)
(***************************************************************************)
EXTENDS Absent, Integers, FiniteSets

CONSTANTS AppConns, JobConns,   \* the connections of the two pools
          Callers, Orgs,
          MaxStray, MaxBroken   \* session-scoped SETs, connections lost

ASSUME PoolConstants == Missing \notin Callers /\ Missing \notin Orgs

PLATFORM_ORG == "platform"      \* owns no rows: migration 0003 forbids it

VARIABLES
    conn,       \* connection -> [caller, session, local]
    caller,     \* caller -> what it asked for and what came of it
    closing,    \* Database.close has been called
    touched,    \* <<caller, organisation>>: whose rows the caller's committed work read or wrote
    elevations,      \* <<caller, organisation>>: the committed elevation rows of that work
    attempted,  \* callers whose elevation was logged
    accused,    \* connections refused with OrgContextLeakError
    stray,      \* connections on which something set the organisation for the session
    strays, broken

poolVars == <<conn, caller, closing, touched, elevations, attempted, accused, stray, strays, broken>>

NewConn == [caller |-> Missing, session |-> Missing, local |-> Missing]
NoWork == [phase |-> "idle", elevated |-> FALSE, org |-> Missing, rows |-> {}, row |-> FALSE]

PoolInit ==
    /\ conn = [k \in AppConns \cup JobConns |-> NewConn]
    /\ caller = [c \in Callers |-> NoWork]
    /\ closing = FALSE
    /\ touched = {} /\ elevations = {} /\ attempted = {} /\ accused = {} /\ stray = {}
    /\ strays = 0 /\ broken = 0

-----------------------------------------------------------------------------

\* A reason is there to be found: one that is empty or not a `job.` action is
\* refused before anything opens.  An elevation that names no organisation is
\* the platform's.
NormaliseElevation(reason, org) ==
    IF reason # "job.sweep" THEN [refused |-> TRUE]
    ELSE [refused |-> FALSE, org |-> IF org = Missing THEN PLATFORM_ORG ELSE org]

\* withOrg: wait for a connection of the application pool and open a transaction.
WithOrg(c, o, k) ==
    /\ ~closing /\ caller[c].phase = "idle" /\ conn[k].caller = Missing
    /\ conn' = [conn EXCEPT ![k].caller = c]
    /\ caller' = [caller EXCEPT ![c] = [NoWork EXCEPT !.phase = "opened", !.org = o]]
    /\ UNCHANGED <<closing, touched, elevations, attempted, accused, stray, strays, broken>>

\* withElevated, first: the reason is judged and the attempt logged, outside any transaction.
LogElevation(c, reason, org) ==
    LET e == NormaliseElevation(reason, org) IN
    /\ caller[c].phase = "idle"
    /\ IF e.refused
       THEN /\ caller' = [caller EXCEPT ![c] = [NoWork EXCEPT !.phase = "refused", !.elevated = TRUE]]
            /\ UNCHANGED attempted
       ELSE /\ attempted' = attempted \cup {c}
            /\ caller' = [caller EXCEPT ![c] = [NoWork EXCEPT !.phase = "elevating", !.elevated = TRUE, !.org = e.org]]
    /\ UNCHANGED <<conn, closing, touched, elevations, accused, stray, strays, broken>>

\* Then its transaction: the reason is set and the audit row written before the work.
WithElevated(c, k) ==
    /\ ~closing /\ caller[c].phase = "elevating" /\ conn[k].caller = Missing
    /\ conn' = [conn EXCEPT ![k].caller = c]
    /\ caller' = [caller EXCEPT ![c].phase = "running", ![c].row = TRUE]
    /\ UNCHANGED <<closing, touched, elevations, attempted, accused, stray, strays, broken>>

-----------------------------------------------------------------------------

Holds(c) == CHOOSE k \in DOMAIN conn : conn[k].caller = c

\* SET_ORG: what the connection arrived with, read before the setting is applied.
Inherited(k) == conn[k].session
(* Mutant of ApplyOrg: set_config's third argument is false. *)
ApplyOrgToSession(k, o) == [conn EXCEPT ![k].local = o, ![k].session = o]
ApplyOrg(k, o) == [conn EXCEPT ![k].local = o]

Released(k) == [conn EXCEPT ![k].caller = Missing, ![k].local = Missing]

SetOrg(c) ==
    LET k == Holds(c) IN
    /\ caller[c].phase = "opened"
    /\ IF Inherited(k) # Missing
       THEN /\ accused' = accused \cup {k}
            /\ conn' = Released(k)
            /\ caller' = [caller EXCEPT ![c].phase = "leak"]
       ELSE /\ conn' = ApplyOrg(k, caller[c].org)
            /\ caller' = [caller EXCEPT ![c].phase = "running"]
            /\ UNCHANGED accused
    /\ UNCHANGED <<closing, touched, elevations, attempted, stray, strays, broken>>

\* What the policies admit: the transaction's organisation, or the session's
\* where there is none.  The job role is admitted everywhere.
Admitted(k, elevated) ==
    IF elevated THEN Orgs ELSE Orgs \cap {IF conn[k].local # Missing THEN conn[k].local ELSE conn[k].session}

\* A statement of the callback, with no WHERE on the organisation.
Statement(c) ==
    /\ caller[c].phase = "running"
    /\ caller' = [caller EXCEPT ![c].rows = @ \cup Admitted(Holds(c), caller[c].elevated)]
    /\ UNCHANGED <<conn, closing, touched, elevations, attempted, accused, stray, strays, broken>>

\* The work and its audit row commit together.
CommitWork(c) ==
    /\ caller[c].phase = "running"
    /\ touched' = touched \cup ({c} \X caller[c].rows)
    /\ elevations' = IF caller[c].row THEN elevations \cup {<<c, caller[c].org>>} ELSE elevations
    /\ conn' = Released(Holds(c))
    /\ caller' = [caller EXCEPT ![c].phase = "committed"]
    /\ UNCHANGED <<closing, attempted, accused, stray, strays, broken>>

\* The callback threw: neither is kept.
RollbackWork(c) ==
    /\ caller[c].phase = "running"
    /\ conn' = Released(Holds(c))
    /\ caller' = [caller EXCEPT ![c].phase = "rolled back"]
    /\ UNCHANGED <<closing, touched, elevations, attempted, accused, stray, strays, broken>>

\* The connection is lost under its transaction, and replaced by a new one.
LoseConnection(c) ==
    /\ broken < MaxBroken /\ broken' = broken + 1
    /\ caller[c].phase \in {"opened", "running"}
    /\ LET k == Holds(c) IN
       /\ conn' = [conn EXCEPT ![k] = NewConn]
       /\ stray' = stray \ {k} /\ accused' = accused \ {k}
    /\ caller' = [caller EXCEPT ![c].phase = "rolled back"]
    /\ UNCHANGED <<closing, touched, elevations, attempted, strays>>

\* The fault the check is for: some code sets the organisation for the session,
\* on a connection that is between two transactions.
SetOutside(k, o) ==
    /\ strays < MaxStray /\ strays' = strays + 1
    /\ conn[k].caller = Missing
    /\ conn' = [conn EXCEPT ![k].session = o]
    /\ stray' = stray \cup {k}
    /\ UNCHANGED <<caller, closing, touched, elevations, attempted, accused, broken>>

\* close(): no transaction opens any more; those that are open run to their end.
ClosePools ==
    /\ ~closing /\ closing' = TRUE
    /\ UNCHANGED <<conn, caller, touched, elevations, attempted, accused, stray, strays, broken>>

\* A transaction asked of pools that are ending is refused.
RefuseEnded(c) ==
    /\ closing /\ caller[c].phase \in {"idle", "elevating"}
    /\ caller' = [caller EXCEPT ![c].phase = "refused"]
    /\ UNCHANGED <<conn, closing, touched, elevations, attempted, accused, stray, strays, broken>>

\* A caller comes back with its next piece of work.
CallAgain(c) ==
    /\ caller[c].phase \in {"committed", "rolled back", "leak", "refused"}
    /\ caller' = [caller EXCEPT ![c] = NoWork]
    /\ touched' = {t \in touched : t[1] # c}
    /\ elevations' = {t \in elevations : t[1] # c}
    /\ attempted' = attempted \ {c}
    /\ UNCHANGED <<conn, closing, accused, stray, strays, broken>>

PoolNext ==
    \/ \E c \in Callers :
          \/ \E o \in Orgs, k \in AppConns : WithOrg(c, o, k)
          \/ \E reason \in {"", "grade", "job.sweep"}, o \in Orgs \cup {Missing} : LogElevation(c, reason, o)
          \/ \E k \in JobConns : WithElevated(c, k)
          \/ SetOrg(c) \/ Statement(c) \/ CommitWork(c) \/ RollbackWork(c) \/ LoseConnection(c)
          \/ RefuseEnded(c) \/ CallAgain(c)
    \/ \E k \in AppConns, o \in Orgs : SetOutside(k, o)
    \/ ClosePools

PoolSpec == PoolInit /\ [][PoolNext]_poolVars

-----------------------------------------------------------------------------

\* withOrg keeps every piece of work inside the organisation that asked for it,
\* however the connections are shared, lost and reused; a connection is accused
\* of a leak exactly when something did set the organisation for its session,
\* never because an earlier withOrg left its own behind, and no work runs on
\* such a connection; elevated work is on record, under the organisation it
\* named, exactly when it committed, and was logged before it could begin.
TenantScopeHolds ==
    /\ \A c \in Callers :
          LET call == caller[c] IN
          /\ ~call.elevated => call.rows \subseteq {call.org}
          /\ call.elevated /\ call.phase = "committed" <=> \E t \in elevations : t[1] = c
          /\ \A t \in elevations : t[1] = c => t[2] = call.org /\ c \in attempted
          /\ call.phase # "committed" => ~\E t \in touched : t[1] = c
          /\ call.phase = "running" /\ ~call.elevated => Holds(c) \notin stray
    /\ accused \subseteq stray
    /\ \A k \in DOMAIN conn : conn[k].session # Missing => k \in stray
=============================================================================
