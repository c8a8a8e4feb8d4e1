------------------------------ MODULE JobRoles ------------------------------
(***************************************************************************)
(* Job roles: created, changed and retired by several people at once       *)
(* (apps/api/src/taxonomy/routes.ts over packages/db/src/job-roles.ts).    *)
(* Every change is one transaction with its audit row; its steps are its   *)
(* statements.  Who requires which skill, and the coverage report, are     *)
(* Taxonomy's.                                                             *)
(***************************************************************************)
EXTENDS Absent, Integers, Sequences, FiniteSets

CONSTANTS
    Codes,          \* role codes, unique in an organisation
    Recruiters,     \* people, each with one request at a time
    NewRoles,       \* bodies a POST may carry, without the code
    RolePatches,    \* bodies a PATCH may carry
    MaxRoleEdits    \* bound on requests

ASSUME JobRoleConstants ==
    /\ MaxRoleEdits \in Nat
    /\ Missing \notin Recruiters /\ Missing \notin {"true", "false"}

RoleFields == {"title", "family", "seniority", "description", "is_active"}

(* The two bodies: strict, and with no null in them.  A new role needs a   *)
(* title and says nothing of being active; a role's code is fixed.         *)
NewRoleAccepted(body) ==
    /\ "title" \in DOMAIN body /\ DOMAIN body \subseteq RoleFields \ {"is_active"}
    /\ \A f \in DOMAIN body : body[f] # Missing

RolePatchAccepted(patch) ==
    /\ DOMAIN patch # {} /\ DOMAIN patch \subseteq RoleFields
    /\ \A f \in DOMAIN patch : patch[f] # Missing
    /\ "is_active" \in DOMAIN patch => patch["is_active"] \in BOOLEAN

(* A new role is active, and null where the body is silent. *)
NewRole(body) ==
    Over(body, [f \in RoleFields |-> IF f = "is_active" THEN TRUE ELSE Missing])

(* coalesce: only the fields named; a field once set is never null again. *)
Coalesce(patch, row) == [f \in RoleFields |-> IF f \in DOMAIN patch THEN patch[f] ELSE row[f]]

----------------------------------------------------------------------------
VARIABLES
    roles,      \* committed rows by code
    roleTxn,    \* each person's transaction
    roleLock,   \* code -> who holds its row, or its place in the unique index
    roleTrail,  \* committed audit rows
    roleEdits   \* requests received

roleVars == <<roles, roleTxn, roleLock, roleTrail, roleEdits>>

NoEdit == [at |-> "none"]

RolesInit ==
    /\ roles = <<>>
    /\ roleTxn = [e \in Recruiters |-> NoEdit]
    /\ roleLock = [code \in Codes |-> Missing]
    /\ roleTrail = <<>>
    /\ roleEdits = 0

ReceiveCreate(e, code, body) ==
    /\ roleTxn[e] = NoEdit /\ roleEdits < MaxRoleEdits
    /\ roleEdits' = roleEdits + 1
    /\ roleTxn' = [roleTxn EXCEPT ![e] =
           IF NewRoleAccepted(body) THEN [at |-> "insert", code |-> code, row |-> NewRole(body)] ELSE NoEdit]
    /\ UNCHANGED <<roles, roleLock, roleTrail>>

ReceiveUpdate(e, code, patch) ==
    /\ roleTxn[e] = NoEdit /\ roleEdits < MaxRoleEdits
    /\ roleEdits' = roleEdits + 1
    /\ roleTxn' = [roleTxn EXCEPT ![e] =
           IF RolePatchAccepted(patch) THEN [at |-> "read", code |-> code, patch |-> patch] ELSE NoEdit]
    /\ UNCHANGED <<roles, roleLock, roleTrail>>

(* INSERT ... ON CONFLICT DO NOTHING waits for a row of that code that is  *)
(* not committed yet; one that is committed makes it a conflict.           *)
CreateJobRole(e) ==
    LET t == roleTxn[e] IN
    /\ t.at = "insert" /\ roleLock[t.code] = Missing
    /\ IF t.code \in DOMAIN roles
       THEN /\ roleTxn' = [roleTxn EXCEPT ![e] = NoEdit]
            /\ UNCHANGED roleLock
       ELSE /\ roleLock' = [roleLock EXCEPT ![t.code] = e]
            /\ roleTxn' = [roleTxn EXCEPT ![e] =
                   [at |-> "commit", code |-> t.code, before |-> Missing, after |-> t.row]]
    /\ UNCHANGED <<roles, roleTrail, roleEdits>>

(* Mutant of RequireJobRole: the row is read without a lock. *)
RequireJobRoleUnlocked(e) ==
    LET t == roleTxn[e] IN
    /\ t.at = "read"
    /\ roleTxn' = [roleTxn EXCEPT ![e] =
           IF t.code \notin DOMAIN roles THEN NoEdit
           ELSE [at |-> "update", code |-> t.code, patch |-> t.patch, before |-> roles[t.code]]]
    /\ UNCHANGED <<roles, roleLock, roleTrail, roleEdits>>

(* requireJobRole: SELECT ... FOR UPDATE, and 404 when there is no row.  A *)
(* row somebody has inserted and not committed is not seen.                *)
RequireJobRole(e) ==
    LET t == roleTxn[e] IN
    /\ t.at = "read"
    /\ IF t.code \notin DOMAIN roles
       THEN /\ roleTxn' = [roleTxn EXCEPT ![e] = NoEdit]
            /\ UNCHANGED roleLock
       ELSE /\ roleLock[t.code] = Missing
            /\ roleLock' = [roleLock EXCEPT ![t.code] = e]
            /\ roleTxn' = [roleTxn EXCEPT ![e] =
                   [at |-> "update", code |-> t.code, patch |-> t.patch, before |-> roles[t.code]]]
    /\ UNCHANGED <<roles, roleTrail, roleEdits>>

(* The UPDATE takes the row's lock itself, and reads the row as it is then. *)
UpdateJobRole(e) ==
    LET t == roleTxn[e] IN
    /\ t.at = "update" /\ roleLock[t.code] \in {Missing, e}
    /\ roleLock' = [roleLock EXCEPT ![t.code] = e]
    /\ roleTxn' = [roleTxn EXCEPT ![e] =
           [at |-> "commit", code |-> t.code, before |-> t.before,
            after |-> Coalesce(t.patch, roles[t.code])]]
    /\ UNCHANGED <<roles, roleTrail, roleEdits>>

CommitRole(e) ==
    LET t == roleTxn[e] IN
    /\ t.at = "commit"
    /\ roles' = With(roles, t.code, t.after)
    /\ roleTrail' = Append(roleTrail, [code |-> t.code, before |-> t.before, after |-> t.after])
    /\ roleLock' = [roleLock EXCEPT ![t.code] = Missing]
    /\ roleTxn' = [roleTxn EXCEPT ![e] = NoEdit]
    /\ UNCHANGED roleEdits

(* The audit row could not be written, or the connection went: neither is kept. *)
RollbackRole(e) ==
    /\ roleTxn[e].at \in {"update", "commit"}
    /\ roleLock' = [code \in Codes |-> IF roleLock[code] = e THEN Missing ELSE roleLock[code]]
    /\ roleTxn' = [roleTxn EXCEPT ![e] = NoEdit]
    /\ UNCHANGED <<roles, roleTrail, roleEdits>>

RolesNext ==
    \E e \in Recruiters :
        \/ \E code \in Codes :
              \/ \E body \in NewRoles : ReceiveCreate(e, code, body)
              \/ \E patch \in RolePatches : ReceiveUpdate(e, code, patch)
        \/ CreateJobRole(e) \/ RequireJobRole(e) \/ UpdateJobRole(e) \/ CommitRole(e) \/ RollbackRole(e)

RolesSpec == RolesInit /\ [][RolesNext]_roleVars

----------------------------------------------------------------------------
(* What is read back.                                                      *)

(* A filter on `active` arrives as the word true or false. *)
ListJobRoles(filter) ==
    {code \in DOMAIN roles :
        /\ filter.family \in {Missing, roles[code].family}
        /\ filter.seniority \in {Missing, roles[code].seniority}
        /\ filter.active # Missing => roles[code].is_active = (filter.active = "true")}

(* Required first, then heaviest, then by key. *)
RequirementBefore(a, b) ==
    IF a.is_required # b.is_required THEN a.is_required
    ELSE IF a.weight # b.weight THEN a.weight > b.weight
    ELSE a.key < b.key

----------------------------------------------------------------------------
(* Where a role's rows are in the trail. *)
History(code) == {i \in DOMAIN roleTrail : roleTrail[i].code = code}

(* The rows of one role: there are some exactly when there is a role, each *)
(* starts where the one before it ended, the first from nothing, and the   *)
(* role is what the last one says.                                         *)
HistoryWhole(code) ==
    /\ code \in DOMAIN roles <=> History(code) # {}
    /\ \A i \in History(code) :
          LET row == roleTrail[i]
              earlier == {j \in History(code) : j < i}
          IN  /\ earlier = {} => row.before = Missing
              /\ \A k \in earlier : (\A j \in earlier : j <= k) =>
                    /\ row.before = roleTrail[k].after
                    /\ \A f \in RoleFields : row.before[f] # Missing => row.after[f] # Missing
              /\ (\A j \in History(code) : j <= i) => roles[code] = row.after

(* The audit rows of a role are its history and nothing is missing from    *)
(* it: it begins with the one creation of its code, each row starts where  *)
(* the one before it ended, the role is what the last one says, and no     *)
(* change has taken a value away.  Two people creating one code, or        *)
(* changing one role, cannot leave a gap in it or a value nobody recorded. *)
(* A list of the active roles and one of the retired share no role and     *)
(* miss none.                                                              *)
RoleHistory ==
    /\ LET listed(active) == ListJobRoles([family |-> Missing, seniority |-> Missing, active |-> active]) IN
       /\ listed("true") \cap listed("false") = {}
       /\ listed("true") \cup listed("false") = listed(Missing)
    /\ \A code \in Codes : HistoryWhole(code)
=============================================================================
