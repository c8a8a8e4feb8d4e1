------------------------------ MODULE Taxonomy ------------------------------
(***************************************************************************)
(* Skills, the questions tagged with them and the roles that require them, *)
(* edited by several people at once: taxonomy/routes.ts over taxonomy.ts   *)
(* and job-roles.ts.  Every edit is one transaction at READ COMMITTED, and *)
(* its steps are its statements.                                           *)
(*                                                                         *)
(* A tag and a requirement are reduced to who carries which skill: weights *)
(* and bands are copied with them.  Writes wait in the transaction until   *)
(* it commits, which nobody else can see, and hold the row locks           *)
(* PostgreSQL takes for them, foreign keys included.                       *)
(***************************************************************************)
EXTENDS Absent, Integers, FiniteSets

CONSTANTS
    Skills,         \* skill ids, existing or not
    Global,         \* the shared skills, which no tenant owns
    Bearers,        \* questions and roles: whatever carries skills
    Editors,        \* people, each with one transaction at a time
    MaxEdited,      \* bound on transactions begun
    MaxBody         \* bound on the skills one replacement names

ASSUME TaxonomyConstants ==
    /\ Global \subseteq Skills /\ Missing \notin Skills /\ MaxEdited \in Nat /\ MaxBody \in Nat

VARIABLES
    parent,     \* committed rows of skills: each skill's parent
    carries,    \* committed tags and requirements: pairs of bearer and skill
    txn,        \* each editor's transaction
    locks,      \* row locks held: editor, row, mode
    unused,     \* ids no INSERT has been given: each is generated once
    begun,      \* transactions begun
    overtaken   \* skills a merge was taking away while another edit touched them

taxonomyVars == <<parent, carries, txn, locks, unused, begun, overtaken>>

Rest == [op |-> "none"]
Exists == DOMAIN parent

TaxonomyInit ==
    /\ \E some \in SUBSET Skills :
          /\ Global \subseteq some
          /\ parent \in [some -> {Missing} \cup some]
          /\ \A s \in some : IF s \in Global THEN parent[s] = Missing
                             ELSE parent[s] # Missing => parent[parent[s]] = Missing
    /\ carries \in SUBSET (Bearers \X Exists)
    /\ txn = [e \in Editors |-> Rest]
    /\ locks = {}
    /\ unused = Skills \ Exists
    /\ begun = 0
    /\ overtaken = {}

----------------------------------------------------------------------------
(* Row locks: a foreign key shares its target, an update of a child is     *)
(* weaker than a delete, FOR UPDATE and DELETE exclude everything.         *)
Conflict(a, b) ==
    \/ "update" \in {a, b}
    \/ a = "no_key_update" /\ b = "no_key_update"

Free(e, row, mode) ==
    \A l \in locks : l.row = row /\ l.editor # e => ~Conflict(l.mode, mode)

Lock(e, rows, mode) == {[editor |-> e, row |-> r, mode |-> mode] : r \in rows}

Begin(e, fields) ==
    /\ txn[e] = Rest /\ begun < MaxEdited
    /\ begun' = begun + 1
    /\ txn' = [txn EXCEPT ![e] = fields]

Step(e, at, patch) ==
    txn' = [txn EXCEPT ![e] = Over(patch, [@ EXCEPT !.at = at])]

(* Every exit but a commit: nothing is kept. *)
Rollback(e) ==
    /\ txn' = [txn EXCEPT ![e] = Rest]
    /\ locks' = {l \in locks : l.editor # e}
    /\ UNCHANGED <<parent, carries, unused, begun, overtaken>>

(* What a commit does besides its writes. *)
End(e) ==
    /\ txn' = [txn EXCEPT ![e] = Rest]
    /\ locks' = {l \in locks : l.editor # e}
    /\ UNCHANGED <<unused, begun>>

(* A skill in somebody else's merge, past its first read. *)
MergedBy(f) ==
    IF txn[f].op = "merge" /\ txn[f].at # "read_source" THEN {txn[f].source, txn[f].target} ELSE {}
BeingMerged(s, e) == \E f \in Editors \ {e} : s \in MergedBy(f)

----------------------------------------------------------------------------
(* POST /skills *)
BeginCreate(e, under) ==
    /\ Begin(e, [op |-> "create", at |-> "check", under |-> under])
    /\ UNCHANGED <<parent, carries, locks, unused, overtaken>>

CheckParent(e) ==
    LET t == txn[e] IN
    /\ t.op = "create" /\ t.at = "check"
    /\ IF t.under # Missing /\ (t.under \notin Exists \/ parent[t.under] # Missing)
       THEN Rollback(e)
       ELSE /\ Step(e, "insert", <<>>)
            /\ UNCHANGED <<parent, carries, locks, unused, begun, overtaken>>

(* The row gets a generated id.  The foreign key waits for a delete in     *)
(* progress, and fails after it; so does the insert of a key in use.       *)
InsertSkill(e, skill) ==
    LET t == txn[e] IN
    /\ t.op = "create" /\ t.at = "insert"
    /\ t.under # Missing => Free(e, t.under, "key_share")
    /\ t.under \in Exists \cup {Missing} /\ skill \in unused
    /\ Step(e, "commit", [skill |-> skill])
    /\ unused' = unused \ {skill}
    /\ locks' = locks \cup Lock(e, {t.under} \ {Missing}, "key_share")
                      \cup Lock(e, {skill}, "update")
    /\ UNCHANGED <<parent, carries, begun, overtaken>>

RefuseInsert(e) ==
    /\ txn[e].op = "create" /\ txn[e].at = "insert"
    /\ txn[e].under # Missing => Free(e, txn[e].under, "key_share")
    /\ Rollback(e)

CommitCreate(e) ==
    LET t == txn[e] IN
    /\ t.op = "create" /\ t.at = "commit"
    /\ parent' = With(parent, t.skill, t.under)
    /\ overtaken' = overtaken \cup {s \in {t.under} : BeingMerged(s, e)}
    /\ End(e)
    /\ UNCHANGED carries

----------------------------------------------------------------------------
(* PUT /questions/:id/skills and PUT /job-roles/:id/skills: lock the       *)
(* bearer, refuse a skill the tenant cannot see, replace the whole set.    *)
BeginReplace(e, bearer, body) ==
    /\ Begin(e, [op |-> "replace", at |-> "lock", bearer |-> bearer, body |-> body])
    /\ UNCHANGED <<parent, carries, locks, unused, overtaken>>

LockBearer(e) ==
    LET t == txn[e] IN
    /\ t.op = "replace" /\ t.at = "lock"
    /\ Free(e, t.bearer, "update")
    /\ locks' = locks \cup Lock(e, {t.bearer}, "update")
    /\ Step(e, "visible", <<>>)
    /\ UNCHANGED <<parent, carries, unused, begun, overtaken>>

AssertSkillsVisible(e) ==
    LET t == txn[e] IN
    /\ t.op = "replace" /\ t.at = "visible"
    /\ IF t.body \subseteq Exists
       THEN Step(e, "insert", <<>>) /\ UNCHANGED <<parent, carries, locks, unused, begun, overtaken>>
       ELSE Rollback(e)

ReplaceSkills(e) ==
    LET t == txn[e] IN
    /\ t.op = "replace" /\ t.at = "insert"
    /\ \A s \in t.body : Free(e, s, "key_share")
    /\ IF t.body \subseteq Exists
       THEN /\ Step(e, "commit", <<>>)
            /\ locks' = locks \cup Lock(e, t.body, "key_share")
            /\ UNCHANGED <<parent, carries, unused, begun, overtaken>>
       ELSE Rollback(e)

CommitReplace(e) ==
    LET t == txn[e] IN
    /\ t.op = "replace" /\ t.at = "commit"
    /\ carries' = {c \in carries : c[1] # t.bearer} \cup ({t.bearer} \X t.body)
    /\ overtaken' = overtaken \cup {s \in t.body : BeingMerged(s, e)}
    /\ End(e)
    /\ UNCHANGED parent

----------------------------------------------------------------------------
(* POST /skills/:id/merge.  Everything that can refuse is read first; the  *)
(* reads take no lock.                                                     *)
BeginMerge(e, source, target) ==
    /\ source # target
    /\ Begin(e, [op |-> "merge", at |-> "read_source", source |-> source, target |-> target])
    /\ UNCHANGED <<parent, carries, locks, unused, overtaken>>

Children(s) == {c \in Exists : parent[c] = s}

ReadSource(e) ==
    LET t == txn[e] IN
    /\ t.op = "merge" /\ t.at = "read_source"
    /\ IF t.source \notin Exists THEN Rollback(e)
       ELSE /\ Step(e, "read_target", [children |-> Children(t.source) # {}])
            /\ UNCHANGED <<parent, carries, locks, unused, begun, overtaken>>

(* Mutant of MergeRefused: the depth is not looked at. *)
MergeRefusedWithoutDepth(t) ==
    \/ t.target \notin Exists
    \/ t.source \in Global
    \/ parent[t.target] = t.source

MergeRefused(t) ==
    \/ t.target \notin Exists
    \/ t.source \in Global
    \/ parent[t.target] = t.source
    \/ t.children /\ parent[t.target] # Missing

ReadTarget(e) ==
    LET t == txn[e] IN
    /\ t.op = "merge" /\ t.at = "read_target"
    /\ IF MergeRefused(t) THEN Rollback(e)
       ELSE /\ Step(e, "copy", <<>>)
            /\ UNCHANGED <<parent, carries, locks, unused, begun, overtaken>>

(* INSERT ... SELECT ... ON CONFLICT DO NOTHING, for tags and then for     *)
(* requirements: one statement each, told apart by nothing that matters.   *)
CopyReferences(e) ==
    LET t == txn[e]
        from == {c[1] : c \in {d \in carries : d[2] = t.source}}
        new == {b \in from : <<b, t.target>> \notin carries}
    IN
    /\ t.op = "merge" /\ t.at = "copy"
    /\ \A b \in new : Free(e, b, "key_share")
    /\ new # {} => Free(e, t.target, "key_share")
    /\ IF new # {} /\ t.target \notin Exists THEN Rollback(e)
       ELSE /\ Step(e, "reparent", [moved |-> new])
            /\ locks' = locks \cup Lock(e, new \cup (IF new = {} THEN {} ELSE {t.target}), "key_share")
            /\ UNCHANGED <<parent, carries, unused, begun, overtaken>>

Reparent(e) ==
    LET t == txn[e] IN
    /\ t.op = "merge" /\ t.at = "reparent"
    /\ \A c \in Children(t.source) : Free(e, c, "no_key_update")
    /\ Children(t.source) # {} => Free(e, t.target, "key_share")
    /\ IF Children(t.source) # {} /\ t.target \notin Exists THEN Rollback(e)
       ELSE /\ Step(e, "delete", [reparented |-> Children(t.source)])
            /\ locks' = locks \cup Lock(e, Children(t.source), "no_key_update")
                  \cup Lock(e, IF Children(t.source) = {} THEN {} ELSE {t.target}, "key_share")
            /\ UNCHANGED <<parent, carries, unused, begun, overtaken>>

DeleteSource(e) ==
    LET t == txn[e] IN
    /\ t.op = "merge" /\ t.at = "delete"
    /\ Free(e, t.source, "update")
    /\ locks' = locks \cup Lock(e, {t.source}, "update")
    /\ Step(e, "commit", <<>>)
    /\ UNCHANGED <<parent, carries, unused, begun, overtaken>>

(* The delete cascades to what still refers to the source, and sets the    *)
(* parent of any child it was not told of to null.                         *)
CommitMerge(e) ==
    LET t == txn[e] IN
    /\ t.op = "merge" /\ t.at = "commit"
    /\ parent' = [s \in Exists \ {t.source} |->
                     IF s \in t.reparented THEN t.target
                     ELSE IF parent[s] = t.source THEN Missing ELSE parent[s]]
    /\ carries' = {c \in carries : c[2] # t.source} \cup (t.moved \X {t.target})
    /\ overtaken' = overtaken \cup {s \in {t.source, t.target} : BeingMerged(s, e)}
    /\ End(e)

(* Two transactions that wait for each other: PostgreSQL ends one. *)
Wants(e) ==
    LET t == txn[e]
        Need(rows, mode) == {[row |-> r, mode |-> mode] : r \in rows}
    IN  CASE t.op = "create" /\ t.at = "insert" -> Need({t.under} \ {Missing}, "key_share")
          [] t.op = "replace" /\ t.at = "lock" -> Need({t.bearer}, "update")
          [] t.op = "replace" /\ t.at = "insert" -> Need(t.body, "key_share")
          [] t.op = "merge" /\ t.at = "copy" ->
                LET new == {b \in Bearers : <<b, t.source>> \in carries /\ <<b, t.target>> \notin carries}
                IN  Need(IF new = {} THEN {} ELSE new \cup {t.target}, "key_share")
          [] t.op = "merge" /\ t.at = "reparent" ->
                Need(Children(t.source), "no_key_update")
                \cup Need(IF Children(t.source) = {} THEN {} ELSE {t.target}, "key_share")
          [] t.op = "merge" /\ t.at = "delete" -> Need({t.source}, "update")
          [] OTHER -> {}

WaitsFor(e, f) ==
    \E n \in Wants(e), l \in locks : l.editor = f /\ l.row = n.row /\ Conflict(l.mode, n.mode)

DeadlockVictim(e) ==
    /\ \E f \in Editors \ {e} : WaitsFor(e, f) /\ WaitsFor(f, e)
    /\ Rollback(e)

TaxonomyNext ==
    \E e \in Editors :
        \/ \E p \in Skills \cup {Missing} : BeginCreate(e, p)
        \/ \E b \in Bearers, body \in {s \in SUBSET Skills : Cardinality(s) <= MaxBody} :
              BeginReplace(e, b, body)
        \/ \E s, t \in Skills : BeginMerge(e, s, t)
        \/ CheckParent(e) \/ (\E s \in Skills : InsertSkill(e, s)) \/ RefuseInsert(e) \/ CommitCreate(e)
        \/ LockBearer(e) \/ AssertSkillsVisible(e) \/ ReplaceSkills(e) \/ CommitReplace(e)
        \/ ReadSource(e) \/ ReadTarget(e) \/ CopyReferences(e) \/ Reparent(e)
        \/ DeleteSource(e) \/ CommitMerge(e) \/ DeadlockVictim(e)

TaxonomySpec == TaxonomyInit /\ [][TaxonomyNext]_taxonomyVars

----------------------------------------------------------------------------
(* The report a recruiter reads: each requirement with what the bank holds *)
(* in its band, and the required ones with nothing.                        *)
Coverage(requirements, questions) ==
    [r \in requirements |->
        LET tagged == {q \in questions : r.skill \in q.skills /\ q.status = "published" /\ ~q.archived}
            low == IF r.min = 0 THEN 1 ELSE r.min
            high == IF r.max = 0 THEN 5 ELSE r.max
        IN  [published |-> Cardinality(tagged),
             inBand |-> Cardinality({q \in tagged : q.difficulty \in low .. high}),
             byDifficulty |-> [d \in 1 .. 5 |-> Cardinality({q \in tagged : q.difficulty = d})]]]

Gaps(requirements, questions) ==
    {r.skill : r \in {x \in requirements : x.required /\ Coverage(requirements, questions)[x].inBand = 0}}

----------------------------------------------------------------------------
(* ADR-009, and the promise of createSkill and mergeSkills: a skill's      *)
(* parent has no parent, whatever edits overlap.                           *)
TwoLevels ==
    \A s \in Exists : parent[s] # Missing => parent[parent[s]] = Missing

(* What goes wrong goes wrong only where an edit of a skill committed      *)
(* between a merge's check and its commit: otherwise the taxonomy stays    *)
(* two levels deep with no dangling parent, and no bearer of a merged      *)
(* skill is left without the skill it was merged into.                     *)
MergesKeepTheBank ==
    overtaken = {} =>
        /\ TwoLevels
        /\ \A s \in Exists : parent[s] \in Exists \cup {Missing}
        /\ \A e \in Editors : (txn[e].op = "merge" /\ txn[e].at = "commit") =>
              \A c \in carries : c[2] = txn[e].source =>
                  <<c[1], txn[e].target>> \in carries \/ c[1] \in txn[e].moved
=============================================================================
