---------------------------- MODULE OrgSettings ----------------------------
(***************************************************************************)
(* An organisation's settings document: what is served of it, and two      *)
(* administrators changing it at once.  The stored column is schemaless: a *)
(* function from keys to sections, a section a function from fields to     *)
(* values.  A value is a member of the field's legal set or is not.        *)
(***************************************************************************)
EXTENDS Absent, Integers, Sequences, FiniteSets

CONSTANTS
    Legal,          \* for each section, its fields and their legal values
    Stored,         \* documents the column may hold to begin with
    Patches,        \* bodies a PATCH may carry
    Admins,         \* administrators, each with one request at a time
    MaxPatches      \* bound on requests

Sections == DOMAIN Legal

(* defaultOrgSettings: every field may be null or, a capture, off.         *)
ASSUME SettingsConstants ==
    /\ MaxPatches \in Nat
    /\ \A name \in Sections : \A field \in DOMAIN Legal[name] :
          "off" \in Legal[name][field] \/ Missing \in Legal[name][field]

(* What an organisation that has never touched a setting has: null, or     *)
(* off for a capture.                                                      *)
DefaultSection(name) ==
    [field \in DOMAIN Legal[name] |-> IF "off" \in Legal[name][field] THEN "off" ELSE Missing]

Valid(name, section) ==
    \A field \in DOMAIN Legal[name] : section[field] \in Legal[name][field]

(* section: over the defaults, then through the schema, which keeps only   *)
(* the fields it names; a value it refuses costs the whole section.        *)
Section(name, stored) ==
    LET merged == Over(stored, DefaultSection(name))
    IN  IF Valid(name, merged) THEN [field \in DOMAIN Legal[name] |-> merged[field]]
        ELSE DefaultSection(name)

(* A section that is not there is an empty one. *)
ProjectOrgSettings(document) ==
    [name \in Sections |->
        Section(name, IF name \in DOMAIN document THEN document[name] ELSE <<>>)]

(* A field the patch names is set, to null too; the others are left. *)
MergeOrgSettings(current, patch) ==
    [name \in Sections |-> IF name \in DOMAIN patch THEN Over(patch[name], current[name]) ELSE current[name]]

(* The body must name a section; an unknown one, or field, is refused. *)
PatchAccepted(patch) ==
    /\ DOMAIN patch # {} /\ DOMAIN patch \subseteq Sections
    /\ \A name \in DOMAIN patch :
           /\ DOMAIN patch[name] \subseteq DOMAIN Legal[name]
           /\ \A field \in DOMAIN patch[name] : patch[name][field] \in Legal[name][field]

AssertServable(settings) == \A name \in Sections : Valid(name, settings[name])

(* Keys this build has never heard of are carried across. *)
WriteOrgSettings(document, next) == Over(next, document)

----------------------------------------------------------------------------
VARIABLES document, patching, orgLock, trail, patched

settingsVars == <<document, patching, orgLock, trail, patched>>

NoPatch == [at |-> "none"]

SettingsInit ==
    /\ document \in Stored
    /\ patching = [a \in Admins |-> NoPatch]
    /\ orgLock = {}
    /\ trail = <<[after |-> ProjectOrgSettings(document), patch |-> <<>>, stored |-> document]>>
    /\ patched = 0

(* The body is parsed before the transaction opens. *)
ReceivePatch(a, patch) ==
    /\ patching[a] = NoPatch /\ patched < MaxPatches
    /\ patched' = patched + 1
    /\ patching' = [patching EXCEPT ![a] =
           IF PatchAccepted(patch) THEN [at |-> "lock", patch |-> patch] ELSE NoPatch]
    /\ UNCHANGED <<document, orgLock, trail>>

(* Mutant of ReadOrg: the row is read without a lock. *)
ReadOrgUnlocked(a) ==
    /\ patching[a].at = "lock"
    /\ patching' = [patching EXCEPT ![a] =
           [at |-> "write", patch |-> @.patch, stored |-> document]]
    /\ UNCHANGED <<document, orgLock, trail, patched>>

(* SELECT ... FOR UPDATE. *)
ReadOrg(a) ==
    /\ patching[a].at = "lock"
    /\ orgLock = {}
    /\ orgLock' = {a}
    /\ patching' = [patching EXCEPT ![a] =
           [at |-> "write", patch |-> @.patch, stored |-> document]]
    /\ UNCHANGED <<document, trail, patched>>

(* Merge, check, write, record and commit; the lock goes with the commit. *)
CommitPatch(a) ==
    /\ patching[a].at = "write"
    /\ LET current == ProjectOrgSettings(patching[a].stored)
           next == MergeOrgSettings(current, patching[a].patch)
       IN  IF AssertServable(next)
           THEN /\ document' = WriteOrgSettings(patching[a].stored, next)
                /\ trail' = Append(trail, [before |-> current, after |-> next,
                                           patch |-> patching[a].patch])
           ELSE UNCHANGED <<document, trail>>
    /\ patching' = [patching EXCEPT ![a] = NoPatch]
    /\ orgLock' = orgLock \ {a}
    /\ UNCHANGED patched

SettingsNext ==
    \E a \in Admins :
        \/ \E patch \in Patches : ReceivePatch(a, patch)
        \/ ReadOrg(a) \/ CommitPatch(a)

SettingsSpec == SettingsInit /\ [][SettingsNext]_settingsVars

----------------------------------------------------------------------------
(* What is served is always a document of this build, an accepted patch    *)
(* is never refused by the last check, each audit row starts where the one *)
(* before it ended, and the served settings are where the last one ended:  *)
(* two administrators changing different fields lose neither change, and a *)
(* key this build does not know survives them both.                        *)
SettingsChain ==
    /\ AssertServable(ProjectOrgSettings(document))
    /\ \A a \in Admins : patching[a].at = "write" =>
           AssertServable(MergeOrgSettings(ProjectOrgSettings(patching[a].stored), patching[a].patch))
    /\ \A i \in 2 .. Len(trail) :
           /\ trail[i].before = trail[i - 1].after
           /\ \A s \in DOMAIN trail[i].patch :
                 \A f \in DOMAIN Legal[s] :
                     trail[i].after[s][f] = IF f \in DOMAIN trail[i].patch[s] THEN trail[i].patch[s][f]
                                            ELSE trail[i].before[s][f]
    /\ ProjectOrgSettings(document) = trail[Len(trail)].after
    /\ \A key \in DOMAIN trail[1].stored \ Sections :
           key \in DOMAIN document /\ document[key] = trail[1].stored[key]
=============================================================================
