---------------------------- MODULE Organisation ----------------------------
(***************************************************************************)
(* What an organisation's administrators and recruiters change side by     *)
(* side: its settings document and its job roles.  The two share no row    *)
(* and no lock, so neither constrains how the other's requests run.        *)
(***************************************************************************)
EXTENDS OrgSettings, JobRoles

OrganisationSpec == SettingsSpec /\ RolesSpec

(* The audit rows of the organisation's settings and of its job roles tell *)
(* the whole story: each begins where the one before it ended, and the     *)
(* last ends at the row that is stored, however the requests that wrote    *)
(* them interleaved.                                                       *)
AuditChains == SettingsChain /\ RoleHistory
=============================================================================
