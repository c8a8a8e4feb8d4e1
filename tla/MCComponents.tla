---------------------------- MODULE MCComponents ----------------------------
(***************************************************************************)
(* The components that share no state with one another, side by side.  A   *)
(* behaviour chooses one of them and only that one moves; the others stay  *)
(* in one of their initial states.  The components that are functions and  *)
(* not processes are evaluated on the input a behaviour with the part      *)
(* "laws" begins with.                                                     *)
(***************************************************************************)
EXTENDS WsTicket, CollabRooms, StaffAccess, Organisation, TenantPool,
        CandidateShell, QuestionListing, QuestionEditor, Laws

VARIABLE part       \* the component that moves

-----------------------------------------------------------------------------
(* The instance.                                                           *)

Parts == {"tickets", "rooms", "staff", "taxonomy", "settings", "roles", "pool",
          "shell", "listing", "editor", "laws"}

MCOrgOf == [u \in Users |-> "o"]

\* Taxonomies in which a merge can make a third level: a skill under the shared
\* one, and a root that has a child or is about to be given one.
MCTaxonomies ==
    LET child == CHOOSE s \in Skills : s \notin Global
        root == CHOOSE s \in Skills : s \notin Global \cup {child}
        third == CHOOSE s \in Skills : s \notin Global \cup {child, root}
        shared == CHOOSE s \in Skills : s \in Global
        small == (shared :> Missing) @@ (child :> shared) @@ (root :> Missing)
    IN  {small, small @@ (third :> root)}

MCLegal == [branding |-> [name |-> {Missing, "n1", "n2"}, logo |-> {Missing, "https"}],
            proctoring_defaults |-> [webcam |-> {"on", "off"}]]
MCStored == {<<>>,
             [branding |-> [name |-> "n1", logo |-> "http"], legacy |-> 7],
             [branding |-> [name |-> "n1", extra |-> 1], legacy |-> 7]}
MCPatches == {<<>>, [branding |-> [name |-> "n2"]], [branding |-> [logo |-> Missing]],
              [branding |-> [logo |-> "https"], proctoring_defaults |-> [webcam |-> "on"]],
              [retention |-> [days |-> 30]], [branding |-> [logo |-> "http"]]}

MCNewRoles == {[title |-> "t1"], [title |-> "t2", family |-> "f1"], [family |-> "f1"]}
MCRolePatches == {<<>>, [title |-> "t2"], [family |-> "f2"], [family |-> Missing], [is_active |-> FALSE]}

MCFixed == [t \in ThresholdSet |->
               CASE t = "ten-minutes" -> 6 [] t = "five-minutes" -> 4 [] OTHER -> 2]
MCGap == [polite |-> 2, assertive |-> 3]

MCRowStates ==
    {[kind |-> "coding", status |-> "draft", archived |-> a, exposure |-> 0, difficulty |-> 1,
      skills |-> {}, prompts |-> {"p"}, license |-> "mit"] : a \in BOOLEAN}
MCFilterSets ==
    {[include_archived |-> FALSE, kind |-> Missing, status |-> Missing, exposure_gt |-> Missing,
      difficulty |-> Missing, skill_id |-> Missing, q |-> "p"]}

-----------------------------------------------------------------------------
(* One component moves.  A component that does not has one initial state.  *)

ComponentsInit ==
    /\ part \in Parts
    /\ Init            /\ (part # "tickets"  => drift = 0 /\ pause = 0)
    /\ CollabInit
    /\ StaffInit       /\ (part # "staff"    => grants = {})
    /\ TaxonomyInit    /\ (IF part = "taxonomy" THEN parent \in MCTaxonomies
                           ELSE DOMAIN parent = Global /\ carries = {})
    /\ SettingsInit    /\ (part # "settings" => document = <<>>)
    /\ RolesInit
    /\ PoolInit
    /\ ShellInit
    /\ ListingInit     /\ (part # "listing"  => rows = <<>>)
    /\ EditorInit      /\ (part # "editor"   => bank.versions = <<>>)
    /\ IF part = "laws" THEN LawInit ELSE input = NoInput

(* Everything but what `moves`. *)
StandStill(moves) ==
    /\ UNCHANGED <<part, input>>
    /\ IF moves = "tickets"  THEN TRUE ELSE UNCHANGED vars
    /\ IF moves = "rooms"    THEN TRUE ELSE UNCHANGED collabVars
    /\ IF moves = "staff"    THEN TRUE ELSE UNCHANGED staffVars
    /\ IF moves = "taxonomy" THEN TRUE ELSE UNCHANGED taxonomyVars
    /\ IF moves = "settings" THEN TRUE ELSE UNCHANGED settingsVars
    /\ IF moves = "roles"    THEN TRUE ELSE UNCHANGED roleVars
    /\ IF moves = "pool"     THEN TRUE ELSE UNCHANGED poolVars
    /\ IF moves = "shell"    THEN TRUE ELSE UNCHANGED shellVars
    /\ IF moves = "listing"  THEN TRUE ELSE UNCHANGED listingVars
    /\ IF moves = "editor"   THEN TRUE ELSE UNCHANGED editorVars

ComponentsNext ==
    \/ part = "tickets"  /\ Next         /\ StandStill("tickets")
    \/ part = "rooms"    /\ CollabNext   /\ StandStill("rooms")
    \/ part = "staff"    /\ StaffNext    /\ StandStill("staff")
    \/ part = "taxonomy" /\ TaxonomyNext /\ StandStill("taxonomy")
    \/ part = "settings" /\ SettingsNext /\ StandStill("settings")
    \/ part = "roles"    /\ RolesNext    /\ StandStill("roles")
    \/ part = "pool"     /\ PoolNext     /\ StandStill("pool")
    \/ part = "shell"    /\ ShellNext    /\ StandStill("shell")
    \/ part = "listing"  /\ ListingNext  /\ StandStill("listing")
    \/ part = "editor"   /\ EditorNext   /\ StandStill("editor")

componentVars ==
    <<part, input, vars, collabVars, staffVars, taxonomyVars, settingsVars, roleVars,
      poolVars, shellVars, listingVars, editorVars>>

ComponentsSpec == ComponentsInit /\ [][ComponentsNext]_componentVars

=============================================================================
