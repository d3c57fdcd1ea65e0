------------------------------- MODULE Roles --------------------------------
(***************************************************************************)
(* Roles in an organization and what each may do (lib/auth/roles.ts).      *)
(***************************************************************************)
EXTENDS Naturals

RoleTier ==
  [role \in {"viewer", "coach", "scout", "crossover_scout", "agent", "consultant",
             "compliance_officer", "finance_admin", "nil_admin", "college_admin", "analyst",
             "cap_analyst", "scouting_asst_director", "assistant_gm", "general_manager",
             "scouting_director", "org_admin", "league_admin"} |->
     CASE role = "viewer" -> 0
       [] role \in {"coach", "scout", "crossover_scout", "agent", "consultant"} -> 1
       [] role \in {"compliance_officer", "finance_admin", "nil_admin", "college_admin"} -> 2
       [] role \in {"analyst", "cap_analyst", "scouting_asst_director"} -> 3
       [] role \in {"assistant_gm", "general_manager", "scouting_director"} -> 4
       [] role \in {"org_admin", "league_admin"} -> 5]

OrgRoles == DOMAIN RoleTier

CapabilityMinTier ==
  [capability \in {"read", "view_scouting", "annotate", "export_scouting",
                   "create_scouting_reports", "edit_prospects", "manage_watchlists", "review",
                   "edit_data", "manage_draft_boards", "run_fit_models", "manage_cfa_boards",
                   "manage_contacts", "assign_followups", "manage_team", "assign_scouts",
                   "manage_org_needs", "finalize_boards", "unlock_boards", "admin",
                   "manage_scouting_models"} |->
     CASE capability \in {"read", "view_scouting"} -> 0
       [] capability \in {"annotate", "export_scouting", "create_scouting_reports",
                          "edit_prospects", "manage_watchlists"} -> 1
       [] capability = "review" -> 2
       [] capability \in {"edit_data", "manage_draft_boards", "run_fit_models",
                          "manage_cfa_boards", "manage_contacts", "assign_followups"} -> 3
       [] capability \in {"manage_team", "assign_scouts", "manage_org_needs",
                          "finalize_boards", "unlock_boards"} -> 4
       [] capability \in {"admin", "manage_scouting_models"} -> 5]

(* roleHasCapability *)
Can(role, capability) == RoleTier[role] >= CapabilityMinTier[capability]
=============================================================================
