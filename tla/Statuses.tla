------------------------------ MODULE Statuses ------------------------------
(***************************************************************************)
(* The static workflow tables of sdlc_orchestrator/statuses.py and the     *)
(* lookup transitions.resolve_transition: which final statuses a role may  *)
(* report, which labels a reported status adds to and removes from the     *)
(* work item, and which labels make a role pick a work item up.            *)
(***************************************************************************)

VALID_ROLES == {"project-manager", "planner", "builder", "reviewer",
                "release", "incident", "learning"}

TERMINAL_LABELS == {"state:done", "state:cancelled", "hermes:blocked",
                    "hermes:manual-only"}

DEFAULT_ROLE_LABELS(role) ==
  CASE role = "project-manager" -> {"hermes:project-manager", "state:project-management"}
    [] role = "planner"  -> {"hermes:planner", "state:ready-for-planning"}
    [] role = "builder"  -> {"hermes:builder", "state:ready-for-build"}
    [] role = "reviewer" -> {"hermes:reviewer", "state:review-needed"}
    [] role = "release"  -> {"hermes:release", "state:ready-for-release"}
    [] role = "incident" -> {"hermes:incident"}
    [] role = "learning" -> {"hermes:learning"}

\* What validate_final_status accepts from a run of the role.
ROLE_FINAL_STATUSES(role) ==
  CASE role = "project-manager" ->
         {"CHARTER_READY", "ROADMAP_READY", "READY_FOR_ITERATION", "IN_PROGRESS",
          "REVIEW", "DONE", "BLOCKED", "REPLAN_REQUIRED", "PAUSED", "KILLED"}
    [] role = "planner"  -> {"READY_FOR_BUILD", "BLOCKED"}
    [] role = "builder"  -> {"PR_READY_FOR_REVIEW", "BLOCKED"}
    [] role = "reviewer" -> {"APPROVE", "REQUEST_CHANGES", "BLOCKED"}
    [] role = "release"  -> {"NO_ACTION", "BLOCKED_NO_ACTION"}
    [] role = "incident" -> {"MONITORING", "ESCALATED", "NO_ACTION"}
    [] role = "learning" -> {"PROPOSED_FOR_HUMAN_REVIEW", "NO_ACTION"}

TERMINAL_FINAL_STATUSES ==
  {"BLOCKED", "BLOCKED_NO_ACTION", "NO_ACTION", "MONITORING", "ESCALATED",
   "PROPOSED_FOR_HUMAN_REVIEW", "DONE", "PAUSED", "KILLED"}

\* An entry of the transitions, with its key; "" for no next role.
TransitionSpec(role, status, next_role, add, remove) ==
  [role |-> role, status |-> status, next_role |-> next_role, add |-> add, remove |-> remove]

TRANSITIONS ==
  { TransitionSpec("planner", "READY_FOR_BUILD", "builder",
                   {"state:ready-for-build", "hermes:builder"},
                   {"state:ready-for-planning", "hermes:planner"}),
    TransitionSpec("builder", "PR_READY_FOR_REVIEW", "reviewer",
                   {"state:review-needed", "hermes:reviewer"},
                   {"state:ready-for-build", "hermes:builder"}),
    TransitionSpec("reviewer", "APPROVE", "release",
                   {"state:ready-for-release", "hermes:release"},
                   {"state:review-needed", "hermes:reviewer"}),
    TransitionSpec("reviewer", "REQUEST_CHANGES", "builder",
                   {"state:ready-for-build", "hermes:builder"},
                   {"state:review-needed", "hermes:reviewer"}),
    TransitionSpec("release", "NO_ACTION", "",
                   {"state:done"},
                   {"state:ready-for-release", "hermes:release"}),
    TransitionSpec("release", "BLOCKED_NO_ACTION", "",
                   {"hermes:manual-only"},
                   {"state:ready-for-release", "hermes:release"}) }

(***************************************************************************)
(* resolve_transition in three parts: the table rows for (role, status),   *)
(* whether there is a transition at all (a row, or a terminal status), and *)
(* the labels it adds and removes (hermes:blocked for a BLOCKED without a  *)
(* row of its own).                                                        *)
(***************************************************************************)
Routes(role, status) == {t \in TRANSITIONS : t.role = role /\ t.status = status}

HasTransition(role, status) ==
  Routes(role, status) # {} \/ status \in TERMINAL_FINAL_STATUSES

LabelsToAdd(role, status) ==
  IF Routes(role, status) = {} /\ status = "BLOCKED" THEN {"hermes:blocked"}
  ELSE UNION {t.add : t \in Routes(role, status)}

LabelsToRemove(role, status) == UNION {t.remove : t \in Routes(role, status)}

\* assignment.matches_role.  assignees are the roles whose account the item is assigned
\* to: by default each role has one of its own, hermes-<role> (DEFAULT_ROLE_ASSIGNEES).
matches_role(labels, assignees, role) ==
  /\ labels \cap TERMINAL_LABELS = {}
  /\ labels \cap DEFAULT_ROLE_LABELS(role) # {} \/ role \in assignees
=============================================================================
