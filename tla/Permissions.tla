---------------------------- MODULE Permissions ----------------------------
(***************************************************************************)
(* The decision procedure of deeptide-core/src/permissions.rs: may a tool  *)
(* call run, must it be refused, or must the user be asked?  A tool call   *)
(* is represented by its kind: one kind for every combination of the three *)
(* classifications of the source (read-only, blocked in plan mode,         *)
(* destructive), and one for each tool the code treats by name.            *)
(***************************************************************************)

Modes == {"Default", "AcceptEdits", "Plan", "Bypass"}

(***************************************************************************)
(* Each kind stands for one tool of its class:                             *)
(* read    Read (as Grep, BashOutput)    edit    Edit (as Write)           *)
(* shell   Bash with side effects        probe   Bash, plan-safe command   *)
(* agent   Agent (as MCP, KillBash)      search  WebSearch                 *)
(* todo    TodoWrite                     plain   ToolSearch (as CronList)  *)
(***************************************************************************)
ToolKinds == {"read", "edit", "shell", "probe", "agent", "search", "todo",
              "plain", "Snip", "Brief", "EnterPlanMode", "ExitPlanMode"}

ReadOnly == {"read", "Snip", "Brief"}

DeniedInPlan == {"edit", "agent", "todo"}

Destructive == {"edit", "shell", "probe", "agent", "search",
                "EnterPlanMode", "ExitPlanMode"}

\* The kinds a rule for the tool of this kind covers: Bash has two kinds.
RuleScope(kind) ==
    IF kind \in {"shell", "probe"} THEN {"shell", "probe"} ELSE {kind}

\* PermissionRules::check, for rules that name a tool: deny lists come first.
RuleOf(kind, deny, allow) ==
    IF kind \in deny THEN "Deny" ELSE IF kind \in allow THEN "Allow" ELSE "None"

\* PermissionManager::check in plan mode: rules are not consulted.
PlanDecision(kind) ==
    IF kind = "shell" \/ kind \in DeniedInPlan THEN "Deny" ELSE "Allow"

\* PermissionManager::check.
Decision(mode, kind, deny, allow) ==
    CASE mode = "Bypass" -> "Allow"
      [] mode = "Plan"   -> PlanDecision(kind)
      [] mode \in {"Default", "AcceptEdits"} ->
           IF kind \in ReadOnly \/ (mode = "AcceptEdits" /\ kind = "edit")
           THEN "Allow"
           ELSE IF RuleOf(kind, deny, allow) # "None"
                THEN RuleOf(kind, deny, allow)
           ELSE IF kind \in Destructive THEN "Ask" ELSE "Allow"
=============================================================================
