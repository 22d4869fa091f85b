---------------------------- MODULE Permissions ----------------------------
(***************************************************************************)
(* The permission policy of permissions.ts: a table of rules for targets   *)
(* (a target is a tool name or a capability), one table for everybody and  *)
(* one per working directory.  A missing entry is "unset".                 *)
(***************************************************************************)

CONSTANTS
  Target,       \* the rule targets: "tool:<name>" and "capability:<name>"
  Directory     \* the working directories that may have rules of their own

Decision == {"allow", "ask", "deny"}
Rule     == Decision \cup {"unset"}
Rules    == [Target -> Rule]

PermissionPolicy == [rules : Rules, workspaceRules : [Directory -> Rules]]

NoRules == [t \in Target |-> "unset"]

(* `if (rule) return rule`: the first of two lookups that finds a rule. *)
FirstSet(rule, otherwise) == IF rule = "unset" THEN otherwise ELSE rule

(* Mutant: the rule for the capability before the one for the tool. *)
DecidePermission_CapabilityFirst(policy, tool, capability, cwd) ==
  LET local  == policy.workspaceRules[cwd]
      global == policy.rules
  IN  FirstSet(local[capability],
        FirstSet(local[tool],
          FirstSet(global[capability],
            FirstSet(global[tool], "ask"))))

(* The rules of the working directory come before everybody's, a rule for
   the tool before one for its capability; no rule at all means "ask". *)
DecidePermission(policy, tool, capability, cwd) ==
  LET local  == policy.workspaceRules[cwd]
      global == policy.rules
  IN  FirstSet(local[tool],
        FirstSet(local[capability],
          FirstSet(global[tool],
            FirstSet(global[capability], "ask"))))

SetPermissionRule(policy, target, decision) ==
  [policy EXCEPT !.rules[target] = decision]

SetWorkspaceRule(policy, cwd, target, decision) ==
  [policy EXCEPT !.workspaceRules[cwd][target] = decision]

=============================================================================
