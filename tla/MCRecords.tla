----------------------------- MODULE MCRecords -----------------------------
(***************************************************************************)
(* Small instances of the modules about durable records: EventLog,         *)
(* AutomationLease, SubagentTasks and CodexRun.  They share no state: a    *)
(* behaviour is one of a single module, `focus` says of which, and the     *)
(* others rest in one initial state.                                       *)
(***************************************************************************)
EXTENDS EventLog, AutomationLease, SubagentTasks, CodexRun

VARIABLE focus

vars == <<focus, eventVars, autoVars, subagentVars, codexVars>>

(* Automations that skip overlapping work, and one that does not.          *)
MCAutomation ==
  {[trigger |-> "cron", overlap |-> "skip", timeout |-> TRUE],
   [trigger |-> "interval", overlap |-> "skip", timeout |-> FALSE],
   [trigger |-> "once", overlap |-> "allow", timeout |-> FALSE]}

TypeOK == EventTypeOK /\ AutomationTypeOK /\ SubagentTypeOK /\ CodexTypeOK

Init ==
  /\ focus \in {"events", "automation", "subagents", "codex"}
  /\ EventInit /\ AutomationInit /\ SubagentInit /\ CodexInit
  /\ focus # "automation" => automation = CHOOSE a \in Automation : TRUE

Next ==
  \/ focus = "events" /\ EventNext
     /\ UNCHANGED <<focus, autoVars, subagentVars, codexVars>>
  \/ focus = "automation" /\ AutomationNext
     /\ UNCHANGED <<focus, eventVars, subagentVars, codexVars>>
  \/ focus = "subagents" /\ SubagentNext
     /\ UNCHANGED <<focus, eventVars, autoVars, codexVars>>
  \/ focus = "codex" /\ CodexNext
     /\ UNCHANGED <<focus, eventVars, autoVars, subagentVars>>

Spec == Init /\ [][Next]_vars
=============================================================================
