----------------------------- MODULE MCServices -----------------------------
(***************************************************************************)
(* Small instances of the services in the background: AutomationLease,     *)
(* ChannelDelivery and McpRuntime.  They share no state: a behaviour is    *)
(* one of a single service, `focus` says of which, and the others rest in  *)
(* one initial state.  The channels being alike, only c2 may be of another *)
(* type, deleted and added.                                                *)
(***************************************************************************)
EXTENDS AutomationLease, ChannelDelivery, McpRuntime, TLC

CONSTANTS d1, d2, c1, c2

(* Each message has its own channel.                                       *)
MCChannelOf == d1 :> c1 @@ d2 :> c2

(* Nothing configured, or everything.                                      *)
MCConfigs == {<<>>, SetToSeq(Server)}

(* Of an automation, only that its runs end is checked here.               *)
MCAutomation == {[trigger |-> "cron", overlap |-> "skip", timeout |-> TRUE]}

VARIABLE focus

vars == <<focus, autoVars, deliveryVars, mcpVars>>

TypeOK == AutomationTypeOK /\ DeliveryTypeOK /\ McpTypeOK

Init ==
  /\ focus \in {"automation", "delivery", "mcp"}
  /\ AutomationInit /\ DeliveryInit /\ McpInit
  /\ channels[c1] = "known"
  /\ focus # "delivery" => channels[c2] = "known"

Next ==
  \/ focus = "automation" /\ AutomationNext /\ UNCHANGED <<focus, deliveryVars, mcpVars>>
  \/ /\ focus = "delivery" /\ DeliveryNext /\ channels'[c1] = channels[c1]
     /\ UNCHANGED <<focus, autoVars, mcpVars>>
  \/ focus = "mcp" /\ McpNext /\ UNCHANGED <<focus, autoVars, deliveryVars>>

FairSpec ==
  /\ Init /\ [][Next]_vars
  /\ AutomationFairness /\ DeliveryFairness /\ McpFairness
=============================================================================
