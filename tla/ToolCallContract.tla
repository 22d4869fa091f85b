-------------------------- MODULE ToolCallContract --------------------------
(***************************************************************************)
(* What the durable harness promises about every tool call a model asks    *)
(* for, whatever the interleaving of processes, approvals and restarts:    *)
(*                                                                         *)
(*   - nothing runs before it is authorized, by policy or by a person;     *)
(*   - a refused call never runs;                                          *)
(*   - an authorized call is started at most once;                         *)
(*   - a settled call stays settled.                                       *)
(*                                                                         *)
(* The phases only say that much; which status a settled call shows is     *)
(* left to the implementation.                                             *)
(***************************************************************************)

CONSTANT Call

VARIABLE phase

Phase == {"new", "asked", "authorized", "refused", "started", "settled"}

Init == phase = [c \in Call |-> "new"]

Move(c, from, to) ==
  /\ phase[c] = from
  /\ phase' = [phase EXCEPT ![c] = to]

Request(c)   == Move(c, "new", "asked")
Authorize(c) == Move(c, "asked", "authorized")
Refuse(c)    == Move(c, "asked", "refused")
Start(c)     == Move(c, "authorized", "started")

(* Several started calls may be settled together, as recovery does. *)
Settle(calls) ==
  /\ \A c \in calls : phase[c] = "started"
  /\ phase' = [c \in Call |-> IF c \in calls THEN "settled" ELSE phase[c]]

Next ==
  \/ \E c \in Call : Request(c) \/ Authorize(c) \/ Refuse(c) \/ Start(c)
  \/ \E calls \in SUBSET Call : Settle(calls)

Spec == Init /\ [][Next]_phase

=============================================================================
