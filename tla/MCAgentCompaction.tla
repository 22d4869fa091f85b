------------------------- MODULE MCAgentCompaction -------------------------
(***************************************************************************)
(* The two settings in which AgentCompaction is checked, side by side.     *)
(***************************************************************************)
EXTENDS AgentCompaction

CONSTANTS s1, t1

VARIABLE setting

(* One caller and one session, without /clear: the model calls tools,      *)
(* people answer, a turn is interrupted, runs are resumed by the agent or  *)
(* behind its back.                                                        *)
Asking ==
  /\ session' = s1 /\ ~\E s \in Session : LoadSessionHistory(s)
  /\ epoch' = 0
  /\ \A t \in Sender \ {t1} : pc'[t] = "idle"
  /\ \A n \in Turn \ {1} : runs'[n].status # "interrupted"

(* All callers and sessions, which are loaded again and again; the model   *)
(* calls no tools, and no turn is interrupted.                             *)
Sharing ==
  /\ \A s \in Session : AsksIn(stored'[s]) = {}
  /\ \A n \in Turn : runs'[n].status # "interrupted"

MCInit ==
  /\ Init
  /\ session = s1
  /\ setting \in {"asking", "sharing"}

MCNext ==
  /\ Next
  /\ setting = "asking" => Asking
  /\ setting = "sharing" => Sharing
  /\ UNCHANGED setting

MCSpec ==
  /\ MCInit /\ [][MCNext]_<<vars, setting>>
  /\ \A i \in 1..MaxJobs : WF_vars(\E j \in jobs : j.id = i /\ TimeOut(j))
=============================================================================
