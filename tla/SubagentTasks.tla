--------------------------- MODULE SubagentTasks ---------------------------
(***************************************************************************)
(* Delegation to sub-agents: SubagentManager (subagents.ts), the function  *)
(* delegateSubagentTask (cli.ts) around it, the durable rows of            *)
(* subagent_tasks and scope_leases (harness/run-store.ts), and the gate    *)
(* that leases a file to a task before a tool writes it                    *)
(* (collaboration.ts, tools/builtin.ts).                                   *)
(*                                                                         *)
(* The status of a task is kept twice, in memory and in its row; both are  *)
(* written by whoever cancels the task and by the task itself, which goes  *)
(* on until its agent notices.  All tasks have one role.  A step goes from *)
(* one await to the next.  What a tool does to its file may outlast the    *)
(* tool's timeout and the task.  write_file and the tools of the main      *)
(* agent take no lease and are left out; so are the roles' allowedScopes.  *)
(***************************************************************************)
EXTENDS Naturals, FiniteSets

CONSTANTS
  Task,
  Scope,          \* files; leases on nested scopes do not exclude each other
  NoTask,         \* the main agent, as a parent; nobody, as a holder
  MaxConcurrent,  \* limits.maxConcurrent
  MaxDepth,       \* limits.maxDepth
  RoleLimit,      \* maxConcurrent of the role
  LeasesExpire,   \* BOOLEAN: tasks may take longer than the lease of 30 minutes
  MaxTaskCrashes  \* bound: ends of the process

ASSUME SubagentAssumption ==
  /\ NoTask \notin Task
  /\ IsFiniteSet(Task)
  /\ MaxConcurrent \in Nat /\ MaxDepth \in Nat /\ RoleLimit \in Nat
  /\ LeasesExpire \in BOOLEAN
  /\ MaxTaskCrashes \in Nat

VARIABLES
  (* volatile *)
  place,        \* where each activation of delegateSubagentTask is
  status,       \* status of the record in SubagentManager.tasks
  aborted,      \* whether the task's AbortController has fired
  depth,        \* depth of each task
  roleTasks,    \* activeRoleTasks of the role
  writing,      \* files the tools of each task are at
  (* durable *)
  rows,         \* status of the row in subagent_tasks
  leases,       \* holder of the active lease on each scope
  expired,      \* scopes whose lease has passed its time
  (* faults and history *)
  taskCrashes,
  outlived      \* scopes whose lease has passed its time before

taskVars  == <<place, status, aborted, depth, roleTasks>>
scopeVars == <<leases, expired, outlived, writing>>
subagentVars == <<taskVars, scopeVars, rows, taskCrashes>>

TaskStatus == {"none", "running", "succeeded", "failed", "canceled"}

SubagentTypeOK ==
  /\ place \in [Task -> {"none", "preparing", "working", "indexing", "ended", "unsent", "gone"}]
  /\ status \in [Task -> TaskStatus] /\ rows \in [Task -> TaskStatus]
  /\ aborted \in [Task -> BOOLEAN]
  /\ depth \in [Task -> 0..MaxDepth]
  /\ roleTasks \in 0..RoleLimit
  /\ writing \in [Task -> SUBSET Scope]
  /\ leases \in [Scope -> Task \cup {NoTask}]
  /\ expired \subseteq Scope /\ outlived \subseteq Scope
  /\ taskCrashes \in 0..MaxTaskCrashes

SubagentInit ==
  /\ place = [t \in Task |-> "none"]
  /\ status = [t \in Task |-> "none"]
  /\ aborted = [t \in Task |-> FALSE]
  /\ depth = [t \in Task |-> 0]
  /\ roleTasks = 0
  /\ writing = [t \in Task |-> {}]
  /\ rows = [t \in Task |-> "none"]
  /\ leases = [p \in Scope |-> NoTask]
  /\ expired = {} /\ outlived = {}
  /\ taskCrashes = 0

-----------------------------------------------------------------------------
TasksInProgress == {t \in Task : place[t] \in {"preparing", "working", "indexing"}}
ActiveCount == Cardinality({t \in Task : status[t] = "running"})
DepthUnder(parent) == IF parent = NoTask THEN 1 ELSE depth[parent] + 1

(* The status a task ends with, in memory and in its row.                  *)
Outcome(t, done) == IF aborted[t] THEN "canceled" ELSE done

(* delegateSubagentTask and SubagentManager.run up to the first await.  A  *)
(* worker of a batch delegates on after its own task's tool timed out, and *)
(* after that task ended.  A role that names no provider fails before the  *)
(* row is written; a secret that cannot be resolved for the role's model   *)
(* fails after that, where nobody settles the row: the task is "unsent".   *)
Delegate(t, parent) ==
  /\ place[t] = "none"
  /\ parent \in {NoTask} \cup {u \in Task : place[u] \in {"working", "indexing", "ended"}}
  /\ roleTasks < RoleLimit
  /\ DepthUnder(parent) <= MaxDepth
  /\ ActiveCount < MaxConcurrent
  /\ depth' = [depth EXCEPT ![t] = DepthUnder(parent)]
  /\ \/ /\ place' = [place EXCEPT ![t] = "preparing"]
        /\ status' = [status EXCEPT ![t] = "running"]
        /\ rows' = [rows EXCEPT ![t] = "running"]
        /\ roleTasks' = roleTasks + 1
     \/ /\ place' = [place EXCEPT ![t] = "unsent"]
        /\ status' = [status EXCEPT ![t] = "failed"]
        /\ rows' = [rows EXCEPT ![t] = "running"]
        /\ UNCHANGED roleTasks
     \/ /\ place' = [place EXCEPT ![t] = "ended"]
        /\ status' = [status EXCEPT ![t] = "failed"]
        /\ UNCHANGED <<rows, roleTasks>>
  /\ UNCHANGED <<aborted, scopeVars, taskCrashes>>

(* The skills are loaded and the agent is sent its prompt.  If they cannot *)
(* be loaded, the record and the role's count are settled and the row is   *)
(* not.                                                                    *)
Work(t) ==
  /\ place[t] = "preparing"
  /\ \/ /\ place' = [place EXCEPT ![t] = "working"]
        /\ UNCHANGED <<status, roleTasks>>
     \/ /\ place' = [place EXCEPT ![t] = "unsent"]
        /\ status' = [status EXCEPT ![t] = Outcome(t, "failed")]
        /\ roleTasks' = roleTasks - 1
  /\ UNCHANGED <<aborted, depth, scopeVars, rows, taskCrashes>>

(* The task gives up its place: its leases, its record, its role's count.  *)
Settle(t, done) ==
  /\ place' = [place EXCEPT ![t] = "ended"]
  /\ leases' = [p \in Scope |-> IF leases[p] = t THEN NoTask ELSE leases[p]]
  /\ expired' = {p \in expired : leases[p] # t}
  /\ status' = [status EXCEPT ![t] = Outcome(t, done)]
  /\ roleTasks' = roleTasks - 1

(* The agent answers or throws.  An answer of a task that was not canceled *)
(* becomes project memory, and the embedding of that is awaited.           *)
WorkEnds(t, done) ==
  /\ place[t] = "working"
  /\ rows' = [rows EXCEPT ![t] = Outcome(t, done)]
  /\ \/ Settle(t, done)
     \/ /\ done = "succeeded" /\ ~aborted[t]
        /\ place' = [place EXCEPT ![t] = "indexing"]
        /\ UNCHANGED <<status, roleTasks, leases, expired>>
  /\ UNCHANGED <<aborted, depth, writing, outlived, taskCrashes>>

(* The memory is embedded, or the embedding fails and the task with it.    *)
IndexingEnds_RowStays(t, done) ==
  /\ place[t] = "indexing"
  /\ Settle(t, done)
  /\ UNCHANGED <<rows, aborted, depth, writing, outlived, taskCrashes>>
IndexingEnds(t, done) ==
  /\ place[t] = "indexing"
  /\ rows' = IF done = "failed" THEN [rows EXCEPT ![t] = Outcome(t, done)] ELSE rows
  /\ Settle(t, done)
  /\ UNCHANGED <<aborted, depth, writing, outlived, taskCrashes>>

(* SubagentManager.cancel and the update of the row by its callers.        *)
CancelTask_FreesTheRole(t) ==
  /\ status[t] = "running"
  /\ aborted' = [aborted EXCEPT ![t] = TRUE]
  /\ status' = [status EXCEPT ![t] = "canceled"]
  /\ rows' = [rows EXCEPT ![t] = "canceled"]
  /\ roleTasks' = roleTasks - 1
  /\ UNCHANGED <<place, depth, scopeVars, taskCrashes>>
CancelTask(t) ==
  /\ status[t] = "running"
  /\ aborted' = [aborted EXCEPT ![t] = TRUE]
  /\ status' = [status EXCEPT ![t] = "canceled"]
  /\ rows' = [rows EXCEPT ![t] = "canceled"]
  /\ UNCHANGED <<place, depth, roleTasks, scopeVars, taskCrashes>>

-----------------------------------------------------------------------------
(* claimScopeLease: what is left of the leases once the old ones are       *)
(* released, and whether task t may have the one on p.                     *)
Unexpired == [p \in Scope |-> IF p \in expired THEN NoTask ELSE leases[p]]
Claimable_Stolen(t, p) == TRUE
Claimable(t, p) == Unexpired[p] \in {NoTask, t}

(* replace_file_content or patch_file: the lease is taken or renewed, then *)
(* the file is read.  Old leases are released even when the claim is       *)
(* refused.                                                                *)
ClaimPath(t, p) ==
  /\ place[t] = "working"
  /\ expired' = {}
  /\ \/ /\ Claimable(t, p)
        /\ leases' = [Unexpired EXCEPT ![p] = t]
        /\ writing' = [writing EXCEPT ![t] = @ \cup {p}]
     \/ /\ ~Claimable(t, p)
        /\ leases' = Unexpired
        /\ UNCHANGED writing
  /\ UNCHANGED <<taskVars, rows, outlived, taskCrashes>>

(* The file is written, or the tool gives up.                              *)
Written(t, p) ==
  /\ p \in writing[t]
  /\ writing' = [writing EXCEPT ![t] = @ \ {p}]
  /\ UNCHANGED <<taskVars, rows, leases, expired, outlived, taskCrashes>>

LeaseExpires(p) ==
  /\ LeasesExpire
  /\ leases[p] # NoTask /\ p \notin expired
  /\ expired' = expired \cup {p}
  /\ outlived' = outlived \cup {p}
  /\ UNCHANGED <<taskVars, rows, leases, writing, taskCrashes>>

(* The process ends.  The rows stay as they are, and so do the leases,     *)
(* until somebody claims a path after their time.                          *)
SubagentsDie ==
  /\ taskCrashes < MaxTaskCrashes
  /\ taskCrashes' = taskCrashes + 1
  /\ place' = [t \in Task |-> IF place[t] = "none" THEN "none" ELSE "gone"]
  /\ status' = [t \in Task |-> "none"]
  /\ aborted' = [t \in Task |-> FALSE]
  /\ depth' = [t \in Task |-> 0]
  /\ roleTasks' = 0
  /\ writing' = [t \in Task |-> {}]
  /\ UNCHANGED <<rows, leases, expired, outlived>>

SubagentNext ==
  \/ \E t \in Task :
       \/ \E parent \in Task \cup {NoTask} : Delegate(t, parent)
       \/ Work(t)
       \/ CancelTask(t)
       \/ \E done \in {"succeeded", "failed"} : WorkEnds(t, done) \/ IndexingEnds(t, done)
       \/ \E p \in Scope : ClaimPath(t, p) \/ Written(t, p)
  \/ \E p \in Scope : LeaseExpires(p)
  \/ SubagentsDie

SubagentSpec == SubagentInit /\ [][SubagentNext]_subagentVars

-----------------------------------------------------------------------------
(* The record in memory and the row agree on how a task ended, whatever    *)
(* was canceled while what failed, and a canceled task never ends as       *)
(* anything else.  They disagree only on a task that failed between the    *)
(* insert of its row and the sending of its prompt, and was not canceled   *)
(* before: its record says failed, its row goes on saying running.         *)
EndsAgree ==
  \A t \in Task :
    /\ place[t] = "ended" /\ rows[t] # "none" => rows[t] = status[t]
    /\ place[t] = "unsent" /\ ~aborted[t] => rows[t] = "running" /\ status[t] = "failed"
    /\ place[t] \in {"ended", "unsent"} /\ aborted[t] =>
         rows[t] = "canceled" /\ status[t] = "canceled"

(* The limit of a role holds for the tasks that really are at work, those  *)
(* canceled included; the limit of the manager for those not canceled.     *)
LimitsHold ==
  /\ Cardinality(TasksInProgress) <= RoleLimit
  /\ Cardinality({t \in TasksInProgress : ~aborted[t]}) <= MaxConcurrent

(* A task that edits a file holds the lease on it until the task is over,  *)
(* unless the lease ran out: two tasks never edit one file.                *)
WritersHoldTheLease ==
  \A t \in TasksInProgress : \A p \in writing[t] \ outlived : leases[p] = t

=============================================================================
