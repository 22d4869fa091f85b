----------------------------- MODULE ToolQueue -----------------------------
(***************************************************************************)
(* The durable tool queue (harness/tool-queue.ts) with the two services it *)
(* leans on: ApprovalService (harness/approval-service.ts, and the choices *)
(* ui/approval-flow.ts maps onto it) and EvidenceStore                     *)
(* (harness/evidence-store.ts).                                            *)
(*                                                                         *)
(* Several processes may have the same SQLite file open, and each runs     *)
(* several tool calls at once.  A step is one database transaction: that   *)
(* is what another process can observe and where a crash can cut.  Inside  *)
(* one process the JavaScript event loop interleaves less than this, so    *)
(* every real behaviour is a behaviour of this specification.              *)
(*                                                                         *)
(* A worker is one activation of enqueueAndRun or runApproved.             *)
(***************************************************************************)
EXTENDS Naturals

CONSTANTS
  Call,               \* rows of tool_calls; a call has at most one approval
  Tool, Capability,
  ToolOf,             \* the tool each call names
  CapabilityOf,       \* the capability each tool's manifest declares
  NoEvidenceTools,    \* the tools whose evidencePolicy is "none"
  Process, Worker,
  Home,               \* the process of each worker
  Directory, Cwd,     \* working directories, and the one of each process
  InitialRules,       \* config.permissions.rules at first start
  Choices,            \* the answers the people at the approval prompt give
  NoCall,             \* what an idle worker works on
  EvidenceMayFail,    \* whether an insert into evidence may throw
  Recovers,           \* whether a process runs recoverInterrupted at all
  MaxCrashes          \* bound: process crashes in one behaviour

Target == Tool \cup Capability

INSTANCE Permissions

TerminalStatus == {"succeeded", "failed", "denied", "canceled", "interrupted"}
ToolCallStatus == {"pending", "approval_required", "running"} \cup TerminalStatus
ApprovalStatus == {"pending", "approved", "denied", "expired"}
DecisionScope  == {"once", "always", "never"}
EvidenceType   == {"tool_result", "tool_error", "permission_denial"}
ApprovalChoice == {"allow once", "workspace", "always", "deny", "never", "expire"}

ASSUME ConstantsAssumption ==
  /\ NoCall \notin Call
  /\ ToolOf \in [Call -> Tool]
  /\ CapabilityOf \in [Tool -> Capability]
  /\ NoEvidenceTools \subseteq Tool
  /\ Home \in [Worker -> Process]
  /\ Cwd \in [Process -> Directory]
  /\ InitialRules \in Rules
  /\ Choices \subseteq ApprovalChoice
  /\ EvidenceMayFail \in BOOLEAN
  /\ Recovers \in BOOLEAN
  /\ MaxCrashes \in Nat

(* Targets are written "tool:<name>" and "capability:<name>". *)
ASSUME TargetsAssumption == Tool \cap Capability = {}

VARIABLES
  (* durable: the SQLite file and the configuration file *)
  toolCalls,    \* status of each row of tool_calls, or "absent"
  approvals,    \* status and decision_scope of the call's approval row
  evidence,     \* source types of the evidence rows of each call
  savedPolicy,  \* the permissions in the configuration file
  (* volatile: per process and per worker *)
  policy,       \* config.permissions as each process holds it
  pc, job,      \* where each worker is, and the call it works on
  (* history, for the properties only *)
  verdict,      \* what decideToolPermission said when the call was queued
  executions,   \* how often the tool of each call was started
  crashes

durable == <<toolCalls, approvals, evidence>>
vars == <<durable, savedPolicy, policy, pc, job, verdict, executions, crashes>>

(* A worker waits for its turn ("idle") or is about to take the named step. *)
EnqueuePC  == {"decide", "mark_approval", "claim_pending"}
ClaimPC    == {"claim_pending", "claim_approved"}
EvidencePC == {"result_evidence", "error_evidence", "denial_evidence"}
PC == {"idle", "executing"} \cup EnqueuePC \cup ClaimPC \cup EvidencePC

TypeOK ==
  /\ toolCalls \in [Call -> ToolCallStatus \cup {"absent"}]
  /\ approvals \in [Call -> [status : ApprovalStatus \cup {"none"}, scope : DecisionScope]]
  /\ evidence \in [Call -> SUBSET EvidenceType]
  /\ savedPolicy \in PermissionPolicy
  /\ policy \in [Process -> PermissionPolicy]
  /\ pc \in [Worker -> PC]
  /\ job \in [Worker -> Call \cup {NoCall}]
  /\ \A w \in Worker : pc[w] # "idle" => job[w] \in Call
  /\ verdict \in [Call -> Decision \cup {"none"}]
  /\ executions \in [Call -> Nat]
  /\ crashes \in 0..MaxCrashes

Init ==
  /\ toolCalls = [c \in Call |-> "absent"]
  /\ approvals = [c \in Call |-> [status |-> "none", scope |-> "once"]]
  /\ evidence = [c \in Call |-> {}]
  /\ savedPolicy = [rules |-> InitialRules, workspaceRules |-> [d \in Directory |-> NoRules]]
  /\ policy = [p \in Process |-> savedPolicy]
  /\ pc = [w \in Worker |-> "idle"]
  /\ job = [w \in Worker |-> NoCall]
  /\ verdict = [c \in Call |-> "none"]
  /\ executions = [c \in Call |-> 0]
  /\ crashes = 0

-----------------------------------------------------------------------------
(* Helpers: the worker's program counter and the rows it writes.            *)

Goto(w, label) == pc' = [pc EXCEPT ![w] = label] /\ UNCHANGED job

Return(w) ==
  /\ pc' = [pc EXCEPT ![w] = "idle"]
  /\ job' = [job EXCEPT ![w] = NoCall]

SetStatus(c, status) == toolCalls' = [toolCalls EXCEPT ![c] = status]

AddEvidence(c, type) == evidence' = [evidence EXCEPT ![c] = @ \cup {type}]

policies == <<savedPolicy, policy>>

-----------------------------------------------------------------------------
(* enqueueAndRun                                                           *)

CreateToolCall(w, c) ==
  /\ pc[w] = "idle"
  /\ toolCalls[c] = "absent"
  /\ SetStatus(c, "pending")
  /\ pc' = [pc EXCEPT ![w] = "decide"]
  /\ job' = [job EXCEPT ![w] = c]
  /\ UNCHANGED <<approvals, evidence, policies, verdict, executions, crashes>>

DecideToolPermission(w) ==
  LET tool == ToolOf[job[w]]
  IN  DecidePermission(policy[Home[w]], tool, CapabilityOf[tool], Cwd[Home[w]])

(* validateToolInput throws: failToolCall before anyone is asked. *)
RejectInput(w) ==
  /\ pc[w] = "decide"
  /\ SetStatus(job[w], "failed")
  /\ Goto(w, "error_evidence")
  /\ UNCHANGED <<approvals, evidence, policies, verdict, executions, crashes>>

CreateApproval(w) ==
  /\ pc[w] = "decide"
  /\ DecideToolPermission(w) = "ask"
  /\ approvals' = [approvals EXCEPT ![job[w]] = [status |-> "pending", scope |-> "once"]]
  /\ verdict' = [verdict EXCEPT ![job[w]] = "ask"]
  /\ Goto(w, "mark_approval")
  /\ UNCHANGED <<toolCalls, evidence, policies, executions, crashes>>

(* Mutant: the status that makes the approval answerable is not written. *)
MarkApprovalRequired_NoStatus(w) ==
  /\ pc[w] = "mark_approval"
  /\ Return(w)
  /\ UNCHANGED <<durable, policies, verdict, executions, crashes>>

(* A transaction of its own, and an update without a condition on status. *)
MarkApprovalRequired(w) ==
  /\ pc[w] = "mark_approval"
  /\ SetStatus(job[w], "approval_required")
  /\ Return(w)
  /\ UNCHANGED <<approvals, evidence, policies, verdict, executions, crashes>>

DenyToolCall(w) ==
  /\ pc[w] = "decide"
  /\ DecideToolPermission(w) = "deny"
  /\ SetStatus(job[w], "denied")
  /\ verdict' = [verdict EXCEPT ![job[w]] = "deny"]
  /\ Goto(w, "denial_evidence")
  /\ UNCHANGED <<approvals, evidence, policies, executions, crashes>>

AllowToolCall(w) ==
  /\ pc[w] = "decide"
  /\ DecideToolPermission(w) = "allow"
  /\ verdict' = [verdict EXCEPT ![job[w]] = "allow"]
  /\ Goto(w, "claim_pending")
  /\ UNCHANGED <<durable, policies, executions, crashes>>

-----------------------------------------------------------------------------
(* runApproved: a call in any other state is replayed or refused, which    *)
(* changes nothing.                                                        *)

(* Mutant: runApproved trusts its caller about the approval. *)
RunApproved_Unchecked(w, c) ==
  /\ pc[w] = "idle"
  /\ toolCalls[c] = "approval_required"
  /\ pc' = [pc EXCEPT ![w] = "claim_approved"]
  /\ job' = [job EXCEPT ![w] = c]
  /\ UNCHANGED <<durable, policies, verdict, executions, crashes>>

RunApproved(w, c) ==
  /\ pc[w] = "idle"
  /\ toolCalls[c] = "approval_required"
  /\ approvals[c].status = "approved"
  /\ pc' = [pc EXCEPT ![w] = "claim_approved"]
  /\ job' = [job EXCEPT ![w] = c]
  /\ UNCHANGED <<durable, policies, verdict, executions, crashes>>

-----------------------------------------------------------------------------
(* executeToolCall                                                         *)

ExpectedStatus(w) == IF pc[w] = "claim_pending" THEN "pending" ELSE "approval_required"

(* Mutant: the claim is not conditional on the status. *)
MarkRunning_Unconditional(w) ==
  /\ pc[w] \in ClaimPC
  /\ SetStatus(job[w], "running")
  /\ executions' = [executions EXCEPT ![job[w]] = @ + 1]
  /\ Goto(w, "executing")
  /\ UNCHANGED <<approvals, evidence, policies, verdict, crashes>>

(* update ... where id = ? and status = ?, then tool.execute is started. *)
MarkRunning(w) ==
  /\ pc[w] \in ClaimPC
  /\ toolCalls[job[w]] = ExpectedStatus(w)
  /\ SetStatus(job[w], "running")
  /\ executions' = [executions EXCEPT ![job[w]] = @ + 1]
  /\ Goto(w, "executing")
  /\ UNCHANGED <<approvals, evidence, policies, verdict, crashes>>

(* No row changed: the caller gets a replay of the outcome or an error. *)
ClaimLost(w) ==
  /\ pc[w] \in ClaimPC
  /\ toolCalls[job[w]] # ExpectedStatus(w)
  /\ Return(w)
  /\ UNCHANGED <<durable, policies, verdict, executions, crashes>>

ToolSucceeds(w) ==
  /\ pc[w] = "executing"
  /\ SetStatus(job[w], "succeeded")
  /\ Goto(w, "result_evidence")
  /\ UNCHANGED <<approvals, evidence, policies, verdict, executions, crashes>>

FailToolCall(w) ==
  /\ SetStatus(job[w], "failed")
  /\ Goto(w, "error_evidence")
  /\ UNCHANGED <<approvals, evidence, policies, verdict, executions, crashes>>

(* The tool throws, answers ok: false, or answers what cannot be stored. *)
ToolFails(w) == pc[w] = "executing" /\ FailToolCall(w)

(* Mutant: no timer. *)
ToolTimesOut_NoTimer(w) == FALSE /\ FailToolCall(w)

(* The timer wins Promise.race; what the tool does later is ignored. *)
ToolTimesOut(w) == pc[w] = "executing" /\ FailToolCall(w)

-----------------------------------------------------------------------------
(* Evidence is written after, not with, the status it documents.           *)

EvidenceAfter ==
  [result_evidence |-> "tool_result", error_evidence |-> "tool_error",
   denial_evidence |-> "permission_denial"]

(* Mutant: the policy "none" also swallows the evidence of errors. *)
RecordEvidence_Swallows(w) ==
  /\ pc[w] \in EvidencePC
  /\ IF ToolOf[job[w]] \in NoEvidenceTools
     THEN UNCHANGED evidence
     ELSE AddEvidence(job[w], EvidenceAfter[pc[w]])
  /\ Return(w)
  /\ UNCHANGED <<toolCalls, approvals, policies, verdict, executions, crashes>>

RecordEvidence(w) ==
  /\ pc[w] \in EvidencePC
  /\ IF pc[w] = "result_evidence" /\ ToolOf[job[w]] \in NoEvidenceTools
     THEN UNCHANGED evidence
     ELSE AddEvidence(job[w], EvidenceAfter[pc[w]])
  /\ Return(w)
  /\ UNCHANGED <<toolCalls, approvals, policies, verdict, executions, crashes>>

(* The catch of executeToolCall also covers the evidence of a success. *)
ResultEvidenceFails(w) ==
  /\ EvidenceMayFail
  /\ pc[w] = "result_evidence"
  /\ ToolOf[job[w]] \notin NoEvidenceTools
  /\ FailToolCall(w)

(* Any other failure to write evidence is thrown at the caller. *)
EvidenceFails(w) ==
  /\ EvidenceMayFail
  /\ pc[w] \in {"error_evidence", "denial_evidence"}
  /\ Return(w)
  /\ UNCHANGED <<durable, policies, verdict, executions, crashes>>

-----------------------------------------------------------------------------
(* resolveApproval, and the rule the chosen answer leaves behind           *)

(* Mutant: the word of the prompt is stored. *)
ResolvedStatus_Verbatim ==
  [choice \in ApprovalChoice |->
     CASE choice \in {"deny", "never"} -> "denied"
       [] choice = "expire" -> "expire"
       [] OTHER -> "approved"]

ResolvedStatus ==
  [choice \in ApprovalChoice |->
     CASE choice \in {"deny", "never"} -> "denied"
       [] choice = "expire" -> "expired"
       [] OTHER -> "approved"]

ResolvedScope ==
  [choice \in ApprovalChoice |->
     CASE choice \in {"workspace", "always"} -> "always"
       [] choice = "never" -> "never"
       [] OTHER -> "once"]

(* The service writes a rule for the scope, the prompt one for the choice. *)
ScopeRule(pol, tool, scope) ==
  CASE scope = "always" -> SetPermissionRule(pol, tool, "allow")
    [] scope = "never" -> SetPermissionRule(pol, tool, "deny")
    [] OTHER -> pol

ChoiceRule(pol, cwd, tool, choice) ==
  CASE choice = "always" -> SetPermissionRule(pol, tool, "allow")
    [] choice = "workspace" -> SetWorkspaceRule(pol, cwd, tool, "allow")
    [] choice = "never" -> SetPermissionRule(pol, tool, "deny")
    [] OTHER -> pol

(* Mutant: the status of the call is not looked at. *)
DenyToolCallForApproval_Blind(c) ==
  /\ SetStatus(c, "denied")
  /\ AddEvidence(c, "permission_denial")

(* One transaction: the approval, the status and the evidence together.
   A call that neither waits for approval nor is denied rolls it all back. *)
DenyToolCallForApproval(c) ==
  /\ toolCalls[c] \in {"approval_required", "denied"}
  /\ SetStatus(c, "denied")
  /\ IF toolCalls[c] = "denied"
     THEN UNCHANGED evidence
     ELSE AddEvidence(c, "permission_denial")

ResolveApproval(p, c, choice) ==
  /\ approvals[c].status = "pending"
  /\ approvals' = [approvals EXCEPT ![c] =
                     [status |-> ResolvedStatus[choice], scope |-> ResolvedScope[choice]]]
  /\ IF ResolvedStatus[choice] = "approved"
     THEN UNCHANGED <<toolCalls, evidence>>
     ELSE DenyToolCallForApproval(c)
  /\ policy' = [policy EXCEPT ![p] =
                  ChoiceRule(ScopeRule(@, ToolOf[c], ResolvedScope[choice]),
                             Cwd[p], ToolOf[c], choice)]
  /\ UNCHANGED <<savedPolicy, pc, job, verdict, executions, crashes>>

(* The same answer again, from any prompt, is accepted: the service does
   nothing, and the prompt writes its rule again. *)
RepeatAnswer(p, c, choice) ==
  /\ approvals[c] = [status |-> ResolvedStatus[choice], scope |-> ResolvedScope[choice]]
  /\ policy' = [policy EXCEPT ![p] = ChoiceRule(@, Cwd[p], ToolOf[c], choice)]
  /\ UNCHANGED <<durable, savedPolicy, pc, job, verdict, executions, crashes>>

(* Every saveConfig, of a setting too, writes all of this process's
   permissions.  Taking the snapshot and writing it are one step here. *)
SaveConfig(p) ==
  /\ savedPolicy # policy[p]
  /\ savedPolicy' = policy[p]
  /\ UNCHANGED <<durable, policy, pc, job, verdict, executions, crashes>>

-----------------------------------------------------------------------------
(* A process dies with its workers and starts again from the two files.    *)

CrashAndRestart(p) ==
  /\ crashes < MaxCrashes
  /\ crashes' = crashes + 1
  /\ pc' = [w \in Worker |-> IF Home[w] = p THEN "idle" ELSE pc[w]]
  /\ job' = [w \in Worker |-> IF Home[w] = p THEN NoCall ELSE job[w]]
  /\ policy' = [policy EXCEPT ![p] = savedPolicy]
  /\ UNCHANGED <<durable, savedPolicy, verdict, executions>>

(* Mutants: recovery puts a running call back in the queue, or interrupts
   calls that have an outcome. *)
RecoverInterrupted_Requeues ==
  /\ Recovers
  /\ \E c \in Call : toolCalls[c] = "running"
  /\ toolCalls' = [c \in Call |-> IF toolCalls[c] = "running"
                                  THEN "approval_required" ELSE toolCalls[c]]
  /\ UNCHANGED <<approvals, evidence, policies, pc, job, verdict, executions, crashes>>

RecoverInterrupted_Settled ==
  /\ Recovers
  /\ \E c \in Call : toolCalls[c] = "running"
  /\ toolCalls' = [c \in Call |-> IF toolCalls[c] \in {"running"} \cup TerminalStatus
                                  THEN "interrupted" ELSE toolCalls[c]]
  /\ UNCHANGED <<approvals, evidence, policies, pc, job, verdict, executions, crashes>>

(* Every row found running, whichever process is running it. *)
RecoverInterrupted ==
  /\ Recovers
  /\ \E c \in Call : toolCalls[c] = "running"
  /\ toolCalls' = [c \in Call |-> IF toolCalls[c] = "running"
                                  THEN "interrupted" ELSE toolCalls[c]]
  /\ UNCHANGED <<approvals, evidence, policies, pc, job, verdict, executions, crashes>>

-----------------------------------------------------------------------------

Enqueue(w) ==
  \/ RejectInput(w)
  \/ CreateApproval(w)
  \/ MarkApprovalRequired(w)
  \/ DenyToolCall(w)
  \/ AllowToolCall(w)

Execute(w) ==
  \/ MarkRunning(w)
  \/ ClaimLost(w)
  \/ ToolSucceeds(w)
  \/ ToolFails(w)
  \/ ToolTimesOut(w)

Document(w) ==
  \/ RecordEvidence(w)
  \/ ResultEvidenceFails(w)
  \/ EvidenceFails(w)

Next ==
  \/ \E w \in Worker, c \in Call : CreateToolCall(w, c) \/ RunApproved(w, c)
  \/ \E w \in Worker : Enqueue(w) \/ Execute(w) \/ Document(w)
  \/ \E p \in Process, c \in Call, choice \in Choices :
       ResolveApproval(p, c, choice) \/ RepeatAnswer(p, c, choice)
  \/ \E p \in Process : SaveConfig(p) \/ CrashAndRestart(p)
  \/ RecoverInterrupted

Spec == Init /\ [][Next]_vars

(* The event loop runs every continuation that is ready and every timer
   that is due; nothing makes a tool answer or a person decide. *)
WorkerProgress(w) ==
  \/ Enqueue(w)
  \/ MarkRunning(w)
  \/ ClaimLost(w)
  \/ ToolTimesOut(w)
  \/ Document(w)

FairSpec == Spec /\ \A w \in Worker : WF_vars(WorkerProgress(w))

-----------------------------------------------------------------------------
(* Properties                                                              *)

Settled(c)  == toolCalls[c] \in TerminalStatus
InFlight(c) == \E w \in Worker : job[w] = c

(* The side effects of a tool happen at most once per call, however many
   surfaces approve it, however often runApproved is called for it, and
   whatever recovery and restarts do in between. *)
ExecutedAtMostOnce == \A c \in Call : executions[c] <= 1

(* No tool starts that neither the policy allowed when the call was queued
   nor a person approved. *)
ExecutionAuthorized ==
  \A c \in Call : executions[c] > 0 =>
    verdict[c] = "allow" \/ approvals[c].status = "approved"

(* Two activations never run the same call side by side. *)
OneExecutor ==
  \A v, w \in Worker :
    pc[v] = "executing" /\ pc[w] = "executing" /\ job[v] = job[w] => v = w

(* A denied or expired approval, the denied call and its evidence are one
   fact: no crash and no race with a claim leaves one without the others. *)
DenialIsAtomic ==
  \A c \in Call : approvals[c].status \in {"denied", "expired"} =>
    /\ toolCalls[c] = "denied"
    /\ executions[c] = 0
    /\ "permission_denial" \in evidence[c]

(* The outcome a caller was told, or a resumed conversation was built from,
   does not change later.  Two exceptions are what the code does: a call
   recovered as interrupted is overwritten when its tool answers after all,
   and a success whose evidence cannot be written becomes a failure. *)
OutcomeIsFinal ==
  [][\A c \in Call :
       /\ toolCalls[c] \in {"denied", "failed"} => toolCalls'[c] = toolCalls[c]
       /\ toolCalls[c] = "succeeded" => toolCalls'[c] \in {"succeeded", "failed"}
       /\ Settled(c) => toolCalls'[c] \in TerminalStatus]_vars

(* Every behaviour of the queue keeps the promise of ToolCallContract. *)
Phase(c) ==
  IF toolCalls[c] = "absent" THEN "new"
  ELSE IF executions[c] > 0 THEN IF Settled(c) THEN "settled" ELSE "started"
  ELSE IF Settled(c) THEN "refused"
  ELSE IF verdict[c] = "allow" \/ approvals[c].status = "approved" THEN "authorized"
  ELSE "asked"

Contract == INSTANCE ToolCallContract WITH phase <- [c \in Call |-> Phase(c)]

KeepsContract == Contract!Spec

(* While no process dies: an approval shown to a person can be answered
   either way, because its call waits for it. *)
PendingApprovalAnswerable ==
  \A c \in Call : approvals[c].status = "pending" /\ ~InFlight(c) =>
    toolCalls[c] = "approval_required"

(* While no process dies and evidence can be written: a call nobody works
   on any more has the evidence its status calls for. *)
OutcomeDocumented ==
  \A c \in Call : ~InFlight(c) =>
    /\ toolCalls[c] = "succeeded" /\ ToolOf[c] \notin NoEvidenceTools =>
         "tool_result" \in evidence[c]
    /\ toolCalls[c] = "failed" => "tool_error" \in evidence[c]
    /\ toolCalls[c] = "denied" => "permission_denial" \in evidence[c]

(* In one process that does not die: "never" denies and "always" allows the
   tool from then on, whatever its capability says and whatever is answered
   for other tools, as long as nobody answers differently for this tool.   *)
LastingAnswerBinds ==
  \A p \in Process, c \in Call :
    (\A d \in Call \ {c} : ToolOf[d] = ToolOf[c] => approvals[d].scope # "always"
                                                  /\ approvals[d].scope # "never") =>
      LET decision == DecidePermission(policy[p], ToolOf[c], CapabilityOf[ToolOf[c]], Cwd[p])
      IN  /\ approvals[c].scope = "never"  => decision = "deny"
          /\ approvals[c].scope = "always" => decision = "allow"

(* While no process dies: a queued call, and a running one whose tool never
   answers, gets an outcome or a place in front of a person. *)
CallsGetAnOutcome ==
  \A c \in Call : toolCalls[c] \in {"pending", "running"} ~>
    Settled(c) \/ toolCalls[c] = "approval_required"

-----------------------------------------------------------------------------
(* The inductive invariant behind the safety properties.                   *)

(* What the rows of a call say about each other. *)
CallConsistent(c) ==
  /\ toolCalls[c] \in {"absent", "pending", "approval_required", "denied"} => executions[c] = 0
  /\ toolCalls[c] \in {"running", "succeeded", "interrupted"} => executions[c] = 1
  /\ executions[c] \in {0, 1}
  /\ executions[c] = 1 => verdict[c] = "allow" \/ approvals[c].status = "approved"
  /\ toolCalls[c] = "absent" => verdict[c] = "none"
  /\ approvals[c].status # "none" => verdict[c] = "ask"
  /\ approvals[c].status = "pending" => toolCalls[c] \in {"pending", "approval_required"}
  /\ toolCalls[c] = "approval_required" => approvals[c].status \in {"pending", "approved"}
  /\ approvals[c].status \in {"denied", "expired"} =>
       toolCalls[c] = "denied" /\ "permission_denial" \in evidence[c]

(* What the place of a worker says about the rows of its call. *)
WorkerConsistent(w) ==
  LET c == job[w]
  IN  /\ pc[w] = "decide" => toolCalls[c] = "pending" /\ verdict[c] = "none"
      /\ pc[w] = "mark_approval" =>
           toolCalls[c] = "pending" /\ approvals[c].status \in {"pending", "approved"}
      /\ pc[w] = "claim_pending" => toolCalls[c] = "pending" /\ verdict[c] = "allow"
      /\ pc[w] = "claim_approved" => approvals[c].status = "approved"
      /\ pc[w] = "executing" => toolCalls[c] \in {"running", "interrupted"}
      /\ pc[w] = "result_evidence" => toolCalls[c] = "succeeded"
      /\ pc[w] = "error_evidence" => toolCalls[c] = "failed"
      /\ pc[w] = "denial_evidence" => toolCalls[c] = "denied"

(* Whoever is past an unconditional update, or about to make one, owns the
   call; an approved call that is still to be claimed belongs to nobody. *)
Owns(w, c) == job[w] = c /\ pc[w] \notin {"idle", "claim_approved"}

OneOwner ==
  \A v, w \in Worker, c \in Call : Owns(v, c) /\ Owns(w, c) => v = w

IInv ==
  /\ TypeOK
  /\ \A c \in Call : CallConsistent(c)
  /\ \A w \in Worker : WorkerConsistent(w)
  /\ OneOwner

=============================================================================
