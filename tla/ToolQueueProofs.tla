-------------------------- MODULE ToolQueueProofs --------------------------
(***************************************************************************)
(* Proofs about ToolQueue, for every set of calls, tools, processes and    *)
(* workers, every initial policy and any number of crashes.                *)
(*                                                                         *)
(* The argument: IInv says what the rows of a call say about each other    *)
(* and what the place of a worker says about the rows of its call.  It is  *)
(* inductive, and the safety properties are read off it.  Three parts that *)
(* hold only until a process dies are added to it one by one: a pending    *)
(* approval is waited for (Waits), what ends is documented (Documented),   *)
(* and the rules follow what was answered (AnsweredOnce, PolicyFollows).   *)
(***************************************************************************)
EXTENDS ToolQueue, TLAPS

(* The answers an approval can get are terminal statuses of it, and the
   policy any answer leaves behind is a policy. *)
LEMMA ResolutionType ==
  ASSUME NEW choice \in Choices
  PROVE  /\ ResolvedStatus[choice] \in {"approved", "denied", "expired"}
         /\ ResolvedScope[choice] \in DecisionScope
  BY ConstantsAssumption DEF ResolvedStatus, ResolvedScope, ApprovalChoice, DecisionScope

(* Writing a rule into a policy gives a policy. *)
LEMMA RuleWriteType ==
  ASSUME NEW pol \in PermissionPolicy, NEW t \in Target, NEW d \in Decision,
         NEW cwd \in Directory
  PROVE  /\ SetPermissionRule(pol, t, d) \in PermissionPolicy
         /\ SetWorkspaceRule(pol, cwd, t, d) \in PermissionPolicy
  <1>1. /\ pol.rules \in Rules
        /\ pol.workspaceRules \in [Directory -> Rules]
        /\ pol = [rules |-> pol.rules, workspaceRules |-> pol.workspaceRules]
    BY DEF PermissionPolicy
  <1>2. [pol.rules EXCEPT ![t] = d] \in Rules
    BY <1>1 DEF Rules, Rule
  <1>3. pol.workspaceRules[cwd] \in Rules
    BY <1>1
  <1>4. [pol.workspaceRules[cwd] EXCEPT ![t] = d] \in Rules
    BY <1>3 DEF Rules, Rule
  <1>5. SetPermissionRule(pol, t, d)
          = [rules |-> [pol.rules EXCEPT ![t] = d], workspaceRules |-> pol.workspaceRules]
    BY <1>1 DEF SetPermissionRule
  <1>6. SetWorkspaceRule(pol, cwd, t, d)
          = [rules |-> pol.rules,
             workspaceRules |-> [pol.workspaceRules EXCEPT
               ![cwd] = [pol.workspaceRules[cwd] EXCEPT ![t] = d]]]
    BY <1>1 DEF SetWorkspaceRule
  <1>7. QED
    BY <1>1, <1>2, <1>4, <1>5, <1>6 DEF PermissionPolicy

(* The policies an answer, first given or repeated, leaves in the process
   that took it are policies. *)
LEMMA AnswerPolicyType ==
  ASSUME TypeOK, NEW p \in Process, NEW c \in Call, NEW choice \in Choices
  PROVE  /\ ChoiceRule(policy[p], Cwd[p], ToolOf[c], choice) \in PermissionPolicy
         /\ ChoiceRule(ScopeRule(policy[p], ToolOf[c], ResolvedScope[choice]),
                       Cwd[p], ToolOf[c], choice) \in PermissionPolicy
  <1>1. policy[p] \in PermissionPolicy /\ Cwd[p] \in Directory
    BY ConstantsAssumption DEF TypeOK
  <1>2. ToolOf[c] \in Target /\ "allow" \in Decision /\ "deny" \in Decision
    BY ConstantsAssumption DEF Target, Decision
  <1>3. ASSUME NEW pol \in PermissionPolicy
        PROVE  ChoiceRule(pol, Cwd[p], ToolOf[c], choice) \in PermissionPolicy
    BY <1>1, <1>2, RuleWriteType DEF ChoiceRule
  <1>4. ScopeRule(policy[p], ToolOf[c], ResolvedScope[choice]) \in PermissionPolicy
    BY <1>1, <1>2, RuleWriteType DEF ScopeRule
  <1>5. QED
    BY <1>1, <1>3, <1>4

-----------------------------------------------------------------------------
(* Typing                                                                  *)

(* Every variable starts in its type. *)
LEMMA InitTypeOK == Init => TypeOK
  <1>1. NoRules \in Rules
    BY DEF NoRules, Rules, Rule
  <1>2. ASSUME Init PROVE savedPolicy \in PermissionPolicy
    <2>1. InitialRules \in Rules /\ [d \in Directory |-> NoRules] \in [Directory -> Rules]
      BY <1>1, ConstantsAssumption
    <2>2. QED
      BY <1>2, <2>1 DEF Init, PermissionPolicy
  <1>3. QED
    BY <1>2, ConstantsAssumption
    DEF Init, TypeOK, ToolCallStatus, ApprovalStatus, DecisionScope, PC, Decision

(* The steps of a worker keep every variable in its type. *)
LEMMA WorkerTypeOK ==
  ASSUME TypeOK, NEW w \in Worker, Enqueue(w) \/ Execute(w) \/ Document(w)
  PROVE  TypeOK'
  <1> USE DEF TypeOK, durable, policies, PC, EnqueuePC, ClaimPC, EvidencePC, ToolCallStatus,
              TerminalStatus, SetStatus, Goto, Return
  <1>1. pc[w] # "idle" => job[w] \in Call
    OBVIOUS
  <1>2. CASE RejectInput(w)
    BY <1>1, <1>2 DEF RejectInput
  <1>3. CASE CreateApproval(w)
    <2>1. [status |-> "pending", scope |-> "once"]
            \in [status : ApprovalStatus \cup {"none"}, scope : DecisionScope]
      BY DEF ApprovalStatus, DecisionScope
    <2>2. QED
      BY <1>1, <1>3, <2>1 DEF CreateApproval, Decision
  <1>4. CASE MarkApprovalRequired(w)
    BY <1>1, <1>4 DEF MarkApprovalRequired
  <1>5. CASE DenyToolCall(w)
    BY <1>1, <1>5 DEF DenyToolCall, Decision
  <1>6. CASE AllowToolCall(w)
    BY <1>1, <1>6 DEF AllowToolCall, Decision
  <1>7. CASE MarkRunning(w)
    BY <1>1, <1>7 DEF MarkRunning
  <1>8. CASE ClaimLost(w)
    BY <1>1, <1>8 DEF ClaimLost
  <1>9. CASE ToolSucceeds(w)
    BY <1>1, <1>9 DEF ToolSucceeds
  <1>10. CASE ToolFails(w) \/ ToolTimesOut(w)
    BY <1>1, <1>10 DEF ToolFails, ToolTimesOut, FailToolCall
  <1>11. CASE RecordEvidence(w)
    <2>1. EvidenceAfter[pc[w]] \in EvidenceType
      BY <1>11 DEF RecordEvidence, EvidenceAfter, EvidenceType
    <2>2. evidence' \in [Call -> SUBSET EvidenceType]
      BY <1>1, <1>11, <2>1 DEF RecordEvidence, AddEvidence
    <2>3. QED
      BY <1>1, <1>11, <2>2 DEF RecordEvidence
  <1>12. CASE ResultEvidenceFails(w)
    BY <1>1, <1>12 DEF ResultEvidenceFails, FailToolCall
  <1>13. CASE EvidenceFails(w)
    BY <1>1, <1>13 DEF EvidenceFails
  <1>14. QED
    BY <1>2, <1>3, <1>4, <1>5, <1>6, <1>7, <1>8, <1>9, <1>10, <1>11, <1>12, <1>13
    DEF Enqueue, Execute, Document

(* The first answer to an approval keeps every variable in its type. *)
LEMMA ResolveTypeOK ==
  ASSUME TypeOK, NEW p \in Process, NEW c \in Call, NEW choice \in Choices,
         ResolveApproval(p, c, choice)
  PROVE  TypeOK'
  <1>1. [status |-> ResolvedStatus[choice], scope |-> ResolvedScope[choice]]
          \in [status : ApprovalStatus \cup {"none"}, scope : DecisionScope]
    BY ResolutionType DEF ApprovalStatus
  <1>2. approvals' \in [Call -> [status : ApprovalStatus \cup {"none"}, scope : DecisionScope]]
    BY <1>1 DEF ResolveApproval, TypeOK
  <1>3. policy' \in [Process -> PermissionPolicy]
    BY AnswerPolicyType DEF ResolveApproval, TypeOK
  <1>4. /\ toolCalls' \in [Call -> ToolCallStatus \cup {"absent"}]
        /\ evidence' \in [Call -> SUBSET EvidenceType]
    <2>1. CASE ResolvedStatus[choice] = "approved"
      BY <2>1 DEF ResolveApproval, TypeOK
    <2>2. CASE ResolvedStatus[choice] # "approved"
      <3>1. DenyToolCallForApproval(c)
        BY <2>2 DEF ResolveApproval
      <3>2. toolCalls' \in [Call -> ToolCallStatus \cup {"absent"}]
        BY <3>1 DEF DenyToolCallForApproval, SetStatus, TypeOK, ToolCallStatus, TerminalStatus
      <3>3. evidence' \in [Call -> SUBSET EvidenceType]
        BY <3>1 DEF DenyToolCallForApproval, AddEvidence, TypeOK, EvidenceType
      <3>4. QED
        BY <3>2, <3>3
    <2>3. QED
      BY <2>1, <2>2
  <1>5. QED
    BY <1>2, <1>3, <1>4 DEF ResolveApproval, TypeOK

(* So does every other step. *)
LEMMA NextTypeOK == TypeOK /\ [Next]_vars => TypeOK'
  <1> SUFFICES ASSUME TypeOK, [Next]_vars PROVE TypeOK'
    OBVIOUS
  <1>1. ASSUME NEW w \in Worker, NEW c \in Call, CreateToolCall(w, c) \/ RunApproved(w, c)
        PROVE  TypeOK'
    <2>1. CASE CreateToolCall(w, c)
      <3>1. /\ toolCalls' = [toolCalls EXCEPT ![c] = "pending"] /\ "pending" \in ToolCallStatus
            /\ UNCHANGED <<approvals, evidence, savedPolicy, policy, verdict, executions, crashes>>
        BY <2>1 DEF CreateToolCall, policies, SetStatus, ToolCallStatus
      <3>2. pc' = [pc EXCEPT ![w] = "decide"] /\ job' = [job EXCEPT ![w] = c] /\ "decide" \in PC
        BY <2>1 DEF CreateToolCall, PC, EnqueuePC
      <3>3. QED
        BY <3>1, <3>2 DEF TypeOK
    <2>2. CASE RunApproved(w, c)
      <3>1. UNCHANGED <<toolCalls, approvals, evidence, savedPolicy, policy, verdict,
                        executions, crashes>>
        BY <2>2 DEF RunApproved, durable, policies
      <3>2. /\ pc' = [pc EXCEPT ![w] = "claim_approved"] /\ job' = [job EXCEPT ![w] = c]
            /\ "claim_approved" \in PC
        BY <2>2 DEF RunApproved, PC, ClaimPC
      <3>3. QED
        BY <3>1, <3>2 DEF TypeOK
    <2>3. QED
      BY <1>1, <2>1, <2>2
  <1>2. ASSUME NEW p \in Process, SaveConfig(p) \/ CrashAndRestart(p)
        PROVE  TypeOK'
    BY <1>2, ConstantsAssumption
    DEF SaveConfig, CrashAndRestart, TypeOK, durable, PC
  <1>3. CASE RecoverInterrupted
    BY <1>3 DEF RecoverInterrupted, TypeOK, policies, ToolCallStatus, TerminalStatus
  <1>4. CASE UNCHANGED vars
    BY <1>4 DEF vars, durable, TypeOK
  <1>5. ASSUME NEW p \in Process, NEW c \in Call, NEW choice \in Choices,
               RepeatAnswer(p, c, choice)
        PROVE  TypeOK'
    BY <1>5, AnswerPolicyType DEF RepeatAnswer, TypeOK, durable
  <1>6. QED
    BY <1>1, <1>2, <1>3, <1>4, <1>5, WorkerTypeOK, ResolveTypeOK DEF Next

(* Every variable stays in its type, whatever the constants are. *)
THEOREM Typing == Spec => []TypeOK
  BY InitTypeOK, NextTypeOK, PTL DEF Spec

-----------------------------------------------------------------------------
(* Consistency of the rows and the workers                                 *)

Consistent ==
  /\ \A c \in Call : CallConsistent(c)
  /\ \A w \in Worker : WorkerConsistent(w)
  /\ OneOwner

(* An empty database with idle workers is consistent. *)
LEMMA InitConsistent == Init => Consistent
  BY DEF Init, Consistent, CallConsistent, WorkerConsistent, OneOwner, Owns

(* A new row belongs to the worker that inserted it, and to nobody else. *)
LEMMA CreateKeeps ==
  ASSUME IInv, NEW w \in Worker, NEW c \in Call, CreateToolCall(w, c)
  PROVE  Consistent'
  <1> USE DEF IInv, TypeOK, durable, policies, CreateToolCall, SetStatus
  <1>1. \A d \in Call : CallConsistent(d)'
    BY DEF CallConsistent, WorkerConsistent
  <1>2. \A v \in Worker : WorkerConsistent(v)'
    BY DEF OneOwner, Owns, CallConsistent, WorkerConsistent
  <1>3. OneOwner'
    BY DEF OneOwner, Owns, WorkerConsistent, PC, EnqueuePC, ClaimPC, EvidencePC
  <1>4. QED
    BY <1>1, <1>2, <1>3 DEF Consistent

(* Any number of workers may hold an approved call they have not claimed. *)
LEMMA RunApprovedKeeps ==
  ASSUME IInv, NEW w \in Worker, NEW c \in Call, RunApproved(w, c)
  PROVE  Consistent'
  <1> USE DEF IInv, TypeOK, durable, policies, RunApproved
  <1>1. \A d \in Call : CallConsistent(d)'
    BY DEF CallConsistent, WorkerConsistent
  <1>2. \A v \in Worker : WorkerConsistent(v)'
    BY DEF OneOwner, Owns, CallConsistent, WorkerConsistent
  <1>3. OneOwner'
    BY DEF OneOwner, Owns, WorkerConsistent
  <1>4. QED
    BY <1>1, <1>2, <1>3 DEF Consistent

(* Input that does not fit the tool settles a call that was never started. *)
LEMMA RejectKeeps ==
  ASSUME IInv, NEW w \in Worker, RejectInput(w)
  PROVE  Consistent'
  <1> USE DEF IInv, TypeOK, durable, policies, RejectInput, SetStatus, Goto
  <1>1. \A d \in Call : CallConsistent(d)'
    BY DEF CallConsistent, WorkerConsistent
  <1>2. \A v \in Worker : WorkerConsistent(v)'
    BY DEF OneOwner, Owns, CallConsistent, WorkerConsistent
  <1>3. OneOwner'
    BY DEF OneOwner, Owns, WorkerConsistent
  <1>4. QED
    BY <1>1, <1>2, <1>3 DEF Consistent

(* Between the approval and the status that waits for it, the call is owned. *)
LEMMA CreateApprovalKeeps ==
  ASSUME IInv, NEW w \in Worker, CreateApproval(w)
  PROVE  Consistent'
  <1> USE DEF IInv, TypeOK, durable, policies, CreateApproval, Goto
  <1>1. \A d \in Call : CallConsistent(d)'
    BY DEF CallConsistent, WorkerConsistent
  <1>2. \A v \in Worker : WorkerConsistent(v)'
    BY DEF OneOwner, Owns, CallConsistent, WorkerConsistent
  <1>3. OneOwner'
    BY DEF OneOwner, Owns, WorkerConsistent
  <1>4. QED
    BY <1>1, <1>2, <1>3 DEF Consistent

(* The update without a condition finds the status its owner left. *)
LEMMA MarkApprovalKeeps ==
  ASSUME IInv, NEW w \in Worker, MarkApprovalRequired(w)
  PROVE  Consistent'
  <1> USE DEF IInv, TypeOK, durable, policies, MarkApprovalRequired, SetStatus, Return
  <1>1. \A d \in Call : CallConsistent(d)'
    BY DEF CallConsistent, WorkerConsistent
  <1>2. \A v \in Worker : WorkerConsistent(v)'
    BY DEF OneOwner, Owns, CallConsistent, WorkerConsistent
  <1>3. OneOwner'
    BY DEF OneOwner, Owns, WorkerConsistent
  <1>4. QED
    BY <1>1, <1>2, <1>3 DEF Consistent

(* A denial by policy settles a call that was never started. *)
LEMMA DenyKeeps ==
  ASSUME IInv, NEW w \in Worker, DenyToolCall(w)
  PROVE  Consistent'
  <1> USE DEF IInv, TypeOK, durable, policies, DenyToolCall, SetStatus, Goto
  <1>1. \A d \in Call : CallConsistent(d)'
    BY DEF CallConsistent, WorkerConsistent
  <1>2. \A v \in Worker : WorkerConsistent(v)'
    BY DEF OneOwner, Owns, CallConsistent, WorkerConsistent
  <1>3. OneOwner'
    BY DEF OneOwner, Owns, WorkerConsistent
  <1>4. QED
    BY <1>1, <1>2, <1>3 DEF Consistent

(* A call the policy allows is still pending when it is claimed. *)
LEMMA AllowKeeps ==
  ASSUME IInv, NEW w \in Worker, AllowToolCall(w)
  PROVE  Consistent'
  <1> USE DEF IInv, TypeOK, durable, policies, AllowToolCall, Goto
  <1>1. \A d \in Call : CallConsistent(d)'
    BY DEF CallConsistent, WorkerConsistent
  <1>2. \A v \in Worker : WorkerConsistent(v)'
    BY DEF OneOwner, Owns, CallConsistent, WorkerConsistent
  <1>3. OneOwner'
    BY DEF OneOwner, Owns, WorkerConsistent
  <1>4. QED
    BY <1>1, <1>2, <1>3 DEF Consistent

(* The conditional update lets one claim through, whoever else tries. *)
LEMMA MarkRunningKeeps ==
  ASSUME IInv, NEW w \in Worker, MarkRunning(w)
  PROVE  Consistent'
  <1> USE DEF IInv, TypeOK, durable, policies, MarkRunning, ExpectedStatus, ClaimPC, SetStatus, Goto
  <1>1. \A d \in Call : CallConsistent(d)'
    BY DEF CallConsistent, WorkerConsistent
  <1>2. \A v \in Worker : WorkerConsistent(v)'
    BY DEF OneOwner, Owns, CallConsistent, WorkerConsistent
  <1>3. OneOwner'
    <2>1. /\ job' = job /\ pc' = [pc EXCEPT ![w] = "executing"] /\ pc \in [Worker -> PC]
          /\ pc[w] \in {"claim_pending", "claim_approved"} /\ job[w] \in Call
          /\ toolCalls[job[w]] = IF pc[w] = "claim_pending" THEN "pending"
                                 ELSE "approval_required"
      OBVIOUS
    <2>2. OneOwner /\ \A v \in Worker : WorkerConsistent(v)
      BY DEF Consistent
    <2>3. ASSUME NEW v \in Worker, v # w, Owns(v, job[w])
          PROVE  FALSE
      <3>1. CASE pc[w] = "claim_pending"
        BY <2>1, <2>2, <2>3, <3>1 DEF OneOwner, Owns
      <3>2. CASE pc[w] = "claim_approved"
        <4>1. toolCalls[job[v]] = "approval_required" /\ job[v] = job[w]
          BY <2>1, <2>3, <3>2 DEF Owns
        <4>2. pc[v] \in PC \ {"idle", "claim_approved"}
          BY <2>1, <2>3 DEF Owns
        <4>3. QED
          BY <2>2, <4>1, <4>2 DEF WorkerConsistent, PC, EnqueuePC, EvidencePC
      <3>3. QED
        BY <2>1, <3>1, <3>2
    <2>4. \A v \in Worker, c \in Call : Owns(v, c)' => Owns(v, c) \/ (v = w /\ c = job[w])
      BY <2>1 DEF Owns
    <2>5. QED
      BY <2>2, <2>3, <2>4 DEF OneOwner
  <1>4. QED
    BY <1>1, <1>2, <1>3 DEF Consistent

(* Who loses the claim leaves no trace. *)
LEMMA ClaimLostKeeps ==
  ASSUME IInv, NEW w \in Worker, ClaimLost(w)
  PROVE  Consistent'
  <1> USE DEF IInv, TypeOK, durable, policies, ClaimLost, Return
  <1>1. \A d \in Call : CallConsistent(d)'
    BY DEF CallConsistent, WorkerConsistent
  <1>2. \A v \in Worker : WorkerConsistent(v)'
    BY DEF OneOwner, Owns, CallConsistent, WorkerConsistent
  <1>3. OneOwner'
    BY DEF OneOwner, Owns, WorkerConsistent
  <1>4. QED
    BY <1>1, <1>2, <1>3 DEF Consistent

(* The outcome is written by the worker that started the tool. *)
LEMMA SucceedKeeps ==
  ASSUME IInv, NEW w \in Worker, ToolSucceeds(w)
  PROVE  Consistent'
  <1> USE DEF IInv, TypeOK, durable, policies, ToolSucceeds, SetStatus, Goto
  <1>1. \A d \in Call : CallConsistent(d)'
    BY DEF CallConsistent, WorkerConsistent
  <1>2. \A v \in Worker : WorkerConsistent(v)'
    BY DEF OneOwner, Owns, CallConsistent, WorkerConsistent
  <1>3. OneOwner'
    BY DEF OneOwner, Owns, WorkerConsistent
  <1>4. QED
    BY <1>1, <1>2, <1>3 DEF Consistent

(* So is a failure, and the failure a success becomes without its evidence. *)
LEMMA FailKeeps ==
  ASSUME IInv, NEW w \in Worker, pc[w] \in {"executing", "result_evidence"}, FailToolCall(w)
  PROVE  Consistent'
  <1> USE DEF IInv, TypeOK, durable, policies, FailToolCall, SetStatus, Goto
  <1>1. \A d \in Call : CallConsistent(d)'
    BY DEF CallConsistent, WorkerConsistent
  <1>2. \A v \in Worker : WorkerConsistent(v)'
    BY DEF OneOwner, Owns, CallConsistent, WorkerConsistent
  <1>3. OneOwner'
    BY DEF OneOwner, Owns, WorkerConsistent
  <1>4. QED
    BY <1>1, <1>2, <1>3 DEF Consistent

(* Evidence is only ever added. *)
LEMMA RecordKeeps ==
  ASSUME IInv, NEW w \in Worker, RecordEvidence(w)
  PROVE  Consistent'
  <1> USE DEF IInv, TypeOK, durable, policies, RecordEvidence, AddEvidence, Return
  <1>1. \A d \in Call : CallConsistent(d)'
    BY DEF CallConsistent, WorkerConsistent
  <1>2. \A v \in Worker : WorkerConsistent(v)'
    BY DEF OneOwner, Owns, CallConsistent, WorkerConsistent
  <1>3. OneOwner'
    BY DEF OneOwner, Owns, WorkerConsistent
  <1>4. QED
    BY <1>1, <1>2, <1>3 DEF Consistent

(* Evidence that cannot be written leaves the rows as they are. *)
LEMMA EvidenceFailsKeeps ==
  ASSUME IInv, NEW w \in Worker, EvidenceFails(w)
  PROVE  Consistent'
  <1> USE DEF IInv, TypeOK, durable, policies, EvidenceFails, Return
  <1>1. \A d \in Call : CallConsistent(d)'
    BY DEF CallConsistent, WorkerConsistent
  <1>2. \A v \in Worker : WorkerConsistent(v)'
    BY DEF OneOwner, Owns, CallConsistent, WorkerConsistent
  <1>3. OneOwner'
    BY DEF OneOwner, Owns, WorkerConsistent
  <1>4. QED
    BY <1>1, <1>2, <1>3 DEF Consistent

(* An answer that denies takes the call out of every other hand. *)
LEMMA ResolveKeeps ==
  ASSUME IInv, NEW p \in Process, NEW c \in Call, NEW choice \in Choices,
         ResolveApproval(p, c, choice)
  PROVE  Consistent'
  <1> USE DEF IInv, TypeOK, durable, policies, ResolveApproval, DenyToolCallForApproval, SetStatus, AddEvidence
  <1>1. \A d \in Call : CallConsistent(d)'
    <2>1. /\ CallConsistent(c) /\ approvals[c].status = "pending"
          /\ approvals'[c].status = ResolvedStatus[choice]
          /\ ResolvedStatus[choice] \in {"approved", "denied", "expired"}
      BY ResolutionType
    <2>2. CASE ResolvedStatus[choice] = "approved"
      BY <2>1, <2>2 DEF CallConsistent
    <2>3. CASE ResolvedStatus[choice] # "approved"
      <3>1. /\ toolCalls[c] \in {"approval_required", "denied"}
            /\ toolCalls'[c] = "denied"
        BY <2>3
      <3>2. "permission_denial" \in evidence'[c]
        BY <2>1, <2>3, <3>1 DEF CallConsistent
      <3>3. QED
        BY <2>1, <2>3, <3>1, <3>2 DEF CallConsistent
    <2>4. QED
      BY <2>2, <2>3
  <1>2. \A v \in Worker : WorkerConsistent(v)'
    BY DEF OneOwner, Owns, CallConsistent, WorkerConsistent
  <1>3. OneOwner'
    BY DEF OneOwner, Owns, WorkerConsistent
  <1>4. QED
    BY <1>1, <1>2, <1>3 DEF Consistent

(* A crash takes the workers of one process away and leaves every row. *)
LEMMA CrashKeeps ==
  ASSUME IInv, NEW p \in Process, CrashAndRestart(p)
  PROVE  Consistent'
  <1> USE DEF IInv, TypeOK, durable, policies, CrashAndRestart
  <1>1. \A d \in Call : CallConsistent(d)'
    BY DEF CallConsistent, WorkerConsistent
  <1>2. \A v \in Worker : WorkerConsistent(v)'
    BY DEF OneOwner, Owns, CallConsistent, WorkerConsistent
  <1>3. OneOwner'
    BY DEF OneOwner, Owns, WorkerConsistent
  <1>4. QED
    BY <1>1, <1>2, <1>3 DEF Consistent

(* Recovery interrupts running calls, those still executed included. *)
LEMMA RecoverKeeps ==
  ASSUME IInv, RecoverInterrupted
  PROVE  Consistent'
  <1> USE DEF IInv, TypeOK, durable, policies, RecoverInterrupted
  <1>1. \A d \in Call : CallConsistent(d)'
    BY DEF CallConsistent, WorkerConsistent
  <1>2. \A v \in Worker : WorkerConsistent(v)'
    BY DEF OneOwner, Owns, CallConsistent, WorkerConsistent
  <1>3. OneOwner'
    BY DEF OneOwner, Owns, WorkerConsistent
  <1>4. QED
    BY <1>1, <1>2, <1>3 DEF Consistent

(* The configuration file plays no part. *)
LEMMA IdleKeeps ==
  ASSUME IInv, UNCHANGED <<durable, pc, job, verdict, executions>>
  PROVE  Consistent'
  <1> USE DEF IInv, TypeOK, durable, policies
  <1>1. \A d \in Call : CallConsistent(d)'
    BY DEF CallConsistent, WorkerConsistent
  <1>2. \A v \in Worker : WorkerConsistent(v)'
    BY DEF OneOwner, Owns, CallConsistent, WorkerConsistent
  <1>3. OneOwner'
    BY DEF OneOwner, Owns, WorkerConsistent
  <1>4. QED
    BY <1>1, <1>2, <1>3 DEF Consistent

-----------------------------------------------------------------------------
(* The inductive invariant and what follows from it                        *)

(* Every step keeps the rows and the workers consistent. *)
LEMMA NextConsistent == IInv /\ [Next]_vars => Consistent'
  <1> SUFFICES ASSUME IInv, [Next]_vars PROVE Consistent'
    OBVIOUS
  <1>1. ASSUME NEW w \in Worker, Enqueue(w) PROVE Consistent'
    BY <1>1, RejectKeeps, CreateApprovalKeeps, MarkApprovalKeeps, DenyKeeps, AllowKeeps
    DEF Enqueue
  <1>2. ASSUME NEW w \in Worker, Execute(w) PROVE Consistent'
    BY <1>2, MarkRunningKeeps, ClaimLostKeeps, SucceedKeeps, FailKeeps
    DEF Execute, ToolFails, ToolTimesOut
  <1>3. ASSUME NEW w \in Worker, Document(w) PROVE Consistent'
    BY <1>3, RecordKeeps, FailKeeps, EvidenceFailsKeeps DEF Document, ResultEvidenceFails
  <1>4. ASSUME NEW p \in Process, SaveConfig(p) PROVE Consistent'
    BY <1>4, IdleKeeps DEF SaveConfig
  <1>5. ASSUME NEW p \in Process, NEW c \in Call, NEW choice \in Choices,
               RepeatAnswer(p, c, choice)
        PROVE  Consistent'
    BY <1>5, IdleKeeps DEF RepeatAnswer
  <1>6. CASE UNCHANGED vars
    BY <1>6, IdleKeeps DEF vars
  <1>7. QED
    BY <1>1, <1>2, <1>3, <1>4, <1>5, <1>6, CreateKeeps, RunApprovedKeeps, ResolveKeeps, CrashKeeps,
       RecoverKeeps
    DEF Next

(* The rows of every call and the workers at them always agree. *)
THEOREM Invariance == Spec => []IInv
  <1>1. Init => IInv
    BY InitTypeOK, InitConsistent DEF IInv, Consistent
  <1>2. IInv /\ [Next]_vars => IInv'
    BY NextTypeOK, NextConsistent DEF IInv, Consistent
  <1>3. QED
    BY <1>1, <1>2, PTL DEF Spec

(* A tool is started at most once for a call: the claim that starts it is
   conditional on a status no call ever comes back to. *)
THEOREM AtMostOnce == Spec => []ExecutedAtMostOnce
  <1>1. ASSUME IInv, NEW c \in Call PROVE executions[c] <= 1
    <2>1. CallConsistent(c)
      BY <1>1 DEF IInv
    <2>2. executions[c] = 0 \/ executions[c] = 1
      BY <2>1 DEF CallConsistent
    <2>3. QED
      BY <2>2
  <1>2. IInv => ExecutedAtMostOnce
    BY <1>1 DEF ExecutedAtMostOnce
  <1>3. QED
    BY <1>2, Invariance, PTL

(* A tool is started only under the policy's or a person's authority. *)
THEOREM Authorized == Spec => []ExecutionAuthorized
  <1>1. IInv => ExecutionAuthorized
    BY DEF IInv, TypeOK, CallConsistent, ExecutionAuthorized
  <1>2. QED
    BY <1>1, Invariance, PTL

(* No two workers, of one process or of two, execute one call. *)
THEOREM SingleExecutor == Spec => []OneExecutor
  <1>1. IInv => OneExecutor
    BY DEF IInv, TypeOK, OneOwner, Owns, OneExecutor
  <1>2. QED
    BY <1>1, Invariance, PTL

(* A denied approval, its denied call and the evidence of it come together. *)
THEOREM AtomicDenial == Spec => []DenialIsAtomic
  <1>1. IInv => DenialIsAtomic
    BY DEF IInv, CallConsistent, DenialIsAtomic
  <1>2. QED
    BY <1>1, Invariance, PTL

-----------------------------------------------------------------------------
(* Outcomes are final                                                      *)

(* Only the worker that executes a call, recovery, and the failure of a
   success's evidence write a status over one the caller may have seen. *)
LEMMA StepKeepsOutcome ==
  ASSUME IInv, [Next]_vars, NEW c \in Call
  PROVE  /\ toolCalls[c] \in {"denied", "failed"} => toolCalls'[c] = toolCalls[c]
         /\ toolCalls[c] = "succeeded" => toolCalls'[c] \in {"succeeded", "failed"}
         /\ Settled(c) => toolCalls'[c] \in TerminalStatus
  <1> USE DEF IInv, TypeOK, durable, policies, SetStatus, Goto, Return, Settled, TerminalStatus
  <1>1. ASSUME NEW w \in Worker, NEW d \in Call, CreateToolCall(w, d) \/ RunApproved(w, d)
        PROVE  toolCalls[c] # "absent" => toolCalls'[c] = toolCalls[c]
    BY <1>1 DEF CreateToolCall, RunApproved
  <1>2. ASSUME NEW w \in Worker, Enqueue(w)
        PROVE  toolCalls[c] # "pending" => toolCalls'[c] = toolCalls[c]
    BY <1>2 DEF Enqueue, RejectInput, CreateApproval, MarkApprovalRequired, DenyToolCall,
                AllowToolCall, WorkerConsistent
  <1>3. ASSUME NEW w \in Worker, MarkRunning(w) \/ ClaimLost(w)
        PROVE  ~Settled(c) \/ toolCalls'[c] = toolCalls[c]
    BY <1>3 DEF MarkRunning, ClaimLost, ExpectedStatus
  <1>4. ASSUME NEW w \in Worker, ToolSucceeds(w) \/ ToolFails(w) \/ ToolTimesOut(w)
        PROVE  \/ toolCalls'[c] = toolCalls[c]
               \/ toolCalls[c] \in {"running", "interrupted"}
                  /\ toolCalls'[c] \in {"succeeded", "failed"}
    BY <1>4 DEF ToolSucceeds, ToolFails, ToolTimesOut, FailToolCall, WorkerConsistent
  <1>5. ASSUME NEW w \in Worker, Document(w)
        PROVE  \/ toolCalls'[c] = toolCalls[c]
               \/ toolCalls[c] = "succeeded" /\ toolCalls'[c] = "failed"
    BY <1>5 DEF Document, RecordEvidence, ResultEvidenceFails, EvidenceFails, FailToolCall,
                WorkerConsistent
  <1>6. ASSUME NEW p \in Process, NEW d \in Call, NEW choice \in Choices,
               ResolveApproval(p, d, choice)
        PROVE  ~Settled(c) \/ toolCalls'[c] = toolCalls[c]
    BY <1>6 DEF ResolveApproval, DenyToolCallForApproval
  <1>7. ASSUME NEW p \in Process,
               \/ SaveConfig(p) \/ CrashAndRestart(p)
               \/ \E d \in Call, choice \in Choices : RepeatAnswer(p, d, choice)
        PROVE  toolCalls' = toolCalls
    BY <1>7 DEF SaveConfig, CrashAndRestart, RepeatAnswer
  <1>8. CASE RecoverInterrupted
    BY <1>8 DEF RecoverInterrupted
  <1>9. CASE UNCHANGED vars
    BY <1>9 DEF vars
  <1>10. QED
    BY <1>1, <1>2, <1>3, <1>4, <1>5, <1>6, <1>7, <1>8, <1>9 DEF Next, Execute

(* A call that was denied or failed stays so, and no settled call becomes
   open again. *)
THEOREM FinalOutcome == Spec => OutcomeIsFinal
  <1>1. ASSUME IInv, [Next]_vars
        PROVE  [\A c \in Call :
                  /\ toolCalls[c] \in {"denied", "failed"} => toolCalls'[c] = toolCalls[c]
                  /\ toolCalls[c] = "succeeded" => toolCalls'[c] \in {"succeeded", "failed"}
                  /\ Settled(c) => toolCalls'[c] \in TerminalStatus]_vars
    BY <1>1, StepKeepsOutcome
  <1>2. QED
    BY <1>1, Invariance, PTL DEF Spec, OutcomeIsFinal

-----------------------------------------------------------------------------
(* The queue implements ToolCallContract                                   *)

(* The phases of the calls a step leaves alone. *)
LEMMA PhaseUnchanged ==
  ASSUME NEW c \in Call,
         toolCalls'[c] = toolCalls[c], executions'[c] = executions[c],
         verdict'[c] = verdict[c], approvals'[c] = approvals[c]
  PROVE  Phase(c)' = Phase(c)
  BY DEF Phase, Settled

(* A step that changes the phase of no call but c moves c. *)
LEMMA OneMove ==
  ASSUME NEW c \in Call, NEW from, NEW to,
         Phase(c) = from, Phase(c)' = to,
         \A d \in Call \ {c} : Phase(d)' = Phase(d)
  PROVE  Contract!Move(c, from, to)
  <1>1. [d \in Call |-> Phase(d)]' = [[d \in Call |-> Phase(d)] EXCEPT ![c] = to]
    OBVIOUS
  <1>2. QED
    BY <1>1 DEF Contract!Move

(* A new row is a request. *)
LEMMA CreateRequests ==
  ASSUME IInv, NEW w \in Worker, NEW c \in Call, CreateToolCall(w, c)
  PROVE  Contract!Request(c)
  <1>1. \A d \in Call \ {c} : Phase(d)' = Phase(d)
    BY PhaseUnchanged DEF CreateToolCall, SetStatus, IInv, TypeOK
  <1>2. Phase(c) = "new" /\ Phase(c)' = "asked"
    BY DEF CreateToolCall, SetStatus, IInv, TypeOK, CallConsistent, Phase, Settled, TerminalStatus
  <1>3. QED
    BY <1>1, <1>2, OneMove DEF Contract!Request

(* What the phases below rest on, row by row. *)
LEMMA PhaseOf ==
  ASSUME NEW c \in Call
  PROVE  /\ toolCalls[c] \in {"pending", "approval_required"} /\ executions[c] = 0 =>
              Phase(c) = IF verdict[c] = "allow" \/ approvals[c].status = "approved"
                         THEN "authorized" ELSE "asked"
         /\ toolCalls[c] \in TerminalStatus /\ executions[c] = 0 => Phase(c) = "refused"
         /\ toolCalls[c] = "running" /\ executions[c] = 1 => Phase(c) = "started"
         /\ toolCalls[c] \in TerminalStatus /\ executions[c] = 1 => Phase(c) = "settled"
  BY DEF Phase, Settled, TerminalStatus

(* Before the policy has spoken, a call is asked for and no more. *)
LEMMA DecidingIsAsked ==
  ASSUME IInv, NEW w \in Worker, NEW c \in Call, job[w] = c, pc[w] = "decide"
  PROVE  /\ toolCalls[c] = "pending" /\ executions[c] = 0
         /\ verdict[c] = "none" /\ approvals[c].status = "none"
         /\ Phase(c) = "asked"
  <1>1. toolCalls[c] = "pending" /\ verdict[c] = "none"
    BY DEF IInv, WorkerConsistent
  <1>2. executions[c] = 0 /\ approvals[c].status = "none"
    BY <1>1 DEF IInv, CallConsistent
  <1>3. QED
    BY <1>1, <1>2, PhaseOf

(* Invalid input and a denying policy refuse the call. *)
LEMMA DenialRefuses ==
  ASSUME IInv, NEW w \in Worker, NEW c \in Call, job[w] = c, RejectInput(w) \/ DenyToolCall(w)
  PROVE  Contract!Refuse(c)
  <1>1. Phase(c) = "asked" /\ executions[c] = 0
    BY DecidingIsAsked DEF RejectInput, DenyToolCall
  <1>2. \A d \in Call \ {c} : Phase(d)' = Phase(d)
    BY PhaseUnchanged DEF RejectInput, DenyToolCall, SetStatus, IInv, TypeOK
  <1>3. toolCalls'[c] \in TerminalStatus
    BY DEF RejectInput, DenyToolCall, SetStatus, IInv, TypeOK, TerminalStatus
  <1>4. executions'[c] = 0
    BY <1>1 DEF RejectInput, DenyToolCall
  <1>5. toolCalls'[c] # "absent" /\ ~(executions'[c] > 0)
    BY <1>3, <1>4 DEF TerminalStatus
  <1>6. Phase(c)' = "refused"
    BY <1>3, <1>5 DEF Phase, Settled
  <1>7. QED
    BY <1>1, <1>2, <1>6, OneMove DEF Contract!Refuse

(* An allowing policy authorizes it. *)
LEMMA AllowAuthorizes ==
  ASSUME IInv, NEW w \in Worker, NEW c \in Call, job[w] = c, AllowToolCall(w)
  PROVE  Contract!Authorize(c)
  <1>1. Phase(c) = "asked" /\ executions[c] = 0 /\ toolCalls[c] = "pending"
    BY DecidingIsAsked DEF AllowToolCall
  <1>2. \A d \in Call \ {c} : Phase(d)' = Phase(d)
    BY PhaseUnchanged DEF AllowToolCall, durable, IInv, TypeOK
  <1>3. toolCalls'[c] = "pending" /\ executions'[c] = 0 /\ verdict'[c] = "allow"
    BY <1>1 DEF AllowToolCall, durable, IInv, TypeOK
  <1>4. Phase(c)' = "authorized"
    BY <1>3 DEF Phase, Settled, TerminalStatus
  <1>5. QED
    BY <1>1, <1>2, <1>4, OneMove DEF Contract!Authorize

(* Putting a call in front of a person changes nobody's phase. *)
LEMMA AskingStutters ==
  ASSUME IInv, NEW w \in Worker, CreateApproval(w) \/ MarkApprovalRequired(w), NEW c \in Call
  PROVE  Phase(c)' = Phase(c)
  <1>1. CASE c # job[w]
    BY <1>1, PhaseUnchanged
    DEF CreateApproval, MarkApprovalRequired, SetStatus, IInv, TypeOK
  <1>2. CASE c = job[w] /\ CreateApproval(w)
    <2>1. Phase(c) = "asked" /\ executions[c] = 0 /\ toolCalls[c] = "pending"
      BY <1>2, DecidingIsAsked DEF CreateApproval
    <2>2. /\ toolCalls'[c] = "pending" /\ executions'[c] = 0
          /\ verdict'[c] = "ask" /\ approvals'[c].status = "pending"
      BY <1>2, <2>1 DEF CreateApproval, IInv, TypeOK
    <2>3. QED
      BY <2>1, <2>2 DEF Phase, Settled, TerminalStatus
  <1>3. CASE c = job[w] /\ MarkApprovalRequired(w)
    <2>1. toolCalls[c] = "pending" /\ toolCalls'[c] = "approval_required"
      BY <1>3 DEF MarkApprovalRequired, SetStatus, IInv, TypeOK, WorkerConsistent
    <2>2. /\ executions[c] = 0 /\ executions' = executions
          /\ verdict' = verdict /\ approvals' = approvals
      BY <1>3, <2>1 DEF MarkApprovalRequired, IInv, CallConsistent
    <2>3. QED
      BY <2>1, <2>2 DEF Phase, Settled, TerminalStatus
  <1>4. QED
    BY <1>1, <1>2, <1>3

(* The claim starts an authorized call. *)
LEMMA ClaimStarts ==
  ASSUME IInv, NEW w \in Worker, NEW c \in Call, job[w] = c, MarkRunning(w)
  PROVE  Contract!Start(c)
  <1>1. /\ toolCalls[c] \in {"pending", "approval_required"}
        /\ verdict[c] = "allow" \/ approvals[c].status = "approved"
    BY DEF MarkRunning, ExpectedStatus, ClaimPC, IInv, WorkerConsistent
  <1>2. executions[c] = 0
    BY <1>1 DEF IInv, CallConsistent
  <1>3. Phase(c) = "authorized"
    BY <1>1, <1>2, PhaseOf
  <1>4. \A d \in Call \ {c} : Phase(d)' = Phase(d)
    BY PhaseUnchanged DEF MarkRunning, SetStatus, IInv, TypeOK
  <1>5. toolCalls'[c] = "running" /\ executions'[c] = 1
    BY <1>2 DEF MarkRunning, SetStatus, IInv, TypeOK
  <1>6. Phase(c)' = "started"
    BY <1>5 DEF Phase, Settled, TerminalStatus
  <1>7. QED
    BY <1>3, <1>4, <1>6, OneMove DEF Contract!Start

(* Settling a started call, or writing another outcome over a settled one. *)
LEMMA OutcomeSettles ==
  ASSUME IInv, NEW w \in Worker, NEW c \in Call, job[w] = c,
         pc[w] \in {"executing", "result_evidence"}, ToolSucceeds(w) \/ FailToolCall(w)
  PROVE  Contract!Settle({c}) \/ \A d \in Call : Phase(d)' = Phase(d)
  <1>1. toolCalls[c] \in {"running", "interrupted", "succeeded"} /\ executions[c] = 1
    BY DEF IInv, WorkerConsistent, CallConsistent
  <1>2. \A d \in Call \ {c} : Phase(d)' = Phase(d)
    BY PhaseUnchanged DEF ToolSucceeds, FailToolCall, SetStatus, IInv, TypeOK
  <1>3. toolCalls'[c] \in TerminalStatus /\ executions'[c] = 1
    BY <1>1 DEF ToolSucceeds, FailToolCall, SetStatus, IInv, TypeOK, TerminalStatus
  <1>4. Phase(c)' = "settled"
    BY <1>3 DEF Phase, Settled, TerminalStatus
  <1>5. Phase(c) \in {"started", "settled"}
    BY <1>1, PhaseOf DEF TerminalStatus
  <1>6. CASE Phase(c) = "started"
    <2>1. [d \in Call |-> Phase(d)]'
            = [d \in Call |-> IF d \in {c} THEN "settled" ELSE [e \in Call |-> Phase(e)][d]]
      BY <1>2, <1>4
    <2>2. QED
      BY <1>6, <2>1 DEF Contract!Settle
  <1>7. QED
    BY <1>2, <1>4, <1>5, <1>6

(* An answer authorizes or refuses a call that was asked for. *)
LEMMA AnswerMoves ==
  ASSUME IInv, NEW p \in Process, NEW c \in Call, NEW choice \in Choices,
         ResolveApproval(p, c, choice)
  PROVE  Contract!Authorize(c) \/ Contract!Refuse(c)
  <1>1. /\ approvals[c].status = "pending" /\ verdict[c] = "ask" /\ executions[c] = 0
        /\ toolCalls[c] \in {"pending", "approval_required"}
    BY DEF ResolveApproval, IInv, CallConsistent
  <1>2. Phase(c) = "asked"
    BY <1>1, PhaseOf
  <1>3. /\ executions' = executions /\ verdict' = verdict
        /\ approvals'[c].status = ResolvedStatus[choice]
    BY DEF ResolveApproval, IInv, TypeOK
  <1>4. \A d \in Call \ {c} : Phase(d)' = Phase(d)
    BY PhaseUnchanged
    DEF ResolveApproval, DenyToolCallForApproval, SetStatus, IInv, TypeOK
  <1>5. CASE ResolvedStatus[choice] = "approved"
    <2>1. toolCalls' = toolCalls
      BY <1>5 DEF ResolveApproval
    <2>2. Phase(c)' = "authorized"
      BY <1>1, <1>3, <1>5, <2>1 DEF Phase, Settled, TerminalStatus
    <2>3. QED
      BY <1>2, <1>4, <2>2, OneMove DEF Contract!Authorize
  <1>6. CASE ResolvedStatus[choice] # "approved"
    <2>1. toolCalls'[c] = "denied"
      BY <1>6 DEF ResolveApproval, DenyToolCallForApproval, SetStatus, IInv, TypeOK
    <2>2. Phase(c)' = "refused"
      BY <1>1, <1>3, <2>1 DEF Phase, Settled, TerminalStatus
    <2>3. QED
      BY <1>2, <1>4, <2>2, OneMove DEF Contract!Refuse
  <1>7. QED
    BY <1>5, <1>6

(* Recovery settles every started call at once. *)
LEMMA RecoverySettles ==
  ASSUME IInv, RecoverInterrupted
  PROVE  Contract!Settle({c \in Call : toolCalls[c] = "running"})
  <1>1. ASSUME NEW c \in Call, toolCalls[c] = "running"
        PROVE  Phase(c) = "started" /\ Phase(c)' = "settled"
    <2>1. executions[c] = 1 /\ executions'[c] = 1 /\ toolCalls'[c] = "interrupted"
      BY <1>1 DEF RecoverInterrupted, IInv, CallConsistent
    <2>2. QED
      BY <1>1, <2>1 DEF Phase, Settled, TerminalStatus
  <1>2. ASSUME NEW c \in Call, toolCalls[c] # "running"
        PROVE  Phase(c)' = Phase(c)
    BY <1>2, PhaseUnchanged DEF RecoverInterrupted
  <1>3. QED
    BY <1>1, <1>2 DEF Contract!Settle

(* The other steps touch none of the rows a phase is read from. *)
LEMMA OthersStutter ==
  ASSUME NEW c \in Call, UNCHANGED <<toolCalls, approvals, verdict, executions>>
  PROVE  Phase(c)' = Phase(c)
  BY PhaseUnchanged

(* Every step of the queue is a step of the contract, or none. *)
LEMMA NextKeepsContract ==
  ASSUME IInv, [Next]_vars
  PROVE  Contract!Next \/ UNCHANGED [c \in Call |-> Phase(c)]
  <1> DEFINE Stutters == \A c \in Call : Phase(c)' = Phase(c)
  <1> SUFFICES Contract!Next \/ Stutters
    OBVIOUS
  <1>1. ASSUME NEW w \in Worker, NEW c \in Call, CreateToolCall(w, c) PROVE Contract!Next
    BY <1>1, CreateRequests DEF Contract!Next
  <1>2. ASSUME NEW w \in Worker, Enqueue(w) PROVE Contract!Next \/ Stutters
    <2>1. CASE RejectInput(w) \/ DenyToolCall(w) \/ AllowToolCall(w)
      <3>1. job[w] \in Call
        BY <2>1 DEF RejectInput, DenyToolCall, AllowToolCall, IInv, TypeOK
      <3>2. QED
        BY <2>1, <3>1, DenialRefuses, AllowAuthorizes DEF Contract!Next
    <2>2. CASE CreateApproval(w) \/ MarkApprovalRequired(w)
      BY <2>2, AskingStutters
    <2>3. QED
      BY <1>2, <2>1, <2>2 DEF Enqueue
  <1>3. ASSUME NEW w \in Worker, MarkRunning(w) PROVE Contract!Next
    <2>1. job[w] \in Call
      BY <1>3 DEF MarkRunning, ClaimPC, IInv, TypeOK
    <2>2. QED
      BY <1>3, <2>1, ClaimStarts DEF Contract!Next
  <1>4. ASSUME NEW w \in Worker, pc[w] \in {"executing", "result_evidence"},
               ToolSucceeds(w) \/ FailToolCall(w)
        PROVE  Contract!Next \/ Stutters
    <2>1. job[w] \in Call
      BY <1>4 DEF IInv, TypeOK
    <2>2. {job[w]} \in SUBSET Call
      BY <2>1
    <2>3. Contract!Settle({job[w]}) => Contract!Next
      BY <2>2 DEF Contract!Next
    <2>4. QED
      BY <1>4, <2>1, <2>3, OutcomeSettles
  <1>5. ASSUME NEW w \in Worker, NEW c \in Call, RunApproved(w, c) PROVE Stutters
    BY <1>5, OthersStutter DEF RunApproved, durable
  <1>6. ASSUME NEW w \in Worker, ClaimLost(w) \/ RecordEvidence(w) \/ EvidenceFails(w)
        PROVE  Stutters
    BY <1>6, OthersStutter DEF ClaimLost, RecordEvidence, EvidenceFails, durable
  <1>7. ASSUME NEW p \in Process, NEW c \in Call, NEW choice \in Choices,
               ResolveApproval(p, c, choice)
        PROVE  Contract!Next
    BY <1>7, AnswerMoves DEF Contract!Next
  <1>8. ASSUME NEW p \in Process,
               \/ SaveConfig(p) \/ CrashAndRestart(p)
               \/ \E c \in Call, choice \in Choices : RepeatAnswer(p, c, choice)
        PROVE  Stutters
    BY <1>8, OthersStutter DEF SaveConfig, CrashAndRestart, RepeatAnswer, durable
  <1>9. CASE RecoverInterrupted
    <2>1. {c \in Call : toolCalls[c] = "running"} \in SUBSET Call
      OBVIOUS
    <2>2. QED
      BY <1>9, <2>1, RecoverySettles DEF Contract!Next
  <1>10. CASE UNCHANGED vars
    BY <1>10, OthersStutter DEF vars, durable
  <1>11. ASSUME NEW w \in Worker, Execute(w) \/ Document(w) PROVE Contract!Next \/ Stutters
    BY <1>3, <1>4, <1>6, <1>11
    DEF Execute, Document, ToolSucceeds, ToolFails, ToolTimesOut, ResultEvidenceFails
  <1>12. QED
    BY <1>1, <1>2, <1>5, <1>7, <1>8, <1>9, <1>10, <1>11 DEF Next

(* The queue, with its approvals, its evidence, its crashes and its
   recovery, implements the contract a caller relies on. *)
THEOREM Refinement == Spec => KeepsContract
  <1>1. Init => Contract!Init
    BY DEF Init, Contract!Init, Phase
  <1>2. IInv /\ [Next]_vars => [Contract!Next]_[c \in Call |-> Phase(c)]
    BY NextKeepsContract
  <1>3. QED
    BY <1>1, <1>2, Invariance, PTL DEF Spec, KeepsContract, Contract!Spec

-----------------------------------------------------------------------------
(* While no process has died                                               *)

(* A pending approval waits for a person, or a worker is about to put its
   call in front of one. *)
Waits ==
  \A c \in Call : approvals[c].status = "pending" =>
    \/ toolCalls[c] = "approval_required"
    \/ \E w \in Worker : job[w] = c /\ pc[w] = "mark_approval"

(* Only a crash separates an approval from the worker that still has to
   make it answerable. *)
LEMMA StepKeepsWaits ==
  ASSUME IInv, Waits, [Next]_vars, crashes' = 0
  PROVE  Waits'
  <1> USE DEF IInv, TypeOK, Waits, durable, policies, SetStatus, Goto, Return
  <1>1. ASSUME NEW w \in Worker, NEW d \in Call, CreateToolCall(w, d) \/ RunApproved(w, d)
        PROVE  Waits'
    BY <1>1 DEF CreateToolCall, RunApproved, CallConsistent
  <1>2. ASSUME NEW w \in Worker, Enqueue(w)
        PROVE  Waits'
    <2>1. CASE RejectInput(w)
      BY <2>1 DEF RejectInput, WorkerConsistent, CallConsistent
    <2>2. CASE CreateApproval(w)
      BY <2>2 DEF CreateApproval
    <2>3. CASE MarkApprovalRequired(w)
      BY <2>3 DEF MarkApprovalRequired
    <2>4. CASE DenyToolCall(w)
      BY <2>4 DEF DenyToolCall, WorkerConsistent, CallConsistent
    <2>5. CASE AllowToolCall(w)
      BY <2>5 DEF AllowToolCall
    <2>6. QED
      BY <1>2, <2>1, <2>2, <2>3, <2>4, <2>5 DEF Enqueue
  <1>3. ASSUME NEW w \in Worker, Execute(w)
        PROVE  Waits'
    <2>1. CASE MarkRunning(w)
      <3>1. approvals[job[w]].status # "pending"
        BY <2>1 DEF MarkRunning, ClaimPC, WorkerConsistent, CallConsistent
      <3>2. pc[w] # "mark_approval"
        BY <2>1 DEF MarkRunning, ClaimPC
      <3>3. QED
        BY <2>1, <3>1, <3>2 DEF MarkRunning
    <2>2. CASE ClaimLost(w)
      BY <2>2 DEF ClaimLost, ClaimPC
    <2>3. CASE ToolSucceeds(w) \/ ToolFails(w) \/ ToolTimesOut(w)
      BY <2>3 DEF ToolSucceeds, ToolFails, ToolTimesOut, FailToolCall, WorkerConsistent,
                  CallConsistent
    <2>4. QED
      BY <1>3, <2>1, <2>2, <2>3 DEF Execute
  <1>4. ASSUME NEW w \in Worker, Document(w)
        PROVE  Waits'
    BY <1>4 DEF Document, RecordEvidence, ResultEvidenceFails, EvidenceFails, EvidencePC,
                FailToolCall, WorkerConsistent, CallConsistent
  <1>5. ASSUME NEW p \in Process, NEW d \in Call, NEW choice \in Choices,
               ResolveApproval(p, d, choice)
        PROVE  Waits'
    <2>1. approvals'[d].status # "pending" /\ \A c \in Call \ {d} : approvals'[c] = approvals[c]
      BY <1>5, ResolutionType DEF ResolveApproval
    <2>2. \A c \in Call \ {d} : toolCalls'[c] = toolCalls[c]
      BY <1>5 DEF ResolveApproval, DenyToolCallForApproval
    <2>3. pc' = pc /\ job' = job
      BY <1>5 DEF ResolveApproval
    <2>4. ASSUME NEW c \in Call, approvals'[c].status = "pending"
          PROVE  \/ toolCalls'[c] = "approval_required"
                 \/ \E w \in Worker : job'[w] = c /\ pc'[w] = "mark_approval"
      <3>1. c # d
        BY <2>1, <2>4
      <3>2. toolCalls'[c] = toolCalls[c] /\ approvals[c].status = "pending"
        BY <2>1, <2>2, <2>4, <3>1
      <3>3. QED
        BY <2>3, <3>2
    <2>5. QED
      BY <2>4
  <1>6. ASSUME NEW p \in Process,
               SaveConfig(p) \/ \E d \in Call, choice \in Choices : RepeatAnswer(p, d, choice)
        PROVE  Waits'
    <2>1. UNCHANGED <<toolCalls, approvals, pc, job>>
      BY <1>6 DEF SaveConfig, RepeatAnswer
    <2>2. QED
      BY <2>1
  <1>7. ASSUME NEW p \in Process, CrashAndRestart(p) PROVE FALSE
    BY <1>7 DEF CrashAndRestart
  <1>8. CASE RecoverInterrupted
    BY <1>8 DEF RecoverInterrupted
  <1>9. CASE UNCHANGED vars
    BY <1>9 DEF vars
  <1>10. QED
    BY <1>1, <1>2, <1>3, <1>4, <1>5, <1>6, <1>7, <1>8, <1>9 DEF Next

(* Crashes are only ever counted up. *)
LEMMA CrashesGrow ==
  ASSUME TypeOK, [Next]_vars, crashes' = 0
  PROVE  crashes = 0
  <1>1. crashes' = crashes \/ crashes' = crashes + 1
    BY DEF Next, vars, durable, policies, CreateToolCall, RunApproved, Enqueue, RejectInput,
           CreateApproval, MarkApprovalRequired, DenyToolCall, AllowToolCall, Execute, MarkRunning,
           ClaimLost, ToolSucceeds, ToolFails, ToolTimesOut, FailToolCall, Document,
           RecordEvidence, ResultEvidenceFails, EvidenceFails, ResolveApproval, RepeatAnswer,
           SaveConfig, CrashAndRestart, RecoverInterrupted
  <1>2. crashes \in Nat
    BY ConstantsAssumption DEF TypeOK
  <1>3. QED
    BY <1>1, <1>2

(* Until a process dies, every approval shown to a person can be answered
   either way: its call waits for the answer. *)
THEOREM Answerable == Spec => [](crashes = 0 => PendingApprovalAnswerable)
  <1> DEFINE Inv == crashes = 0 => Waits
  <1>1. Init => Inv
    BY DEF Init, Waits
  <1>2. IInv /\ Inv /\ [Next]_vars => Inv'
    BY StepKeepsWaits, CrashesGrow DEF IInv
  <1>3. Inv => (crashes = 0 => PendingApprovalAnswerable)
    BY DEF Waits, PendingApprovalAnswerable, InFlight
  <1> HIDE DEF Inv
  <1>4. QED
    BY <1>1, <1>2, <1>3, Invariance, PTL DEF Spec


(* A call has the evidence its status calls for, or the worker that gave it
   the status is about to write the evidence. *)
EvidenceFollows(c, status, type) ==
  toolCalls[c] = status =>
    \/ type \in evidence[c]
    \/ \E w \in Worker :
         job[w] = c /\ pc[w] \in EvidencePC /\ EvidenceAfter[pc[w]] = type

Documented ==
  \A c \in Call :
    /\ ToolOf[c] \notin NoEvidenceTools => EvidenceFollows(c, "succeeded", "tool_result")
    /\ EvidenceFollows(c, "failed", "tool_error")
    /\ EvidenceFollows(c, "denied", "permission_denial")

(* A step that gives no call a status and takes no worker off its evidence. *)
LEMMA DocumentedKept ==
  ASSUME Documented,
         \A c \in Call : toolCalls'[c] = toolCalls[c] \/ toolCalls'[c] \in
           {"pending", "approval_required", "running", "interrupted"},
         \A c \in Call : evidence[c] \subseteq evidence'[c],
         \A w \in Worker : pc[w] \in EvidencePC => pc'[w] = pc[w] /\ job'[w] = job[w]
  PROVE  Documented'
  <1>1. ASSUME NEW c \in Call, NEW status \in {"succeeded", "failed", "denied"}, NEW type,
               EvidenceFollows(c, status, type)
        PROVE  EvidenceFollows(c, status, type)'
    BY <1>1 DEF EvidenceFollows
  <1>2. QED
    BY <1>1 DEF Documented

(* Only a crash and a failing insert separate an outcome from its evidence. *)
LEMMA StepKeepsDocumented ==
  ASSUME IInv, Documented, [Next]_vars, crashes' = 0, ~EvidenceMayFail
  PROVE  Documented'
  <1> USE DEF IInv, TypeOK, durable, policies, SetStatus, Goto, Return
  <1>1. ASSUME NEW w \in Worker, NEW d \in Call, CreateToolCall(w, d) \/ RunApproved(w, d)
        PROVE  Documented'
    BY <1>1, DocumentedKept DEF CreateToolCall, RunApproved, EvidencePC
  <1>2. ASSUME NEW w \in Worker, job[w] \in Call,
               pc[w] \notin EvidencePC, pc'[w] \in EvidencePC,
               \A v \in Worker \ {w} : pc'[v] = pc[v], job' = job,
               \A c \in Call \ {job[w]} : toolCalls'[c] = toolCalls[c],
               evidence' = evidence,
               \/ pc'[w] = "result_evidence" /\ toolCalls'[job[w]] = "succeeded"
               \/ pc'[w] = "error_evidence" /\ toolCalls'[job[w]] = "failed"
               \/ pc'[w] = "denial_evidence" /\ toolCalls'[job[w]] = "denied"
        PROVE  Documented'
    <2>1. ASSUME NEW c \in Call, c # job[w], NEW status, NEW type, EvidenceFollows(c, status, type)
          PROVE  EvidenceFollows(c, status, type)'
      BY <1>2, <2>1 DEF EvidenceFollows
    <2>2. ASSUME NEW c \in Call, c = job[w]
          PROVE  /\ EvidenceFollows(c, "succeeded", "tool_result")'
                 /\ EvidenceFollows(c, "failed", "tool_error")'
                 /\ EvidenceFollows(c, "denied", "permission_denial")'
      BY <1>2, <2>2 DEF EvidenceFollows, EvidencePC, EvidenceAfter
    <2>3. ASSUME NEW c \in Call
          PROVE  /\ ToolOf[c] \notin NoEvidenceTools =>
                      EvidenceFollows(c, "succeeded", "tool_result")'
                 /\ EvidenceFollows(c, "failed", "tool_error")'
                 /\ EvidenceFollows(c, "denied", "permission_denial")'
      <3>1. CASE c = job[w]
        BY <2>2, <3>1
      <3>2. CASE c # job[w]
        BY <2>1, <3>2 DEF Documented
      <3>3. QED
        BY <3>1, <3>2
    <2>4. QED
      BY <2>3 DEF Documented
  <1>3. ASSUME NEW w \in Worker, Enqueue(w) PROVE Documented'
    <2>1. CASE RejectInput(w) \/ DenyToolCall(w)
      BY <2>1, <1>2 DEF RejectInput, DenyToolCall, EvidencePC
    <2>2. CASE CreateApproval(w)
      BY <2>2, DocumentedKept DEF CreateApproval, EvidencePC
    <2>3. CASE MarkApprovalRequired(w)
      BY <2>3, DocumentedKept DEF MarkApprovalRequired, EvidencePC
    <2>4. CASE AllowToolCall(w)
      BY <2>4, DocumentedKept DEF AllowToolCall, EvidencePC
    <2>5. QED
      BY <1>3, <2>1, <2>2, <2>3, <2>4 DEF Enqueue
  <1>4. ASSUME NEW w \in Worker, Execute(w) PROVE Documented'
    <2>1. CASE MarkRunning(w) \/ ClaimLost(w)
      BY <2>1, DocumentedKept DEF MarkRunning, ClaimLost, ClaimPC, EvidencePC
    <2>2. CASE ToolSucceeds(w) \/ ToolFails(w) \/ ToolTimesOut(w)
      BY <2>2, <1>2 DEF ToolSucceeds, ToolFails, ToolTimesOut, FailToolCall, EvidencePC
    <2>3. QED
      BY <1>4, <2>1, <2>2 DEF Execute
  <1>5. ASSUME NEW w \in Worker, RecordEvidence(w) PROVE Documented'
    <2> DEFINE d == job[w]
    <2>1. /\ d \in Call /\ pc[w] \in EvidencePC /\ toolCalls' = toolCalls
          /\ \A v \in Worker \ {w} : pc'[v] = pc[v] /\ job'[v] = job[v]
          /\ \A c \in Call \ {d} : evidence'[c] = evidence[c]
          /\ evidence[d] \subseteq evidence'[d]
      BY <1>5 DEF RecordEvidence, EvidencePC, AddEvidence
    <2>2. \/ EvidenceAfter[pc[w]] \in evidence'[d]
          \/ ToolOf[d] \in NoEvidenceTools /\ EvidenceAfter[pc[w]] = "tool_result"
      BY <1>5, <2>1 DEF RecordEvidence, AddEvidence, EvidenceAfter
    <2>3. ASSUME NEW c \in Call, NEW status, NEW type,
                 c = d => EvidenceAfter[pc[w]] \in evidence'[d] \/ type # EvidenceAfter[pc[w]],
                 EvidenceFollows(c, status, type)
          PROVE  EvidenceFollows(c, status, type)'
      BY <2>1, <2>3 DEF EvidenceFollows
    <2>4. QED
      BY <2>2, <2>3 DEF Documented
  <1>6. ASSUME NEW w \in Worker, Document(w) PROVE Documented'
    BY <1>5, <1>6 DEF Document, ResultEvidenceFails, EvidenceFails
  <1>7. ASSUME NEW p \in Process, NEW d \in Call, NEW choice \in Choices,
               ResolveApproval(p, d, choice)
        PROVE  Documented'
    <2>1. CASE ResolvedStatus[choice] = "approved"
      BY <1>7, <2>1, DocumentedKept DEF ResolveApproval
    <2>2. CASE ResolvedStatus[choice] # "approved"
      <3>1. /\ pc' = pc /\ job' = job
            /\ \A c \in Call \ {d} : toolCalls'[c] = toolCalls[c] /\ evidence'[c] = evidence[c]
            /\ toolCalls'[d] = "denied"
        BY <1>7, <2>2 DEF ResolveApproval, DenyToolCallForApproval, AddEvidence
      <3>2. toolCalls[d] # "denied"
        BY <1>7 DEF ResolveApproval, CallConsistent
      <3>3. "permission_denial" \in evidence'[d]
        BY <1>7, <2>2, <3>2 DEF ResolveApproval, DenyToolCallForApproval, AddEvidence
      <3>4. ASSUME NEW c \in Call, c # d, NEW status, NEW type, EvidenceFollows(c, status, type)
            PROVE  EvidenceFollows(c, status, type)'
        BY <3>1, <3>4 DEF EvidenceFollows
      <3>5. QED
        BY <3>1, <3>3, <3>4 DEF Documented, EvidenceFollows
    <2>3. QED
      BY <2>1, <2>2
  <1>8. ASSUME NEW p \in Process,
               SaveConfig(p) \/ \E d \in Call, choice \in Choices : RepeatAnswer(p, d, choice)
        PROVE  Documented'
    BY <1>8, DocumentedKept DEF SaveConfig, RepeatAnswer
  <1>9. ASSUME NEW p \in Process, CrashAndRestart(p) PROVE FALSE
    BY <1>9 DEF CrashAndRestart
  <1>10. CASE RecoverInterrupted
    BY <1>10, DocumentedKept DEF RecoverInterrupted
  <1>11. CASE UNCHANGED vars
    BY <1>11, DocumentedKept DEF vars
  <1>12. QED
    BY <1>1, <1>3, <1>4, <1>6, <1>7, <1>8, <1>9, <1>10, <1>11 DEF Next

(* Until a process dies, and as long as evidence can be written, a call that
   nobody works on any more has the evidence its status calls for. *)
THEOREM EvidenceIsWritten ==
  ASSUME ~EvidenceMayFail
  PROVE  Spec => [](crashes = 0 => OutcomeDocumented)
  <1> DEFINE Inv == crashes = 0 => Documented
  <1>1. Init => Inv
    BY DEF Init, Documented, EvidenceFollows
  <1>2. IInv /\ Inv /\ [Next]_vars => Inv'
    BY StepKeepsDocumented, CrashesGrow DEF IInv
  <1>3. Inv => (crashes = 0 => OutcomeDocumented)
    BY DEF Documented, EvidenceFollows, OutcomeDocumented, InFlight
  <1> HIDE DEF Inv
  <1>4. QED
    BY <1>1, <1>2, <1>3, Invariance, PTL DEF Spec


-----------------------------------------------------------------------------
(* Lasting answers, in one process that does not die                       *)

Lasting(c) == approvals[c].scope \in {"always", "never"}

(* Nobody but c has given a lasting answer for the tool of c. *)
OnlyOne(c) == \A d \in Call \ {c} : ToolOf[d] = ToolOf[c] => ~Lasting(d)

(* The policy of the process says what the lasting answers say.  Rules of
   the working directory only ever allow a tool, and only one somebody
   answered "always" for; none is ever written for a capability.           *)
PolicyFollows(p) ==
  LET local == policy[p].workspaceRules[Cwd[p]]
  IN  /\ \A a \in Capability : local[a] = "unset"
      /\ \A t \in Tool :
           (\A c \in Call : ToolOf[c] = t => ~Lasting(c)) => local[t] = "unset"
      /\ \A c \in Call : OnlyOne(c) =>
           /\ approvals[c].scope = "never" =>
                local[ToolOf[c]] = "unset" /\ policy[p].rules[ToolOf[c]] = "deny"
           /\ approvals[c].scope = "always" =>
                local[ToolOf[c]] \in {"unset", "allow"} /\ policy[p].rules[ToolOf[c]] = "allow"

AnsweredOnce ==
  \A c \in Call : approvals[c].status \in {"none", "pending"} => approvals[c].scope = "once"

(* What the choice at the prompt writes. *)
LEMMA ChoiceWrites ==
  ASSUME NEW pol \in PermissionPolicy, NEW t \in Tool, NEW cwd \in Directory,
         NEW choice \in Choices, NEW new, new = ChoiceRule(pol, cwd, t, choice)
  PROVE  /\ \A x \in Target \ {t} : /\ new.workspaceRules[cwd][x] = pol.workspaceRules[cwd][x]
                                    /\ new.rules[x] = pol.rules[x]
         /\ ResolvedScope[choice] = "once" => new = pol
         /\ ResolvedScope[choice] = "never" =>
              /\ new.workspaceRules[cwd][t] = pol.workspaceRules[cwd][t]
              /\ new.rules[t] = "deny"
         /\ ResolvedScope[choice] = "always" =>
              /\ new.workspaceRules[cwd][t] \in {pol.workspaceRules[cwd][t], "allow"}
              /\ new.rules[t] \in {pol.rules[t], "allow"}
  <1>1. t \in Target /\ "allow" \in Decision /\ "deny" \in Decision
    BY DEF Target, Decision
  <1>2. /\ \A r \in Rules, d \in Decision : /\ [r EXCEPT ![t] = d][t] = d
                                            /\ \A x \in Target \ {t} : [r EXCEPT ![t] = d][x] = r[x]
    BY <1>1 DEF Rules
  <1>3. choice \in ApprovalChoice
    BY ConstantsAssumption
  <1>4. CASE choice \in {"allow once", "deny", "expire"}
    <2>1. new = pol /\ ResolvedScope[choice] = "once"
      BY <1>3, <1>4 DEF ChoiceRule, ResolvedScope
    <2>2. QED
      BY <2>1
  <1>5. CASE choice = "workspace"
    <2>1. new = SetWorkspaceRule(pol, cwd, t, "allow") /\ ResolvedScope[choice] = "always"
      BY <1>3, <1>5 DEF ChoiceRule, ResolvedScope
    <2>2. /\ new.rules = pol.rules
          /\ new.workspaceRules[cwd] = [pol.workspaceRules[cwd] EXCEPT ![t] = "allow"]
          /\ pol.workspaceRules[cwd] \in Rules
      BY <1>1, <2>1 DEF PermissionPolicy, SetWorkspaceRule
    <2>3. /\ \A x \in Target \ {t} : new.workspaceRules[cwd][x] = pol.workspaceRules[cwd][x]
          /\ new.workspaceRules[cwd][t] = "allow"
      BY <1>1, <1>2, <2>2
    <2>4. QED
      BY <2>1, <2>2, <2>3
  <1>6. CASE choice = "always"
    <2>1. new = SetPermissionRule(pol, t, "allow") /\ ResolvedScope[choice] = "always"
      BY <1>3, <1>6 DEF ChoiceRule, ResolvedScope
    <2>2. /\ new.workspaceRules = pol.workspaceRules
          /\ new.rules = [pol.rules EXCEPT ![t] = "allow"]
          /\ pol.rules \in Rules
      BY <1>1, <2>1 DEF PermissionPolicy, SetPermissionRule
    <2>3. /\ \A x \in Target \ {t} : new.rules[x] = pol.rules[x]
          /\ new.rules[t] = "allow"
      BY <1>1, <1>2, <2>2
    <2>4. QED
      BY <2>1, <2>2, <2>3
  <1>7. CASE choice = "never"
    <2>1. new = SetPermissionRule(pol, t, "deny") /\ ResolvedScope[choice] = "never"
      BY <1>3, <1>7 DEF ChoiceRule, ResolvedScope
    <2>2. /\ new.workspaceRules = pol.workspaceRules
          /\ new.rules = [pol.rules EXCEPT ![t] = "deny"]
          /\ pol.rules \in Rules
      BY <1>1, <2>1 DEF PermissionPolicy, SetPermissionRule
    <2>3. /\ \A x \in Target \ {t} : new.rules[x] = pol.rules[x]
          /\ new.rules[t] = "deny"
      BY <1>1, <1>2, <2>2
    <2>4. QED
      BY <2>1, <2>2, <2>3
  <1>8. QED
    BY <1>3, <1>4, <1>5, <1>6, <1>7 DEF ApprovalChoice

(* What the service writes for the scope of an answer. *)
LEMMA ScopeWrites ==
  ASSUME NEW pol \in PermissionPolicy, NEW t \in Tool, NEW scope \in DecisionScope
  PROVE  LET new == ScopeRule(pol, t, scope)
         IN  /\ new \in PermissionPolicy
             /\ new.workspaceRules = pol.workspaceRules
             /\ \A x \in Target \ {t} : new.rules[x] = pol.rules[x]
             /\ scope = "once" => new = pol
             /\ scope = "never" => new.rules[t] = "deny"
             /\ scope = "always" => new.rules[t] = "allow"
  <1> DEFINE new == ScopeRule(pol, t, scope)
  <1>1. t \in Target /\ "allow" \in Decision /\ "deny" \in Decision
    BY DEF Target, Decision
  <1>2. /\ \A r \in Rules, d \in Decision : /\ [r EXCEPT ![t] = d][t] = d
                                            /\ \A x \in Target \ {t} : [r EXCEPT ![t] = d][x] = r[x]
    BY <1>1 DEF Rules
  <1>3. pol.rules \in Rules
    BY DEF PermissionPolicy
  <1>4. ASSUME NEW d \in Decision
        PROVE  /\ SetPermissionRule(pol, t, d) \in PermissionPolicy
               /\ SetPermissionRule(pol, t, d).workspaceRules = pol.workspaceRules
               /\ SetPermissionRule(pol, t, d).rules = [pol.rules EXCEPT ![t] = d]
    <2>1. PICK q \in [Directory -> Rules] : pol.workspaceRules = q
      BY DEF PermissionPolicy
    <2>2. /\ SetPermissionRule(pol, t, d).workspaceRules = pol.workspaceRules
          /\ SetPermissionRule(pol, t, d).rules = [pol.rules EXCEPT ![t] = d]
      BY DEF PermissionPolicy, SetPermissionRule
    <2>3. [pol.rules EXCEPT ![t] = d] \in Rules
      BY <1>1, <1>3 DEF Rules, Rule
    <2>4. SetPermissionRule(pol, t, d)
            = [rules |-> [pol.rules EXCEPT ![t] = d], workspaceRules |-> pol.workspaceRules]
      BY DEF PermissionPolicy, SetPermissionRule
    <2>5. QED
      BY <2>1, <2>2, <2>3, <2>4 DEF PermissionPolicy
  <1>5. ASSUME NEW d \in Decision, new = SetPermissionRule(pol, t, d)
        PROVE  /\ new \in PermissionPolicy
               /\ new.workspaceRules = pol.workspaceRules
               /\ \A x \in Target \ {t} : new.rules[x] = pol.rules[x]
               /\ new.rules[t] = d
    <2>1. /\ new \in PermissionPolicy
          /\ new.workspaceRules = pol.workspaceRules
          /\ new.rules = [pol.rules EXCEPT ![t] = d]
      BY <1>4, <1>5, Zenon
    <2>2. QED
      BY <1>2, <1>3, <2>1
  <1>6. CASE scope = "once"
    BY <1>6 DEF ScopeRule
  <1>7. CASE scope = "always"
    BY <1>1, <1>5, <1>7 DEF ScopeRule
  <1>8. CASE scope = "never"
    BY <1>1, <1>5, <1>8 DEF ScopeRule
  <1>9. QED
    BY <1>6, <1>7, <1>8 DEF DecisionScope

(* An answer, first given or repeated, leaves the policy with the rule it
   stands for. *)
LEMMA AnswerKeepsPolicy ==
  ASSUME IInv, AnsweredOnce, NEW p \in Process, NEW c \in Call, NEW choice \in Choices,
         PolicyFollows(p), ResolveApproval(p, c, choice) \/ RepeatAnswer(p, c, choice)
  PROVE  PolicyFollows(p)'
  <1> DEFINE t     == ToolOf[c]
             cwd   == Cwd[p]
             local == policy[p].workspaceRules[cwd]
             next  == policy'[p].workspaceRules[cwd]
             scope == ResolvedScope[choice]
             mid   == ScopeRule(policy[p], t, scope)
  <1>1. policy[p] \in PermissionPolicy /\ cwd \in Directory /\ t \in Tool /\ scope \in DecisionScope
    BY ConstantsAssumption, ResolutionType DEF IInv, TypeOK
  <1>2. /\ approvals'[c].scope = scope
        /\ \A d \in Call \ {c} : approvals'[d] = approvals[d]
        /\ \/ approvals' = approvals
           \/ approvals[c].scope = "once"
    BY DEF ResolveApproval, RepeatAnswer, IInv, TypeOK, AnsweredOnce, durable
  <1>3. /\ \A x \in Target \ {t} : next[x] = local[x]
        /\ scope = "once" => next[t] = local[t] /\ policy'[p].rules[t] = policy[p].rules[t]
        /\ scope = "never" => next[t] = local[t] /\ policy'[p].rules[t] = "deny"
        /\ scope = "always" =>
             /\ next[t] \in {local[t], "allow"}
             /\ policy'[p].rules[t] = "allow" \/
                (approvals' = approvals /\ policy'[p].rules[t] = policy[p].rules[t])
        /\ \A x \in Target \ {t} : policy'[p].rules[x] = policy[p].rules[x]
    <2>1. CASE ResolveApproval(p, c, choice)
      <3>1. policy'[p] = ChoiceRule(mid, cwd, t, choice)
        BY <2>1 DEF ResolveApproval, IInv, TypeOK
      <3>2. /\ mid \in PermissionPolicy
            /\ mid.workspaceRules = policy[p].workspaceRules
            /\ \A x \in Target \ {t} : mid.rules[x] = policy[p].rules[x]
            /\ scope = "once" => mid = policy[p]
            /\ scope = "never" => mid.rules[t] = "deny"
            /\ scope = "always" => mid.rules[t] = "allow"
        BY <1>1, ScopeWrites
      <3> HIDE DEF mid
      <3>3. /\ \A x \in Target \ {t} : /\ next[x] = mid.workspaceRules[cwd][x]
                                       /\ policy'[p].rules[x] = mid.rules[x]
            /\ scope = "once" => policy'[p] = mid
            /\ scope = "never" => /\ next[t] = mid.workspaceRules[cwd][t]
                                  /\ policy'[p].rules[t] = "deny"
            /\ scope = "always" => /\ next[t] \in {mid.workspaceRules[cwd][t], "allow"}
                                   /\ policy'[p].rules[t] \in {mid.rules[t], "allow"}
        <4>1. PICK m \in PermissionPolicy : m = mid
          BY <3>2
        <4>2. policy'[p] = ChoiceRule(m, cwd, t, choice)
          BY <3>1, <4>1
        <4>3. QED
          BY <1>1, <4>1, <4>2, ChoiceWrites
      <3>4. QED
        BY <3>2, <3>3
    <2>2. CASE RepeatAnswer(p, c, choice)
      <3>1. policy'[p] = ChoiceRule(policy[p], cwd, t, choice) /\ approvals' = approvals
        BY <2>2 DEF RepeatAnswer, IInv, TypeOK, durable
      <3>2. PICK old \in PermissionPolicy : old = policy[p]
        BY <1>1
      <3>3. policy'[p] = ChoiceRule(old, cwd, t, choice)
        BY <3>1, <3>2
      <3>4. /\ \A x \in Target \ {t} : /\ next[x] = old.workspaceRules[cwd][x]
                                       /\ policy'[p].rules[x] = old.rules[x]
            /\ scope = "once" => policy'[p] = old
            /\ scope = "never" => /\ next[t] = old.workspaceRules[cwd][t]
                                  /\ policy'[p].rules[t] = "deny"
            /\ scope = "always" => /\ next[t] \in {old.workspaceRules[cwd][t], "allow"}
                                   /\ policy'[p].rules[t] \in {old.rules[t], "allow"}
        BY <1>1, <3>3, ChoiceWrites
      <3>5. QED
        BY <3>1, <3>2, <3>4
    <2>3. QED
      BY <2>1, <2>2
  <1>4. t \in Target /\ Capability \subseteq Target /\ Tool \subseteq Target /\ t \notin Capability
    BY <1>1, TargetsAssumption DEF Target
  <1>5. \A d \in Call : ToolOf[d] \in Tool
    BY ConstantsAssumption
  <1>6. \A a \in Capability : next[a] = "unset"
    BY <1>3, <1>4 DEF PolicyFollows
  <1>7. ASSUME NEW s \in Tool, \A d \in Call : ToolOf[d] = s => ~Lasting(d)'
        PROVE  next[s] = "unset"
    <2>1. \A d \in Call : ToolOf[d] = s => ~Lasting(d)
      BY <1>2, <1>7 DEF Lasting
    <2>2. local[s] = "unset"
      BY <2>1 DEF PolicyFollows
    <2>3. s = t => scope = "once"
      BY <1>1, <1>2, <1>7 DEF Lasting, DecisionScope
    <2>4. QED
      BY <1>3, <1>4, <2>2, <2>3
  <1>8. ASSUME NEW d \in Call, OnlyOne(d)'
        PROVE  /\ approvals'[d].scope = "never" =>
                    next[ToolOf[d]] = "unset" /\ policy'[p].rules[ToolOf[d]] = "deny"
               /\ approvals'[d].scope = "always" =>
                    /\ next[ToolOf[d]] \in {"unset", "allow"}
                    /\ policy'[p].rules[ToolOf[d]] = "allow"
    <2>1. OnlyOne(d)
      BY <1>2, <1>8 DEF OnlyOne, Lasting
    <2>2. CASE d = c
      <3>1. CASE approvals' = approvals
        BY <1>2, <1>3, <2>1, <2>2, <3>1 DEF PolicyFollows
      <3>2. CASE approvals[c].scope = "once"
        <4>1. local[t] = "unset"
          BY <1>5, <2>1, <2>2, <3>2 DEF PolicyFollows, OnlyOne, Lasting
        <4>2. CASE approvals' # approvals
          BY <1>2, <1>3, <2>2, <4>1, <4>2
        <4>3. QED
          BY <3>1, <4>2
      <3>3. QED
        BY <1>2, <3>1, <3>2
    <2>3. CASE d # c /\ ToolOf[d] # t
      <3>1. approvals'[d] = approvals[d]
        BY <1>2, <2>3
      <3>2. ToolOf[d] \in Target \ {t}
        BY <1>4, <1>5, <2>3
      <3>3. next[ToolOf[d]] = local[ToolOf[d]] /\ policy'[p].rules[ToolOf[d]] = policy[p].rules[ToolOf[d]]
        BY <1>3, <3>2
      <3>4. /\ approvals[d].scope = "never" =>
                  local[ToolOf[d]] = "unset" /\ policy[p].rules[ToolOf[d]] = "deny"
            /\ approvals[d].scope = "always" =>
                  /\ local[ToolOf[d]] \in {"unset", "allow"}
                  /\ policy[p].rules[ToolOf[d]] = "allow"
        BY <2>1 DEF PolicyFollows
      <3>5. QED
        BY <3>1, <3>3, <3>4
    <2>4. CASE d # c /\ ToolOf[d] = t
      <3>1. scope = "once"
        BY <1>1, <1>2, <1>8, <2>4 DEF OnlyOne, Lasting, DecisionScope
      <3>2. QED
        BY <1>2, <1>3, <2>1, <2>4, <3>1 DEF PolicyFollows
    <2>5. QED
      BY <2>2, <2>3, <2>4
  <1>9. QED
    BY <1>6, <1>7, <1>8 DEF PolicyFollows

(* A step that is no answer changes neither the scopes nor, as long as
   nothing dies, the policy. *)
LEMMA OthersKeepPolicy ==
  ASSUME IInv, AnsweredOnce, [Next]_vars, crashes' = 0,
         ~ \E p \in Process, c \in Call, choice \in Choices :
             ResolveApproval(p, c, choice) \/ RepeatAnswer(p, c, choice)
  PROVE  /\ policy' = policy
         /\ \A c \in Call : approvals'[c].scope = approvals[c].scope
         /\ AnsweredOnce'
  <1> USE DEF IInv, TypeOK, durable, policies
  <1>1. ASSUME NEW w \in Worker, CreateApproval(w)
        PROVE  /\ policy' = policy
               /\ \A c \in Call : approvals'[c].scope = approvals[c].scope
               /\ AnsweredOnce'
    <2>1. approvals[job[w]].status = "none" /\ approvals[job[w]].scope = "once"
      BY <1>1, DecidingIsAsked DEF CreateApproval, AnsweredOnce
    <2>2. QED
      BY <1>1, <2>1 DEF CreateApproval, AnsweredOnce
  <1>2. CASE policy' = policy /\ approvals' = approvals
    BY <1>2 DEF AnsweredOnce
  <1>3. \/ policy' = policy /\ approvals' = approvals
        \/ \E w \in Worker : CreateApproval(w)
    <2>1. ASSUME NEW w \in Worker, NEW c \in Call, CreateToolCall(w, c) \/ RunApproved(w, c)
          PROVE  policy' = policy /\ approvals' = approvals
      BY <2>1 DEF CreateToolCall, RunApproved
    <2>2. ASSUME NEW w \in Worker, Enqueue(w), ~CreateApproval(w)
          PROVE  policy' = policy /\ approvals' = approvals
      BY <2>2 DEF Enqueue, RejectInput, MarkApprovalRequired, DenyToolCall, AllowToolCall
    <2>3. ASSUME NEW w \in Worker, Execute(w)
          PROVE  policy' = policy /\ approvals' = approvals
      BY <2>3 DEF Execute, MarkRunning, ClaimLost, ToolSucceeds, ToolFails, ToolTimesOut,
                  FailToolCall
    <2>4. ASSUME NEW w \in Worker, Document(w)
          PROVE  policy' = policy /\ approvals' = approvals
      BY <2>4 DEF Document, RecordEvidence, ResultEvidenceFails, EvidenceFails, FailToolCall
    <2>5. ASSUME NEW p \in Process, SaveConfig(p) \/ CrashAndRestart(p)
          PROVE  policy' = policy /\ approvals' = approvals
      BY <2>5 DEF SaveConfig, CrashAndRestart
    <2>6. ASSUME RecoverInterrupted \/ UNCHANGED vars
          PROVE  policy' = policy /\ approvals' = approvals
      BY <2>6 DEF RecoverInterrupted, vars
    <2>7. QED
      BY <2>1, <2>2, <2>3, <2>4, <2>5, <2>6 DEF Next
  <1>4. QED
    BY <1>1, <1>2, <1>3

(* The policy follows the lasting answers as long as nothing dies. *)
LEMMA StepKeepsPolicy ==
  ASSUME IInv, AnsweredOnce, NEW p, Process = {p}, PolicyFollows(p), [Next]_vars, crashes' = 0
  PROVE  AnsweredOnce' /\ PolicyFollows(p)'
  <1>1. ASSUME NEW c \in Call, NEW choice \in Choices,
               ResolveApproval(p, c, choice) \/ RepeatAnswer(p, c, choice)
        PROVE  AnsweredOnce' /\ PolicyFollows(p)'
    <2>1. AnsweredOnce'
      <3>1. CASE ResolveApproval(p, c, choice)
        <4>1. approvals' = [approvals EXCEPT ![c] = [status |-> ResolvedStatus[choice],
                                                     scope |-> ResolvedScope[choice]]]
          BY <3>1 DEF ResolveApproval
        <4>2. /\ approvals'[c].status = ResolvedStatus[choice]
              /\ \A d \in Call \ {c} : approvals'[d] = approvals[d]
          BY <4>1 DEF IInv, TypeOK
        <4>3. ResolvedStatus[choice] \notin {"none", "pending"}
          BY ResolutionType
        <4>4. QED
          BY <4>2, <4>3 DEF AnsweredOnce
      <3>2. CASE RepeatAnswer(p, c, choice)
        <4>1. approvals' = approvals
          BY <3>2 DEF RepeatAnswer, durable
        <4>2. QED
          BY <4>1 DEF AnsweredOnce
      <3>3. QED
        BY <1>1, <3>1, <3>2
    <2>2. QED
      BY <1>1, <2>1, AnswerKeepsPolicy
  <1>2. CASE ~ \E q \in Process, c \in Call, choice \in Choices :
                 ResolveApproval(q, c, choice) \/ RepeatAnswer(q, c, choice)
    <2>1. /\ policy' = policy
          /\ \A c \in Call : approvals'[c].scope = approvals[c].scope
          /\ AnsweredOnce'
      BY <1>2, OthersKeepPolicy
    <2>2. QED
      BY <2>1 DEF PolicyFollows, OnlyOne, Lasting
  <1>3. QED
    BY <1>1, <1>2

(* In one process that does not die, "never" denies and "always" allows the
   tool from then on, whatever its capability says and whatever is answered
   for other tools, as long as nobody answers differently for this tool. *)
THEOREM LastingAnswers ==
  ASSUME NEW p, Process = {p}
  PROVE  Spec => [](crashes = 0 => LastingAnswerBinds)
  <1> DEFINE Inv == crashes = 0 => AnsweredOnce /\ PolicyFollows(p)
  <1>1. Init => Inv
    <2> SUFFICES ASSUME Init PROVE AnsweredOnce /\ PolicyFollows(p)
      OBVIOUS
    <2>1. p \in Process /\ Cwd[p] \in Directory
      BY ConstantsAssumption
    <2>2. \A t \in Target : policy[p].workspaceRules[Cwd[p]][t] = "unset"
      BY <2>1 DEF Init, NoRules
    <2>3. \A c \in Call : approvals[c].scope = "once"
      BY DEF Init
    <2>4. QED
      BY <2>2, <2>3 DEF AnsweredOnce, PolicyFollows, Target
  <1>2. IInv /\ Inv /\ [Next]_vars => Inv'
    BY StepKeepsPolicy, CrashesGrow DEF IInv
  <1>3. ASSUME PolicyFollows(p) PROVE LastingAnswerBinds
    <2> SUFFICES ASSUME NEW c \in Call, OnlyOne(c)
                 PROVE  LET decision == DecidePermission(policy[p], ToolOf[c],
                                                         CapabilityOf[ToolOf[c]], Cwd[p])
                        IN  /\ approvals[c].scope = "never"  => decision = "deny"
                            /\ approvals[c].scope = "always" => decision = "allow"
      BY DEF LastingAnswerBinds, OnlyOne, Lasting
    <2>1. CapabilityOf[ToolOf[c]] \in Capability
      BY ConstantsAssumption
    <2>2. QED
      BY <1>3, <2>1 DEF PolicyFollows, DecidePermission, FirstSet
  <1>4. Inv => (crashes = 0 => LastingAnswerBinds)
    BY <1>3
  <1> HIDE DEF Inv
  <1>5. QED
    BY <1>1, <1>2, <1>4, Invariance, PTL DEF Spec

=============================================================================
