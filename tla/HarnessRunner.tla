--------------------------- MODULE HarnessRunner ---------------------------
(***************************************************************************)
(* One durable run: HarnessRunner (harness/runner.ts) and the requests the *)
(* command line and the web console send it (cli.ts).  A turn asks the     *)
(* model, runs the tool calls of its answer, and goes on until the model   *)
(* asks for none or a call needs a person.  Whoever gives the last missing *)
(* approval rebuilds the conversation from the stored rows and goes on     *)
(* from there.                                                             *)
(*                                                                         *)
(* Everything runs in one JavaScript process: a thread that has not        *)
(* reached an await keeps every other one out.  `busy` is that thread.  A  *)
(* step is one database transaction, so a crash may fall between any two.  *)
(*                                                                         *)
(* Left out: steps, snapshots, events and usage counters, which no guard   *)
(* reads; system and user messages; the trimming of contexts that do not   *)
(* fit the window; the loop protection, which is off by default; and what  *)
(* happens inside the tool queue between two transactions, which is module *)
(* ToolQueue.                                                              *)
(***************************************************************************)
EXTENDS Naturals, Sequences, FiniteSets, Selection

CONSTANTS
  Turn,           \* the thread of runTurn
  Surface,        \* threads of the web routes and of the commands
  NoThread,
  MaxCalls,       \* bound: tool calls the model asks for in one run
  MaxParallel,    \* bound: tool calls in one answer of the model
  MaxToolRounds,  \* config.maxToolRounds; 0 is no limit
  Settings        \* what may happen to the run, one of these in a behaviour

Thread == Surface \cup {Turn}
Call   == 1..MaxCalls
RequestKind == {"resume", "heal", "cancel", "command", "repeat"}

(* What a person answers, and the answers that also change the policy. *)
Decision == {"allow once", "always", "deny", "never"}
Allowing == {"allow once", "always"}
Lasting  == {"always", "never"}

ASSUME RunnerAssumption ==
  /\ Turn \notin Surface
  /\ NoThread \notin Thread
  /\ MaxCalls \in Nat /\ MaxParallel \in Nat \ {0}
  /\ MaxToolRounds \in Nat
  /\ Settings \subseteq
       [offered: SUBSET Decision, requests: SUBSET RequestKind, crashes: Nat]

VARIABLES
  (* durable *)
  run,        \* runs.status, or "absent"
  rows,       \* the assistant and tool rows of the run, oldest first
  toolCalls,  \* tool_calls.status, or "absent"
  approvals,  \* "none", "pending", or the answer: status and decision_scope
  (* volatile *)
  busy,       \* the thread between two awaits
  pc,         \* where each thread is
  context,    \* `messages` of each loop
  work,       \* the calls of the round that are still to be run
  waiting,    \* waitingForApproval of the round
  unsaved,    \* messagesToPersist
  job,        \* the call whose approval a surface answered, or 0
  (* history and bounds *)
  setting,    \* what may happen in this behaviour; never changes
  asked,      \* how many calls the model asked for
  started,    \* the calls whose tool was started
  crashes

durable  == <<run, rows, toolCalls, approvals>>
loop     == <<context, work, waiting, unsaved>>
history  == <<asked, started, crashes, setting>>
vars == <<durable, busy, pc, loop, job, history>>

Offered    == setting.offered   \* the decisions people take on approvals
Requests   == setting.requests  \* what people send besides them
MaxCrashes == setting.crashes   \* bound: crashes of the process

RunStatus == {"created", "running", "waiting_for_approval", "succeeded", "failed",
              "canceled", "interrupted"}
TerminalRun  == {"succeeded", "failed", "canceled", "interrupted"}
(* No surface of the program makes a call "canceled" or "interrupted". *)
TerminalCall == {"succeeded", "failed", "denied"}
CallStatus   == {"absent", "approval_required", "running"} \cup TerminalCall

(* An assistant row "asks" for calls (none: it is the final answer).  A tool
   row is for one call: the placeholder stored while approval is awaited,
   the outcome, or the fallback "approved but never executed".             *)
Answer  == {"outcome", "fallback"}
Message == [kind : {"asks", "placeholder"} \cup Answer, calls : SUBSET Call]
Asks(calls)   == [kind |-> "asks", calls |-> calls]
Tool(kind, c) == [kind |-> kind, calls |-> {c}]

(* "begin" ... "check" run under `busy`; the others wait for something. *)
Awaiting == {"idle", "model", "tool", "saving", "approved_tool"}
Section  == {"begin", "request", "finish", "fail", "abort", "calls", "record",
             "answered", "check", "resume", "persist", "heal"}

TypeOK ==
  /\ setting \in Settings
  /\ run \in RunStatus \cup {"absent"}
  /\ rows \in Seq(Message)
  /\ toolCalls \in [Call -> CallStatus]
  /\ approvals \in [Call -> {"none", "pending"} \cup Decision]
  /\ busy \in Thread \cup {NoThread}
  /\ pc \in [Thread -> Awaiting \cup Section]
  /\ context \in [Thread -> Seq(Message)]
  /\ work \in [Thread -> SUBSET Call]
  /\ waiting \in [Thread -> BOOLEAN]
  /\ unsaved \in [Thread -> Seq(Message)]
  /\ job \in [Thread -> Call \cup {0}]
  /\ asked \in 0..MaxCalls
  /\ started \subseteq Call
  /\ crashes \in 0..MaxCrashes
  /\ \A t \in Thread : pc[t] \in Section <=> busy = t

Init ==
  /\ setting \in Settings
  /\ run = "absent"
  /\ rows = <<>>
  /\ toolCalls = [c \in Call |-> "absent"]
  /\ approvals = [c \in Call |-> "none"]
  /\ busy = NoThread
  /\ pc = [t \in Thread |-> "idle"]
  /\ context = [t \in Thread |-> <<>>]
  /\ work = [t \in Thread |-> {}]
  /\ waiting = [t \in Thread |-> FALSE]
  /\ unsaved = [t \in Thread |-> <<>>]
  /\ job = [t \in Thread |-> 0]
  /\ asked = 0
  /\ started = {}
  /\ crashes = 0

-----------------------------------------------------------------------------
(* Moving a thread.  Enter takes the event loop, Await and Leave give it   *)
(* up.                                                                     *)

Enter(t, label) ==
  /\ busy = NoThread
  /\ busy' = t
  /\ pc' = [pc EXCEPT ![t] = label]

Goto(t, label) ==
  /\ pc' = [pc EXCEPT ![t] = label]
  /\ UNCHANGED busy

(* Mutant: the event loop is never given up. *)
Await_Blocks(t, label) == Goto(t, label)

Await(t, label) ==
  /\ pc' = [pc EXCEPT ![t] = label]
  /\ busy' = NoThread

Leave(t) ==
  /\ Await(t, "idle")
  /\ context' = [context EXCEPT ![t] = <<>>]
  /\ work' = [work EXCEPT ![t] = {}]
  /\ waiting' = [waiting EXCEPT ![t] = FALSE]
  /\ unsaved' = [unsaved EXCEPT ![t] = <<>>]
  /\ job' = [job EXCEPT ![t] = 0]

(* A message goes to the rows and to the conversation of the loop. *)
AddMessage(t, message) ==
  /\ rows' = Append(rows, message)
  /\ context' = [context EXCEPT ![t] = Append(@, message)]

(* Mutant: the wrong assistant messages are counted. *)
ToolRounds_Final(messages) ==
  Cardinality({i \in DOMAIN messages : messages[i].kind = "asks" /\ messages[i].calls = {}})

ToolRounds(messages) ==
  Cardinality({i \in DOMAIN messages : messages[i].kind = "asks" /\ messages[i].calls # {}})

-----------------------------------------------------------------------------
(* runTurn                                                                 *)

CreateRun ==
  /\ run = "absent"
  /\ run' = "created"
  /\ Enter(Turn, "begin")
  /\ UNCHANGED <<rows, toolCalls, approvals, loop, job, history>>

BeginTurn ==
  /\ pc[Turn] = "begin"
  /\ run' = "running"
  /\ Goto(Turn, "request")
  /\ UNCHANGED <<rows, toolCalls, approvals, loop, job, history>>

-----------------------------------------------------------------------------
(* continueRun                                                             *)

(* The head of the loop; a resumed run may be past its last round. *)
RequestModel(t) ==
  /\ pc[t] = "request"
  /\ IF MaxToolRounds > 0 /\ ToolRounds(context[t]) > MaxToolRounds
     THEN Goto(t, "fail")
     ELSE Await(t, "model")
  /\ UNCHANGED <<durable, loop, job, history>>

ModelAnswers(t, n) ==
  LET calls == (asked + 1)..(asked + n)
  IN  /\ pc[t] = "model"
      /\ asked + n <= MaxCalls
      /\ asked' = asked + n
      /\ AddMessage(t, Asks(calls))
      /\ Enter(t, IF n = 0 THEN "finish"
                  ELSE IF MaxToolRounds > 0 /\ ToolRounds(context[t]) >= MaxToolRounds
                  THEN "fail" ELSE "calls")
      /\ work' = [work EXCEPT ![t] = calls]
      /\ waiting' = [waiting EXCEPT ![t] = FALSE]
      /\ UNCHANGED <<run, toolCalls, approvals, unsaved, job, started, crashes, setting>>

ModelFails(t) ==
  /\ pc[t] = "model"
  /\ Enter(t, "fail")
  /\ UNCHANGED <<durable, loop, job, history>>

(* Only runTurn is given a signal. *)
ModelAborted ==
  /\ pc[Turn] = "model"
  /\ Enter(Turn, "abort")
  /\ UNCHANGED <<durable, loop, job, history>>

(* Whatever the status has become meanwhile, it is overwritten. *)
EndRun(t, label, status) ==
  /\ pc[t] = label
  /\ run' = status
  /\ Leave(t)
  /\ UNCHANGED <<rows, toolCalls, approvals, history>>

Finish(t)    == EndRun(t, "finish", "succeeded")
Fail(t)      == EndRun(t, "fail", "failed")
Interrupt(t) == EndRun(t, "abort", "interrupted")

-----------------------------------------------------------------------------
(* The calls of one round, one after the other                             *)

NextCall(t) == CHOOSE c \in work[t] : \A d \in work[t] : c <= d

(* Unknown tool, unreadable arguments, input that does not fit, or a policy
   that denies: the queue answers without waiting for anything.            *)
RefuseToolCall(t) ==
  /\ pc[t] = "calls" /\ work[t] # {}
  /\ \E status \in {"absent", "failed", "denied"} :
       toolCalls' = [toolCalls EXCEPT ![NextCall(t)] = status]
  /\ Goto(t, "record")
  /\ UNCHANGED <<run, rows, approvals, loop, job, history>>

AskForApproval(t) ==
  /\ pc[t] = "calls" /\ work[t] # {}
  /\ toolCalls' = [toolCalls EXCEPT ![NextCall(t)] = "approval_required"]
  /\ approvals' = [approvals EXCEPT ![NextCall(t)] = "pending"]
  /\ Goto(t, "record")
  /\ UNCHANGED <<run, rows, loop, job, history>>

StartTool(t) ==
  /\ pc[t] = "calls" /\ work[t] # {}
  /\ toolCalls' = [toolCalls EXCEPT ![NextCall(t)] = "running"]
  /\ started' = started \cup {NextCall(t)}
  /\ Await(t, "tool")
  /\ UNCHANGED <<run, rows, approvals, loop, job, asked, crashes, setting>>

ToolReturns(t) ==
  /\ pc[t] = "tool"
  /\ \E status \in {"succeeded", "failed"} :
       toolCalls' = [toolCalls EXCEPT ![NextCall(t)] = status]
  /\ Enter(t, "record")
  /\ UNCHANGED <<run, rows, approvals, loop, job, history>>

RecordToolMessage(t) ==
  LET c == NextCall(t)
      asks == toolCalls[c] = "approval_required"
  IN  /\ pc[t] = "record"
      /\ AddMessage(t, Tool(IF asks THEN "placeholder" ELSE "outcome", c))
      /\ work' = [work EXCEPT ![t] = @ \ {c}]
      /\ waiting' = [waiting EXCEPT ![t] = @ \/ asks]
      /\ Goto(t, "calls")
      /\ UNCHANGED <<run, toolCalls, approvals, unsaved, job, history>>

NextRound(t) ==
  /\ pc[t] = "calls" /\ work[t] = {} /\ ~waiting[t]
  /\ Goto(t, "request")
  /\ UNCHANGED <<durable, loop, job, history>>

(* Mutant: the loop does not return to wait. *)
WaitForApproval_GoesOn(t) ==
  /\ pc[t] = "calls" /\ work[t] = {} /\ waiting[t]
  /\ run' = "waiting_for_approval"
  /\ Goto(t, "request")
  /\ UNCHANGED <<rows, toolCalls, approvals, loop, job, history>>

WaitForApproval(t) ==
  /\ pc[t] = "calls" /\ work[t] = {} /\ waiting[t]
  /\ run' = "waiting_for_approval"
  /\ Leave(t)
  /\ UNCHANGED <<rows, toolCalls, approvals, history>>

-----------------------------------------------------------------------------
(* The web route and the command that answer an approval                   *)

(* An answer given before is accepted again, and changes no row. *)
AnswerApproval(t, c, decision) ==
  /\ pc[t] = "idle" /\ busy = NoThread
  /\ \/ approvals[c] = "pending"
     \/ "repeat" \in Requests /\ approvals[c] = decision
  /\ approvals' = [approvals EXCEPT ![c] = decision]
  /\ toolCalls' = IF decision \in Allowing THEN toolCalls ELSE [toolCalls EXCEPT ![c] = "denied"]
  /\ job' = [job EXCEPT ![t] = c]
  /\ IF decision \in Lasting THEN Await(t, "saving") ELSE Enter(t, "answered")
  /\ UNCHANGED <<run, rows, loop, history>>

ConfigSaved(t) ==
  /\ pc[t] = "saving"
  /\ Enter(t, "answered")
  /\ UNCHANGED <<durable, loop, job, history>>

(* Mutant: the approved tool is started and not awaited. *)
RunApproved_NotAwaited(t) ==
  /\ pc[t] = "answered"
  /\ approvals[job[t]] \in Allowing
  /\ toolCalls[job[t]] = "approval_required"
  /\ toolCalls' = [toolCalls EXCEPT ![job[t]] = "running"]
  /\ started' = started \cup {job[t]}
  /\ Goto(t, "check")
  /\ UNCHANGED <<run, rows, approvals, loop, job, asked, crashes, setting>>

RunApproved(t) ==
  /\ pc[t] = "answered"
  /\ approvals[job[t]] \in Allowing
  /\ toolCalls[job[t]] = "approval_required"
  /\ toolCalls' = [toolCalls EXCEPT ![job[t]] = "running"]
  /\ started' = started \cup {job[t]}
  /\ Await(t, "approved_tool")
  /\ UNCHANGED <<run, rows, approvals, loop, job, asked, crashes, setting>>

(* The call is running already: runApproved throws, the request ends. *)
RunApprovedThrows(t) ==
  /\ pc[t] = "answered"
  /\ approvals[job[t]] \in Allowing
  /\ toolCalls[job[t]] = "running"
  /\ Leave(t)
  /\ UNCHANGED <<durable, history>>

(* Denied, or settled and replayed, or the tool is not registered any more. *)
NothingToRun(t) ==
  /\ pc[t] = "answered"
  /\ Goto(t, "check")
  /\ UNCHANGED <<durable, loop, job, history>>

ApprovedToolReturns(t) ==
  /\ pc[t] = "approved_tool"
  /\ \E status \in {"succeeded", "failed"} :
       toolCalls' = [toolCalls EXCEPT ![job[t]] = status]
  /\ Enter(t, "check")
  /\ UNCHANGED <<run, rows, approvals, loop, job, history>>

NoneRemain == \A c \in Call : approvals[c] # "pending"

(* Mutant: the run is resumed while approvals remain, and not after. *)
CheckRemaining_Inverted(t) ==
  /\ pc[t] = "check"
  /\ IF ~NoneRemain
     THEN Goto(t, "resume") /\ UNCHANGED <<loop, job>>
     ELSE Leave(t)
  /\ UNCHANGED <<durable, history>>

CheckRemaining(t) ==
  /\ pc[t] = "check"
  /\ IF NoneRemain
     THEN Goto(t, "resume") /\ UNCHANGED <<loop, job>>
     ELSE Leave(t)
  /\ UNCHANGED <<durable, history>>

(* /approve and /deny stop here: they never resume the run. *)
CommandEnds(t) ==
  /\ "command" \in Requests
  /\ pc[t] = "check"
  /\ Leave(t)
  /\ UNCHANGED <<durable, history>>

-----------------------------------------------------------------------------
(* resumeMessages: the conversation from the stored rows                   *)

(* Mutant: answers stored by an earlier resume are not looked for. *)
Stored_Forgotten == {}

(* storedFinalToolMessages *)
Stored == {c \in Call : \E i \in DOMAIN rows : rows[i].kind \in Answer /\ c \in rows[i].calls}

(* Placeholders that no stored answer replaces yet. *)
IsOpen(message) == message.kind = "placeholder" /\ message.calls \cap Stored = {}

OpenCalls == {c \in Call : \E i \in DOMAIN rows : IsOpen(rows[i]) /\ c \in rows[i].calls}

(* Mutant: every placeholder counts as resolved. *)
Unresolved_None == {}

(* pendingApprovals *)
Unresolved == {c \in OpenCalls : toolCalls[c] \notin TerminalCall /\ approvals[c] \notin Allowing}

AnswerTo(message) ==
  [message EXCEPT !.kind =
     IF \A c \in message.calls : toolCalls[c] \in TerminalCall THEN "outcome" ELSE "fallback"]

Answered(messages) ==
  [i \in DOMAIN messages |-> IF IsOpen(messages[i]) THEN AnswerTo(messages[i]) ELSE messages[i]]

(* Mutant: a placeholder without an outcome is dropped. *)
RebuiltMessages_Dropped == Kept(rows, {i \in DOMAIN rows : rows[i].kind # "placeholder"})

RebuiltMessages ==
  Answered(Kept(rows, {i \in DOMAIN rows : rows[i].kind # "placeholder" \/ IsOpen(rows[i])}))

MessagesToPersist == Answered(Kept(rows, {i \in DOMAIN rows : IsOpen(rows[i])}))

-----------------------------------------------------------------------------
(* resumeRun and recoverRunContext                                         *)

(* The resume route and /resume. *)
ResumeRequest(t) ==
  /\ "resume" \in Requests
  /\ pc[t] = "idle" /\ run # "absent"
  /\ Enter(t, "resume")
  /\ UNCHANGED <<durable, loop, job, history>>

Resumable == run \in {"waiting_for_approval", "interrupted", "running"} /\ Unresolved = {}

RefuseResume(t) ==
  /\ pc[t] = "resume"
  /\ ~Resumable
  /\ Leave(t)
  /\ UNCHANGED <<durable, history>>

BeginResume(t) ==
  /\ pc[t] = "resume"
  /\ Resumable
  /\ context' = [context EXCEPT ![t] = RebuiltMessages]
  /\ unsaved' = [unsaved EXCEPT ![t] = MessagesToPersist]
  /\ Goto(t, "persist")
  /\ UNCHANGED <<durable, work, waiting, job, history>>

(* The agent repairs its own memory of a turn that ended in front of an
   approval, once no approval is pending any more.                         *)
HealRequest(t) ==
  /\ "heal" \in Requests
  /\ pc[t] = "idle" /\ pc[Turn] = "idle" /\ crashes = 0
  /\ OpenCalls # {} /\ NoneRemain
  /\ unsaved' = [unsaved EXCEPT ![t] = MessagesToPersist]
  /\ Enter(t, "heal")
  /\ UNCHANGED <<durable, context, work, waiting, job, history>>

PersistAnswer(t) ==
  /\ pc[t] \in {"persist", "heal"} /\ unsaved[t] # <<>>
  /\ rows' = Append(rows, Head(unsaved[t]))
  /\ unsaved' = [unsaved EXCEPT ![t] = Tail(@)]
  /\ UNCHANGED <<run, toolCalls, approvals, busy, pc, context, work, waiting, job, history>>

ResumeLoop(t) ==
  /\ pc[t] = "persist" /\ unsaved[t] = <<>>
  /\ run' = "running"
  /\ Goto(t, "request")
  /\ UNCHANGED <<rows, toolCalls, approvals, loop, job, history>>

EndHeal(t) ==
  /\ pc[t] = "heal" /\ unsaved[t] = <<>>
  /\ Leave(t)
  /\ UNCHANGED <<durable, history>>

-----------------------------------------------------------------------------

CancelRun ==
  /\ "cancel" \in Requests
  /\ busy = NoThread
  /\ run \notin TerminalRun \cup {"absent"}
  /\ run' = "canceled"
  /\ UNCHANGED <<rows, toolCalls, approvals, busy, pc, loop, job, history>>

CrashAndRestart ==
  /\ crashes < MaxCrashes
  /\ crashes' = crashes + 1
  /\ busy' = NoThread
  /\ pc' = [t \in Thread |-> "idle"]
  /\ context' = [t \in Thread |-> <<>>]
  /\ work' = [t \in Thread |-> {}]
  /\ waiting' = [t \in Thread |-> FALSE]
  /\ unsaved' = [t \in Thread |-> <<>>]
  /\ job' = [t \in Thread |-> 0]
  /\ UNCHANGED <<durable, asked, started, setting>>

-----------------------------------------------------------------------------

LoopStep(t) ==
  \/ RequestModel(t)
  \/ \E n \in 0..MaxParallel : ModelAnswers(t, n)
  \/ ModelFails(t)
  \/ Finish(t) \/ Fail(t) \/ Interrupt(t)
  \/ RefuseToolCall(t) \/ AskForApproval(t) \/ StartTool(t) \/ ToolReturns(t)
  \/ RecordToolMessage(t)
  \/ NextRound(t) \/ WaitForApproval(t)

SurfaceStep(t) ==
  \/ ConfigSaved(t)
  \/ RunApproved(t) \/ RunApprovedThrows(t) \/ NothingToRun(t) \/ ApprovedToolReturns(t)
  \/ CheckRemaining(t) \/ CommandEnds(t)
  \/ RefuseResume(t) \/ BeginResume(t)
  \/ PersistAnswer(t) \/ ResumeLoop(t) \/ EndHeal(t)

Next ==
  \/ CreateRun \/ BeginTurn \/ ModelAborted
  \/ \E t \in Thread : LoopStep(t)
  \/ \E t \in Surface :
       \/ SurfaceStep(t)
       \/ \E c \in Call, d \in Offered : AnswerApproval(t, c, d)
       \/ ResumeRequest(t)
       \/ HealRequest(t)
  \/ CancelRun
  \/ CrashAndRestart

Spec == Init /\ [][Next]_vars

(* Ready continuations run, the model and every tool answer or time out. *)
FairSpec ==
  /\ Spec
  /\ WF_vars(BeginTurn)
  /\ \A t \in Thread : WF_vars(LoopStep(t))
  /\ \A t \in Surface : WF_vars(SurfaceStep(t))

-----------------------------------------------------------------------------
(* Properties                                                              *)

AnswersIn(messages, c) ==
  {i \in DOMAIN messages : messages[i].kind \in Answer /\ c \in messages[i].calls}

AsksIn(messages, c) ==
  {i \in DOMAIN messages : messages[i].kind = "asks" /\ c \in messages[i].calls}

(* A call is answered at most once, and after the message that asks for it. *)
Coherent(messages) ==
  \A c \in Call :
    /\ Cardinality(AnswersIn(messages, c)) <= 1
    /\ \A i \in AnswersIn(messages, c) : \E j \in AsksIn(messages, c) : j < i

(* However many surfaces resume or heal the run side by side, and wherever
   a crash cuts the writing of the answers: no tool call gets two answers,
   neither in the stored rows nor in what any loop sends to the model.     *)
OneAnswerPerCall == Coherent(rows) /\ \A t \in Thread : Coherent(context[t])

(* No conversation goes on past a call while a person is still asked to
   allow it: neither the rows nor any loop hold an answer to it, and the
   model never gets the placeholder of an approval to go on from. *)
UndecidedCallsWait ==
  /\ \A c \in Call : approvals[c] = "pending" =>
       /\ AnswersIn(rows, c) = {}
       /\ \A t \in Thread : AnswersIn(context[t], c) = {}
  /\ \A t \in Thread : pc[t] = "model" =>
       \A i \in DOMAIN context[t] : context[t][i].kind # "placeholder"

(* One call per answer of the model, nobody resumes by hand or answers an
   approval twice: until a crash, the conversation sent to the model answers
   every call it asked for ...                                             *)
NoDanglingToolCalls ==
  \A t \in Thread : pc[t] = "model" =>
    \A c \in Call : AsksIn(context[t], c) # {} => AnswersIn(context[t], c) # {}

(* ... the run is driven by one loop at a time ... *)
OneLoop == Cardinality({t \in Thread : pc[t] \in {"model", "tool"}}) <= 1

(* ... what the model is told of an approved call is true: a call that was
   "never executed" is not running and never ran, unless the agent healed
   its memory in between ...                                               *)
FallbackIsTrue ==
  \A c \in Call : (\E i \in DOMAIN rows : rows[i] = Tool("fallback", c)) => c \notin started

(* ... the limit on tool rounds holds for the run, however often it is taken
   up again: a resumed loop counts the rounds of the loops before it, as
   long as its context needs no trimming ...                               *)
RoundLimit ==
  MaxToolRounds > 0 =>
    Cardinality({i \in DOMAIN rows : rows[i].kind = "asks" /\ rows[i].calls \cap started # {}})
      <= MaxToolRounds

(* ... and once people have decided, the run does not stay in front of them. *)
RunGetsResumed ==
  run = "waiting_for_approval" /\ NoneRemain ~> run # "waiting_for_approval"

=============================================================================
