-------------------------- MODULE AgentCompaction --------------------------
(***************************************************************************)
(* The conversation a CorvusAgent keeps in memory (agent.ts, context.ts):  *)
(* prompts and answers are added by `send` and `resume`, the window is cut *)
(* when it grows too long, and a summary of what was cut is asked from the *)
(* model in the background.  The summary may come late, after other        *)
(* prompts, after /clear, after another session was loaded, or never.      *)
(*                                                                         *)
(* Everything runs in one JavaScript process; an action goes from one      *)
(* await to the next.  Every caller in cli.ts gives the agent a runner, so *)
(* the loop of `send` for agents without one is left out, and with it the  *)
(* usage counters and compactionHistory, which are only displayed.         *)
(* pendingCompaction is written and never read: it is left out too.        *)
(*                                                                         *)
(* The runner is what HarnessRunner models.  Here an answer of the model   *)
(* makes one call at most and one loop is at work on a run, whoever drives *)
(* it: `send`, `resume`, or a route that resumes the runner and not the    *)
(* agent.  All messages have one size, so that the token estimate is the   *)
(* number of messages.                                                     *)
(***************************************************************************)
EXTENDS Naturals, Sequences, FiniteSets, SequencesExt, Selection

CONSTANTS
  Session,       \* the sessions the agent is given
  Sender,        \* callers of send and resume: terminal, web, automations
  NoSession,
  Threshold,     \* compactionThreshold, in messages
  Reloads,       \* BOOLEAN: loadSessionHistory is called again
  ModelMayFail,  \* BOOLEAN: the model may fail or never answer
  MaxToolRounds, \* maxToolRounds of a run; 0 is no limit
  MaxTurns,      \* bound: prompts sent
  MaxAsks,       \* bound: tool calls the model makes
  MaxJobs,       \* bound: compactions started
  MaxClears      \* bound: uses of /clear

KeepRecent == 4  \* DEFAULT_KEEP_RECENT_MESSAGES
ShortWindow == 5 \* checkCompaction leaves such a window alone

Turn == 1..MaxTurns
NoTurn == 0

ASSUME AgentAssumption ==
  /\ NoSession \notin Session
  /\ Threshold \in Nat
  /\ {Reloads, ModelMayFail} \subseteq BOOLEAN
  /\ MaxToolRounds \in Nat
  /\ MaxTurns \in Nat /\ MaxAsks \in Nat /\ MaxJobs \in Nat /\ MaxClears \in Nat

VARIABLES
  (* the agent *)
  messages,    \* the window
  session,     \* currentSessionId
  lastRun,     \* lastRunId
  compacting,  \* isCompacting
  epoch,       \* compactionEpoch
  jobs,        \* the summaries the model has been asked for
  started,     \* how many there were
  (* its callers *)
  pc,          \* where each send or resume is
  at,          \* the run it drives
  (* the database *)
  runs,        \* status and session of the run of each turn
  stored,      \* the messages of each session
  checkpoint,  \* the newest checkpoint of each session, as a sequence
  (* read only by properties *)
  forgotten    \* turns that /clear removed since the last load

agentVars  == <<messages, session, lastRun>>
jobVars    == <<compacting, epoch, jobs, started>>
callerVars == <<pc, at>>
storeVars  == <<runs, stored, checkpoint>>
vars == <<agentVars, jobVars, callerVars, storeVars, forgotten>>

-----------------------------------------------------------------------------
(* Messages.  "ask" is an answer of the model with a tool call, "tool" the *)
(* answer to that.  For a call that waits for a person the runner stores a *)
(* "placeholder" first.                                                    *)

Message == [kind: {"user", "assistant", "ask", "placeholder", "tool"},
            of: Session, turn: Turn]
Summary == [kind: {"summary"}, job: 1..MaxJobs, covers: SUBSET Message]
System  == [kind |-> "system"]
Job     == [id: 1..MaxJobs, covers: SUBSET Message, epoch: 0..MaxClears,
            timedOut: BOOLEAN]

Said(kind, s, n) == [kind |-> kind, of |-> s, turn |-> n]

IsSummaryMessage(m) == m.kind = "summary"
SummariesIn(window) == {i \in DOMAIN window : IsSummaryMessage(window[i])}
NonSummary(window) == Kept(window, DOMAIN window \ SummariesIn(window))
FirstSummary(window) ==
  IF SummariesIn(window) = {} THEN <<>> ELSE <<window[Min(SummariesIn(window))]>>

(* Mutant: slice(-n + 1) *)
Recent_OneLess(window, n) ==
  IF n > Len(window) THEN window
  ELSE SubSeq(window, Len(window) - n + 2, Len(window))

(* slice(-n) *)
Recent(window, n) ==
  IF n >= Len(window) THEN window
  ELSE SubSeq(window, Len(window) - n + 1, Len(window))

EstimateTokens(window) == Len(window)

-----------------------------------------------------------------------------
(* Cutting the window.                                                     *)

KeepCount(window) ==
  LET n == Len(NonSummary(window)) - 1 IN IF n < KeepRecent THEN n ELSE KeepRecent

Slide(window, keep) ==
  <<window[1]>> \o FirstSummary(window) \o Recent(NonSummary(window), keep)

CascadeEvict(window) ==
  IF EstimateTokens(window) <= 2 * Threshold THEN window
  ELSE Slide(window, KeepRecent)

(* What is summarised when the window is cut, and when it is not.          *)
CutOff(window) ==
  SubSeq(NonSummary(window), 2, Len(NonSummary(window)) - KeepCount(window))
(* Mutant: the earlier summary is summarised as if it were conversation.   *)
Whole_WithSummary(window) == Tail(window)

Whole(window) == Tail(NonSummary(window))

MayCompact ==
  /\ Len(messages) > ShortWindow
  /\ ~compacting
  /\ EstimateTokens(messages) > Threshold

(* The end of startAsyncCompaction: the request to the model.              *)
AskForSummary(toCompact) ==
  \/ /\ toCompact = <<>>
     /\ compacting' = FALSE
     /\ UNCHANGED <<epoch, jobs, started>>
  \/ /\ toCompact # <<>>
     /\ started < MaxJobs
     /\ compacting' = TRUE
     /\ started' = started + 1
     /\ jobs' = jobs \cup {[id |-> started', covers |-> ToSet(toCompact),
                            epoch |-> epoch, timedOut |-> FALSE]}
     /\ UNCHANGED epoch

(* checkCompaction: the window it leaves, and the request it makes.        *)
Checked ==
  IF Len(messages) <= ShortWindow THEN messages
  ELSE IF compacting THEN CascadeEvict(messages)
  ELSE IF MayCompact THEN Slide(messages, KeepCount(messages))
  ELSE messages

CheckCompaction ==
  \/ MayCompact /\ AskForSummary(CutOff(messages))
  \/ ~MayCompact /\ UNCHANGED jobVars

(* The summary of a window that was not cut, asked for after a turn.       *)
ScheduleBackgroundCompaction(window) ==
  LET due == /\ ~compacting
             /\ Len(window) > ShortWindow
             /\ EstimateTokens(window) > Threshold
  IN  \/ due /\ AskForSummary(Whole(window))
      \/ ~due /\ UNCHANGED jobVars

-----------------------------------------------------------------------------
Init ==
  /\ messages = <<System>>
  /\ session \in Session
  /\ lastRun = NoTurn
  /\ compacting = FALSE
  /\ epoch = 0
  /\ jobs = {}
  /\ started = 0
  /\ pc = [t \in Sender |-> "idle"]
  /\ at = [t \in Sender |-> NoTurn]
  /\ runs = [n \in Turn |-> [status |-> "absent", of |-> NoSession]]
  /\ stored = [s \in Session |-> <<>>]
  /\ checkpoint = [s \in Session |-> <<>>]
  /\ forgotten = {}

(* send, up to its first await: augmentPrompt reads skills from files.     *)
Send(t) ==
  /\ pc[t] = "idle"
  /\ pc' = [pc EXCEPT ![t] = "prompt"]
  /\ UNCHANGED <<agentVars, jobVars, at, storeVars, forgotten>>

RefreshSystemPrompt(window) ==
  IF \E i \in DOMAIN window : window[i] = System THEN window
  ELSE <<System>> \o window

(* healPendingRun, for a window that ends with an unanswered question.     *)
Dangling(window) == /\ window # <<>>
                    /\ Last(window).kind = "ask"
                    /\ lastRun # NoTurn

StillPending == runs[lastRun].status = "waiting"

Rows(n) ==
  LET all == stored[runs[n].of] IN Kept(all, {i \in DOMAIN all : all[i].turn = n})

Answered(n) == Said("tool", runs[n].of, n)

(* What recoverRunContext and resumeRun store: an answer for the           *)
(* placeholder that has none, which is the newest row of its run.          *)
Recovered(n) ==
  IF Rows(n) # <<>> /\ Last(Rows(n)).kind = "placeholder"
  THEN <<Answered(n)>> ELSE <<>>

AsksIn(ms) == {i \in DOMAIN ms : ms[i].kind = "ask"}

(* The rows of the run from its first question on.                         *)
HealedTail(n) ==
  LET all  == Rows(n) \o Recovered(n)
      rows == Kept(all, {i \in DOMAIN all : all[i].kind # "placeholder"})
      asks == AsksIn(rows)
  IN  IF asks = {} THEN rows ELSE SubSeq(rows, Min(asks), Len(rows))

(* Mutant: only the missing answers are added, and nothing when the run    *)
(* was resumed elsewhere.                                                  *)
Healed_Recovered(window) ==
  IF ~Dangling(window) THEN window ELSE window \o Recovered(lastRun)

Healed(window) ==
  IF ~Dangling(window) THEN window ELSE Front(window) \o HealedTail(lastRun)

AppendRows(s, ms) == [stored EXCEPT ![s] = @ \o ms]

(* The rest of send up to the await of runTurn, and the first row of the   *)
(* run.                                                                    *)
StartTurn(t) ==
  LET window == RefreshSystemPrompt(Checked)
      fresh  == {n \in Turn : runs[n].status = "absent"}
      n      == CHOOSE k \in fresh : \A l \in fresh : k <= l
      healed == IF Dangling(window) THEN Recovered(lastRun) ELSE <<>>
      after  == IF healed = <<>> THEN stored ELSE AppendRows(runs[lastRun].of, healed)
  IN  /\ pc[t] = "prompt"
      /\ fresh # {}
      /\ ~(Dangling(window) /\ StillPending)
      /\ CheckCompaction
      /\ messages' = Healed(window)
      /\ pc' = [pc EXCEPT ![t] = "turn"]
      /\ at' = [at EXCEPT ![t] = n]
      /\ runs' = [runs EXCEPT ![n] = [status |-> "running", of |-> session]]
      /\ stored' = [after EXCEPT ![session] = Append(@, Said("user", session, n))]
      /\ UNCHANGED <<session, lastRun, checkpoint, forgotten>>

(* The person has to decide first: send returns the approvals.             *)
SendMustWait(t) ==
  LET window == RefreshSystemPrompt(Checked)
  IN  /\ pc[t] = "prompt"
      /\ Dangling(window) /\ StillPending
      /\ CheckCompaction
      /\ messages' = window
      /\ pc' = [pc EXCEPT ![t] = "idle"]
      /\ UNCHANGED <<session, lastRun, at, storeVars, forgotten>>

-----------------------------------------------------------------------------
(* The loop of a run (continueRun).                                        *)

AwaitsModel(n) ==
  runs[n].status = "running" /\ Rows(n) # <<>> /\ Last(Rows(n)).kind # "ask"
AwaitsTool(n) ==
  runs[n].status = "running" /\ Rows(n) # <<>> /\ Last(Rows(n)).kind = "ask"

MayAsk ==
  Cardinality(UNION {{s} \X AsksIn(stored[s]) : s \in Session}) < MaxAsks

(* The limit of a run counts the answers with tool calls, of all its loops.*)
LastRound(n) ==
  MaxToolRounds # 0 /\ Cardinality(AsksIn(Rows(n))) >= MaxToolRounds

Store(n, kind) == stored' = AppendRows(runs[n].of, <<Said(kind, runs[n].of, n)>>)

(* The model calls a tool.                                                 *)
ModelAsks(n) ==
  /\ MayAsk
  /\ AwaitsModel(n) /\ ~LastRound(n)
  /\ Store(n, "ask")
  /\ UNCHANGED <<agentVars, jobVars, callerVars, runs, checkpoint, forgotten>>

(* The tool returns, and the model is asked again.                         *)
ToolEnds(n) ==
  /\ AwaitsTool(n)
  /\ Store(n, "tool")
  /\ UNCHANGED <<agentVars, jobVars, callerVars, runs, checkpoint, forgotten>>

(* The loop ends with an answer, or with a call that waits for a person.   *)
LoopEnds(n, kind) ==
  \/ /\ kind = "assistant" /\ AwaitsModel(n)
     /\ Store(n, "assistant")
     /\ runs' = [runs EXCEPT ![n].status = "done"]
  \/ /\ kind = "ask" /\ AwaitsTool(n)
     /\ Store(n, "placeholder")
     /\ runs' = [runs EXCEPT ![n].status = "waiting"]

(* The loop throws: the model fails, or it calls a tool in the last round, *)
(* and the call is stored.  Only a turn of `send` has a signal that        *)
(* interrupts it.  Whoever drives the run adds nothing to the window.      *)
LoopThrows(n) ==
  /\ AwaitsModel(n)
  /\ \/ /\ ModelMayFail
        /\ \E status \in {"done", "interrupted"} :
             /\ status = "interrupted" => \E t \in Sender : at[t] = n /\ pc[t] = "turn"
             /\ runs' = [runs EXCEPT ![n].status = status]
        /\ UNCHANGED stored
     \/ /\ MayAsk /\ LastRound(n)
        /\ Store(n, "ask")
        /\ runs' = [runs EXCEPT ![n].status = "done"]
  /\ pc' = [t \in Sender |-> IF at[t] = n THEN "idle" ELSE pc[t]]
  /\ at' = [t \in Sender |-> IF at[t] = n THEN NoTurn ELSE at[t]]
  /\ UNCHANGED <<agentVars, jobVars, checkpoint, forgotten>>

(* runTurn returned.                                                       *)
FinishTurn(t, kind) ==
  LET n      == at[t]
      window == messages \o <<Said("user", runs[n].of, n), Said(kind, runs[n].of, n)>>
  IN  /\ pc[t] = "turn"
      /\ LoopEnds(n, kind)
      /\ ScheduleBackgroundCompaction(window)
      /\ messages' = window
      /\ lastRun' = n
      /\ pc' = [pc EXCEPT ![t] = "idle"]
      /\ at' = [at EXCEPT ![t] = NoTurn]
      /\ UNCHANGED <<session, checkpoint, forgotten>>

-----------------------------------------------------------------------------
(* Answers to questions.                                                   *)

(* A person answers the approvals of a run.                                *)
Approve(n) ==
  /\ runs[n].status = "waiting"
  /\ runs' = [runs EXCEPT ![n].status = "answered"]
  /\ UNCHANGED <<agentVars, jobVars, callerVars, stored, checkpoint, forgotten>>

Resumable(n) == runs[n].status \in {"answered", "interrupted"}

(* resumeRun up to its await: the missing answer is stored first.          *)
ResumeRun(n) ==
  /\ Resumable(n)
  /\ runs' = [runs EXCEPT ![n].status = "running"]
  /\ stored' = AppendRows(runs[n].of, Recovered(n))

(* resume, up to its await.                                                *)
Resume(t, n) ==
  /\ pc[t] = "idle"
  /\ ResumeRun(n)
  /\ pc' = [pc EXCEPT ![t] = "resume"]
  /\ at' = [at EXCEPT ![t] = n]
  /\ forgotten' = forgotten \ {n}
  /\ UNCHANGED <<agentVars, jobVars, checkpoint>>

(* The message the loop ended with, which may be another question, takes   *)
(* the place of the question, if that is last.                             *)
FinishResume(t, kind) ==
  LET n == at[t]
  IN  /\ pc[t] = "resume"
      /\ LoopEnds(n, kind)
      /\ messages' = (IF messages # <<>> /\ Last(messages).kind = "ask"
                      THEN Front(messages) ELSE messages)
                       \o <<Said(kind, runs[n].of, n)>>
      /\ lastRun' = n
      /\ pc' = [pc EXCEPT ![t] = "idle"]
      /\ at' = [at EXCEPT ![t] = NoTurn]
      /\ UNCHANGED <<session, jobVars, checkpoint, forgotten>>

(* The web routes and /resume resume the runner, not the agent: the window *)
(* of the agent does not hear of it, neither now nor when the loop ends.   *)
ResumeElsewhere(n) ==
  /\ ResumeRun(n)
  /\ UNCHANGED <<agentVars, jobVars, callerVars, checkpoint, forgotten>>

FinishElsewhere(n, kind) ==
  /\ \A t \in Sender : at[t] # n
  /\ LoopEnds(n, kind)
  /\ UNCHANGED <<agentVars, jobVars, callerVars, checkpoint, forgotten>>

-----------------------------------------------------------------------------
(* Commands and routes.                                                    *)

LoadSessionHistory(s) ==
  /\ Reloads
  /\ messages' = <<System>> \o checkpoint[s] \o stored[s]
  /\ session' = s
  /\ lastRun' = NoTurn
  /\ forgotten' = {}
  /\ UNCHANGED <<jobVars, callerVars, storeVars>>

TurnsIn(ms) == {m.turn : m \in {x \in ms : x \in Message}}
Running == {at[t] : t \in Sender}

(* Mutant: the epoch stays.                                                *)
ClearContext_KeepsEpoch ==
  /\ Len(messages) > 1
  /\ messages' = SubSeq(messages, 1, 1)
  /\ lastRun' = NoTurn
  /\ compacting' = FALSE
  /\ forgotten' = forgotten \cup
       ((TurnsIn(ToSet(messages)) \cup UNION {TurnsIn(j.covers) : j \in jobs})
          \ Running)
  /\ UNCHANGED <<session, epoch, jobs, started, callerVars, storeVars>>

ClearContext ==
  /\ Len(messages) > 1
  /\ epoch < MaxClears
  /\ messages' = SubSeq(messages, 1, 1)
  /\ lastRun' = NoTurn
  /\ epoch' = epoch + 1
  /\ compacting' = FALSE
  /\ forgotten' = forgotten \cup
       ((TurnsIn(ToSet(messages)) \cup UNION {TurnsIn(j.covers) : j \in jobs})
          \ Running)
  /\ UNCHANGED <<session, jobs, started, callerVars, storeVars>>

CompactNow ==
  /\ CheckCompaction
  /\ messages' = Checked
  /\ UNCHANGED <<session, lastRun, callerVars, storeVars, forgotten>>

-----------------------------------------------------------------------------
(* The background of startAsyncCompaction.                                 *)

(* The `finally` of the race runs once, for whichever side ends first.     *)
EndRace(j) == compacting' = (compacting /\ j.timedOut)

(* Mutant: the stale summary is not taken out.                             *)
Inserted_Beside(window, summary) == <<window[1], summary>> \o Tail(window)

Inserted(window, summary) ==
  <<window[1], summary>> \o NonSummary(Tail(window))

SummaryArrives(j) ==
  LET summary == [kind |-> "summary", job |-> j.id, covers |-> j.covers]
  IN  /\ j.epoch = epoch
      /\ messages' = Inserted(messages, summary)
      /\ checkpoint' = [checkpoint EXCEPT ![session] = <<summary>>]
      /\ jobs' = jobs \ {j}
      /\ EndRace(j)
      /\ UNCHANGED <<session, lastRun, epoch, started, callerVars, runs, stored,
                     forgotten>>

(* The context was cleared meanwhile.                                      *)
StaleSummaryArrives(j) ==
  /\ j.epoch # epoch
  /\ jobs' = jobs \ {j}
  /\ EndRace(j)
  /\ UNCHANGED <<agentVars, epoch, started, callerVars, storeVars, forgotten>>

(* An error of the model, or an answer without choices.                    *)
SummaryFails(j) ==
  /\ ModelMayFail
  /\ jobs' = jobs \ {j}
  /\ EndRace(j)
  /\ UNCHANGED <<agentVars, epoch, started, callerVars, storeVars, forgotten>>

(* Mutant: the timer ends the race without its `finally`.                  *)
TimeOut_Only(j) ==
  /\ ModelMayFail
  /\ ~j.timedOut
  /\ jobs' = (jobs \ {j}) \cup {[j EXCEPT !.timedOut = TRUE]}
  /\ UNCHANGED <<agentVars, compacting, epoch, started, callerVars, storeVars,
                 forgotten>>

(* The timer wins the race; the request to the model goes on.              *)
TimeOut(j) ==
  /\ ModelMayFail
  /\ ~j.timedOut
  /\ jobs' = (jobs \ {j}) \cup {[j EXCEPT !.timedOut = TRUE]}
  /\ compacting' = FALSE
  /\ UNCHANGED <<agentVars, epoch, started, callerVars, storeVars, forgotten>>

Next ==
  \/ \E t \in Sender :
       \/ Send(t) \/ StartTurn(t) \/ SendMustWait(t)
       \/ \E kind \in {"assistant", "ask"} : FinishTurn(t, kind) \/ FinishResume(t, kind)
       \/ \E n \in Turn : Resume(t, n)
  \/ \E n \in Turn :
       \/ ModelAsks(n) \/ ToolEnds(n) \/ LoopThrows(n)
       \/ Approve(n) \/ ResumeElsewhere(n)
       \/ \E kind \in {"assistant", "ask"} : FinishElsewhere(n, kind)
  \/ \E s \in Session : LoadSessionHistory(s)
  \/ ClearContext \/ CompactNow
  \/ \E j \in jobs : \/ SummaryArrives(j) \/ StaleSummaryArrives(j)
                     \/ SummaryFails(j) \/ TimeOut(j)

Spec == Init /\ [][Next]_vars

(* The timer of a compaction rings; the model need not answer.             *)
FairSpec ==
  /\ Spec
  /\ \A i \in 1..MaxJobs : WF_vars(\E j \in jobs : j.id = i /\ TimeOut(j))

-----------------------------------------------------------------------------
(* Properties.                                                             *)

(* The variables have their types; what is summarised is conversation,     *)
(* never the system prompt or an earlier summary (startAsyncCompaction).   *)
TypeOK ==
  /\ messages \in Seq(Message \cup Summary \cup {System})
  /\ session \in Session
  /\ lastRun \in Turn \cup {NoTurn}
  /\ compacting \in BOOLEAN
  /\ epoch \in 0..MaxClears
  /\ \A j \in jobs : j \in Job
  /\ started \in 0..MaxJobs
  /\ pc \in [Sender -> {"idle", "prompt", "turn", "resume"}]
  /\ at \in [Sender -> Turn \cup {NoTurn}]
  /\ \A n \in Turn :
       /\ runs[n].status \in {"absent", "running", "waiting", "answered",
                               "interrupted", "done"}
       /\ runs[n].of \in Session \cup {NoSession}
  /\ stored \in [Session -> Seq(Message)]
  /\ checkpoint \in [Session -> Seq(Summary)]
  /\ forgotten \subseteq Turn

(* The window starts with the only system prompt, and whatever lands in    *)
(* whatever order it holds at most one summary, right after the prompt:    *)
(* startAsyncCompaction, cascadeEvict and /clear all rely on messages[0].  *)
OneSummary ==
  /\ messages # <<>> /\ messages[1] = System
  /\ \A i \in DOMAIN messages :
       /\ messages[i] = System => i = 1
       /\ IsSummaryMessage(messages[i]) => i = 2

(* What /clear removed does not come back in a summary that was on its way *)
(* (the epoch test of startAsyncCompaction), until a session is loaded.    *)
ClearForgets ==
  \A i \in DOMAIN messages :
    IsSummaryMessage(messages[i]) =>
      TurnsIn(messages[i].covers) \cap forgotten = {}

Conversation(window) ==
  Kept(window, {i \in DOMAIN window : window[i] \in Message})

Newest(ms) ==
  SubSeq(ms, IF Len(ms) <= KeepRecent THEN 1 ELSE Len(ms) - KeepRecent + 1, Len(ms))

(* No cut, eviction or late summary takes the newest messages out of the   *)
(* window: only /clear and loading a session do, and a question gives way  *)
(* to its answer.  What comes after them belongs to the run the agent      *)
(* remembers, whose conversation it is.  "The sliding window guarantees    *)
(* the last turns stay available regardless" (send).                       *)
RecentStay ==
  [][ \/ \E s \in Session : LoadSessionHistory(s)
      \/ ClearContext
      \/ LET old == Newest(Conversation(messages))
             new == Conversation(messages')
             Keeps(kept) ==
               \E i \in 0..Len(new) :
                 /\ i + Len(kept) <= Len(new)
                 /\ SubSeq(new, i + 1, i + Len(kept)) = kept
                 /\ \A k \in (i + Len(kept) + 1)..Len(new) : new[k].turn = lastRun'
         IN  \/ Keeps(old)
             \/ old # <<>> /\ Last(old).kind = "ask" /\ Keeps(Front(old)) ]_vars

(* A turn that comes after a question of the run the agent remembers goes  *)
(* on from where that run stands: the last message it is given is the      *)
(* newest that is stored of the run, whether the question was answered and *)
(* the run resumed, here or behind the agent's back, or not                *)
(* (healPendingRun, recoverRunContext).                                    *)
TurnsGoOn ==
  [][ \A t \in Sender :
        /\ pc[t] = "prompt" /\ pc'[t] = "turn"
        /\ lastRun # NoTurn /\ Last(messages).kind = "ask"
        => Last(messages') = Last(Rows(lastRun)') ]_vars

(* "So the conversation never carries a dangling tool_calls message, which *)
(* the API rejects" (runner.ts): no turn is given a conversation with a    *)
(* call that nothing answers.                                              *)
NoDanglingQuestion ==
  [][ \A t \in Sender : pc[t] = "prompt" /\ pc'[t] = "turn" =>
        \A i \in DOMAIN messages' : messages'[i].kind = "ask" =>
          i < Len(messages') /\ messages'[i + 1].kind = "tool" ]_vars

(* A compaction ends, even if the model never answers: the agent does not  *)
(* stay in the state in which windows are evicted and never summarised.    *)
CompactionEnds == compacting ~> ~compacting

(* "The conversation before this point was compacted into the summary      *)
(* below" (buildSummaryMessage): what is not in the window is covered by   *)
(* the summary, when nothing is under way.                                 *)
SummaryCoversConversation ==
  /\ \A t \in Sender : pc[t] = "idle"
  /\ jobs = {}
  => \A i \in DOMAIN messages : IsSummaryMessage(messages[i]) =>
       ToSet(stored[session]) \subseteq ToSet(messages) \cup messages[i].covers

(* "Replace the in-memory conversation with persisted session history"     *)
(* (loadSessionHistory): the summary in the window is of that session.     *)
SummaryOfItsSession ==
  \A i \in DOMAIN messages : IsSummaryMessage(messages[i]) =>
    \A m \in messages[i].covers : m.of = session
=============================================================================
