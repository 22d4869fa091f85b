# CorvusAI in TLA+

CorvusAI is a local agent: a model asks for tool calls, people allow or deny
them, and everything a run does is kept in one SQLite file so that it can be
inspected and taken up again. This directory holds specifications of the parts
of it whose correctness depends on interleaving, crashes and the order of
transactions, the TLC models that check them, and TLAPS proofs for the core.

Source paths below are relative to `src/src/`.

## 1. Inventory

| Component | State | Operations | Interacts with |
|---|---|---|---|
| Tool queue, `harness/tool-queue.ts` | rows of `tool_calls` | `enqueueAndRun`, `runApproved`, `recoverInterrupted` | approvals, evidence, the tools, events |
| Approvals, `harness/approval-service.ts`, `ui/approval-flow.ts` | rows of `approvals`, the policy in memory | `createApproval`, `resolveApproval`, `handleApprovalChoice` | tool queue (the denial of a call), policy, configuration file |
| Permission policy, `permissions.ts` | rules per target, per working directory | `decidePermission`, `setPermissionRule` | read by the queue, written by approvals and settings |
| Evidence, `harness/evidence-store.ts` | rows of `evidence` | `createEvidence` and listings | queue, approvals, runner |
| Runner, `harness/runner.ts` | `runs`, `messages`, `steps`, snapshots; the `messages` array of each loop | `runTurn`, `resumeRun`, `recoverRunContext` | model, queue, approvals, run store |
| Run store, `harness/run-store.ts` | projects, sessions, runs, steps, sub-agent tasks, scope leases | one transaction each | everybody |
| Agent, `agent.ts` | the conversation in memory, a pending summary | `send`, `resume`, `healPendingRun`, compaction, `clearContext`, `loadSessionHistory` | runner, model |
| Surfaces, `cli.ts`, `commands.ts`, `web/server.ts`, `tui.ts` | none of their own | answer approvals, resume, cancel | runner, queue, approvals |
| Sub-agents, `subagents.ts`, `cli.ts`, `collaboration.ts` | tasks, controllers, the async context, counts per role; rows of `subagent_tasks` and `scope_leases` | `delegateSubagentTask`, `run`, `cancel`, `claimPath`, `releaseTask` | agent, run store, the tools that edit files |
| Automation, `automation.ts` | timers, running set, `automation_runs` | `start`, `run`, `emit`, `stop` | agent, sub-agents, other processes through the lease |
| Channels, `channels.ts` | `channel_deliveries` | `enqueue`, `retry`, `processPending` | network |
| Event log, `harness/event-log.ts` | the hash chain | `append`, `verifyChain` | every transaction |
| MCP, `mcp/loader.ts`, `mcp/client.ts` | active clients; pending requests of each | `reload`, `test`, `dispose`; `connect`, `request`, `disconnect` | a child process per server, the tool registry |
| Codex bridge, `codex/` | one child process per task | `dispatchCodexTask`, `runCodex`, abort, timeout | sub-agents, run store |
| Model clients and budgets, `openai-client.ts`, `provider-client.ts`, `budgets.ts` | counters | `createChatCompletion`, message repair | network |
| Tools, skills, plugins, memory, secrets, sandbox, doctor, export, interfaces | files and settings | many | pure input and output, or rendering |

`PROJECT.json` lists the components with what is and is not modelled.

What is hard here:

* **Several processes on one file.** A terminal session and a web console may
  be open together, each with several tool calls under way. What keeps a tool
  from running twice is one conditional update.
* **Many small transactions.** An outcome and its evidence, an approval and
  the status that waits for it, the several answers a resumed run writes: each
  is a transaction of its own, and a crash may fall between any two.
* **State read before an `await` and used after it.** The run's status is never
  read again by its loop; the last person to answer resumes a run whose other
  tool may still be running.
* **Promises that nobody stops or awaits.** The timer of deliveries rings while
  the last pass is under way, a timeout gives up on work that goes on, a reload
  starts during another, a canceled task works on.
* **Time.** Leases are kept alive by heartbeats that a suspended process misses;
  the audit log is sorted by the clocks of several processes.
* **Recovery by inference.** A resumed conversation is rebuilt from rows that
  differ only in their text: placeholders, outcomes and fallbacks.

What makes each component correct: a tool runs at most once and only with
authority, a denial is whole, an outcome is final, every call ends (queue); a
rebuilt conversation answers each call once, truthfully and after the question,
one loop drives a run, a decided run goes on (runner); a summary belongs to the
conversation it is put into (agent); limits hold for work and not for labels
(sub-agents); one holder per lease (automation, scopes); each delivery is sent
as often as its row says (channels); the chain verifies (event log); each
request is settled once and no server is lost (MCP, Codex).

## 2. Modules

| Module | Models | State and actions |
|---|---|---|
| `Permissions` | `permissions.ts` | no state: `DecidePermission`, `SetPermissionRule`, `SetWorkspaceRule` over rule tables |
| `ToolCallContract` | the promise to a caller, for each call | `phase`; `Request`, `Authorize`, `Refuse`, `Start`, `Settle` |
| `ToolQueue` | `harness/tool-queue.ts`, `harness/approval-service.ts`, `ui/approval-flow.ts`, the existence of evidence, the permissions in the configuration file | rows (`toolCalls`, `approvals`, `evidence`, `savedPolicy`), one policy per process, `pc` and `job` of each worker, history |
| `ToolQueueProofs` | - | the theorems of section 5 |
| `HarnessRunner` | `harness/runner.ts` and the requests of `cli.ts`, `commands.ts`, `agent.ts` that reach it | rows (`run`, `rows`, `toolCalls`, `approvals`), one thread per loop, `busy` for the event loop |
| `AgentCompaction` | `agent.ts`, `context.ts`, the routes of `cli.ts` that load sessions and answer approvals | the window (`messages`, `session`, `lastRun`), the compaction (`compacting`, `epoch`, `jobs`), one place per caller, rows (`runs`, `stored`, `checkpoint`) |
| `EventLog` | `harness/event-log.ts`, `nowIso` of `harness/types.ts` | the rows (`events`), the clock, `lastStamp` and the append under way of each process |
| `AutomationLease` | `automation.ts`, its wiring in `cli.ts` and `web/server.ts` | rows (`autoRows`), the timers and the set `running` of each process, one place per activation of `run`, the time in heartbeats |
| `SubagentTasks` | `subagents.ts`, `delegateSubagentTask` of `cli.ts`, `collaboration.ts`, the tasks and leases of `harness/run-store.ts`, the two tools that take leases | one place and status per task, the count of the role; rows (`rows`, `leases`) |
| `ChannelDelivery` | `channels.ts`, the routes that add and delete channels | rows (`deliveries`, `byUpdate`), the passes and requests under way, the configuration |
| `McpRuntime` | `mcp/loader.ts`, `mcp/client.ts` | clients, their tables of requests (`pending`), who still waits (`unsettled`), the registry, the reloads under way |
| `CodexRun` | `codex/bridge.ts`, `codex/driver.ts`, the routes of `cli.ts` that cancel runs and tasks | one task: the program (`child`), its output and what of it is stored, the record and the two rows |
| `Selection` | `Array.prototype.filter`, as `AgentCompaction`, `ChannelDelivery` and `HarnessRunner` use it | no state: `Kept`, the members of a sequence at some positions |
| `HarnessRunnerProofs`, `AgentCompactionProofs`, `RecordsProofs`, `AutomationLeaseProofs`, `ChannelDeliveryProofs`, `McpRuntimeProofs` | - | the theorems of section 5; `RecordsProofs` is about `EventLog`, `SubagentTasks`, `CodexRun` and `MCRecords`, `McpRuntimeProofs` also about `MCServices` |
| `SelectionProofs` | - | lemmas: what `Kept` keeps, and induction over sequences |
| `MCToolQueue`, `MCHarnessRunner`, `MCAgentCompaction`, `MCRecords`, `MCServices` | - | the instances TLC checks |

### ToolQueue

A *worker* is one activation of `enqueueAndRun` or `runApproved`; `pc` names the
transaction it takes next, `job` the call it works on, `Home` its process. One
action is one transaction, which is all another process can see and all a crash
can cut: `CreateToolCall`, then `RejectInput`, `CreateApproval` followed by
`MarkApprovalRequired`, `DenyToolCall`, or `AllowToolCall` followed by the claim
`MarkRunning` / `ClaimLost`, then `ToolSucceeds`, `ToolFails` or `ToolTimesOut`,
then `RecordEvidence` or its failures. Inside one process JavaScript interleaves
less than this, so the specification allows more than the program does, and
what holds of it holds of the program; each violation reported below was also
read back against the code, step by step.

`ResolveApproval` is one transaction, the denial of the call and its evidence
included, and then the rule of the scope and the rule of the prompt
(`ScopeRule`, `ChoiceRule`); `RepeatAnswer` is the same answer given again.
`SaveConfig` writes the permissions of one process to the file, whatever
another process wrote there. `CrashAndRestart` drops the workers and the policy
of one process. `RecoverInterrupted` is enabled only when `Recovers` is set: the
function exists and is tested, and no code path of the program calls it.

`verdict` and `executions` are history: what the policy said when a call was
queued, and how often its tool was started.

### HarnessRunner

One run, in one process. A thread is `runTurn` (`Turn`) or a request of a
surface; `busy` is the thread that has not given up the event loop, so the
steps from one `await` to the next exclude all others, while a crash may fall
between any two of them. (An `await` of a promise that is settled already lets
no new request in and is no step here.) `context` is the `messages` array of a
loop, `work` the calls of its round not yet run, `unsaved` the answers a resume
has yet to store. Messages are abstracted to what resuming tells apart: which
calls an assistant message asks for, and whether a tool message is a
placeholder, an outcome or the fallback for an approved call that "never
executed". `Stored`, `IsOpen`, `Unresolved`, `RebuiltMessages` and
`MessagesToPersist` are the loop of `resumeMessages`.

What happens inside a tool call between its transactions is `ToolQueue`'s;
here `AskForApproval`, `RefuseToolCall`, `StartTool` and `ToolReturns` show its
results.

### AgentCompaction

The conversation one agent keeps in memory. `send` is `Send` up to its first
`await`, `StartTurn` or `SendMustWait` up to the runner, and `FinishTurn`;
`checkCompaction`, `refreshSystemPrompt` and `healPendingRun` are operators of
`StartTurn`, because no other event is served between them. `resume` is `Resume`
and `FinishResume`; `ResumeElsewhere` and `FinishElsewhere` are the web route and
the command, which resume the runner behind the agent's back. `LoadSessionHistory`,
`ClearContext` and `CompactNow` are the routes and commands.

Between their beginning and their end the loop of the run works, whoever started it,
as in `continueRun`: the model is awaited (`AwaitsModel`) and calls a tool, which is
stored at once (`ModelAsks`), the tool is awaited (`AwaitsTool`) and its answer stored
(`ToolEnds`), round after round. The loop ends with an answer, or waiting for a person,
behind a placeholder (`LoopEnds`), or it throws (`LoopThrows`): the model fails, a turn
is interrupted by its signal, or the model calls a tool in the last round that
`maxToolRounds` allows, where the call is stored and nothing answers it. The rounds of
a run are counted over all its loops. Other turns may start at any of these points.

What `HarnessRunner` is about is simple here: one call per answer of the model and one
loop per run at a time (that two approvals of one round, or an approval answered before
its round ended, give two loops is shown there); a conversation fits the window and is
not trimmed; the loop protection is off, as by default; no run is canceled; and a run
that says `running` is not resumed once more, although `resumeRun` would.

`startAsyncCompaction` has a part that runs at once (`Slide`, `AskForSummary`)
and a part in the background: a job is a request to the model with the messages
it is to summarise, the epoch it was started in, and whether its timer has rung.
`SummaryArrives`, `StaleSummaryArrives` and `SummaryFails` end it, `TimeOut`
ends only the race. `EndRace` is the `finally`, which runs once per race and
resets `isCompacting` for whoever has set it.

A message is its kind, its session and its turn, a summary the set of messages
it covers, so that properties can say what is lost, and whose it is. All messages
have one size: `Threshold` counts messages. Two values are used: 3, at which a
window is cut as soon as the code considers it (more than five messages) and
evicted at seven, and 6, where a compaction can end before anything is evicted.

### EventLog

`append` is one step (`AppendEvent`) where the caller is inside a transaction
that has written before, because SQLite lets no second writer in; the callers
that are not (`model.usage`, `model.error`, `channel.message_received`) take
`StampEvent`, `ChainEvent` and `InsertEvent`, between which another process may
append. `NowIso` keeps the last stamp in memory, so `RestartWriter` forgets it;
`OtherRow` is a stamp taken for another table. The identifier of an event stands
for its hash. `by` is history: the process, and which life of it.

### AutomationLease

An action goes from one `await` of `run` to the next. `Begin` is `run` up to its
first dispatch, claim included; `DispatchEnds`, `TimesOut` and `Retry` are the
loop of attempts, `Finish` its end with the `finally` and the timer that a cron
trigger sets again. `dispatched` holds the attempts whose work is still going
on: the timeout rejects the race and stops nothing. `timers` counts live timers
beside the one the map knows, because a reload during a run leaves one behind.
Time counts heartbeats: `TimePasses` waits for the heartbeats of processes that
are awake, and `Suspend` lets a process sleep through its own.

### SubagentTasks

`place` is where the activation of `delegateSubagentTask` is: preparing (skills
are loaded), working (the agent runs), indexing (memories are embedded), ended;
`status` is the record of `SubagentManager`, `rows` the row. The row is inserted
at `cli.ts:553`, and the `try` whose `catch` settles it opens at 596: what fails
between the two, the secret of the role's model (570) in `Delegate` or the skills
(591) in `Work`, ends as `unsent`, with a record that failed and a row that stays
`running`. `Settle` is the `finally` blocks of the three nested functions, which
run without an `await` between them. `CancelTask` is `cancel` with the update of
the row its two callers make at once; the task is told by its signal and goes on
until its agent looks. `ClaimPath` is the gate before `replace_file_content` and
`patch_file` read a file, `Written` the write, which may come after the tool's
timeout and after the task. `SubagentsDie` leaves the rows and the leases.

### ChannelDelivery

`passes` holds the rows each activation of `processPending` has still to try,
`requests` what was sent and not answered, with the number of attempts the row
had when it was read (`seen`), which `AttemptEnds` writes back plus one. A row
whose channel is deleted is skipped, one whose channel has a type without an
adapter rejects the whole pass: the promise is not handled and the process ends
(`ProcessEnds`). A caller of `enqueue` may have read the configuration before a long
`await` (`web/server.ts:669-688`), so a row may be tried once for a channel deleted
since (`Captured`).

`story` is history, one record per row: the attempts that ended, how often the platform
got the message, and the worst that happened to the row. `lost` is an answer that was
lost, by an error of the connection or with the process. `shared` is a pass that took
the row while another pass had it on its list or a request for it was under way, the
first one of `enqueue` included. `raced` is a second request for the row beside the
first: then both write back the number they read plus one, two attempts are stored as
one, and nothing more is counted. Passes that overlap on different rows leave it at
`no`, and the properties speak of them. A row that three passes take may be tried any
number of times, although `MaxAttempts` is asked for before each: a slow pass writes
back a lower number than is stored, others take the row again, and a later answer
raises it beyond the limit. `attempts` is therefore any natural number; with two
passes, as in run `services`, it stays finite.

### McpRuntime

`ReloadServers` is `reload` up to its first `await` that waits for a server;
`LoadNext` is its loop, which starts the next server or stores the list. `Abandon`
is the `catch` of `loadServer` and the `finally` of `test`. `pending` is the table
of every client, `unsettled` the promises somebody awaits; only `Requests` changes
them. A server may end at any point and stay in the list with its tools.

### CodexRun

`dispatch` is where the activation of `dispatchCodexTask` is: preparing (Codex is
looked for a second time, after the rows were made), running, ended. The three
events that settle `runCodex` are `ChildCloses`, `CodexTimesOut` and
`CancelCodex`; each includes what the bridge stores next (`Ends`), because a
settled promise is continued before any other event. `printed` counts what the
program printed, `stored` and `late` what the listener stored before and after the
end of the task. A task canceled while it prepares starts its program only to stop
it, and listens to nothing. `SubagentManager` records a success whenever
`dispatchCodexTask` returns, also for a Codex that failed: `CodexEndsAgree` therefore
compares the two rows, and the record only where a task is canceled.

## 3. What the runs check

| Run | Question | Instance |
|---|---|---|
| `queue` | at-most-once execution, authority, single executor, whole denials, final outcomes, the contract, the inductive invariant | 2 calls, 2 processes with 2 and 1 workers, every answer, failing evidence, recovery, 1 crash; 1.0 million states |
| `queue_steady` | answerable approvals, documented outcomes, lasting answers that bind, every call gets an outcome | 1 process, 2 workers, one tool with evidence and one without, no crash; fairness |
| `runner` | a coherent conversation: one answer per call, none while undecided, no placeholder sent | 2 surfaces, 2 calls, up to 2 per answer, and two settings: resume and heal with 1 crash, or repeated answers, commands, saved rules and cancellation without one; 4.6 million states up to symmetry |
| `runner_serial` | one loop, no dangling call, true fallbacks, the round limit, a decided run is resumed | 2 surfaces, 4 calls, one per answer, limit 3, cancellation; fairness |
| `agent` | one prompt and at most one summary, in place; /clear is not undone; the newest messages stay; a turn goes on from where the remembered run stands; every compaction ends | 3 turns, 2 compactions, failures, timeouts, and two settings: 2 sessions, 2 senders, reloads and 1 /clear, where the model calls no tools; or 1 sender who keeps to a session, 2 tool calls, a limit of 1 round, people who answer, resumes by the agent and elsewhere, 1 interrupted turn. Fairness of the timer; 1.2 million states |
| `records` | a log of one author verifies; memory and row of a task agree, limits and leases hold; an automation is taken over, or overlaps itself, only where it must; a task of Codex ends alike everywhere, with its work stored | one behaviour is one of: 2 processes, 3 events, a clock that goes back, a restart each; 2 schedulers, 2 runs, 1 retry, 2 heartbeats of time, 1 reload, 1 crash, suspension, three kinds of automation; 3 tasks, 1 file, limits of 2, failures before the prompt is sent, leases that expire, 1 crash; 1 task of Codex that prints 2 items and an error. 1.7 million states |
| `services` | attempts are counted, messages sent once, unless their row changes hands, and settled, no client lost, runs and requests end | one behaviour is one of: the scheduler above without time; 2 messages on 2 channels, of which one may be of an unknown type, deleted and added, 2 passes, 2 attempts, a window of 2, 1 death; 2 servers, 2 reloads or tests, 4 clients. Fairness; 147 thousand states |

`MCRecords` and `MCServices` put modules side by side that share no state: the
variable `focus` says which of them a behaviour is about, and the others rest.
Every property is about one of them. Interleaving independent modules would
multiply the states and show nothing more. `AutomationLease` is in both, once for
safety with time, once for liveness without.

Two calls, two processes and one crash are where the conflicts of the queue
lie: every guard is about one call and one approval; a second call is needed
for rules that one answer leaves and another call reads, a second worker of the
same process for a claim lost at home, a third for one lost abroad; one crash
can fall in any gap, and a second one finds rows that the first could leave.
In the runner, two calls in one round and two surfaces are what it takes for
one answer to overtake another; four calls, one per round, pass the limit of
three after resuming.

A window of the agent is compacted from the third turn on: three turns give a
compaction in flight, and /compact, reloads and /clear the others beside it. Two
compactions are what it takes for an older one to end the race of a newer. A limit of
one round and two calls are a call that waits for a person and the one, after the
resume, that exceeds the limit, or a second question; three turns are one that asks,
one that finds it answered, waiting, resumed or broken off, and one after that. That
both settings may come together is left to the proofs, which have neither bound.

Three events and two processes are the smallest log in which an append under way
can meet one of another process and be followed by a third; a clock with three
readings goes forward, back and stays. Two runs of an automation are a run and
its takeover; two units of time are a lease, one missed heartbeat and the expiry.
Three tasks are two at the limit and one refused, or two on one file and the one
that let its lease lapse; depth two is a task and its child. Two items are one stored before and one after
the end of a task of Codex. Two passes overlap; a
window of two lets a pass try two messages, or skip the one whose channel is gone
and try the other (a window full of skipped rows, which `DeliverySettles`
excludes, takes another channel that is deleted); two attempts are a retry and the limit. A
reload that meets a reload, or a test, needs two loaders; four clients are the two
servers and one spare per loader.

`CHECK_DEADLOCK FALSE` is set everywhere: when every call is settled, or the run
is over, nothing remains to be done.

**Fairness.** `ToolQueue!FairSpec` is weak fairness of the steps of a worker:
the event loop runs every continuation that is ready and every timer that is
due. Nothing obliges a tool to answer or a person to decide; `CallsGetAnOutcome`
rests on the timer. `HarnessRunner!FairSpec` also counts the answer of the model
and of a tool as due: the model client and the queue time out.
`AgentCompaction!FairSpec` counts on nothing but the timer of a compaction, which
is set when it starts; the model may stay silent. `AutomationFairness` counts on
the timers of the timeout and of the delay between attempts, and neither on a
dispatch, which may never end, nor on a suspended process: `RunsEnd` excludes
it. `DeliveryFairness` counts on the timer of five seconds, which `start` sets and
only `stop` clears, and on the end of every request, for which `fetch` gives an
answer or an error (undici has timeouts of its own). `McpFairness` counts on the
timer every request sets, 30 seconds by default.

### Disagreements found

Each of these is a run that violates one property, and an entry of `findings`.

* `runner_fallback`: two approvals of one round answered side by side: the
  model is told, for good, that a call was never executed while it runs.
* `agent_dangling`: a run asks, is answered and resumed, by whomever, and calls a tool
  in the last round it is allowed, which is stored before the loop throws. The next turn
  of `send` repairs the question at the end of its window with the rows of that run, and
  carries a call that nothing answers. Without a limit the same comes of a turn that
  starts while the route that resumed the run awaits its next tool. `runner.ts:195`
  says that the conversation never carries such a call; the client of the model makes
  up an answer on the wire (`openai-client.ts:72`).
* `agent_covers`: a second compaction summarises the conversation without the
  first summary and replaces it; what the first covered is lost, in the window
  and in the checkpoint, without any failure or overlap.
* `agent_session`: a summary asked for before another session was loaded is put
  into that session, and stored as its checkpoint.
* `events_chain`: two processes append within a millisecond, or one appends after
  its clock was set back and it was restarted: the order of stamps is not the order
  of insertion, and `verifyChain` reports a break in a log nobody touched.

Others are behaviours of the same specifications, without a run of their own:

* nothing runs `recoverInterrupted`: a call that runs when the process dies stays
  `running` (`CrashAndRestart`), where the design says startup interrupts it;
* a run canceled while its loop waits becomes running, succeeded or failed again
  (`EndRun`, `NextRound`): the loop does not read the status, and
  `updateRunStatus` accepts every change, where the design calls it terminal;
* passes that overlap on a row, and a pass that rings while `enqueue` makes its first
  attempt for it, send the row twice, count the two tries as one, and the slower one
  overwrites what the faster one stored: a delivered row may become failed and be sent
  again (`ProcessPending`, `AttemptEnds`), which is what `story` calls `shared` and
  `raced`; one row whose channel has an unknown type, as
  a configuration written by hand may have, ends the process at every pass
  (`ProcessEnds`), and twenty rows of deleted channels stand in front of all others
  for ever (`Blocked`);
* reloads that overlap leave clients, with their tools registered, that no later
  reload can disconnect (`LoadNext`): hence `overlapped` in `NoClientIsLost`;
* a cron automation reloaded during a run gets its timer twice, a disabled one
  keeps it (`Finish`);
* a task that fails after its row was inserted and before its prompt is sent, because
  a secret or the skills cannot be read, is recorded as failed and its row goes on
  saying `running`, without any crash (`Delegate`, `Work`): the exception in
  `EndsAgree`;
* a task that lives when the process dies keeps its row at `running` for ever, and
  its leases for their half hour (`SubagentsDie`); a tool may write its file after
  its task has ended and another task has leased it (`Written`), hence the
  restriction of `WritersHoldTheLease` to tasks in progress; `write_file` and the
  main agent take no lease at all;
* a denial by policy commits before its evidence is written, and a crash between
  the two leaves it without (`DenyToolCall`, `RecordEvidence`); the design says
  denials always produce evidence;
* an allow rule of the working directory overrules a later answer "never"
  (`DecidePermission`), and the answer "workspace" allows the tool everywhere,
  because it is resolved with the scope `always` (`ResolvedScope`);
* an approval answered while its round still runs resumes the run with calls
  that have no answer (`CheckRemaining`), which is why `NoDanglingToolCalls` is
  checked with one call per answer of the model;
* a turn starts while a background summary is under way (`StartTurn`); the
  comment of `scheduleBackgroundCompaction` says the next send awaits it;
* a summary that arrives after its timeout replaces a newer one
  (`SummaryArrives`); /clear opens a second way to it, because the `finally` of a
  forgotten compaction resets `isCompacting` for the current one (`EndRace`);
* /compact promises a fresh summary in a window of six messages with a summary,
  where `CutOff` is empty.

The steady and serial runs say under which conditions the properties do hold:
one call per answer of the model and no crash for the runner, a process that
does not die for the queue.

## 4. Mutants

Every property of every passing run has a mutant in the module it is about, a
definition with the change a slip of the pen would make (a claim without its
condition, an approval trusted unread, a denial that does not look at the
status, a resume that forgets stored answers, a heartbeat that does not reach the
row, a retry too many, a client not disconnected, ...), that TLC tells from the
code by that property. It is defined right before what it changes.

## 5. What is proved

`ToolQueueProofs`, for every set of calls, tools, processes, workers, directories,
every initial policy and any number of crashes, from the one assumption
`ConstantsAssumption`, which types the constants:

* `Typing`: `Spec => []TypeOK`.
* `Invariance`: `Spec => []IInv`.
* `AtMostOnce`, `Authorized`, `SingleExecutor`, `AtomicDenial`: the safety
  invariants of run `queue`, each a consequence of `IInv`.
* `FinalOutcome`: the action property `OutcomeIsFinal`.
* `Refinement`: `Spec => KeepsContract`, under the mapping `Phase`.
* `Answerable`: `Spec => [](crashes = 0 => PendingApprovalAnswerable)`.
* `EvidenceIsWritten`: if evidence can be written (`~EvidenceMayFail`),
  `Spec => [](crashes = 0 => OutcomeDocumented)`.
* `LastingAnswers`: with one process, `Spec => [](crashes = 0 => LastingAnswerBinds)`.

The argument. None of the safety properties is inductive. That a tool is
started once follows from the status of its call only if a call with an
execution can never come back to a status that is claimed from, and some
updates of the code have no condition at all (`markApprovalRequired`,
`failToolCall`, the success). `IInv` therefore says who may make them.
`CallConsistent` relates the rows of a call: which statuses mean zero and which
one execution, and that a pending or approved approval goes with a call not yet
denied. `WorkerConsistent` says what a worker's place implies about the rows.
`OneOwner` says that past its unconditional update, or before it, a call has one
worker; only approved calls still to be claimed may be held by many. The proof
that a step keeps `IInv` has one lemma per action, with a part per conjunct. The
refinement has a lemma for each kind of step: what it does to the phase of its
call and that it leaves the other phases alone.

The last three hold until a process dies, in every specification, also one that
allows crashes; the conditions are those of run `queue_steady`, and run `queue`
has the states that refute them without. Each is proved beside `IInv`: a pending
approval has a call that waits or a worker about to mark it (`Waits`); what a
status calls for is there or a worker is about to write it (`Documented`); a
lasting answer has left its rule, in the policy of the only process, and a rule
changes only by an answer (`PolicyFollows`, `AnsweredOnce`). That a rule for a tool
cannot be taken for one for a capability is `TargetsAssumption`: the names of the
tools in `tools.ts` and of the capabilities are different words.

`HarnessRunnerProofs`, for any surfaces, calls, settings and crashes, from
`RunnerAssumption`:

* `RunnerTyping`: `Spec => []TypeOK`, which includes that one thread at most is
  between two `await`s.
* `OneAnswer`: `Spec => []OneAnswerPerCall`.
* `UndecidedWait`: `Spec => []UndecidedCallsWait`.

and for a model that asks for one call at a time and a run that nobody resumes by
hand or answers twice (`Serial`): people answer approvals, by web or by command, and
cancel, the agent heals its memory beside it, the process dies at any point.

* `SingleLoop`: `Spec => []OneLoop`.
* `AnsweredCalls`: `Spec => [](crashes = 0 => NoDanglingToolCalls)`.
* `BoundedRounds`: `Spec => []RoundLimit`.
* `TrueFallbacks`: without healing (`Unhealed`), `Spec => []FallbackIsTrue`.

The argument. The stored rows are well formed, whatever happens (`RowsInv`): a call
is answered once, after it was asked for, and a resume rebuilds a conversation from
them that has one answer for every placeholder without one, and stores exactly
those. What makes this inductive is what the loops hold in memory: a loop answers
only what the rows answer too, or what it is about to store (`ContextInv`,
`UnsavedInv`), no two threads hold the answer to one call, run it, or have it before
a person at the same time (`WorkInv`, `ApprovalsInv`). Under `Serial` one thread is
under way at a time beside those that heal, and a person is asked only when it is
about to end (`Control`); then every call the model asked for is answered, waiting or
in the hands of the loop (`CallsMet`), a tool that was started has ended or is awaited
(`StartedInv`), and each loop counts the rounds of the whole run (`RoundsInv`). The
last three speak of a run to which something may still happen (`Live`). That is what
makes them survive a crash: after one, only an approval takes the run up again, and
while one is pending no tool is awaited and no loop is failing.

The hypotheses are those without which TLC finds a counterexample. Two calls per
answer of the model, a resume by hand, or an approval answered twice give two loops
(`runner_fallback` violates `FallbackIsTrue` with two calls); after a crash between an
approval and the row that asks for it, the model gets a call without an answer; and
who heals while an approved tool runs stores that it never did. Run `runner_serial`
is narrower than `Serial`, because the liveness it checks fails where commands,
which do not resume, or crashes come in between.

`AgentCompactionProofs`, for any sessions, senders, thresholds, turns, compactions
and clears, from `AgentAssumption`:

* `AgentTyping`: `Spec => []TypeOK`.
* `WindowKeepsItsShape`: `Spec => []OneSummary`.
* `ClearedStaysCleared`: `Spec => []ClearForgets`.
* `NewestMessagesStay`: `Spec => RecentStay`, an action property.
* `TurnsContinue`: `Spec => TurnsGoOn`, an action property.

The argument. A window is the prompt, perhaps a summary, and conversation
(`Shaped`), and nothing the agent does to it (slide, evict, heal, load, put a late
summary in) reaches back to the first message. Each message in it, and each that its
summary covers, is of a turn that began and was not cleared since (`Spans`); the
same holds of the summaries on their way as long as their epoch is the current one
(`JobsFit`). /clear does not stop a turn that is under way, whose messages may still
come: `forgotten` leaves it out, and `Driven` says that nobody drives a cleared one.

The two action properties are about the conversation in the window. A cut leaves all
of it or its end, at least the newest four messages (`Trimmed`), and what comes later
in the step is appended, or takes the place of a question at the end, and is of the run
the agent remembers afterwards, so the newest stay one after the other (`Carries`);
this is a lemma per way to change a window. For `TurnsGoOn` the rows matter too. A run
moves on in one way, whoever drives it: its status changes and rows of it are appended
to its session (`RunMoves`), and a run that began has a row at least (`Recorded`). A
question at the end of the window survives every cut (`QuestionStays`), and what
`healPendingRun` puts in its place ends with the newest row, because the only thing it
adds to the rows is the answer of a placeholder, after them (`HealedTailEnds`). Neither
property needs the limits of run `agent`: both hold for any senders, sessions, reloads
and rounds. What such a newest row may be, an unanswered call included, is what
`agent_dangling` shows.

`RecordsProofs`, for any processes, identifiers and bounds, from `EventAssumption`:

* `EventTyping`: `EventSpec => []EventTypeOK`.
* `OneAuthor`: `EventSpec => []OneAuthorVerifies`.

The argument. That the chain of one author verifies is not inductive, because an
event is chained before it is inserted, and another process may insert in
between; but then the log has two authors. `LogInv` says that no two events share
an identifier (`Identified`), that a log that is not empty has a latest event
(`HasLatest`, which `CHOOSE` in `PreviousOf` needs), that everything a process wrote
in its present life, and its draft, is stamped no later than its memory says
(`Stamped`), and that a draft that has been chained still names the latest event as
long as the log has no other author (`Chained`).

In the same module, for any tasks, files and limits, from `SubagentAssumption`:

* `TaskTyping`: `SubagentSpec => []SubagentTypeOK`.
* `AgreedEnds`, `Limits`, `LeasesGuard`: the three invariants of run `records`.

The argument. `EndsAgree` looks at tasks that have ended or were never sent their
prompt; what makes it inductive is `RowFirst`: a record is `running` exactly while its
task is at work and not canceled, a canceled task has a canceled row, and a task that
is being indexed a succeeded one. `LimitsHold` follows from `Counted`, which says that
the count of the role is the number of tasks at work; the range of that count then
comes with the type. `Guarded` is the property of the leases with the fact that an
expired lease is among those that ever expired.

`AutomationLeaseProofs`, for any processes, runs, configurations, retries and any
lease of at least two heartbeats, from `AutomationAssumption`:

* `AutomationTyping`: `AutomationSpec => []AutomationTypeOK`.
* `Leftovers`: `AutomationSpec => []OverlapIsALeftover`.
* `TakenFromTheDead`: the action property `OnlyTheDeadLoseTheirLease`.

The argument. A run is alive when it is in progress and its process never slept
through a heartbeat. `Leased` says that the row of such a run is `running` with a
lease that outlasts the heartbeat due next; this is where a lease must last two
heartbeats. A claim of an automation that skips overlapping work therefore finds the
lease held, so that at most one run is alive (`OneAlive`). `Awaited` says that a run
whose timeout has not rejected has no dispatch under way but the one it waits for.
`Recorded` relates rows, activations and timers.

`RecordsProofs`, for any amount of output, from `CodexAssumption`:

* `CodexTyping`: `CodexSpec => []CodexTypeOK`.
* `CodexEnds`: `CodexSpec => []CodexEndsAgree`.

The argument. What is proved is about a task that has ended; `Listening` says that
until then somebody listens, nothing was stored late and nobody canceled, so that
output read to its end is stored. `Preparing` is the one place where a canceled task
is still in progress, and `Settled` keeps the run of a task that has ended from being
canceled afterwards.

In the same module, of `MCRecords`:

* `RecordsTyping`: `Spec => []TypeOK`.

The argument. A behaviour that `MCRecords` allows is one of the audit log, of the
automations, of the sub-agents and of the Codex tasks, each by its own specification
(`RecordsCompose`: the initial states map to initial states, and every step is a step
or a stutter of each). Every theorem about one of these modules is therefore true of
the composition that run `records` checks, and the types are the conjunction of
theirs.

`ChannelDeliveryProofs`, for any messages, channels, passes, limits and windows, from
`DeliveryAssumption`:

* `DeliveryTyping`: `DeliverySpec => []DeliveryTypeOK`.
* `CountedAttempts`: `DeliverySpec => []AttemptsAreCounted`.
* `OneSending`: `DeliverySpec => []SentOnce`.

The argument. A pass has one request under way, for the first of its rows, which are
distinct (`Paced`). The rest is said of each row (`Fits`). Unless two requests for it
raced, it has at most one, and that knows the attempts of the row, so that what it
writes back is one more than what is stored. A row that no pass took out of other hands
is in one hand at a time, on the list of one pass or in the request of `enqueue`, and
not settled while it is: whoever has it may try it once more, and a row that was
delivered is in nobody's hands. What passes that overlap, a lost answer or a crash do
to a row is part of the property, and not an assumption.

`McpRuntimeProofs`, for any servers, configurations, loaders and as many clients as
servers and loaders together, from `McpAssumption`:

* `McpTyping`: `McpSpec => []McpTypeOK`.
* `NoLostClient`: `McpSpec => []NoClientIsLost`.

The argument. An open client is registered or is the one a loader is starting
(`Traced`), which is why that many clients are enough for `NewClient` to find a
closed one. The lists of loaded clients hold open, registered clients and share none
(`Lists`), and until reloads overlap everything registered is on one of them
(`Undisturbed`). A loader goes on with the next server in the middle of an action:
the parts of the invariant take clients, registry and lists as parameters.

In the same module, of `MCServices`:

* `ServicesTyping`: `FairSpec => []TypeOK`.

The argument is that of `RecordsTyping`: what run `services` checks is a behaviour of
the automations, of the deliveries and of the MCP runtime (`ServicesCompose`).

**Induction.** What a recursive definition computes for every input needs induction,
and the library's induction theorems take an operator as a parameter, which no
installed prover instantiates. `SelectionProofs` does without: it derives from
well-founded sets that a set of natural numbers has a least element (`LeastNumber`),
and takes the least position at which the claim fails (`UpTo`). `Kept` is the one
recursive function the proofs are about; that it keeps the members at the given
positions, in their order, each once (`KeptMembers`, `KeptInOrder`), is what the
proofs of the runner, the agent and the deliveries rest on.

Only checked by TLC:

* `CallsGetAnOutcome`, `RunGetsResumed`, `CompactionEnds`, `RunsEnd`,
  `DeliverySettles` and `RequestsSettle`: liveness is outside the prover's reach.
* the five properties of the runs that expect a violation.

## 6. Not modelled

Contents: arguments and results of tools, texts, tokens, usage, events,
snapshots, steps. The trimming of a conversation that does not fit the window,
which also resets the round counter of a resumed run by the rounds it drops
(`RoundLimit` is therefore about runs that fit). The loop protection, off by
default. Failing commits other than those of evidence, in particular
`SQLITE_BUSY` between processes. A tool that goes on after its timeout. The
configuration snapshot waiting behind an earlier write. The loop of `send` for an agent without a runner, which nothing in `cli.ts`
constructs; the list of recent compactions and the usage counters, which are
displayed; `pendingCompaction`, which is written and never read. Leases on
nested scopes, which the code records and does not refuse, and the `allowedScopes`
of roles. Automations that an event triggers, because nothing emits one; the
arithmetic of cron. `ChannelDeliveryManager.retry`, which has no caller. The MCP
client over HTTP, a `fetch` per request. For Codex, how the program and the project
are found, and stores that fail in its listener, which takes the exception for a line
that is no JSON. The identifier `cli.ts:723` returns for a background task of Codex, which
it looks up before `dispatchCodexTask` has made the task, and which names nothing. The components that `PROJECT.json` marks as not modelled, each with its
reason.

Most of the lines under `src/` are not Corvus's: `src/pi-main` is a vendored agent
and `src/webui` a browser client. Corvus's own code is about fourteen thousand
lines, of which the map covers what keeps state shared between actors.

## 7. Plan

Done: `Permissions`, `ToolCallContract`, `ToolQueue`, `HarnessRunner`,
`AgentCompaction`, `EventLog`, `SubagentTasks`, `AutomationLease`, `CodexRun`,
`ChannelDelivery` and `McpRuntime`, and proofs of all the safety invariants and
action properties that the passing runs check.

1. Proofs of what remains true with several calls per answer and resumes by hand:
   what two loops of one run may do to each other.
2. An abstract lease (one holder until it lets go or sleeps) that
   `AutomationLease` and the leases of `SubagentTasks` both implement, with the
   refinements proved.
3. `ModelBudget`: check before and count after an `await`.
4. Pure algorithms against reference definitions: `trimMessagesToBudget` and
   `sanitizeChatMessages`; then trimming inside `HarnessRunner`.
