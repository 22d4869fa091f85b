-------------------------- MODULE AutomationLease --------------------------
(***************************************************************************)
(* One automation and the schedulers that run it (automation.ts), one in   *)
(* each process that has the database open.  A run claims a row of         *)
(* automation_runs with a lease, keeps the lease alive with a heartbeat    *)
(* every 15 seconds, and dispatches its work up to MaxRetries + 1 times.   *)
(* The timeout gives up on a dispatch but cannot stop it, and it is one    *)
(* promise for all attempts.                                               *)
(*                                                                         *)
(* The unit of time is the period of the heartbeat; a lease lasts Ttl      *)
(* units, two for the 30 seconds it lasts at least.  Timers of a process   *)
(* that is not suspended ring on time, so that a heartbeat is never more   *)
(* than one unit late.                                                     *)
(*                                                                         *)
(* Triggers of type "event" are left out: nothing in src/ calls emit.      *)
(***************************************************************************)
EXTENDS Naturals, FiniteSets

CONSTANTS
  Scheduler,     \* processes, each with one AutomationScheduler
  AutoRun,       \* rows of automation_runs
  Automation,    \* the configurations to consider
  MaxRetries,
  Ttl,           \* duration of a lease, in heartbeats
  MaySuspend,    \* BOOLEAN: a process may be suspended for a while
  MaxAutoTime,   \* bound: time
  MaxReloads,    \* bound: reloads of the automations
  MaxSchedulerCrashes

AutomationConfig == [trigger: {"interval", "cron", "once"},
                     overlap: {"skip", "allow"}, timeout: BOOLEAN]

ASSUME AutomationAssumption ==
  /\ Automation \subseteq AutomationConfig
  /\ MaxRetries \in Nat
  /\ Ttl \in Nat \ {0, 1}
  /\ MaySuspend \in BOOLEAN
  /\ MaxAutoTime \in Nat /\ MaxReloads \in Nat /\ MaxSchedulerCrashes \in Nat

VARIABLES
  automation,  \* the configuration in force
  (* durable *)
  autoRows,    \* status and end of the lease of each row
  (* per scheduler *)
  timers,      \* live timers, and whether the map holds one of them
  active,      \* whether the set `running` holds the automation
  suspended,
  (* per run *)
  run,         \* where each activation of `run` is
  due,         \* runs whose heartbeat rings before time goes on
  (* time, faults *)
  autoTime, reloads, schedulerCrashes,
  overslept    \* history: runs whose process was suspended too long

runVars == <<autoRows, active, run>>
faultVars == <<autoTime, reloads, schedulerCrashes, suspended, overslept>>
autoVars == <<automation, runVars, timers, due, faultVars>>

Attempt == 1..(MaxRetries + 1)
NotStarted == [pc |-> "none"]
Timers == [live: Nat, mapped: BOOLEAN]

AutomationTypeOK ==
  /\ automation \in Automation
  /\ autoRows \in [AutoRun -> [status: {"absent", "running", "lapsed", "succeeded", "failed"},
                               lease: 0..(MaxAutoTime + Ttl)]]
  /\ timers \in [Scheduler -> Timers]
  /\ active \in [Scheduler -> BOOLEAN]
  /\ suspended \in [Scheduler -> BOOLEAN]
  /\ run \in [AutoRun -> {NotStarted} \cup
       [pc: {"waiting", "delay", "done", "crashed"}, by: Scheduler, attempt: Attempt,
        timedOut: BOOLEAN, dispatched: SUBSET Attempt, rearms: BOOLEAN]]
  /\ due \subseteq AutoRun /\ overslept \subseteq AutoRun
  /\ autoTime \in 0..MaxAutoTime
  /\ reloads \in 0..MaxReloads /\ schedulerCrashes \in 0..MaxSchedulerCrashes

-----------------------------------------------------------------------------
Skips == automation.overlap = "skip"
RunInProgress(r) == run[r].pc \in {"waiting", "delay"}
RunsOf(s) == {r \in AutoRun : run[r].pc # "none" /\ run[r].by = s}

(* start: forget the timers of the map, set one for an enabled automation. *)
(* The moment of a "once" trigger may have passed.                         *)
Started(t, enabled, late) ==
  LET kept == IF t.mapped THEN t.live - 1 ELSE t.live
      set  == enabled /\ ~(late /\ automation.trigger = "once")
  IN [live |-> IF set THEN kept + 1 ELSE kept, mapped |-> set]

(* startOneCron: the entry of the map is overwritten, its timer stays.     *)
Rearmed(t) == [live |-> t.live + 1, mapped |-> TRUE]

(* What is left of the timers when one of them rings.                      *)
AfterRing(t) ==
  IF automation.trigger = "interval" THEN {t}
  ELSE {u \in [live: {t.live - 1}, mapped: BOOLEAN] : u.mapped => t.mapped /\ t.live > 1}

AutomationInit ==
  /\ automation \in Automation
  /\ autoRows = [r \in AutoRun |-> [status |-> "absent", lease |-> 0]]
  /\ timers = [s \in Scheduler |-> Started([live |-> 0, mapped |-> FALSE], TRUE, FALSE)]
  /\ active = [s \in Scheduler |-> FALSE]
  /\ suspended = [s \in Scheduler |-> FALSE]
  /\ run = [r \in AutoRun |-> NotStarted]
  /\ due = {} /\ overslept = {}
  /\ autoTime = 0 /\ reloads = 0 /\ schedulerCrashes = 0

-----------------------------------------------------------------------------
(* acquireClaim: one transaction.                                          *)
Held(r) == autoRows[r].status = "running" /\ autoRows[r].lease > autoTime
(* Mutant: only the set `running` is asked, not the rows.                  *)
Refused_Local(s) == Skips /\ active[s]

Refused(s) == Skips /\ (active[s] \/ \E r \in AutoRun : Held(r))

AcquireClaim(r) ==
  autoRows' = [q \in AutoRun |->
    IF q = r THEN [status |-> "running", lease |-> autoTime + Ttl]
    ELSE IF Skips /\ autoRows[q].status = "running"
         THEN [autoRows[q] EXCEPT !.status = "lapsed"]
    ELSE autoRows[q]]

(* The first part of `run`, up to its first await, with the timers t.      *)
Begin(s, t, rearms) ==
  \/ /\ Refused(s)
     /\ timers' = [timers EXCEPT ![s] = IF rearms THEN Rearmed(t) ELSE t]
     /\ UNCHANGED runVars
  \/ /\ ~Refused(s)
     /\ \E r \in AutoRun :
          /\ autoRows[r].status = "absent"
          /\ AcquireClaim(r)
          /\ run' = [run EXCEPT ![r] =
               [pc |-> "waiting", by |-> s, attempt |-> 1, timedOut |-> FALSE,
                dispatched |-> {1}, rearms |-> rearms]]
     /\ active' = [active EXCEPT ![s] = TRUE]
     /\ timers' = [timers EXCEPT ![s] = t]

(* A timer rings, or somebody asks for a run (runNow).                     *)
Ring(s) ==
  /\ ~suspended[s]
  /\ timers[s].live > 0
  /\ \E t \in AfterRing(timers[s]) : Begin(s, t, automation.trigger = "cron")
  /\ UNCHANGED <<automation, due, faultVars>>

RunNow(s) ==
  /\ ~suspended[s]
  /\ Begin(s, timers[s], FALSE)
  /\ UNCHANGED <<automation, due, faultVars>>

(* The automations were changed: start, with this one enabled or not.      *)
ReloadAutomations(s) ==
  /\ ~suspended[s]
  /\ reloads < MaxReloads
  /\ reloads' = reloads + 1
  /\ \E enabled, late \in BOOLEAN :
       timers' = [timers EXCEPT ![s] = Started(@, enabled, late)]
  /\ UNCHANGED <<automation, runVars, due, suspended, autoTime, schedulerCrashes, overslept>>

-----------------------------------------------------------------------------
(* The rest of `run`: w is the activation of r after what just happened.   *)

(* The outcome is stored without looking at the status of the row, and the *)
(* timer of a cron trigger is set again, whether or not it is still wanted.*)
Finish(r, w, status) ==
  LET s == w.by IN
  /\ autoRows' = [autoRows EXCEPT ![r].status = status]
  /\ run' = [run EXCEPT ![r] = [w EXCEPT !.pc = "done"]]
  /\ active' = [active EXCEPT ![s] = FALSE]
  /\ due' = due \ {r}
  /\ timers' = [timers EXCEPT ![s] = IF w.rearms THEN Rearmed(@) ELSE @]

(* Mutant: one retry too many.                                             *)
AttemptFails_OneMore(r, w) ==
  \/ /\ w.attempt > MaxRetries + 1
     /\ Finish(r, w, "failed")
  \/ /\ w.attempt <= MaxRetries + 1
     /\ run' = [run EXCEPT ![r] = [w EXCEPT !.pc = "delay", !.attempt = @ + 1]]
     /\ UNCHANGED <<autoRows, active, due, timers>>

(* catch: try again later, or give up.                                     *)
AttemptFails(r, w) ==
  \/ /\ w.attempt > MaxRetries
     /\ Finish(r, w, "failed")
  \/ /\ w.attempt <= MaxRetries
     /\ run' = [run EXCEPT ![r] = [w EXCEPT !.pc = "delay", !.attempt = @ + 1]]
     /\ UNCHANGED <<autoRows, active, due, timers>>

(* A dispatch ends.  Only the one the run still waits for matters.         *)
DispatchEnds(r, a) ==
  LET w == [run[r] EXCEPT !.dispatched = @ \ {a}] IN
  /\ run[r].pc # "none" /\ a \in run[r].dispatched
  /\ ~suspended[w.by]
  /\ \/ /\ w.pc = "waiting" /\ a = w.attempt
        /\ Finish(r, w, "succeeded") \/ AttemptFails(r, w)
     \/ /\ ~(w.pc = "waiting" /\ a = w.attempt)
        /\ run' = [run EXCEPT ![r] = w]
        /\ UNCHANGED <<autoRows, active, due, timers>>
  /\ UNCHANGED <<automation, faultVars>>

(* The timeout rejects, for this attempt and all that follow.              *)
TimesOut(r) ==
  LET w == [run[r] EXCEPT !.timedOut = TRUE] IN
  /\ RunInProgress(r)
  /\ automation.timeout /\ ~run[r].timedOut
  /\ ~suspended[w.by]
  /\ \/ w.pc = "waiting" /\ AttemptFails(r, w)
     \/ /\ w.pc = "delay"
        /\ run' = [run EXCEPT ![r] = w]
        /\ UNCHANGED <<autoRows, active, due, timers>>
  /\ UNCHANGED <<automation, faultVars>>

(* Mutant: once the timeout has rejected, nothing is dispatched and nothing*)
(* fails.                                                                  *)
Retry_Silent(r) ==
  /\ run[r].pc = "delay"
  /\ ~suspended[run[r].by] /\ ~run[r].timedOut
  /\ run' = [run EXCEPT ![r].pc = "waiting", ![r].dispatched = @ \cup {run[r].attempt}]
  /\ UNCHANGED <<automation, autoRows, active, due, timers, faultVars>>

(* The delay is over: the work is dispatched again.  Once the timeout has  *)
(* rejected, it wins the race at once.                                     *)
Retry(r) ==
  LET w == [run[r] EXCEPT !.pc = "waiting", !.dispatched = @ \cup {run[r].attempt}] IN
  /\ run[r].pc = "delay"
  /\ ~suspended[w.by]
  /\ \/ w.timedOut /\ AttemptFails(r, w)
     \/ /\ ~w.timedOut
        /\ run' = [run EXCEPT ![r] = w]
        /\ UNCHANGED <<autoRows, active, due, timers>>
  /\ UNCHANGED <<automation, faultVars>>

(* Mutant: a heartbeat that does not reach the row.                        *)
Heartbeat_Idle(r) ==
  /\ r \in due
  /\ ~suspended[run[r].by]
  /\ due' = due \ {r}
  /\ UNCHANGED <<automation, runVars, timers, faultVars>>

Heartbeat(r) ==
  /\ r \in due
  /\ ~suspended[run[r].by]
  /\ due' = due \ {r}
  /\ autoRows' = [autoRows EXCEPT ![r].lease =
       IF autoRows[r].status = "running" THEN autoTime + Ttl ELSE @]
  /\ UNCHANGED <<automation, active, run, timers, faultVars>>

-----------------------------------------------------------------------------
(* Time, and processes that are suspended, resumed, or die and restart.    *)
TimePasses ==
  /\ autoTime < MaxAutoTime
  /\ \A r \in due : suspended[run[r].by]
  /\ autoTime' = autoTime + 1
  /\ overslept' = overslept \cup due
  /\ due' = {r \in AutoRun : RunInProgress(r)}
  /\ UNCHANGED <<automation, runVars, timers, suspended, reloads, schedulerCrashes>>

(* An idle process that is suspended is one whose timers do not ring.      *)
Suspend(s) ==
  /\ MaySuspend
  /\ suspended[s] \/ \E r \in RunsOf(s) : RunInProgress(r)
  /\ suspended' = [suspended EXCEPT ![s] = ~@]
  /\ UNCHANGED <<automation, runVars, timers, due, autoTime, reloads, schedulerCrashes,
                 overslept>>

CrashScheduler(s) ==
  /\ schedulerCrashes < MaxSchedulerCrashes
  /\ schedulerCrashes' = schedulerCrashes + 1
  /\ run' = [r \in AutoRun |->
       IF r \notin RunsOf(s) THEN run[r]
       ELSE [run[r] EXCEPT !.dispatched = {}, !.pc = IF RunInProgress(r) THEN "crashed" ELSE @]]
  /\ active' = [active EXCEPT ![s] = FALSE]
  /\ due' = due \ RunsOf(s)
  /\ suspended' = [suspended EXCEPT ![s] = FALSE]
  /\ \E enabled, late \in BOOLEAN :
       timers' = [timers EXCEPT ![s] = Started([live |-> 0, mapped |-> FALSE], enabled, late)]
  /\ UNCHANGED <<automation, autoRows, autoTime, reloads, overslept>>

AutomationNext ==
  \/ \E s \in Scheduler :
       Ring(s) \/ RunNow(s) \/ ReloadAutomations(s) \/ Suspend(s) \/ CrashScheduler(s)
  \/ \E r \in AutoRun :
       \/ TimesOut(r) \/ Retry(r) \/ Heartbeat(r)
       \/ \E a \in Attempt : DispatchEnds(r, a)
  \/ TimePasses

AutomationSpec == AutomationInit /\ [][AutomationNext]_autoVars

(* The timers of the timeout and of the delay ring.  A dispatch need never *)
(* end, and a suspended process need never resume.                         *)
AutomationFairness ==
  \A r \in AutoRun : WF_autoVars(TimesOut(r)) /\ WF_autoVars(Retry(r))

-----------------------------------------------------------------------------
(* The heartbeat protects the lease: a run is taken over only from a       *)
(* process that died or was suspended for longer than a heartbeat.         *)
OnlyTheDeadLoseTheirLease ==
  [][\A r \in AutoRun :
       autoRows[r].status = "running" /\ autoRows'[r].status = "lapsed"
         => run[r].pc = "crashed" \/ r \in overslept]_autoVars

(* Two dispatches of an automation that skips overlapping work are at work *)
(* together only after a timeout that could not stop one of them, or after *)
(* its process was suspended: never because of a crash, a retry, a reload  *)
(* or another process (run and acquireClaim).                              *)
OverlapIsALeftover ==
  Skips => \A r, q \in AutoRun : \A a, b \in Attempt :
    /\ run[r].pc # "none" /\ a \in run[r].dispatched
    /\ run[q].pc # "none" /\ b \in run[q].dispatched
    /\ <<r, a>> # <<q, b>>
    => run[r].timedOut \/ run[q].timedOut \/ {r, q} \cap overslept # {}

(* A run with a timeout ends, also when no dispatch ever answers, unless   *)
(* its process is suspended.                                               *)
RunsEnd ==
  \A r \in AutoRun :
    RunInProgress(r) /\ automation.timeout ~> ~RunInProgress(r) \/ suspended[run[r].by]
=============================================================================
