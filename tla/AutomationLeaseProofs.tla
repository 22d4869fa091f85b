----------------------- MODULE AutomationLeaseProofs -----------------------
(***************************************************************************)
(* Proofs about automations: types, that the heartbeat protects the lease  *)
(* and that work which is not to overlap does so only as a leftover, for   *)
(* any schedulers, runs, retries and lengths of the lease.                 *)
(*                                                                         *)
(* The argument: a run that is alive, that is in progress and was never    *)
(* asleep for too long, has its row at "running" with a lease that lasts   *)
(* beyond the next heartbeat (Leased).  A claim finds such a lease held,   *)
(* so that no other run is alive where overlapping work is skipped         *)
(* (OneAlive).  Without a timeout a run has no dispatch but the one it     *)
(* waits for (Awaited).                                                    *)
(***************************************************************************)
EXTENDS AutomationLease, TLAPS

Alive(r) == RunInProgress(r) /\ r \notin overslept

(* Rows, activations and timers belong together.                           *)
Recorded ==
  /\ \A r \in AutoRun :
       /\ autoRows[r].status = "absent" <=> run[r].pc = "none"
       /\ run[r].pc = "done" => autoRows[r].status # "running"
       /\ run[r].pc = "none" => r \notin overslept
  /\ \A r \in due : RunInProgress(r)
  /\ \A s \in Scheduler : timers[s].mapped => timers[s].live > 0

Leased ==
  \A r \in AutoRun : Alive(r) =>
    /\ autoRows[r].status = "running"
    /\ autoRows[r].lease > autoTime
    /\ r \notin due => autoRows[r].lease > autoTime + 1

OneAlive == Skips => \A r, q \in AutoRun : Alive(r) /\ Alive(q) => r = q

Awaited ==
  \A r \in AutoRun : run[r].pc # "none" /\ ~run[r].timedOut =>
    \A a \in run[r].dispatched : run[r].pc = "waiting" /\ a = run[r].attempt

LeaseInv ==
  /\ AutomationTypeOK
  /\ Recorded
  /\ Leased
  /\ OneAlive
  /\ Awaited

-----------------------------------------------------------------------------
(* The types of what the definitions compute.                              *)
LEMMA Constants ==
  /\ MaxRetries \in Nat /\ MaxAutoTime \in Nat /\ Ttl \in Nat /\ Ttl >= 2
  /\ MaxReloads \in Nat /\ MaxSchedulerCrashes \in Nat
  BY AutomationAssumption DEF AutomationAssumption

(* A timer that start leaves in the map is alive.                          *)
LEMMA StartedTimers ==
  ASSUME NEW t \in Timers, t.mapped => t.live > 0,
         NEW enabled \in BOOLEAN, NEW late \in BOOLEAN
  PROVE  /\ Started(t, enabled, late) \in Timers
         /\ Started(t, enabled, late).mapped => Started(t, enabled, late).live > 0
<1> DEFINE kept == IF t.mapped THEN t.live - 1 ELSE t.live
           set  == enabled /\ ~(late /\ automation.trigger = "once")
<1>1. kept \in Nat
  BY DEF Timers
<1>2. set \in BOOLEAN
  OBVIOUS
<1>3. Started(t, enabled, late) = [live |-> IF set THEN kept + 1 ELSE kept, mapped |-> set]
  BY DEF Started
<1> HIDE DEF kept, set
<1> QED
  BY <1>1, <1>2, <1>3 DEF Timers

(* A timer that is set again is alive.                                     *)
LEMMA RearmedTimers ==
  ASSUME NEW t \in Timers
  PROVE  Rearmed(t) \in Timers /\ Rearmed(t).live > 0
  BY DEF Timers, Rearmed

(* A timer that rang is in the map only while another is alive.            *)
LEMMA RungTimers ==
  ASSUME NEW t \in Timers, t.live > 0, NEW u \in AfterRing(t), t.mapped => t.live > 0
  PROVE  u \in Timers /\ (u.mapped => u.live > 0)
  BY DEF Timers, AfterRing

-----------------------------------------------------------------------------
(* A claim: what it finds and what it leaves.                              *)
LEMMA NobodyAlive ==
  ASSUME LeaseInv, NEW s \in Scheduler, ~Refused(s), Skips
  PROVE  \A r \in AutoRun : ~Alive(r)
  BY DEF LeaseInv, Leased, Refused, Held

(* The claim that opens a run keeps the invariant.                         *)
LEMMA BeginInv ==
  ASSUME LeaseInv, NEW s \in Scheduler, NEW t \in Timers, t.mapped => t.live > 0,
         NEW rearms \in BOOLEAN, Begin(s, t, rearms),
         UNCHANGED <<automation, due, faultVars>>
  PROVE  LeaseInv'
<1> USE DEF LeaseInv
<1>1. CASE Refused(s) /\ UNCHANGED runVars
           /\ timers' = [timers EXCEPT ![s] = IF rearms THEN Rearmed(t) ELSE t]
  <2>1. /\ (IF rearms THEN Rearmed(t) ELSE t) \in Timers
        /\ (IF rearms THEN Rearmed(t) ELSE t).mapped
             => (IF rearms THEN Rearmed(t) ELSE t).live > 0
    BY RearmedTimers
  <2>2. AutomationTypeOK'
    BY <1>1, <2>1 DEF AutomationTypeOK, runVars, faultVars
  <2>3. Recorded'
    BY <1>1, <2>1 DEF Recorded, AutomationTypeOK, runVars, faultVars, RunInProgress
  <2>4. Leased' /\ OneAlive' /\ Awaited'
    BY <1>1 DEF Leased, OneAlive, Awaited, Alive, RunInProgress, Skips, runVars, faultVars
  <2> QED
    BY <2>2, <2>3, <2>4
<1>2. ASSUME ~Refused(s), NEW r \in AutoRun, autoRows[r].status = "absent", AcquireClaim(r),
             run' = [run EXCEPT ![r] =
               [pc |-> "waiting", by |-> s, attempt |-> 1, timedOut |-> FALSE,
                dispatched |-> {1}, rearms |-> rearms]],
             active' = [active EXCEPT ![s] = TRUE],
             timers' = [timers EXCEPT ![s] = t]
      PROVE  LeaseInv'
  <2>0. /\ run[r].pc = "none" /\ r \notin overslept /\ r \notin due
        /\ autoTime \in Nat /\ autoTime <= MaxAutoTime
    BY <1>2, Constants DEF Recorded, RunInProgress, AutomationTypeOK
  <2>1. /\ autoTime + Ttl \in 0..(MaxAutoTime + Ttl)
        /\ autoTime + Ttl > autoTime + 1
    BY <2>0, Constants
  <2>2. \A q \in AutoRun \ {r} :
          /\ run'[q] = run[q]
          /\ autoRows'[q].lease = autoRows[q].lease
          /\ \/ autoRows'[q].status = autoRows[q].status
             \/ autoRows'[q].status = "lapsed" /\ autoRows[q].status = "running"
    <3>1. ASSUME NEW q \in AutoRun \ {r}
          PROVE  \/ autoRows'[q] = autoRows[q]
                 \/ /\ autoRows[q].status = "running"
                    /\ autoRows'[q] = [autoRows[q] EXCEPT !.status = "lapsed"]
      BY <1>2 DEF AcquireClaim
    <3>2. \A q \in AutoRun : autoRows[q] \in
            [status: {"absent", "running", "lapsed", "succeeded", "failed"},
             lease: 0..(MaxAutoTime + Ttl)]
      BY DEF AutomationTypeOK
    <3>3. \A q \in AutoRun \ {r} : run'[q] = run[q]
      BY <1>2 DEF AutomationTypeOK
    <3> QED
      BY <3>1, <3>2, <3>3
  <2>3. \A q \in AutoRun \ {r} : Alive(q) => autoRows'[q].status = autoRows[q].status
    BY <1>2, NobodyAlive DEF AcquireClaim
  <2>4. /\ run'[r].pc = "waiting" /\ ~run'[r].timedOut /\ run'[r].dispatched = {1}
        /\ run'[r].attempt = 1
        /\ autoRows'[r] = [status |-> "running", lease |-> autoTime + Ttl]
    BY <1>2 DEF AutomationTypeOK, AcquireClaim
  <2>5. AutomationTypeOK'
    <3>1. 1 \in Attempt
      BY Constants DEF Attempt
    <3>2. autoRows' \in [AutoRun -> [status: {"absent", "running", "lapsed", "succeeded", "failed"},
                                     lease: 0..(MaxAutoTime + Ttl)]]
      BY <1>2, <2>1 DEF AutomationTypeOK, AcquireClaim
    <3>3. [pc |-> "waiting", by |-> s, attempt |-> 1, timedOut |-> FALSE,
           dispatched |-> {1}, rearms |-> rearms]
          \in [pc: {"waiting", "delay", "done", "crashed"}, by: Scheduler, attempt: Attempt,
               timedOut: BOOLEAN, dispatched: SUBSET Attempt, rearms: BOOLEAN]
      BY <3>1
    <3> QED
      BY <1>2, <3>2, <3>3 DEF AutomationTypeOK, faultVars
  <2>6. Recorded'
    BY <1>2, <2>0, <2>2, <2>4 DEF Recorded, AutomationTypeOK, RunInProgress, faultVars
  <2>7. Leased'
    <3>1. autoTime + Ttl > autoTime
      BY <2>0, Constants
    <3>2. autoTime' = autoTime /\ due' = due /\ overslept' = overslept
      BY DEF faultVars
    <3>3. \A q \in AutoRun \ {r} : Alive(q)' => Alive(q)
      BY <2>2, <3>2 DEF Alive, RunInProgress
    <3>4. ASSUME NEW q \in AutoRun, Alive(q)'
          PROVE  /\ autoRows'[q].status = "running"
                 /\ autoRows'[q].lease > autoTime
                 /\ q \notin due => autoRows'[q].lease > autoTime + 1
      <4>1. CASE q = r
        BY <2>1, <2>4, <3>1, <4>1
      <4>2. CASE q # r
        BY <2>2, <2>3, <3>3, <3>4, <4>2 DEF Leased
      <4> QED
        BY <4>1, <4>2
    <3> QED
      BY <3>2, <3>4 DEF Leased
  <2>8. OneAlive'
    BY <1>2, <2>2, NobodyAlive DEF OneAlive, Alive, RunInProgress, Skips, faultVars
  <2>9. Awaited'
    BY <2>2, <2>4 DEF Awaited
  <2> QED
    BY <2>5, <2>6, <2>7, <2>8, <2>9
<1> QED
  BY <1>1, <1>2 DEF Begin

-----------------------------------------------------------------------------
(* The rest of `run`.  A run that ends, or is tried again later.           *)
LEMMA FinishInv ==
  ASSUME LeaseInv, NEW r \in AutoRun, NEW w, NEW status \in {"succeeded", "failed"},
         RunInProgress(r),
         w \in [pc: {"waiting", "delay"}, by: Scheduler, attempt: Attempt,
                timedOut: BOOLEAN, dispatched: SUBSET Attempt, rearms: BOOLEAN],
         ~w.timedOut => w.dispatched = {},
         Finish(r, w, status), UNCHANGED <<automation, faultVars>>
  PROVE  LeaseInv'
<1> USE DEF LeaseInv
<1>1. /\ run' = [run EXCEPT ![r] = [w EXCEPT !.pc = "done"]]
      /\ autoRows' = [autoRows EXCEPT ![r].status = status]
      /\ due' = due \ {r}
      /\ autoTime' = autoTime /\ overslept' = overslept
  BY DEF Finish, faultVars
<1>2. [w EXCEPT !.pc = "done"]
      \in [pc: {"done"}, by: Scheduler, attempt: Attempt,
           timedOut: BOOLEAN, dispatched: SUBSET Attempt, rearms: BOOLEAN]
  OBVIOUS
<1>3. run'[r].pc = "done" /\ (~run'[r].timedOut => run'[r].dispatched = {})
  BY <1>1 DEF AutomationTypeOK
<1>4. \A q \in AutoRun \ {r} : run'[q] = run[q] /\ autoRows'[q] = autoRows[q]
  BY <1>1 DEF AutomationTypeOK
<1>5. /\ timers' \in [Scheduler -> Timers]
      /\ \A s \in Scheduler : timers'[s].mapped => timers'[s].live > 0
  BY RearmedTimers DEF Finish, AutomationTypeOK, Recorded
<1>6. AutomationTypeOK'
  <2>1. run' \in [AutoRun -> {NotStarted} \cup
          [pc: {"waiting", "delay", "done", "crashed"}, by: Scheduler, attempt: Attempt,
           timedOut: BOOLEAN, dispatched: SUBSET Attempt, rearms: BOOLEAN]]
    BY <1>1, <1>2 DEF AutomationTypeOK
  <2>2. autoRows' \in [AutoRun -> [status: {"absent", "running", "lapsed", "succeeded", "failed"},
                                   lease: 0..(MaxAutoTime + Ttl)]]
    BY <1>1 DEF AutomationTypeOK
  <2>3. active' \in [Scheduler -> BOOLEAN] /\ UNCHANGED <<automation, faultVars>>
    BY DEF Finish, AutomationTypeOK
  <2> QED
    BY <1>1, <1>5, <2>1, <2>2, <2>3 DEF AutomationTypeOK, faultVars
<1>7. Recorded'
  <2>1. autoRows'[r].status = status
    BY <1>1 DEF AutomationTypeOK
  <2> QED
    BY <1>1, <1>3, <1>4, <1>5, <2>1 DEF Recorded, RunInProgress
<1>8. \A q \in AutoRun : Alive(q)' => q # r /\ Alive(q)
  BY <1>1, <1>3, <1>4 DEF Alive, RunInProgress
<1>9. Leased' /\ OneAlive' /\ Awaited'
  BY <1>1, <1>3, <1>4, <1>8 DEF Leased, OneAlive, Awaited, Skips
<1> QED
  BY <1>6, <1>7, <1>9

(* A run whose record changes, and which goes on or not as before, keeps it. *)
LEMMA GoesOnInv ==
  ASSUME LeaseInv, NEW r \in AutoRun, NEW w,
         run[r].pc # "none", RunInProgress(r) <=> w.pc \in {"waiting", "delay"},
         w.pc \in {"done", "crashed"} => w.pc = run[r].pc,
         w \in [pc: {"waiting", "delay", "done", "crashed"}, by: Scheduler, attempt: Attempt,
                timedOut: BOOLEAN, dispatched: SUBSET Attempt, rearms: BOOLEAN],
         ~w.timedOut => \A a \in w.dispatched : w.pc = "waiting" /\ a = w.attempt,
         run' = [run EXCEPT ![r] = w],
         UNCHANGED <<autoRows, active, due, timers, automation, faultVars>>
  PROVE  LeaseInv'
<1> USE DEF LeaseInv
<1>1. run'[r] = w /\ \A q \in AutoRun \ {r} : run'[q] = run[q]
  BY DEF AutomationTypeOK
<1>2. AutomationTypeOK'
  BY DEF AutomationTypeOK, faultVars
<1>3. \A q \in AutoRun : RunInProgress(q)' <=> RunInProgress(q)
  BY <1>1 DEF RunInProgress
<1>4. Recorded'
  <2>1. w.pc # "none" /\ (w.pc = "done" => run[r].pc = "done")
    OBVIOUS
  <2> QED
    BY <1>1, <1>3, <2>1 DEF Recorded, faultVars, AutomationTypeOK
<1>5. Leased' /\ OneAlive' /\ Awaited'
  BY <1>1, <1>3 DEF Leased, OneAlive, Awaited, Alive, Skips, faultVars
<1> QED
  BY <1>2, <1>4, <1>5

(* An attempt that fails keeps it.                                         *)
LEMMA AttemptFailsInv ==
  ASSUME LeaseInv, NEW r \in AutoRun, NEW w, RunInProgress(r),
         w \in [pc: {"waiting", "delay"}, by: Scheduler, attempt: Attempt,
                timedOut: BOOLEAN, dispatched: SUBSET Attempt, rearms: BOOLEAN],
         ~w.timedOut => w.dispatched = {},
         AttemptFails(r, w), UNCHANGED <<automation, faultVars>>
  PROVE  LeaseInv'
<1>1. CASE Finish(r, w, "failed")
  BY <1>1, FinishInv
<1>2. CASE /\ w.attempt <= MaxRetries
           /\ run' = [run EXCEPT ![r] = [w EXCEPT !.pc = "delay", !.attempt = @ + 1]]
           /\ UNCHANGED <<autoRows, active, due, timers>>
  <2> DEFINE v == [w EXCEPT !.pc = "delay", !.attempt = @ + 1]
  <2>1. w.attempt + 1 \in Attempt
    <3>1. w.attempt \in Nat /\ w.attempt >= 1
      BY Constants DEF Attempt
    <3> QED
      BY <1>2, <3>1, Constants DEF Attempt
  <2>2. /\ v \in [pc: {"delay"}, by: Scheduler, attempt: Attempt,
                   timedOut: BOOLEAN, dispatched: SUBSET Attempt, rearms: BOOLEAN]
        /\ v.timedOut = w.timedOut /\ v.dispatched = w.dispatched
    BY <2>1
  <2> HIDE DEF v
  <2>3. run[r].pc # "none"
    BY DEF RunInProgress
  <2>4. run' = [run EXCEPT ![r] = v]
    BY <1>2 DEF v
  <2>5. /\ RunInProgress(r) <=> v.pc \in {"waiting", "delay"}
        /\ v.pc \in {"done", "crashed"} => v.pc = run[r].pc
        /\ v \in [pc: {"waiting", "delay", "done", "crashed"}, by: Scheduler, attempt: Attempt,
                  timedOut: BOOLEAN, dispatched: SUBSET Attempt, rearms: BOOLEAN]
        /\ ~v.timedOut => \A a \in v.dispatched : v.pc = "waiting" /\ a = v.attempt
    BY <2>2
  <2> QED
    BY <1>2, <2>3, <2>4, <2>5, GoesOnInv
<1> QED
  BY <1>1, <1>2 DEF AttemptFails

(* What a run is, while it is in progress and when its dispatch `a` ends.  *)
LEMMA InProgressType ==
  ASSUME LeaseInv, NEW r \in AutoRun, RunInProgress(r)
  PROVE  run[r] \in [pc: {"waiting", "delay"}, by: Scheduler, attempt: Attempt,
                     timedOut: BOOLEAN, dispatched: SUBSET Attempt, rearms: BOOLEAN]
  BY DEF LeaseInv, AutomationTypeOK, RunInProgress, NotStarted

(* A dispatch that ends keeps it.                                          *)
LEMMA DispatchEndsInv ==
  ASSUME LeaseInv, NEW r \in AutoRun, NEW a \in Attempt, DispatchEnds(r, a)
  PROVE  LeaseInv'
<1> DEFINE w == [run[r] EXCEPT !.dispatched = @ \ {a}]
<1>1. run[r] \in [pc: {"waiting", "delay", "done", "crashed"}, by: Scheduler,
                  attempt: Attempt, timedOut: BOOLEAN, dispatched: SUBSET Attempt,
                  rearms: BOOLEAN]
  BY DEF LeaseInv, AutomationTypeOK, DispatchEnds, NotStarted
<1>2. /\ w \in [pc: {run[r].pc}, by: Scheduler, attempt: Attempt,
                timedOut: BOOLEAN, dispatched: SUBSET Attempt, rearms: BOOLEAN]
      /\ w.pc = run[r].pc /\ w.timedOut = run[r].timedOut /\ w.attempt = run[r].attempt
      /\ w.dispatched = run[r].dispatched \ {a}
  BY <1>1
<1>3. UNCHANGED <<automation, faultVars>>
  BY DEF DispatchEnds
<1>4. ~w.timedOut => \A b \in w.dispatched : w.pc = "waiting" /\ b = w.attempt
  BY <1>1, <1>2 DEF LeaseInv, Awaited
<1>5. \/ /\ w.pc = "waiting" /\ a = w.attempt
         /\ Finish(r, w, "succeeded") \/ AttemptFails(r, w)
      \/ /\ run' = [run EXCEPT ![r] = w]
         /\ UNCHANGED <<autoRows, active, due, timers>>
  BY DEF DispatchEnds
<1> HIDE DEF w
<1>6. CASE /\ w.pc = "waiting" /\ a = w.attempt
           /\ Finish(r, w, "succeeded") \/ AttemptFails(r, w)
  <2>1. ~w.timedOut => w.dispatched = {}
    BY <1>2, <1>4, <1>6
  <2>2. RunInProgress(r)
    BY <1>2, <1>6 DEF RunInProgress
  <2>3. w \in [pc: {"waiting", "delay"}, by: Scheduler, attempt: Attempt,
               timedOut: BOOLEAN, dispatched: SUBSET Attempt, rearms: BOOLEAN]
    BY <1>2, <1>6
  <2> QED
    BY <1>3, <1>6, <2>1, <2>2, <2>3, FinishInv, AttemptFailsInv
<1>7. CASE /\ run' = [run EXCEPT ![r] = w]
           /\ UNCHANGED <<autoRows, active, due, timers>>
  <2>1. RunInProgress(r) <=> w.pc \in {"waiting", "delay"}
    BY <1>2 DEF RunInProgress
  <2>2. w \in [pc: {"waiting", "delay", "done", "crashed"}, by: Scheduler, attempt: Attempt,
               timedOut: BOOLEAN, dispatched: SUBSET Attempt, rearms: BOOLEAN]
    BY <1>1, <1>2
  <2>3. run[r].pc # "none"
    BY <1>1
  <2> QED
    BY <1>2, <1>3, <1>4, <1>7, <2>1, <2>2, <2>3, GoesOnInv
<1> QED
  BY <1>5, <1>6, <1>7

(* A timeout keeps it.                                                     *)
LEMMA TimesOutInv ==
  ASSUME LeaseInv, NEW r \in AutoRun, TimesOut(r)
  PROVE  LeaseInv'
<1> DEFINE w == [run[r] EXCEPT !.timedOut = TRUE]
<1>1. RunInProgress(r)
  BY DEF TimesOut
<1>2. /\ w \in [pc: {"waiting", "delay"}, by: Scheduler, attempt: Attempt,
                timedOut: BOOLEAN, dispatched: SUBSET Attempt, rearms: BOOLEAN]
      /\ w.timedOut
  BY <1>1, InProgressType
<1>3. UNCHANGED <<automation, faultVars>>
  BY DEF TimesOut
<1>4. \/ AttemptFails(r, w)
      \/ run' = [run EXCEPT ![r] = w] /\ UNCHANGED <<autoRows, active, due, timers>>
  BY DEF TimesOut
<1> HIDE DEF w
<1>5. CASE AttemptFails(r, w)
  BY <1>1, <1>2, <1>3, <1>5, AttemptFailsInv
<1>6. CASE run' = [run EXCEPT ![r] = w] /\ UNCHANGED <<autoRows, active, due, timers>>
  <2>1. w \in [pc: {"waiting", "delay", "done", "crashed"}, by: Scheduler, attempt: Attempt,
               timedOut: BOOLEAN, dispatched: SUBSET Attempt, rearms: BOOLEAN]
    BY <1>2
  <2>2. w.pc \in {"waiting", "delay"} /\ run[r].pc # "none"
    BY <1>1, <1>2 DEF RunInProgress
  <2> QED
    BY <1>1, <1>2, <1>3, <1>6, <2>1, <2>2, GoesOnInv
<1> QED
  BY <1>4, <1>5, <1>6

(* A retry keeps it.                                                       *)
LEMMA RetryInv ==
  ASSUME LeaseInv, NEW r \in AutoRun, Retry(r)
  PROVE  LeaseInv'
<1> DEFINE w == [run[r] EXCEPT !.pc = "waiting", !.dispatched = @ \cup {run[r].attempt}]
<1>1. RunInProgress(r) /\ run[r].pc = "delay"
  BY DEF Retry, RunInProgress
<1>2. /\ w \in [pc: {"waiting"}, by: Scheduler, attempt: Attempt,
                timedOut: BOOLEAN, dispatched: SUBSET Attempt, rearms: BOOLEAN]
      /\ w.timedOut = run[r].timedOut /\ w.attempt = run[r].attempt
      /\ w.dispatched = run[r].dispatched \cup {run[r].attempt}
  <2>1. run[r] \in [pc: {"waiting", "delay"}, by: Scheduler, attempt: Attempt,
                    timedOut: BOOLEAN, dispatched: SUBSET Attempt, rearms: BOOLEAN]
    BY <1>1, InProgressType
  <2>2. run[r].dispatched \cup {run[r].attempt} \in SUBSET Attempt
    BY <2>1
  <2> QED
    BY <2>1, <2>2
<1>3. ~w.timedOut => \A b \in w.dispatched : w.pc = "waiting" /\ b = w.attempt
  BY <1>1, <1>2 DEF LeaseInv, Awaited
<1>4. UNCHANGED <<automation, faultVars>>
  BY DEF Retry
<1>5. \/ w.timedOut /\ AttemptFails(r, w)
      \/ run' = [run EXCEPT ![r] = w] /\ UNCHANGED <<autoRows, active, due, timers>>
  BY DEF Retry
<1> HIDE DEF w
<1>6. CASE w.timedOut /\ AttemptFails(r, w)
  <2>1. w \in [pc: {"waiting", "delay"}, by: Scheduler, attempt: Attempt,
               timedOut: BOOLEAN, dispatched: SUBSET Attempt, rearms: BOOLEAN]
    BY <1>2
  <2> QED
    BY <1>1, <1>4, <1>6, <2>1, AttemptFailsInv
<1>7. CASE run' = [run EXCEPT ![r] = w] /\ UNCHANGED <<autoRows, active, due, timers>>
  <2>1. w \in [pc: {"waiting", "delay", "done", "crashed"}, by: Scheduler, attempt: Attempt,
               timedOut: BOOLEAN, dispatched: SUBSET Attempt, rearms: BOOLEAN]
    BY <1>2
  <2>2. w.pc = "waiting" /\ run[r].pc # "none"
    BY <1>1, <1>2
  <2> QED
    BY <1>1, <1>3, <1>4, <1>7, <2>1, <2>2, GoesOnInv
<1> QED
  BY <1>5, <1>6, <1>7

-----------------------------------------------------------------------------
(* Heartbeats, time, and processes that sleep, die or reload.              *)
LEMMA HeartbeatInv ==
  ASSUME LeaseInv, NEW r \in AutoRun, Heartbeat(r)
  PROVE  LeaseInv'
<1> USE DEF LeaseInv
<1>1. /\ autoTime \in Nat /\ autoTime + Ttl \in 0..(MaxAutoTime + Ttl)
      /\ autoTime + Ttl > autoTime + 1 /\ autoTime + Ttl > autoTime
  BY Constants DEF AutomationTypeOK
<1>2. /\ autoRows'[r].status = autoRows[r].status
      /\ autoRows[r].status = "running" => autoRows'[r].lease = autoTime + Ttl
      /\ \A q \in AutoRun \ {r} : autoRows'[q] = autoRows[q]
  BY DEF AutomationTypeOK, Heartbeat
<1>3. AutomationTypeOK'
  <2>1. (IF autoRows[r].status = "running" THEN autoTime + Ttl ELSE autoRows[r].lease)
          \in 0..(MaxAutoTime + Ttl)
    BY <1>1 DEF AutomationTypeOK
  <2> QED
    BY <2>1 DEF AutomationTypeOK, Heartbeat, faultVars
<1>4. \A q \in AutoRun : Alive(q)' <=> Alive(q)
  BY DEF Alive, RunInProgress, Heartbeat, faultVars
<1>5. Recorded'
  BY <1>2 DEF Recorded, RunInProgress, Heartbeat, faultVars
<1>6. Leased'
  BY <1>1, <1>2, <1>4 DEF Leased, Heartbeat, faultVars
<1>7. OneAlive' /\ Awaited'
  BY <1>4 DEF OneAlive, Awaited, Skips, Heartbeat
<1> QED
  BY <1>3, <1>5, <1>6, <1>7

(* A heartbeat of time keeps it.                                           *)
LEMMA TimePassesInv ==
  ASSUME LeaseInv, TimePasses
  PROVE  LeaseInv'
<1> USE DEF LeaseInv
<1>1. AutomationTypeOK'
  BY Constants DEF AutomationTypeOK, TimePasses, runVars
<1>2. \A r \in AutoRun : Alive(r)' => Alive(r) /\ r \notin due
  BY DEF Alive, RunInProgress, TimePasses, runVars
<1>3. Recorded'
  BY DEF Recorded, RunInProgress, TimePasses, runVars
<1>4. Leased'
  <2>1. ASSUME NEW r \in AutoRun, Alive(r)'
        PROVE  autoRows[r].status = "running" /\ autoRows[r].lease > autoTime + 1 /\ r \in due'
    BY <1>2, <2>1 DEF Leased, Alive, RunInProgress, TimePasses, runVars
  <2>2. autoTime' = autoTime + 1 /\ autoRows' = autoRows
    BY DEF TimePasses, runVars
  <2> QED
    BY <2>1, <2>2 DEF Leased
<1>5. OneAlive' /\ Awaited'
  BY <1>2 DEF OneAlive, Awaited, Skips, TimePasses, runVars
<1> QED
  BY <1>1, <1>3, <1>4, <1>5

(* A process that is suspended keeps it.                                   *)
LEMMA SuspendInv ==
  ASSUME LeaseInv, NEW s \in Scheduler, Suspend(s)
  PROVE  LeaseInv'
  BY DEF LeaseInv, AutomationTypeOK, Recorded, Leased, OneAlive, Awaited, Alive,
         RunInProgress, Skips, Suspend, runVars

(* A reload keeps it.                                                      *)
LEMMA ReloadInv ==
  ASSUME LeaseInv, NEW s \in Scheduler, ReloadAutomations(s)
  PROVE  LeaseInv'
<1> USE DEF LeaseInv
<1>1. /\ timers' \in [Scheduler -> Timers]
      /\ \A u \in Scheduler : timers'[u].mapped => timers'[u].live > 0
  BY StartedTimers DEF ReloadAutomations, AutomationTypeOK, Recorded
<1>2. AutomationTypeOK'
  BY <1>1, Constants DEF AutomationTypeOK, ReloadAutomations, runVars
<1>3. Recorded'
  BY <1>1 DEF Recorded, RunInProgress, ReloadAutomations, runVars
<1>4. Leased' /\ OneAlive' /\ Awaited'
  BY DEF Leased, OneAlive, Awaited, Alive, RunInProgress, Skips, ReloadAutomations, runVars
<1> QED
  BY <1>2, <1>3, <1>4

(* A process that dies keeps it.                                           *)
LEMMA CrashInv ==
  ASSUME LeaseInv, NEW s \in Scheduler, CrashScheduler(s)
  PROVE  LeaseInv'
<1> USE DEF LeaseInv
<1> DEFINE none == [live |-> 0, mapped |-> FALSE]
<1>1. none \in Timers /\ ~none.mapped
  BY DEF Timers
<1>2. /\ timers' \in [Scheduler -> Timers]
      /\ \A u \in Scheduler : timers'[u].mapped => timers'[u].live > 0
  <2>1. PICK enabled \in BOOLEAN, late \in BOOLEAN :
          timers' = [timers EXCEPT ![s] = Started(none, enabled, late)]
    BY DEF CrashScheduler
  <2>2. /\ Started(none, enabled, late) \in Timers
        /\ Started(none, enabled, late).mapped => Started(none, enabled, late).live > 0
    BY <1>1, StartedTimers
  <2> QED
    BY <2>1, <2>2 DEF AutomationTypeOK, Recorded
<1>3. ASSUME NEW r \in AutoRun
      PROVE  /\ r \notin RunsOf(s) => run'[r] = run[r]
             /\ r \in RunsOf(s) =>
                  run'[r] = [run[r] EXCEPT !.dispatched = {},
                                           !.pc = IF RunInProgress(r) THEN "crashed" ELSE @]
  BY DEF CrashScheduler
<1>4. ASSUME NEW r \in RunsOf(s)
      PROVE  /\ run'[r] \in [pc: {"done", "crashed"}, by: Scheduler, attempt: Attempt,
                             timedOut: BOOLEAN, dispatched: {{}}, rearms: BOOLEAN]
             /\ run'[r].pc = "done" => run[r].pc = "done"
             /\ run[r].pc # "none" /\ r \in AutoRun
  <2>1. r \in AutoRun /\ run[r].pc # "none"
    BY DEF RunsOf
  <2>2. run[r] \in [pc: {"waiting", "delay", "done", "crashed"}, by: Scheduler,
                    attempt: Attempt, timedOut: BOOLEAN, dispatched: SUBSET Attempt,
                    rearms: BOOLEAN]
    BY <2>1 DEF AutomationTypeOK, NotStarted
  <2>3. run'[r] = [run[r] EXCEPT !.dispatched = {},
                                 !.pc = IF RunInProgress(r) THEN "crashed" ELSE @]
    BY <1>3, <2>1
  <2>4. CASE RunInProgress(r)
    BY <2>1, <2>2, <2>3, <2>4
  <2>5. CASE ~RunInProgress(r)
    BY <2>1, <2>2, <2>3, <2>5 DEF RunInProgress
  <2> QED
    BY <2>4, <2>5
<1>5. \A r \in AutoRun : RunInProgress(r)' <=> RunInProgress(r) /\ r \notin RunsOf(s)
  BY <1>3, <1>4 DEF RunInProgress
<1>6. AutomationTypeOK'
  <2>1. \A r \in AutoRun : run'[r] \in {NotStarted} \cup
          [pc: {"waiting", "delay", "done", "crashed"}, by: Scheduler, attempt: Attempt,
           timedOut: BOOLEAN, dispatched: SUBSET Attempt, rearms: BOOLEAN]
    BY <1>3, <1>4 DEF AutomationTypeOK
  <2>2. run' = [r \in AutoRun |-> run'[r]]
    BY DEF CrashScheduler
  <2>3. run' \in [AutoRun -> {NotStarted} \cup
          [pc: {"waiting", "delay", "done", "crashed"}, by: Scheduler, attempt: Attempt,
           timedOut: BOOLEAN, dispatched: SUBSET Attempt, rearms: BOOLEAN]]
    BY <2>1, <2>2
  <2>4. /\ active' \in [Scheduler -> BOOLEAN] /\ suspended' \in [Scheduler -> BOOLEAN]
        /\ due' \subseteq AutoRun /\ overslept' \subseteq AutoRun
        /\ automation' \in Automation
        /\ autoTime' \in 0..MaxAutoTime /\ reloads' \in 0..MaxReloads
    <3>1. /\ active' = [active EXCEPT ![s] = FALSE] /\ suspended' = [suspended EXCEPT ![s] = FALSE]
          /\ due' = due \ RunsOf(s)
          /\ UNCHANGED <<automation, autoTime, reloads, overslept>>
      BY DEF CrashScheduler
    <3> QED
      BY <3>1 DEF AutomationTypeOK
  <2>5. autoRows' \in [AutoRun -> [status: {"absent", "running", "lapsed", "succeeded", "failed"},
                                   lease: 0..(MaxAutoTime + Ttl)]]
    <3>1. autoRows' = autoRows
      BY DEF CrashScheduler
    <3> QED
      BY <3>1 DEF AutomationTypeOK
  <2>6. schedulerCrashes' \in 0..MaxSchedulerCrashes
    <3>1. /\ schedulerCrashes \in 0..MaxSchedulerCrashes
          /\ schedulerCrashes < MaxSchedulerCrashes
          /\ schedulerCrashes' = schedulerCrashes + 1
      BY DEF AutomationTypeOK, CrashScheduler
    <3> QED
      BY <3>1, Constants
  <2>7. timers' \in [Scheduler -> Timers]
    BY <1>2
  <2> HIDE DEF LeaseInv, none
  <2> QED
    BY <2>3, <2>4, <2>5, <2>6, <2>7, Constants DEF AutomationTypeOK
<1>7. Recorded'
  <2>1. autoRows' = autoRows /\ due' = due \ RunsOf(s) /\ overslept' = overslept
    BY DEF CrashScheduler
  <2>2. ASSUME NEW r \in AutoRun
        PROVE  /\ run'[r].pc = "none" <=> run[r].pc = "none"
               /\ run'[r].pc = "done" => run[r].pc = "done"
    <3>1. CASE r \in RunsOf(s)
      BY <1>4, <3>1
    <3>2. CASE r \notin RunsOf(s)
      BY <1>3, <3>2
    <3> QED
      BY <3>1, <3>2
  <2>3. due \subseteq AutoRun
    BY DEF AutomationTypeOK
  <2>4. Recorded
    OBVIOUS
  <2> HIDE DEF LeaseInv, none
  <2>5. \A r \in AutoRun : /\ autoRows'[r].status = "absent" <=> run'[r].pc = "none"
                           /\ run'[r].pc = "done" => autoRows'[r].status # "running"
                           /\ run'[r].pc = "none" => r \notin overslept'
    BY <2>1, <2>2, <2>4 DEF Recorded
  <2>6. \A r \in due' : RunInProgress(r)'
    BY <1>5, <2>1, <2>3, <2>4 DEF Recorded
  <2> QED
    BY <1>2, <2>5, <2>6 DEF Recorded
<1>8. Leased' /\ OneAlive'
  BY <1>5 DEF Leased, OneAlive, Alive, Skips, CrashScheduler
<1>9. Awaited'
  <2>1. \A r \in RunsOf(s) : run'[r].dispatched = {}
    BY <1>4
  <2>2. \A r \in AutoRun : r \notin RunsOf(s) => run'[r] = run[r]
    BY <1>3
  <2> QED
    BY <2>1, <2>2 DEF Awaited
<1> QED
  BY <1>6, <1>7, <1>8, <1>9

(* A timer that rings keeps it.                                            *)
LEMMA RingInv ==
  ASSUME LeaseInv, NEW s \in Scheduler, Ring(s)
  PROVE  LeaseInv'
<1>1. PICK t \in AfterRing(timers[s]) : Begin(s, t, automation.trigger = "cron")
  BY DEF Ring
<1>2. /\ timers[s] \in Timers /\ timers[s].live > 0
      /\ timers[s].mapped => timers[s].live > 0
  BY DEF Ring, LeaseInv, AutomationTypeOK
<1>3. t \in Timers /\ (t.mapped => t.live > 0)
  BY <1>1, <1>2, RungTimers
<1>4. UNCHANGED <<automation, due, faultVars>>
  BY DEF Ring
<1> QED
  BY <1>1, <1>3, <1>4, BeginInv

(* A run by hand keeps it.                                                 *)
LEMMA RunNowInv ==
  ASSUME LeaseInv, NEW s \in Scheduler, RunNow(s)
  PROVE  LeaseInv'
<1>1. timers[s] \in Timers /\ (timers[s].mapped => timers[s].live > 0)
  BY DEF LeaseInv, AutomationTypeOK, Recorded
<1>2. Begin(s, timers[s], FALSE) /\ UNCHANGED <<automation, due, faultVars>>
  BY DEF RunNow
<1> QED
  BY <1>1, <1>2, BeginInv

-----------------------------------------------------------------------------
(* The invariant holds initially.                                          *)
LEMMA LeaseInvInit ==
  AutomationInit => LeaseInv
<1> SUFFICES ASSUME AutomationInit PROVE LeaseInv
  OBVIOUS
<1>1. /\ timers \in [Scheduler -> Timers]
      /\ \A s \in Scheduler : timers[s].mapped => timers[s].live > 0
  <2>1. [live |-> 0, mapped |-> FALSE] \in Timers
    BY DEF Timers
  <2>2. /\ Started([live |-> 0, mapped |-> FALSE], TRUE, FALSE) \in Timers
        /\ Started([live |-> 0, mapped |-> FALSE], TRUE, FALSE).mapped
             => Started([live |-> 0, mapped |-> FALSE], TRUE, FALSE).live > 0
    BY <2>1, StartedTimers
  <2> QED
    BY <2>2 DEF AutomationInit
<1>2. AutomationTypeOK
  <2>1. /\ automation \in Automation
        /\ active \in [Scheduler -> BOOLEAN] /\ suspended \in [Scheduler -> BOOLEAN]
        /\ due \subseteq AutoRun /\ overslept \subseteq AutoRun
    BY DEF AutomationInit
  <2>2. autoRows \in [AutoRun -> [status: {"absent", "running", "lapsed", "succeeded", "failed"},
                                  lease: 0..(MaxAutoTime + Ttl)]]
    <3>1. 0 \in 0..(MaxAutoTime + Ttl)
      BY Constants
    <3> QED
      BY <3>1 DEF AutomationInit
  <2>3. run \in [AutoRun -> {NotStarted} \cup
          [pc: {"waiting", "delay", "done", "crashed"}, by: Scheduler, attempt: Attempt,
           timedOut: BOOLEAN, dispatched: SUBSET Attempt, rearms: BOOLEAN]]
    BY DEF AutomationInit
  <2>4. /\ autoTime \in 0..MaxAutoTime
        /\ reloads \in 0..MaxReloads /\ schedulerCrashes \in 0..MaxSchedulerCrashes
    BY Constants DEF AutomationInit
  <2> QED
    BY <1>1, <2>1, <2>2, <2>3, <2>4 DEF AutomationTypeOK
<1>3. Recorded
  BY <1>1 DEF AutomationInit, Recorded, NotStarted
<1>4. Leased /\ OneAlive /\ Awaited
  BY DEF AutomationInit, Leased, OneAlive, Awaited, Alive, RunInProgress, NotStarted
<1> QED
  BY <1>2, <1>3, <1>4 DEF LeaseInv

(* Every step keeps it.                                                    *)
LEMMA LeaseInvStep ==
  LeaseInv /\ [AutomationNext]_autoVars => LeaseInv'
<1> SUFFICES ASSUME LeaseInv, [AutomationNext]_autoVars PROVE LeaseInv'
  OBVIOUS
<1>1. ASSUME NEW s \in Scheduler,
             Ring(s) \/ RunNow(s) \/ ReloadAutomations(s) \/ Suspend(s) \/ CrashScheduler(s)
      PROVE  LeaseInv'
  BY <1>1, RingInv, RunNowInv, ReloadInv, SuspendInv, CrashInv
<1>2. ASSUME NEW r \in AutoRun, TimesOut(r) \/ Retry(r) \/ Heartbeat(r)
      PROVE  LeaseInv'
  BY <1>2, TimesOutInv, RetryInv, HeartbeatInv
<1>3. ASSUME NEW r \in AutoRun, NEW a \in Attempt, DispatchEnds(r, a)
      PROVE  LeaseInv'
  BY <1>3, DispatchEndsInv
<1>4. CASE TimePasses
  BY <1>4, TimePassesInv
<1>5. CASE UNCHANGED autoVars
  BY <1>5 DEF LeaseInv, AutomationTypeOK, Recorded, Leased, OneAlive, Awaited, Alive,
              RunInProgress, Skips, autoVars, runVars, faultVars
<1> QED
  BY <1>1, <1>2, <1>3, <1>4, <1>5 DEF AutomationNext

-----------------------------------------------------------------------------
(* Every variable of the automation stays in its type (automation.ts).     *)
THEOREM AutomationTyping == AutomationSpec => []AutomationTypeOK
<1>1. LeaseInv => AutomationTypeOK
  BY DEF LeaseInv
<1> QED
  BY <1>1, LeaseInvInit, LeaseInvStep, PTL DEF AutomationSpec

(* Work that is not to overlap does so only as a leftover of a timeout or  *)
(* of a process that slept (run and acquireClaim).                         *)
THEOREM Leftovers == AutomationSpec => []OverlapIsALeftover
<1>1. LeaseInv => OverlapIsALeftover
  <2> SUFFICES ASSUME LeaseInv, Skips,
                      NEW r \in AutoRun, NEW q \in AutoRun,
                      NEW a \in Attempt, NEW b \in Attempt,
                      run[r].pc # "none", a \in run[r].dispatched,
                      run[q].pc # "none", b \in run[q].dispatched,
                      ~run[r].timedOut, ~run[q].timedOut,
                      r \notin overslept, q \notin overslept
               PROVE  <<r, a>> = <<q, b>>
    BY DEF OverlapIsALeftover
  <2>1. /\ run[r].pc = "waiting" /\ a = run[r].attempt
        /\ run[q].pc = "waiting" /\ b = run[q].attempt
    BY DEF LeaseInv, Awaited
  <2>2. r = q
    BY <2>1 DEF LeaseInv, OneAlive, Alive, RunInProgress
  <2> QED
    BY <2>1, <2>2
<1> QED
  BY <1>1, LeaseInvInit, LeaseInvStep, PTL DEF AutomationSpec

(* A run is taken over only from a process that died or slept for longer   *)
(* than a heartbeat (the interval of run, the update of acquireClaim).     *)
THEOREM TakenFromTheDead == AutomationSpec => OnlyTheDeadLoseTheirLease
<1> DEFINE Lost(r) == autoRows[r].status = "running" /\ autoRows'[r].status = "lapsed"
           Kept == \A r \in AutoRun : Lost(r) => run[r].pc = "crashed" \/ r \in overslept
<1>1. LeaseInv /\ [AutomationNext]_autoVars => [Kept]_autoVars
  <2> SUFFICES ASSUME LeaseInv, AutomationNext, NEW r \in AutoRun, Lost(r)
               PROVE  run[r].pc = "crashed" \/ r \in overslept
    OBVIOUS
  <2>1. ~Alive(r) => run[r].pc = "crashed" \/ r \in overslept
    BY DEF LeaseInv, Recorded, Alive, RunInProgress, AutomationTypeOK, NotStarted
  <2>2. ASSUME NEW s \in Scheduler, NEW t, NEW rearms, Begin(s, t, rearms)
        PROVE  ~Alive(r)
    <3>1. ~Refused(s) /\ \E q \in AutoRun : autoRows[q].status = "absent" /\ AcquireClaim(q)
      BY <2>2 DEF Begin, runVars
    <3>2. Skips
      BY <3>1 DEF AcquireClaim
    <3> QED
      BY <3>1, <3>2, NobodyAlive
  <2>3. ASSUME NEW q \in AutoRun, NEW w, NEW status \in {"succeeded", "failed"},
               Finish(q, w, status)
        PROVE  FALSE
    BY <2>3 DEF Finish, LeaseInv, AutomationTypeOK
  <2>4. ASSUME NEW q \in AutoRun, NEW w, AttemptFails(q, w)
        PROVE  FALSE
    BY <2>3, <2>4 DEF AttemptFails
  <2>5. ASSUME NEW q \in AutoRun, Heartbeat(q)
        PROVE  FALSE
    BY <2>5 DEF Heartbeat, LeaseInv, AutomationTypeOK
  <2>6. ASSUME NEW q \in AutoRun, NEW a \in Attempt,
               DispatchEnds(q, a) \/ TimesOut(q) \/ Retry(q)
        PROVE  FALSE
    BY <2>3, <2>4, <2>6 DEF DispatchEnds, TimesOut, Retry
  <2>7. ASSUME NEW s \in Scheduler,
               ReloadAutomations(s) \/ Suspend(s) \/ CrashScheduler(s)
        PROVE  FALSE
    BY <2>7 DEF ReloadAutomations, Suspend, CrashScheduler, runVars
  <2>8. ~TimePasses
    BY DEF TimePasses, runVars
  <2>9. 1 \in Attempt
    BY Constants DEF Attempt
  <2> QED
    BY <2>1, <2>2, <2>5, <2>6, <2>7, <2>8, <2>9 DEF AutomationNext, Ring, RunNow
<1>2. AutomationSpec => [][Kept]_autoVars
  BY <1>1, LeaseInvInit, LeaseInvStep, PTL DEF AutomationSpec
<1> QED
  BY <1>2 DEF OnlyTheDeadLoseTheirLease

=============================================================================
