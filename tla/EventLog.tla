------------------------------ MODULE EventLog ------------------------------
(***************************************************************************)
(* The audit log (harness/event-log.ts).  Every event names the one before *)
(* it, and verifyChain walks the events in the order of their time stamps. *)
(* The stamps come from nowIso (harness/types.ts), which never repeats or  *)
(* goes back within one life of one process, whatever the clock does, and  *)
(* which other rows than events use as well.                               *)
(*                                                                         *)
(* Most events are appended inside a transaction that has written already, *)
(* which makes an append one step; model.usage, model.error and            *)
(* channel.message_received are not, so that another process may come      *)
(* between the stamp, the search for the latest event and the insertion.   *)
(*                                                                         *)
(* An event is known by its identifier, which is drawn at random.  Its     *)
(* hash covers everything in it and the hash before, so the identifier     *)
(* stands for the hash.                                                    *)
(***************************************************************************)
EXTENDS Naturals

CONSTANTS
  Writer,         \* processes that have the database open
  EventId,        \* identifiers, in the order the database sorts them
  ClockGoesBack,  \* BOOLEAN: the clock of the machine may be set back
  MaxClock,       \* bound: readings of the clock
  MaxStamp,       \* bound: stamps, which run ahead of the clock in a burst
  MaxLives        \* bound: starts of each process

ASSUME EventAssumption ==
  /\ EventId \subseteq Nat \ {0}
  /\ ClockGoesBack \in BOOLEAN
  /\ MaxClock \in Nat /\ MaxStamp \in Nat /\ MaxLives \in Nat \ {0}

VARIABLES
  events,     \* the rows of events
  clock,      \* Date.now()
  lastStamp,  \* lastTimestampMs of each process
  life,       \* how often each process was started
  draft       \* the event each process is about to insert

eventVars == <<events, clock, lastStamp, life, draft>>

Genesis == 0
NoDraft == [step |-> "none"]

EventRow == [id: EventId, at: 1..MaxStamp, by: Writer \X (1..MaxLives),
             prev: EventId \cup {Genesis}]
Draft == {NoDraft}
    \cup [step: {"stamped"}, id: EventId, at: 1..MaxStamp]
    \cup [step: {"chained"}, id: EventId, at: 1..MaxStamp,
          prev: EventId \cup {Genesis}]

EventTypeOK ==
  /\ events \in SUBSET EventRow
  /\ clock \in 0..MaxClock
  /\ lastStamp \in [Writer -> 0..MaxStamp]
  /\ life \in [Writer -> 1..MaxLives]
  /\ draft \in [Writer -> Draft]

EventInit ==
  /\ events = {}
  /\ clock = 0
  /\ lastStamp = [w \in Writer |-> 0]
  /\ life = [w \in Writer |-> 1]
  /\ draft = [w \in Writer |-> NoDraft]

-----------------------------------------------------------------------------
Author(w) == <<w, life[w]>>

(* Mutant: nowIso without its memory.                                      *)
NowIso_Clock(w) == IF clock = 0 THEN 1 ELSE clock

NowIso(w) == IF clock <= lastStamp[w] THEN lastStamp[w] + 1 ELSE clock

(* newId: never an identifier in use.                                      *)
Fresh(id) ==
  /\ \A e \in events : e.id # id
  /\ \A w \in Writer : draft[w] # NoDraft => draft[w].id # id

(* order by created_at, id                                                 *)
Before(e, f) == e.at < f.at \/ (e.at = f.at /\ e.id < f.id)

IsLatest(e, log) == e \in log /\ \A f \in log \ {e} : Before(f, e)

PreviousOf(log) ==
  IF log = {} THEN Genesis ELSE (CHOOSE e \in log : IsLatest(e, log)).id

(* verifyChain: each event names the one sorted right before it.           *)
VerifyChain(log) ==
  \A e \in log : e.prev = PreviousOf({f \in log : Before(f, e)})

Event(w, id, at, prev) == [id |-> id, at |-> at, by |-> Author(w), prev |-> prev]

-----------------------------------------------------------------------------
(* A row other than an event takes a stamp.                                *)
OtherRow(w) ==
  /\ draft[w] = NoDraft
  /\ NowIso(w) <= MaxStamp
  /\ lastStamp' = [lastStamp EXCEPT ![w] = NowIso(w)]
  /\ UNCHANGED <<events, clock, life, draft>>

(* append within a transaction.                                            *)
AppendEvent(w, id) ==
  /\ draft[w] = NoDraft
  /\ Fresh(id)
  /\ NowIso(w) <= MaxStamp
  /\ lastStamp' = [lastStamp EXCEPT ![w] = NowIso(w)]
  /\ events' = events \cup {Event(w, id, NowIso(w), PreviousOf(events))}
  /\ UNCHANGED <<clock, life, draft>>

(* append without one: the row is stamped, chained and inserted.           *)
StampEvent(w, id) ==
  /\ draft[w] = NoDraft
  /\ Fresh(id)
  /\ NowIso(w) <= MaxStamp
  /\ lastStamp' = [lastStamp EXCEPT ![w] = NowIso(w)]
  /\ draft' = [draft EXCEPT ![w] = [step |-> "stamped", id |-> id, at |-> NowIso(w)]]
  /\ UNCHANGED <<events, clock, life>>

ChainEvent(w) ==
  /\ draft[w].step = "stamped"
  /\ draft' = [draft EXCEPT ![w] = [step |-> "chained", id |-> @.id, at |-> @.at,
                                    prev |-> PreviousOf(events)]]
  /\ UNCHANGED <<events, clock, lastStamp, life>>

InsertEvent(w) ==
  /\ draft[w].step = "chained"
  /\ events' = events \cup {Event(w, draft[w].id, draft[w].at, draft[w].prev)}
  /\ draft' = [draft EXCEPT ![w] = NoDraft]
  /\ UNCHANGED <<clock, lastStamp, life>>

(* The environment: time, and the end and restart of a process.            *)
ClockMoves ==
  /\ \E now \in 0..MaxClock :
       /\ now # clock
       /\ ClockGoesBack \/ now > clock
       /\ clock' = now
  /\ UNCHANGED <<events, lastStamp, life, draft>>

RestartWriter(w) ==
  /\ life[w] < MaxLives
  /\ life' = [life EXCEPT ![w] = @ + 1]
  /\ lastStamp' = [lastStamp EXCEPT ![w] = 0]
  /\ draft' = [draft EXCEPT ![w] = NoDraft]
  /\ UNCHANGED <<events, clock>>

EventNext ==
  \/ \E w \in Writer :
       \/ OtherRow(w) \/ ChainEvent(w) \/ InsertEvent(w) \/ RestartWriter(w)
       \/ \E id \in EventId : AppendEvent(w, id) \/ StampEvent(w, id)
  \/ ClockMoves

EventSpec == EventInit /\ [][EventNext]_eventVars

-----------------------------------------------------------------------------
(* A log with one author verifies, wherever the clock went and however the *)
(* steps of an append were cut: stamps of one life are increasing and the  *)
(* event before is still the latest when the next is inserted (nowIso and  *)
(* append).  Other processes may be in the middle of an append of their    *)
(* own.                                                                    *)
OneAuthorVerifies ==
  (\A e, f \in events : e.by = f.by) => VerifyChain(events)

(* What `corvus doctor` and the test of the audit chain take for granted:  *)
(* a log nobody tampered with verifies.                                    *)
UntamperedVerifies == VerifyChain(events)
=============================================================================
