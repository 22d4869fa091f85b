--------------------------- MODULE RecordsProofs ---------------------------
(***************************************************************************)
(* Proofs about three components that keep durable records and share no    *)
(* state: the audit log (EventLog), the delegation to sub-agents           *)
(* (SubagentTasks) and the tasks given to Codex (CodexRun); and about      *)
(* MCRecords, which puts them and the automations side by side.            *)
(***************************************************************************)
EXTENDS MCRecords, AutomationLeaseProofs, FiniteSetTheorems, TLAPS

-----------------------------------------------------------------------------
(* The audit log: its types, and that a log with one author verifies, for  *)
(* any processes, identifiers and clock.                                   *)
(*                                                                         *)
(* The argument: the stamps of one life of one process only grow, so that  *)
(* an event of the only author is sorted behind all the others, and what   *)
(* it was chained to is still the latest when it is inserted (Chained).    *)
(* That the rows have a latest at all (HasLatest) is kept by hand, one     *)
(* insertion at a time.                                                    *)

(* Identifiers are never used twice, in rows or drafts.                    *)
Identified ==
  /\ \A e, f \in events : e.id = f.id => e = f
  /\ \A e \in events : \A w \in Writer : draft[w] # NoDraft => draft[w].id # e.id
  /\ \A v, w \in Writer :
       draft[v] # NoDraft /\ draft[w] # NoDraft /\ draft[v].id = draft[w].id => v = w

HasLatest == events # {} => \E e \in events : IsLatest(e, events)

(* Nothing is signed by a life to come, nothing by the present one is      *)
(* later than its last stamp, and its draft is later than its rows.        *)
Stamped ==
  \A w \in Writer :
    /\ \A e \in events : e.by[1] = w => e.by[2] <= life[w]
    /\ \A e \in events : e.by = Author(w) => e.at <= lastStamp[w]
    /\ draft[w] # NoDraft =>
         /\ draft[w].at <= lastStamp[w]
         /\ \A e \in events : e.by = Author(w) => e.at < draft[w].at

(* The draft of the only author is chained to what is still the latest.    *)
Chained ==
  \A w \in Writer :
    draft[w].step = "chained" /\ (\A e \in events : e.by = Author(w))
      => draft[w].prev = PreviousOf(events)

LogInv ==
  /\ EventTypeOK
  /\ Identified
  /\ HasLatest
  /\ Stamped
  /\ Chained
  /\ OneAuthorVerifies

-----------------------------------------------------------------------------
(* What the fields of a row are.                                           *)
LEMMA RowType ==
  ASSUME NEW e \in EventRow
  PROVE  e.at \in Nat /\ e.id \in Nat /\ e.id \in EventId /\ e.by \in Writer \X (1..MaxLives)
<1>1. e.at \in 1..MaxStamp /\ e.id \in EventId /\ e.by \in Writer \X (1..MaxLives)
  BY DEF EventRow
<1>2. MaxStamp \in Nat /\ \A id \in EventId : id \in Nat
  BY EventAssumption DEF EventAssumption
<1>3. e.at \in Nat
  BY <1>1, <1>2
<1> QED
  BY <1>1, <1>2, <1>3

(* What a log with a latest row is chained to is one of its identifiers.   *)
LEMMA PreviousType ==
  ASSUME EventTypeOK, HasLatest
  PROVE  PreviousOf(events) \in EventId \cup {Genesis}
<1>1. CASE events = {}
  BY <1>1 DEF PreviousOf
<1>2. CASE events # {}
  <2>1. (CHOOSE e \in events : IsLatest(e, events)) \in events
    BY <1>2 DEF HasLatest
  <2>2. \A e \in events : e.id \in EventId
    BY DEF EventTypeOK, EventRow
  <2> QED
    BY <1>2, <2>1, <2>2 DEF PreviousOf
<1> QED
  BY <1>1, <1>2

(* nowIso: a stamp is later than every one before it.                      *)
LEMMA StampGrows ==
  ASSUME EventTypeOK, NEW w \in Writer
  PROVE  /\ NowIso(w) \in Nat
         /\ NowIso(w) > lastStamp[w]
         /\ NowIso(w) >= 1
<1>1. clock \in Nat /\ lastStamp[w] \in Nat
  BY EventAssumption DEF EventAssumption, EventTypeOK
<1> QED
  BY <1>1 DEF NowIso

(* The log keeps a latest row when a row with a new identifier comes in.   *)
LEMMA LatestOfMore ==
  ASSUME EventTypeOK, HasLatest, NEW n \in EventRow, \A e \in events : e.id # n.id
  PROVE  \E e \in events \cup {n} : IsLatest(e, events \cup {n})
<1>0. \A e \in events \cup {n} : e.at \in Nat /\ e.id \in Nat
  BY RowType DEF EventTypeOK
<1>1. CASE events = {}
  BY <1>1 DEF IsLatest
<1>2. CASE events # {}
  <2>1. PICK l \in events : IsLatest(l, events)
    BY <1>2 DEF HasLatest
  <2>2. CASE Before(l, n)
    <3>1. \A f \in events : Before(f, n)
      BY <1>0, <2>1, <2>2 DEF IsLatest, Before
    <3> QED
      BY <3>1 DEF IsLatest
  <2>3. CASE ~Before(l, n)
    <3>1. Before(n, l)
      BY <1>0, <2>1, <2>3 DEF Before
    <3> QED
      BY <2>1, <3>1 DEF IsLatest
  <2> QED
    BY <2>2, <2>3
<1> QED
  BY <1>1, <1>2

(* A row behind all others, chained to the latest of them, keeps a log     *)
(* that verifies a log that verifies.                                      *)
LEMMA ChainGrows ==
  ASSUME EventTypeOK, NEW n \in EventRow,
         VerifyChain(events),
         \A e \in events : e.at < n.at,
         n.prev = PreviousOf(events)
  PROVE  VerifyChain(events \cup {n})
<1>0. \A e \in events \cup {n} : e.at \in Nat /\ e.id \in Nat
  BY RowType DEF EventTypeOK
<1>1. \A e \in events :
        {f \in events \cup {n} : Before(f, e)} = {f \in events : Before(f, e)}
  BY <1>0 DEF Before
<1>2. {f \in events \cup {n} : Before(f, n)} = events
  BY <1>0 DEF Before
<1> QED
  BY <1>1, <1>2 DEF VerifyChain

-----------------------------------------------------------------------------
(* A row n of process w comes in, with a new identifier, a stamp behind    *)
(* the rows of this life, and chained to the latest if w is the only       *)
(* author.  The draft of w, if there was one, is gone.                     *)
LEMMA RowComesIn ==
  ASSUME LogInv, NEW w \in Writer, NEW n \in EventRow,
         n.by = Author(w),
         \A e \in events : e.id # n.id,
         \A v \in Writer \ {w} : draft[v] # NoDraft => draft[v].id # n.id,
         \A e \in events : e.by = Author(w) => e.at < n.at,
         (\A e \in events : e.by = Author(w)) => n.prev = PreviousOf(events),
         lastStamp' \in [Writer -> 0..MaxStamp],
         n.at <= lastStamp'[w],
         lastStamp[w] <= lastStamp'[w],
         \A v \in Writer \ {w} : lastStamp'[v] = lastStamp[v],
         draft' \in [Writer -> Draft],
         draft'[w] = NoDraft,
         \A v \in Writer \ {w} : draft'[v] = draft[v],
         events' = events \cup {n},
         UNCHANGED <<clock, life>>
  PROVE  LogInv'
<1> USE DEF LogInv
<1>a. \A e \in events \cup {n} : e.at \in Nat /\ e.by \in Writer \X (1..MaxLives)
  BY RowType DEF EventTypeOK
<1>0. \A v \in Writer : /\ lastStamp[v] \in Nat /\ lastStamp'[v] \in Nat
                        /\ life[v] \in Nat
  BY EventAssumption DEF EventAssumption, EventTypeOK
<1>1. EventTypeOK'
  BY DEF EventTypeOK
<1>2. Identified'
  BY DEF Identified
<1>3. HasLatest'
  BY LatestOfMore DEF Identified, HasLatest
<1>4. Stamped'
  <2> SUFFICES ASSUME NEW v \in Writer
               PROVE  /\ \A e \in events' : e.by[1] = v => e.by[2] <= life'[v]
                      /\ \A e \in events' : e.by = Author(v)' => e.at <= lastStamp'[v]
                      /\ draft'[v] # NoDraft =>
                           /\ draft'[v].at <= lastStamp'[v]
                           /\ \A e \in events' : e.by = Author(v)' => e.at < draft'[v].at
    BY DEF Stamped
  <2>1. Author(v)' = Author(v)
    BY DEF Author
  <2>2. CASE v = w
    BY <1>0, <1>a, <2>1, <2>2 DEF Stamped, Author
  <2>3. CASE v # w
    <3>1. n.by # Author(v) /\ n.by[1] # v
      BY <2>3 DEF Author
    <3> QED
      BY <2>1, <2>3, <3>1 DEF Stamped
  <2> QED
    BY <2>2, <2>3
<1>5. Chained'
  <2> SUFFICES ASSUME NEW v \in Writer, draft'[v].step = "chained",
                      \A e \in events' : e.by = Author(v)'
               PROVE  FALSE
    BY DEF Chained
  <2>1. v # w
    BY DEF NoDraft
  <2>2. n.by = Author(v)
    BY DEF Author
  <2> QED
    BY <2>1, <2>2 DEF Author
<1>6. OneAuthorVerifies'
  <2> SUFFICES ASSUME \A e, f \in events' : e.by = f.by
               PROVE  VerifyChain(events')
    BY DEF OneAuthorVerifies
  <2>1. \A e \in events : e.by = Author(w)
    OBVIOUS
  <2>2. VerifyChain(events)
    BY <2>1 DEF OneAuthorVerifies
  <2> QED
    BY <2>1, <2>2, ChainGrows
<1> QED
  BY <1>1, <1>2, <1>3, <1>4, <1>5, <1>6

(* append in a transaction: the stamp is later than all of this life.      *)
LEMMA AppendEventInv ==
  ASSUME LogInv, NEW w \in Writer, NEW id \in EventId, AppendEvent(w, id)
  PROVE  LogInv'
<1> DEFINE n == Event(w, id, NowIso(w), PreviousOf(events))
<1>1. NowIso(w) \in 1..MaxStamp /\ NowIso(w) > lastStamp[w]
  BY StampGrows, EventAssumption DEF LogInv, AppendEvent, EventAssumption
<1>2. n \in EventRow
  BY <1>1, PreviousType DEF LogInv, Event, EventRow, Author, EventTypeOK
<1>3. n.by = Author(w) /\ n.id = id /\ n.at = NowIso(w) /\ n.prev = PreviousOf(events)
  BY DEF Event
<1>4. \A e \in events : e.by = Author(w) => e.at < n.at
  <2>1. \A e \in events : e.at \in Nat
    BY RowType DEF LogInv, EventTypeOK
  <2>2. lastStamp[w] \in Nat
    BY EventAssumption DEF LogInv, EventTypeOK, EventAssumption
  <2> QED
    BY <1>1, <1>3, <2>1, <2>2 DEF LogInv, Stamped
<1>5. /\ lastStamp' \in [Writer -> 0..MaxStamp]
      /\ lastStamp[w] <= lastStamp'[w] /\ n.at <= lastStamp'[w]
      /\ \A v \in Writer \ {w} : lastStamp'[v] = lastStamp[v]
  BY <1>1, <1>3, EventAssumption DEF LogInv, EventTypeOK, EventAssumption, AppendEvent
<1>6. /\ draft' \in [Writer -> Draft] /\ draft'[w] = NoDraft
      /\ \A v \in Writer \ {w} : draft'[v] = draft[v]
      /\ events' = events \cup {n}
      /\ UNCHANGED <<clock, life>>
  BY DEF LogInv, EventTypeOK, AppendEvent
<1>7. /\ \A e \in events : e.id # n.id
      /\ \A v \in Writer \ {w} : draft[v] # NoDraft => draft[v].id # n.id
  BY <1>3 DEF AppendEvent, Fresh
<1> HIDE DEF n
<1> QED
  BY <1>2, <1>3, <1>4, <1>5, <1>6, <1>7, RowComesIn

(* The last step of an append outside a transaction.                       *)
LEMMA InsertEventInv ==
  ASSUME LogInv, NEW w \in Writer, InsertEvent(w)
  PROVE  LogInv'
<1> DEFINE n == Event(w, draft[w].id, draft[w].at, draft[w].prev)
<1>1. draft[w] \in [step: {"chained"}, id: EventId, at: 1..MaxStamp,
                    prev: EventId \cup {Genesis}]
  BY DEF LogInv, EventTypeOK, InsertEvent, Draft, NoDraft
<1>2. n \in EventRow
  BY <1>1 DEF LogInv, Event, EventRow, Author, EventTypeOK
<1>3. /\ n.by = Author(w) /\ n.id = draft[w].id /\ n.at = draft[w].at
      /\ n.prev = draft[w].prev
  BY DEF Event
<1>4. draft[w] # NoDraft /\ draft[w].step = "chained"
  BY <1>1 DEF NoDraft
<1>5. /\ \A e \in events : e.by = Author(w) => e.at < n.at
      /\ n.at <= lastStamp[w]
  BY <1>3, <1>4 DEF LogInv, Stamped
<1>6. (\A e \in events : e.by = Author(w)) => n.prev = PreviousOf(events)
  BY <1>3, <1>4 DEF LogInv, Chained
<1>7. /\ lastStamp' \in [Writer -> 0..MaxStamp] /\ lastStamp' = lastStamp
      /\ lastStamp[w] <= lastStamp'[w]
  BY EventAssumption DEF LogInv, EventTypeOK, InsertEvent, EventAssumption
<1>8. /\ draft' \in [Writer -> Draft] /\ draft'[w] = NoDraft
      /\ \A v \in Writer \ {w} : draft'[v] = draft[v]
      /\ events' = events \cup {n}
      /\ UNCHANGED <<clock, life>>
  BY DEF LogInv, EventTypeOK, InsertEvent, Draft
<1>9. /\ \A e \in events : e.id # n.id
      /\ \A v \in Writer \ {w} : draft[v] # NoDraft => draft[v].id # n.id
  BY <1>3, <1>4 DEF LogInv, Identified
<1> HIDE DEF n
<1> QED
  BY <1>2, <1>3, <1>5, <1>6, <1>7, <1>8, <1>9, RowComesIn

-----------------------------------------------------------------------------
(* The steps that leave the rows alone.                                    *)
LEMMA StampEventInv ==
  ASSUME LogInv, NEW w \in Writer, NEW id \in EventId, StampEvent(w, id)
  PROVE  LogInv'
<1>1. NowIso(w) \in 1..MaxStamp /\ NowIso(w) > lastStamp[w]
  BY StampGrows, EventAssumption DEF LogInv, StampEvent, EventAssumption
<1>2. \A v \in Writer : lastStamp[v] \in Nat
  BY EventAssumption DEF LogInv, EventTypeOK, EventAssumption
<1>3. \A e \in events : e.at \in Nat
  BY RowType DEF LogInv, EventTypeOK
<1>4. /\ draft'[w] = [step |-> "stamped", id |-> id, at |-> NowIso(w)]
      /\ \A v \in Writer \ {w} : draft'[v] = draft[v] /\ lastStamp'[v] = lastStamp[v]
      /\ lastStamp'[w] = NowIso(w)
      /\ UNCHANGED <<events, clock, life>>
  BY DEF LogInv, EventTypeOK, StampEvent
<1>5. EventTypeOK'
  BY <1>1 DEF LogInv, EventTypeOK, StampEvent, Draft
<1>6. Identified'
  BY <1>4 DEF LogInv, Identified, StampEvent, Fresh
<1>7. HasLatest'
  BY <1>4 DEF LogInv, HasLatest
<1>8. Stamped'
  <2>1. \A v \in Writer : Author(v)' = Author(v)
    BY <1>4 DEF Author
  <2> SUFFICES ASSUME NEW v \in Writer
               PROVE  /\ \A e \in events : e.by[1] = v => e.by[2] <= life[v]
                      /\ \A e \in events : e.by = Author(v) => e.at <= lastStamp'[v]
                      /\ draft'[v] # NoDraft =>
                           /\ draft'[v].at <= lastStamp'[v]
                           /\ \A e \in events : e.by = Author(v) => e.at < draft'[v].at
    BY <1>4, <2>1 DEF Stamped
  <2>2. CASE v = w
    BY <1>1, <1>2, <1>3, <1>4, <2>2 DEF LogInv, Stamped
  <2>3. CASE v # w
    BY <1>4, <2>3 DEF LogInv, Stamped
  <2> QED
    BY <2>2, <2>3
<1>9. Chained'
  BY <1>4 DEF LogInv, Chained, Author
<1>10. OneAuthorVerifies'
  BY <1>4 DEF LogInv, OneAuthorVerifies
<1> QED
  BY <1>5, <1>6, <1>7, <1>8, <1>9, <1>10 DEF LogInv

(* Chaining an event keeps the invariant.                                  *)
LEMMA ChainEventInv ==
  ASSUME LogInv, NEW w \in Writer, ChainEvent(w)
  PROVE  LogInv'
<1>1. draft[w] \in [step: {"stamped"}, id: EventId, at: 1..MaxStamp]
  BY DEF LogInv, EventTypeOK, ChainEvent, Draft, NoDraft
<1>2. draft[w] # NoDraft
  BY <1>1 DEF NoDraft
<1>3. /\ draft'[w] = [step |-> "chained", id |-> draft[w].id, at |-> draft[w].at,
                      prev |-> PreviousOf(events)]
      /\ \A v \in Writer \ {w} : draft'[v] = draft[v]
      /\ UNCHANGED <<events, clock, lastStamp, life>>
  BY DEF LogInv, EventTypeOK, ChainEvent
<1>4. EventTypeOK'
  BY <1>1, PreviousType DEF LogInv, EventTypeOK, ChainEvent, Draft
<1>5. Identified'
  BY <1>2, <1>3 DEF LogInv, Identified
<1>6. HasLatest'
  BY <1>3 DEF LogInv, HasLatest
<1>7. Stamped'
  BY <1>2, <1>3 DEF LogInv, Stamped, Author
<1>8. Chained'
  BY <1>3 DEF LogInv, Chained, Author
<1>9. OneAuthorVerifies'
  BY <1>3 DEF LogInv, OneAuthorVerifies
<1> QED
  BY <1>4, <1>5, <1>6, <1>7, <1>8, <1>9 DEF LogInv

(* Another row that a process stamps (nowIso) keeps it.                    *)
LEMMA OtherRowInv ==
  ASSUME LogInv, NEW w \in Writer, OtherRow(w)
  PROVE  LogInv'
<1>1. NowIso(w) \in 1..MaxStamp /\ NowIso(w) > lastStamp[w]
  BY StampGrows, EventAssumption DEF LogInv, OtherRow, EventAssumption
<1>2. \A v \in Writer : lastStamp[v] \in Nat
  BY EventAssumption DEF LogInv, EventTypeOK, EventAssumption
<1>3. \A e \in events : e.at \in Nat
  BY RowType DEF LogInv, EventTypeOK
<1>4. /\ draft[w] = NoDraft /\ lastStamp'[w] = NowIso(w)
      /\ \A v \in Writer \ {w} : lastStamp'[v] = lastStamp[v]
      /\ UNCHANGED <<events, clock, life, draft>>
  BY DEF LogInv, EventTypeOK, OtherRow
<1>5. EventTypeOK'
  BY <1>1 DEF LogInv, EventTypeOK, OtherRow
<1>6. Identified' /\ HasLatest' /\ Chained' /\ OneAuthorVerifies'
  BY <1>4 DEF LogInv, Identified, HasLatest, Chained, OneAuthorVerifies, Author
<1>7. Stamped'
  BY <1>1, <1>2, <1>3, <1>4 DEF LogInv, Stamped, Author
<1> QED
  BY <1>5, <1>6, <1>7 DEF LogInv

(* A process starts anew: nothing is signed by its new life yet.           *)
LEMMA RestartWriterInv ==
  ASSUME LogInv, NEW w \in Writer, RestartWriter(w)
  PROVE  LogInv'
<1>1. \A v \in Writer : life[v] \in Nat
  BY EventAssumption DEF LogInv, EventTypeOK, EventAssumption
<1>2. \A e \in events : e.by \in Writer \X (1..MaxLives)
  BY RowType DEF LogInv, EventTypeOK
<1>3. /\ draft'[w] = NoDraft /\ life'[w] = life[w] + 1
      /\ \A v \in Writer \ {w} : /\ draft'[v] = draft[v] /\ life'[v] = life[v]
                                /\ lastStamp'[v] = lastStamp[v]
      /\ UNCHANGED <<events, clock>>
  BY DEF LogInv, EventTypeOK, RestartWriter
<1>4. EventTypeOK'
  BY <1>1, EventAssumption DEF LogInv, EventTypeOK, RestartWriter, EventAssumption, Draft
<1>5. Identified' /\ HasLatest' /\ OneAuthorVerifies'
  BY <1>3 DEF LogInv, Identified, HasLatest, OneAuthorVerifies
<1>6. Stamped'
  <2> SUFFICES ASSUME NEW v \in Writer
               PROVE  /\ \A e \in events : e.by[1] = v => e.by[2] <= life'[v]
                      /\ \A e \in events : e.by = Author(v)' => e.at <= lastStamp'[v]
                      /\ draft'[v] # NoDraft =>
                           /\ draft'[v].at <= lastStamp'[v]
                           /\ \A e \in events : e.by = Author(v)' => e.at < draft'[v].at
    BY <1>3 DEF Stamped
  <2>1. CASE v = w
    <3>1. \A e \in events : e.by[2] \in Nat
      BY <1>2
    <3>2. \A e \in events : e.by # Author(v)'
      BY <1>1, <1>3, <2>1, <3>1 DEF LogInv, Stamped, Author
    <3> QED
      BY <1>1, <1>3, <2>1, <3>1, <3>2 DEF LogInv, Stamped
  <2>2. CASE v # w
    BY <1>3, <2>2 DEF LogInv, Stamped, Author
  <2> QED
    BY <2>1, <2>2
<1>7. Chained'
  <2> SUFFICES ASSUME NEW v \in Writer, draft'[v].step = "chained",
                      \A e \in events : e.by = Author(v)'
               PROVE  draft'[v].prev = PreviousOf(events)
    BY <1>3 DEF Chained
  <2>1. v # w
    BY <1>3 DEF NoDraft
  <2> QED
    BY <1>3, <2>1 DEF LogInv, Chained, Author
<1> QED
  BY <1>4, <1>5, <1>6, <1>7 DEF LogInv

(* The clock moves, or nothing does.                                       *)
LEMMA ClockInv ==
  ASSUME LogInv, clock' \in 0..MaxClock, UNCHANGED <<events, lastStamp, life, draft>>
  PROVE  LogInv'
BY DEF LogInv, EventTypeOK, Identified, HasLatest, Stamped, Chained, OneAuthorVerifies,
       Author

(* It holds initially.                                                     *)
LEMMA LogInvInit ==
  EventInit => LogInv
<1> SUFFICES ASSUME EventInit PROVE LogInv
  OBVIOUS
<1>1. EventTypeOK
  BY EventAssumption DEF EventInit, EventTypeOK, EventAssumption, Draft
<1>2. Identified /\ HasLatest /\ Stamped /\ Chained /\ OneAuthorVerifies
  BY DEF EventInit, Identified, HasLatest, Stamped, Chained, OneAuthorVerifies,
         VerifyChain, NoDraft
<1> QED
  BY <1>1, <1>2 DEF LogInv

(* Every step keeps it.                                                    *)
LEMMA LogInvStep ==
  LogInv /\ [EventNext]_eventVars => LogInv'
<1> SUFFICES ASSUME LogInv, [EventNext]_eventVars PROVE LogInv'
  OBVIOUS
<1>1. ASSUME NEW w \in Writer, OtherRow(w) PROVE LogInv'
  BY <1>1, OtherRowInv
<1>2. ASSUME NEW w \in Writer, ChainEvent(w) PROVE LogInv'
  BY <1>2, ChainEventInv
<1>3. ASSUME NEW w \in Writer, InsertEvent(w) PROVE LogInv'
  BY <1>3, InsertEventInv
<1>4. ASSUME NEW w \in Writer, RestartWriter(w) PROVE LogInv'
  BY <1>4, RestartWriterInv
<1>5. ASSUME NEW w \in Writer, NEW id \in EventId, AppendEvent(w, id) PROVE LogInv'
  BY <1>5, AppendEventInv
<1>6. ASSUME NEW w \in Writer, NEW id \in EventId, StampEvent(w, id) PROVE LogInv'
  BY <1>6, StampEventInv
<1>7. CASE ClockMoves
  BY <1>7, ClockInv DEF ClockMoves
<1>8. CASE UNCHANGED eventVars
  <2>1. clock' \in 0..MaxClock
    BY <1>8 DEF LogInv, EventTypeOK, eventVars
  <2> QED
    BY <1>8, <2>1, ClockInv DEF eventVars
<1> QED
  BY <1>1, <1>2, <1>3, <1>4, <1>5, <1>6, <1>7, <1>8 DEF EventNext

-----------------------------------------------------------------------------
(* Every variable of the audit log stays in its type (event-log.ts,        *)
(* nowIso).                                                                *)
THEOREM EventTyping == EventSpec => []EventTypeOK
<1>1. LogInv => EventTypeOK
  BY DEF LogInv
<1> QED
  BY <1>1, LogInvInit, LogInvStep, PTL DEF EventSpec

(* A log with one author verifies, whatever the clock does and however     *)
(* many other processes are at work on events of their own (append,        *)
(* verifyChain).                                                           *)
THEOREM OneAuthor == EventSpec => []OneAuthorVerifies
<1>1. LogInv => OneAuthorVerifies
  BY DEF LogInv
<1> QED
  BY <1>1, LogInvInit, LogInvStep, PTL DEF EventSpec

-----------------------------------------------------------------------------
(* The delegation to sub-agents: types, the agreement of memory and row,   *)
(* the limits and the leases, for any tasks and files.                     *)
(*                                                                         *)
(* The argument: a record is "running" exactly while its task is at work   *)
(* and not canceled, and a row is settled before its task is (RowFirst).   *)
(* The role's count is the number of tasks at work (Counted).  A lease     *)
(* that did not run out is in the hands of a task at work, which nobody    *)
(* else may take it from (Guarded).                                        *)

Running == {t \in Task : status[t] = "running"}

RowFirst ==
  \A t \in Task :
    /\ status[t] = "running" <=> t \in TasksInProgress /\ ~aborted[t]
    /\ t \in TasksInProgress /\ aborted[t] => rows[t] = "canceled"
    /\ place[t] = "preparing" /\ ~aborted[t] => rows[t] = "running"
    /\ place[t] = "indexing" /\ ~aborted[t] => rows[t] = "succeeded"
    /\ place[t] = "none" => ~aborted[t] /\ rows[t] = "none" /\ writing[t] = {}

Counted ==
  /\ roleTasks = Cardinality(TasksInProgress)
  /\ ActiveCount <= MaxConcurrent

Guarded == expired \subseteq outlived /\ WritersHoldTheLease

TaskInv ==
  /\ SubagentTypeOK
  /\ RowFirst
  /\ EndsAgree
  /\ Counted
  /\ Guarded

-----------------------------------------------------------------------------
(* What a task that comes or goes does to the number of tasks.             *)
LEMMA FiniteTasks ==
  ASSUME NEW S \in SUBSET Task
  PROVE  /\ IsFiniteSet(S) /\ Cardinality(S) \in Nat
         /\ \A t \in Task :
              /\ t \notin S => Cardinality(S \cup {t}) = Cardinality(S) + 1
              /\ t \in S => Cardinality(S \ {t}) = Cardinality(S) - 1
              /\ Cardinality(S \ {t}) <= Cardinality(S)
<1>1. IsFiniteSet(S)
  BY SubagentAssumption, FS_Subset DEF SubagentAssumption
<1>2. Cardinality(S) \in Nat
  BY <1>1, FS_CardinalityType
<1>3. ASSUME NEW t \in Task
      PROVE  /\ t \notin S => Cardinality(S \cup {t}) = Cardinality(S) + 1
             /\ t \in S => Cardinality(S \ {t}) = Cardinality(S) - 1
             /\ t \notin S => Cardinality(S \ {t}) = Cardinality(S)
  BY <1>1, FS_AddElement, FS_RemoveElement
<1>4. ASSUME NEW t \in Task PROVE Cardinality(S \ {t}) <= Cardinality(S)
  BY <1>2, <1>3
<1> QED
  BY <1>1, <1>2, <1>3, <1>4

(* The steps that bring no task and take none away.                        *)
LEMMA SameCount ==
  ASSUME Counted, TasksInProgress' = TasksInProgress, roleTasks' = roleTasks,
         Running' \subseteq Running
  PROVE  Counted'
<1>1. Cardinality(Running') <= Cardinality(Running)
  <2>1. IsFiniteSet(Running) /\ Cardinality(Running) \in Nat
    BY FiniteTasks DEF Running
  <2> QED
    BY <2>1, FS_Subset
<1>2. Cardinality(Running) \in Nat /\ Cardinality(Running') \in Nat
  <2>1. Running \in SUBSET Task /\ Running' \in SUBSET Task
    BY DEF Running
  <2> QED
    BY <2>1, FiniteTasks
<1> QED
  BY <1>1, <1>2, SubagentAssumption DEF Counted, ActiveCount, Running, SubagentAssumption

-----------------------------------------------------------------------------
(* Delegating a task keeps the invariant.                                  *)
LEMMA DelegateInv ==
  ASSUME TaskInv, NEW t \in Task, NEW parent \in Task \cup {NoTask}, Delegate(t, parent)
  PROVE  TaskInv'
<1> USE DEF TaskInv, taskVars, scopeVars
<1>0. status[t] # "running" /\ t \notin TasksInProgress /\ ~aborted[t] /\ rows[t] = "none"
      /\ writing[t] = {}
  BY DEF RowFirst, TasksInProgress, Delegate
<1>1. DepthUnder(parent) \in 0..MaxDepth
  <2>1. parent # NoTask => depth[parent] \in Nat
    BY SubagentAssumption DEF SubagentTypeOK, SubagentAssumption
  <2> QED
    BY <2>1, SubagentAssumption DEF DepthUnder, Delegate, SubagentAssumption
<1>2. CASE /\ place' = [place EXCEPT ![t] = "preparing"]
           /\ status' = [status EXCEPT ![t] = "running"]
           /\ rows' = [rows EXCEPT ![t] = "running"]
           /\ roleTasks' = roleTasks + 1
  <2>1. roleTasks' \in 0..RoleLimit
    BY <1>2, SubagentAssumption DEF Delegate, SubagentTypeOK, SubagentAssumption
  <2>2. SubagentTypeOK'
    BY <1>1, <1>2, <2>1 DEF SubagentTypeOK, Delegate, TaskStatus
  <2>3. RowFirst' /\ EndsAgree'
    BY <1>0, <1>2 DEF RowFirst, EndsAgree, SubagentTypeOK, Delegate, TasksInProgress
  <2>4. TasksInProgress' = TasksInProgress \cup {t} /\ Running' = Running \cup {t}
    BY <1>2 DEF TasksInProgress, Running, SubagentTypeOK
  <2>5. Counted'
    <3>1. TasksInProgress \in SUBSET Task /\ Running \in SUBSET Task
      BY DEF TasksInProgress, Running
    <3>2. Cardinality(TasksInProgress') = Cardinality(TasksInProgress) + 1
      BY <1>0, <2>4, <3>1, FiniteTasks
    <3>3. Cardinality(Running') = Cardinality(Running) + 1 /\ Cardinality(Running) \in Nat
      BY <1>0, <2>4, <3>1, FiniteTasks DEF Running
    <3>4. Cardinality(Running) < MaxConcurrent
      BY DEF Delegate, ActiveCount, Running
    <3> QED
      BY <1>2, <3>2, <3>3, <3>4, SubagentAssumption
         DEF Counted, ActiveCount, Running, SubagentAssumption
  <2>6. Guarded'
    BY <1>0, <1>2, <2>4 DEF Guarded, WritersHoldTheLease, Delegate
  <2> QED
    BY <2>2, <2>3, <2>5, <2>6
<1>3. CASE /\ place' = [place EXCEPT ![t] = "ended"]
           /\ status' = [status EXCEPT ![t] = "failed"]
           /\ UNCHANGED <<rows, roleTasks>>
  <2>1. SubagentTypeOK'
    BY <1>1, <1>3 DEF SubagentTypeOK, Delegate, TaskStatus
  <2>2. RowFirst' /\ EndsAgree'
    BY <1>0, <1>3 DEF RowFirst, EndsAgree, SubagentTypeOK, Delegate, TasksInProgress
  <2>3. TasksInProgress' = TasksInProgress /\ Running' = Running
    BY <1>0, <1>3 DEF TasksInProgress, Running, SubagentTypeOK, Delegate
  <2>4. Counted'
    BY <1>3, <2>3, SameCount
  <2>5. Guarded'
    BY <1>3, <2>3 DEF Guarded, WritersHoldTheLease, Delegate
  <2> QED
    BY <2>1, <2>2, <2>4, <2>5
<1>4. CASE /\ place' = [place EXCEPT ![t] = "unsent"]
           /\ status' = [status EXCEPT ![t] = "failed"]
           /\ rows' = [rows EXCEPT ![t] = "running"]
           /\ UNCHANGED roleTasks
  <2>1. SubagentTypeOK'
    BY <1>1, <1>4 DEF SubagentTypeOK, Delegate, TaskStatus
  <2>2. RowFirst' /\ EndsAgree'
    BY <1>0, <1>4 DEF RowFirst, EndsAgree, SubagentTypeOK, Delegate, TasksInProgress
  <2>3. TasksInProgress' = TasksInProgress /\ Running' = Running
    BY <1>0, <1>4 DEF TasksInProgress, Running, SubagentTypeOK, Delegate
  <2>4. Counted'
    BY <1>4, <2>3, SameCount
  <2>5. Guarded'
    BY <1>4, <2>3 DEF Guarded, WritersHoldTheLease, Delegate
  <2> QED
    BY <2>1, <2>2, <2>4, <2>5
<1> QED
  BY <1>2, <1>3, <1>4 DEF Delegate

(* A task at work that gives up its place is one task less.                *)
LEMMA OneTaskLess ==
  ASSUME TaskInv, NEW t \in TasksInProgress,
         TasksInProgress' = TasksInProgress \ {t}, Running' = Running \ {t},
         roleTasks' = roleTasks - 1
  PROVE  Counted' /\ roleTasks' \in 0..RoleLimit
<1> USE DEF TaskInv
<1>0. t \in Task
  BY DEF TasksInProgress
<1>1. TasksInProgress \in SUBSET Task /\ Running \in SUBSET Task
  BY DEF TasksInProgress, Running
<1>2. Cardinality(TasksInProgress') = Cardinality(TasksInProgress) - 1
  BY <1>0, <1>1, FiniteTasks
<1>3. Cardinality(Running \ {t}) <= Cardinality(Running)
  BY <1>0, <1>1, FiniteTasks
<1>4. Cardinality(Running) \in Nat /\ Cardinality(Running \ {t}) \in Nat
  <2>1. Running \ {t} \in SUBSET Task
    BY <1>1
  <2> QED
    BY <1>1, <2>1, FiniteTasks
<1>5. roleTasks' = Cardinality(TasksInProgress')
  BY <1>2 DEF Counted
<1>6. Cardinality(Running) <= MaxConcurrent /\ MaxConcurrent \in Nat
  BY SubagentAssumption DEF Counted, ActiveCount, Running, SubagentAssumption
<1>7. Cardinality(Running') <= MaxConcurrent
  BY <1>3, <1>4, <1>6
<1>8. Counted'
  BY <1>5, <1>7 DEF Counted, ActiveCount, Running
<1>9. roleTasks' \in 0..RoleLimit
  <2>1. TasksInProgress' \in SUBSET Task
    BY DEF TasksInProgress
  <2>2. roleTasks' \in Nat
    BY <1>5, <2>1, FiniteTasks
  <2>3. roleTasks \in Nat /\ roleTasks <= RoleLimit /\ RoleLimit \in Nat
    BY SubagentAssumption DEF SubagentTypeOK, SubagentAssumption
  <2> QED
    BY <2>2, <2>3
<1> QED
  BY <1>8, <1>9

(* The work on a task, or its failing before the prompt is sent, keeps it. *)
LEMMA WorkInv ==
  ASSUME TaskInv, NEW t \in Task, Work(t)
  PROVE  TaskInv'
<1> USE DEF TaskInv, taskVars, scopeVars
<1>1. CASE place' = [place EXCEPT ![t] = "working"] /\ UNCHANGED <<status, roleTasks>>
  <2>1. SubagentTypeOK'
    BY <1>1 DEF SubagentTypeOK, Work
  <2>2. TasksInProgress' = TasksInProgress /\ Running' = Running
    BY <1>1 DEF TasksInProgress, Running, SubagentTypeOK, Work
  <2>3. RowFirst' /\ EndsAgree'
    BY <1>1, <2>2 DEF RowFirst, EndsAgree, SubagentTypeOK, Work
  <2>4. Counted'
    BY <1>1, <2>2, SameCount
  <2>5. Guarded'
    BY <2>2 DEF Guarded, WritersHoldTheLease, Work
  <2> QED
    BY <2>1, <2>3, <2>4, <2>5
<1>2. CASE /\ place' = [place EXCEPT ![t] = "unsent"]
           /\ status' = [status EXCEPT ![t] = Outcome(t, "failed")]
           /\ roleTasks' = roleTasks - 1
  <2>1. t \in TasksInProgress /\ Outcome(t, "failed") \in {"failed", "canceled"}
    BY DEF TasksInProgress, Outcome, Work
  <2>2. TasksInProgress' = TasksInProgress \ {t} /\ Running' = Running \ {t}
    BY <1>2, <2>1 DEF TasksInProgress, Running, SubagentTypeOK
  <2>3. Counted' /\ roleTasks' \in 0..RoleLimit
    BY <1>2, <2>1, <2>2, OneTaskLess
  <2>4. SubagentTypeOK'
    BY <1>2, <2>1, <2>3 DEF SubagentTypeOK, TaskStatus, Work
  <2>5. RowFirst' /\ EndsAgree'
    BY <1>2, <2>1, <2>2
       DEF RowFirst, EndsAgree, SubagentTypeOK, Work, Outcome, TasksInProgress
  <2>6. Guarded'
    BY <2>2 DEF Guarded, WritersHoldTheLease, Work
  <2> QED
    BY <2>3, <2>4, <2>5, <2>6
<1> QED
  BY <1>1, <1>2 DEF Work

(* A task at work is settled, with its row at what it is settled to.       *)
LEMMA SettleInv ==
  ASSUME TaskInv, NEW t \in TasksInProgress, NEW done \in {"succeeded", "failed"},
         Settle(t, done),
         rows' = [rows EXCEPT ![t] = Outcome(t, done)],
         UNCHANGED <<aborted, depth, writing, outlived, taskCrashes>>
  PROVE  TaskInv'
<1> USE DEF TaskInv, taskVars, scopeVars
<1>0. t \in Task /\ Outcome(t, done) \in {"succeeded", "failed", "canceled"}
  BY DEF TasksInProgress, Outcome
<1>1. TasksInProgress' = TasksInProgress \ {t} /\ Running' = Running \ {t}
  BY <1>0 DEF TasksInProgress, Running, SubagentTypeOK, Settle
<1>2. Counted' /\ roleTasks' \in 0..RoleLimit
  BY <1>1, OneTaskLess DEF Settle
<1>3. SubagentTypeOK'
  BY <1>0, <1>2 DEF SubagentTypeOK, Settle, TaskStatus
<1>4. RowFirst' /\ EndsAgree'
  BY <1>0 DEF RowFirst, EndsAgree, SubagentTypeOK, Settle, TasksInProgress, Outcome
<1>5. Guarded'
  <2>1. ASSUME NEW u \in TasksInProgress \ {t}, NEW p \in writing[u] \ outlived
        PROVE  leases'[p] = u
    <3>1. p \in Scope /\ leases[p] = u
      BY DEF Guarded, WritersHoldTheLease, SubagentTypeOK, TasksInProgress
    <3> QED
      BY <2>1, <3>1 DEF Settle
  <2>2. WritersHoldTheLease'
    BY <1>1, <2>1 DEF WritersHoldTheLease
  <2> QED
    BY <2>2 DEF Guarded, Settle
<1> QED
  BY <1>2, <1>3, <1>4, <1>5

(* Work that ends keeps it.                                                *)
LEMMA WorkEndsInv ==
  ASSUME TaskInv, NEW t \in Task, NEW done \in {"succeeded", "failed"}, WorkEnds(t, done)
  PROVE  TaskInv'
<1> USE DEF TaskInv, taskVars, scopeVars
<1>1. CASE Settle(t, done)
  <2>1. t \in TasksInProgress
    BY DEF WorkEnds, TasksInProgress
  <2>2. /\ rows' = [rows EXCEPT ![t] = Outcome(t, done)]
        /\ UNCHANGED <<aborted, depth, writing, outlived, taskCrashes>>
    BY DEF WorkEnds
  <2> QED
    BY <1>1, <2>1, <2>2, SettleInv
<1>2. CASE /\ done = "succeeded" /\ ~aborted[t]
           /\ place' = [place EXCEPT ![t] = "indexing"]
           /\ UNCHANGED <<status, roleTasks, leases, expired>>
  <2>1. rows' = [rows EXCEPT ![t] = "succeeded"]
    BY <1>2 DEF WorkEnds, Outcome
  <2>2. SubagentTypeOK'
    BY <1>2, <2>1 DEF SubagentTypeOK, WorkEnds, TaskStatus
  <2>3. TasksInProgress' = TasksInProgress /\ Running' = Running
    BY <1>2 DEF TasksInProgress, Running, SubagentTypeOK, WorkEnds
  <2>4. RowFirst' /\ EndsAgree'
    BY <1>2, <2>1, <2>3 DEF RowFirst, EndsAgree, SubagentTypeOK, WorkEnds
  <2>5. Counted'
    BY <1>2, <2>3, SameCount
  <2>6. Guarded'
    BY <1>2, <2>3 DEF Guarded, WritersHoldTheLease, WorkEnds
  <2> QED
    BY <2>2, <2>4, <2>5, <2>6
<1> QED
  BY <1>1, <1>2 DEF WorkEnds

(* An index that is done keeps it.                                         *)
LEMMA IndexingEndsInv ==
  ASSUME TaskInv, NEW t \in Task, NEW done \in {"succeeded", "failed"}, IndexingEnds(t, done)
  PROVE  TaskInv'
<1>1. rows' = [rows EXCEPT ![t] = Outcome(t, done)]
  <2>1. CASE done = "failed"
    BY <2>1 DEF IndexingEnds
  <2>2. CASE done = "succeeded"
    <3>1. rows[t] = Outcome(t, done)
      BY <2>2 DEF TaskInv, RowFirst, IndexingEnds, TasksInProgress, Outcome
    <3>2. rows' = rows /\ rows = [rows EXCEPT ![t] = rows[t]]
      BY <2>2 DEF TaskInv, SubagentTypeOK, IndexingEnds
    <3> QED
      BY <3>1, <3>2
  <2> QED
    BY <2>1, <2>2
<1> QED
  BY <1>1, SettleInv DEF IndexingEnds, TasksInProgress

(* Canceling a task keeps it.                                              *)
LEMMA CancelTaskInv ==
  ASSUME TaskInv, NEW t \in Task, CancelTask(t)
  PROVE  TaskInv'
<1> USE DEF TaskInv, taskVars, scopeVars
<1>1. SubagentTypeOK'
  BY DEF SubagentTypeOK, CancelTask, TaskStatus
<1>2. TasksInProgress' = TasksInProgress /\ Running' \subseteq Running
  BY DEF TasksInProgress, Running, SubagentTypeOK, CancelTask
<1>3. RowFirst' /\ EndsAgree'
  BY DEF RowFirst, EndsAgree, SubagentTypeOK, CancelTask, TasksInProgress
<1>4. Counted'
  BY <1>2, SameCount DEF CancelTask
<1>5. Guarded'
  BY <1>2 DEF Guarded, WritersHoldTheLease, CancelTask
<1> QED
  BY <1>1, <1>3, <1>4, <1>5

-----------------------------------------------------------------------------
(* The steps on files and leases.                                          *)
LEMMA ClaimPathInv ==
  ASSUME TaskInv, NEW t \in Task, NEW p \in Scope, ClaimPath(t, p)
  PROVE  TaskInv'
<1> USE DEF TaskInv, taskVars, scopeVars
<1>1. Unexpired \in [Scope -> Task \cup {NoTask}]
  BY DEF Unexpired, SubagentTypeOK
<1>2. SubagentTypeOK'
  BY <1>1 DEF SubagentTypeOK, ClaimPath
<1>3. TasksInProgress' = TasksInProgress /\ Running' = Running
  BY DEF TasksInProgress, Running, ClaimPath
<1>4. RowFirst' /\ EndsAgree'
  BY <1>3 DEF RowFirst, EndsAgree, SubagentTypeOK, ClaimPath
<1>5. Counted'
  BY <1>3, SameCount DEF ClaimPath
<1>6. Guarded'
  <2>1. \A u \in TasksInProgress : \A q \in writing[u] \ outlived : Unexpired[q] = u
    BY DEF Guarded, WritersHoldTheLease, Unexpired, SubagentTypeOK, TasksInProgress
  <2>2. \A u \in TasksInProgress : u \in Task /\ u # NoTask
    BY SubagentAssumption DEF TasksInProgress, SubagentAssumption
  <2>3. CASE Claimable(t, p) /\ leases' = [Unexpired EXCEPT ![p] = t]
             /\ writing' = [writing EXCEPT ![t] = @ \cup {p}]
    <3>1. \A u \in TasksInProgress \ {t} : p \notin writing[u] \ outlived
      BY <2>1, <2>2, <2>3 DEF Claimable
    <3>2. \A u \in TasksInProgress : \A q \in writing'[u] \ outlived :
            leases'[q] = u
      BY <1>1, <2>1, <2>2, <2>3, <3>1 DEF SubagentTypeOK
    <3> QED
      BY <1>3, <3>2 DEF Guarded, WritersHoldTheLease, ClaimPath
  <2>4. CASE leases' = Unexpired /\ UNCHANGED writing
    BY <1>3, <2>1, <2>4 DEF Guarded, WritersHoldTheLease, ClaimPath
  <2> QED
    BY <2>3, <2>4 DEF ClaimPath
<1> QED
  BY <1>2, <1>4, <1>5, <1>6

(* A writer that is done with a file keeps it.                             *)
LEMMA WrittenInv ==
  ASSUME TaskInv, NEW t \in Task, NEW p \in Scope, Written(t, p)
  PROVE  TaskInv'
<1> USE DEF TaskInv, taskVars, scopeVars
<1>1. SubagentTypeOK'
  BY DEF SubagentTypeOK, Written
<1>2. TasksInProgress' = TasksInProgress /\ Running' = Running
  BY DEF TasksInProgress, Running, Written
<1>3. RowFirst' /\ EndsAgree'
  BY <1>2 DEF RowFirst, EndsAgree, SubagentTypeOK, Written
<1>4. Counted'
  BY <1>2, SameCount DEF Written
<1>5. Guarded'
  BY <1>2 DEF Guarded, WritersHoldTheLease, SubagentTypeOK, Written, TasksInProgress
<1> QED
  BY <1>1, <1>3, <1>4, <1>5

(* A lease that expires keeps it.                                          *)
LEMMA LeaseExpiresInv ==
  ASSUME TaskInv, NEW p \in Scope, LeaseExpires(p)
  PROVE  TaskInv'
<1> USE DEF TaskInv, taskVars, scopeVars
<1>1. SubagentTypeOK'
  BY DEF SubagentTypeOK, LeaseExpires
<1>2. TasksInProgress' = TasksInProgress /\ Running' = Running
  BY DEF TasksInProgress, Running, LeaseExpires
<1>3. RowFirst' /\ EndsAgree'
  BY <1>2 DEF RowFirst, EndsAgree, LeaseExpires
<1>4. Counted'
  BY <1>2, SameCount DEF LeaseExpires
<1>5. Guarded'
  BY <1>2 DEF Guarded, WritersHoldTheLease, LeaseExpires
<1> QED
  BY <1>1, <1>3, <1>4, <1>5

(* A process that dies keeps it.                                           *)
LEMMA SubagentsDieInv ==
  ASSUME TaskInv, SubagentsDie
  PROVE  TaskInv'
<1> USE DEF TaskInv, taskVars, scopeVars
<1>1. SubagentTypeOK'
  BY SubagentAssumption DEF SubagentTypeOK, SubagentsDie, TaskStatus, SubagentAssumption
<1>2. TasksInProgress' = {} /\ Running' = {}
  BY DEF TasksInProgress, Running, SubagentsDie
<1>3. RowFirst' /\ EndsAgree'
  BY <1>2 DEF RowFirst, EndsAgree, SubagentTypeOK, SubagentsDie
<1>4. Counted'
  <2>1. Cardinality({}) = 0 /\ 0 <= MaxConcurrent
    BY FS_EmptySet, SubagentAssumption DEF SubagentAssumption
  <2>2. roleTasks' = 0
    BY DEF SubagentsDie
  <2>3. ActiveCount' = Cardinality(Running')
    BY DEF ActiveCount, Running
  <2> QED
    BY <1>2, <2>1, <2>2, <2>3 DEF Counted
<1>5. Guarded'
  BY <1>2 DEF Guarded, WritersHoldTheLease, SubagentsDie
<1> QED
  BY <1>1, <1>3, <1>4, <1>5

-----------------------------------------------------------------------------
(* The invariant holds initially.                                          *)
LEMMA TaskInvInit ==
  SubagentInit => TaskInv
<1> SUFFICES ASSUME SubagentInit PROVE TaskInv
  OBVIOUS
<1>1. SubagentTypeOK
  BY SubagentAssumption DEF SubagentInit, SubagentTypeOK, TaskStatus, SubagentAssumption
<1>2. TasksInProgress = {} /\ Running = {}
  BY DEF SubagentInit, TasksInProgress, Running
<1>3. RowFirst /\ EndsAgree
  BY <1>2 DEF SubagentInit, RowFirst, EndsAgree
<1>4. Counted
  BY <1>2, FS_EmptySet, SubagentAssumption
     DEF SubagentInit, Counted, ActiveCount, Running, SubagentAssumption
<1>5. Guarded
  BY <1>2 DEF SubagentInit, Guarded, WritersHoldTheLease
<1> QED
  BY <1>1, <1>3, <1>4, <1>5 DEF TaskInv

(* Every step keeps it.                                                    *)
LEMMA TaskInvStep ==
  TaskInv /\ [SubagentNext]_subagentVars => TaskInv'
<1> SUFFICES ASSUME TaskInv, [SubagentNext]_subagentVars PROVE TaskInv'
  OBVIOUS
<1>1. ASSUME NEW t \in Task, NEW parent \in Task \cup {NoTask}, Delegate(t, parent)
      PROVE  TaskInv'
  BY <1>1, DelegateInv
<1>2. ASSUME NEW t \in Task, Work(t) PROVE TaskInv'
  BY <1>2, WorkInv
<1>3. ASSUME NEW t \in Task, CancelTask(t) PROVE TaskInv'
  BY <1>3, CancelTaskInv
<1>4. ASSUME NEW t \in Task, NEW done \in {"succeeded", "failed"},
             WorkEnds(t, done) \/ IndexingEnds(t, done)
      PROVE  TaskInv'
  BY <1>4, WorkEndsInv, IndexingEndsInv
<1>5. ASSUME NEW t \in Task, NEW p \in Scope, ClaimPath(t, p) \/ Written(t, p)
      PROVE  TaskInv'
  BY <1>5, ClaimPathInv, WrittenInv
<1>6. ASSUME NEW p \in Scope, LeaseExpires(p) PROVE TaskInv'
  BY <1>6, LeaseExpiresInv
<1>7. CASE SubagentsDie
  BY <1>7, SubagentsDieInv
<1>8. CASE UNCHANGED subagentVars
  BY <1>8 DEF TaskInv, SubagentTypeOK, RowFirst, EndsAgree, Counted, Guarded,
              WritersHoldTheLease, TasksInProgress, ActiveCount, subagentVars, taskVars,
              scopeVars
<1> QED
  BY <1>1, <1>2, <1>3, <1>4, <1>5, <1>6, <1>7, <1>8 DEF SubagentNext

-----------------------------------------------------------------------------
(* Every variable of the delegation stays in its type (subagents.ts,       *)
(* run-store.ts).                                                          *)
THEOREM TaskTyping == SubagentSpec => []SubagentTypeOK
<1>1. TaskInv => SubagentTypeOK
  BY DEF TaskInv
<1> QED
  BY <1>1, TaskInvInit, TaskInvStep, PTL DEF SubagentSpec

(* Memory and row agree on how a task ended, and a canceled task is        *)
(* canceled in both (SubagentManager.run, delegateSubagentTask).           *)
THEOREM AgreedEnds == SubagentSpec => []EndsAgree
<1>1. TaskInv => EndsAgree
  BY DEF TaskInv
<1> QED
  BY <1>1, TaskInvInit, TaskInvStep, PTL DEF SubagentSpec

(* The limits on tasks hold for the tasks that are at work                 *)
(* (delegateSubagentTask, SubagentManager.run).                            *)
THEOREM Limits == SubagentSpec => []LimitsHold
<1>1. TaskInv => LimitsHold
  <2> SUFFICES ASSUME TaskInv PROVE LimitsHold
    OBVIOUS
  <2>1. {t \in TasksInProgress : ~aborted[t]} = Running
    BY DEF TaskInv, RowFirst, Running, TasksInProgress
  <2>2. roleTasks <= RoleLimit
    BY SubagentAssumption DEF TaskInv, SubagentTypeOK, SubagentAssumption
  <2> QED
    BY <2>1, <2>2 DEF TaskInv, Counted, LimitsHold, ActiveCount, Running
<1> QED
  BY <1>1, TaskInvInit, TaskInvStep, PTL DEF SubagentSpec

(* A task that edits a file holds its lease (claimScopeLease, claimPath).  *)
THEOREM LeasesGuard == SubagentSpec => []WritersHoldTheLease
<1>1. TaskInv => WritersHoldTheLease
  BY DEF TaskInv, Guarded
<1> QED
  BY <1>1, TaskInvInit, TaskInvStep, PTL DEF SubagentSpec

-----------------------------------------------------------------------------
(* A task given to Codex: types, and how it ends, for any amount of        *)
(* output.                                                                 *)
(*                                                                         *)
(* The argument: until the task has ended, a listener stores every item    *)
(* before the answer (Listening), so that when the output was read to its  *)
(* end, all of it is stored.  Only a cancellation before the program was   *)
(* started leaves a task in progress that is canceled (Preparing).         *)

Preparing ==
  dispatch = "preparing" =>
    /\ canceled => record = "canceled"
    /\ ~canceled => record = "running"

Listening ==
  dispatch = "running" =>
    /\ attached /\ ~canceled /\ late = 0
    /\ record = "running"
    /\ child \in {"alive", "exited", "broken"}

(* A task that has ended left no run in progress.                          *)
Settled == dispatch = "ended" => runRow # "running"

(* Nothing is printed or canceled before its time.                         *)
NotYet ==
  /\ dispatch \in {"none", "refused"} => record = "none" /\ ~canceled
  /\ dispatch \in {"none", "preparing"} => child = "none" /\ printed = 0
  /\ stored + late <= printed

CodexInv ==
  /\ CodexTypeOK
  /\ Preparing
  /\ Listening
  /\ Settled
  /\ NotYet
  /\ CodexEndsAgree

(* Ending a task, in whichever way, makes all its records agree.           *)
LEMMA EndsAgreeAgain ==
  ASSUME NEW result \in {"succeeded", "failed"}, CodexTypeOK, Ends(result, canceled'),
         canceled' \in BOOLEAN,
         result = "succeeded" =>
           child' = "closed" /\ complaint' = "none" /\ stored' = printed',
         child' = "alive" => killed'
  PROVE  CodexEndsAgree' /\ Preparing' /\ Listening' /\ Settled'
         /\ dispatch' = "ended"
         /\ record' \in CodexStatus /\ taskRow' \in CodexStatus /\ runRow' \in CodexStatus
  BY DEF Ends, Stores, CodexEndsAgree, Preparing, Listening, Settled, CodexStatus

(* The invariant holds initially.                                          *)
LEMMA CodexInvInit == CodexInit => CodexInv
<1> SUFFICES ASSUME CodexInit PROVE CodexInv
  OBVIOUS
<1>1. 0 \in 0..MaxItems
  BY CodexAssumption DEF CodexAssumption
<1>2. CodexTypeOK
  BY <1>1 DEF CodexInit, CodexTypeOK, CodexStatus
<1>3. Preparing /\ Listening /\ Settled /\ NotYet /\ CodexEndsAgree
  BY DEF CodexInit, Preparing, Listening, Settled, NotYet, CodexEndsAgree
<1> QED
  BY <1>2, <1>3 DEF CodexInv

(* Every step keeps it.                                                    *)
LEMMA CodexInvStep == CodexInv /\ [CodexNext]_codexVars => CodexInv'
<1> SUFFICES ASSUME CodexInv, [CodexNext]_codexVars PROVE CodexInv'
  OBVIOUS
<1> USE CodexAssumption DEF CodexAssumption, CodexInv
<1>1. CASE DispatchCodex
  BY <1>1 DEF DispatchCodex, CodexTypeOK, CodexStatus, Preparing, Listening, Settled, NotYet,
              CodexEndsAgree, recordVars, outputVars
<1>2. CASE Spawn
  <2>1. CASE Ends("failed", canceled) /\ UNCHANGED <<child, killed, attached>>
    BY <1>2, <2>1, EndsAgreeAgain DEF Spawn, CodexTypeOK, NotYet, outputVars
  <2>2. CASE canceled /\ dispatch' = "gone" /\ Stores("failed", TRUE)
             /\ UNCHANGED <<child, killed, attached>>
    BY <1>2, <2>2 DEF Spawn, Stores, CodexTypeOK, CodexStatus, Preparing, Listening, Settled, NotYet,
                      CodexEndsAgree, outputVars
  <2>3. CASE canceled /\ child' = "alive" /\ killed' = TRUE /\ Ends("failed", TRUE)
             /\ UNCHANGED attached
    BY <1>2, <2>3, EndsAgreeAgain DEF Spawn, CodexTypeOK, NotYet, outputVars
  <2>4. CASE ~canceled /\ child' = "alive" /\ attached' = TRUE /\ dispatch' = "running"
             /\ UNCHANGED <<killed, recordVars>>
    <3>1. late = 0
      BY <1>2 DEF Spawn, CodexTypeOK, NotYet
    <3> QED
      BY <1>2, <2>4, <3>1 DEF Spawn, CodexTypeOK, CodexStatus, Preparing, Listening, Settled, NotYet,
                              CodexEndsAgree, outputVars, recordVars
  <2> QED
    BY <1>2, <2>1, <2>2, <2>3, <2>4 DEF Spawn
<1>3. CASE CancelCodex
  <2>1. CASE dispatch = "running"
    BY <1>3, <2>1, EndsAgreeAgain DEF CancelCodex, CodexTypeOK, NotYet, outputVars
  <2>2. CASE dispatch = "preparing"
    BY <1>3, <2>2 DEF CancelCodex, CodexTypeOK, CodexStatus, Preparing, Listening, Settled, NotYet,
                      CodexEndsAgree, outputVars
  <2> QED
    BY <1>3, <2>1, <2>2 DEF CancelCodex
<1>4. CASE CancelRunOfCodex
  <2>1. dispatch # "ended"
    BY <1>4 DEF CancelRunOfCodex, Settled
  <2> QED
    BY <1>4, <2>1 DEF CancelRunOfCodex, CodexTypeOK, CodexStatus, Preparing, Listening,
                      Settled, NotYet, CodexEndsAgree, outputVars
<1>10. CASE CodexTimesOut
  BY <1>10, EndsAgreeAgain DEF CodexTimesOut, CodexTypeOK, NotYet, outputVars
<1>5. CASE Prints
  <2>1. CASE printed < MaxItems /\ printed' = printed + 1 /\ UNCHANGED complaint
    <3>1. dispatch \notin {"none", "preparing"}
      BY <1>5 DEF Prints, NotYet
    <3>2. printed' \in 0..MaxItems /\ stored + late <= printed'
      BY <2>1 DEF CodexTypeOK, NotYet
    <3>3. runRow # "succeeded" \/ dispatch # "ended"
      BY <1>5 DEF Prints, CodexEndsAgree
    <3> QED
      BY <1>5, <2>1, <3>1, <3>2, <3>3
         DEF Prints, CodexTypeOK, Preparing, Listening, Settled, NotYet, CodexEndsAgree, recordVars
  <2>2. CASE complaint = "none" /\ complaint' = "unread" /\ UNCHANGED printed
    BY <1>5, <2>2
       DEF Prints, CodexTypeOK, Preparing, Listening, Settled, NotYet, CodexEndsAgree, recordVars
  <2> QED
    BY <1>5, <2>1, <2>2 DEF Prints
<1>6. CASE ChildExits
  BY <1>6 DEF ChildExits, CodexTypeOK, Preparing, Listening, Settled, NotYet, CodexEndsAgree,
              outputVars, recordVars
<1>7. CASE ReadsLine
  BY <1>7 DEF ReadsLine, Unread, CodexTypeOK, Preparing, Listening, Settled, NotYet, CodexEndsAgree,
              recordVars
<1>8. CASE ChildCloses
  <2>1. CASE dispatch = "running"
    BY <1>8, <2>1, EndsAgreeAgain
       DEF ChildCloses, Closes, Unread, CodexTypeOK, Listening, Settled, NotYet, outputVars
  <2>2. CASE dispatch # "running"
    BY <1>8, <2>2 DEF ChildCloses, Closes, CodexTypeOK, Preparing, Listening, Settled, NotYet,
                      CodexEndsAgree, outputVars, recordVars
  <2> QED
    BY <2>1, <2>2
<1>9. CASE UNCHANGED codexVars
  BY <1>9 DEF codexVars, outputVars, recordVars, CodexTypeOK, Preparing, Listening, Settled, NotYet,
              CodexEndsAgree
<1> QED
  BY <1>1, <1>2, <1>3, <1>4, <1>5, <1>6, <1>7, <1>8, <1>9, <1>10
     DEF CodexNext

(* Every variable of a task given to Codex stays in its type.              *)
THEOREM CodexTyping == CodexSpec => []CodexTypeOK
<1>1. CodexInv => CodexTypeOK
  BY DEF CodexInv
<1> QED
  BY <1>1, CodexInvInit, CodexInvStep, PTL DEF CodexSpec

(* A task given to Codex ends alike in all records, with all of its work   *)
(* stored if it succeeded, and leaves no program that was not told to stop *)
(* (runCodex, dispatchCodexTask).                                          *)
THEOREM CodexEnds == CodexSpec => []CodexEndsAgree
<1>1. CodexInv => CodexEndsAgree
  BY DEF CodexInv
<1> QED
  BY <1>1, CodexInvInit, CodexInvStep, PTL DEF CodexSpec
-----------------------------------------------------------------------------
(* The records together: each component goes through what its own module   *)
(* allows, so that everything proved of a component holds of them all.     *)

(* A behaviour of the records is one of every component.                   *)
LEMMA RecordsCompose == Spec => EventSpec /\ AutomationSpec /\ SubagentSpec /\ CodexSpec
<1>1. Init => EventInit /\ AutomationInit /\ SubagentInit /\ CodexInit
  BY DEF Init
<1>2. [Next]_vars => [EventNext]_eventVars
  BY DEF Next, vars
<1>3. [Next]_vars => [AutomationNext]_autoVars
  BY DEF Next, vars
<1>4. [Next]_vars => [SubagentNext]_subagentVars
  BY DEF Next, vars
<1>5. [Next]_vars => [CodexNext]_codexVars
  BY DEF Next, vars
<1> QED
  BY <1>1, <1>2, <1>3, <1>4, <1>5, PTL
     DEF Spec, EventSpec, AutomationSpec, SubagentSpec, CodexSpec

(* Every variable of the audit log, the automations, the sub-agents and    *)
(* the Codex tasks stays in its type (event-log.ts, automation.ts,         *)
(* subagents.ts, codex.ts).                                                *)
THEOREM RecordsTyping == Spec => []TypeOK
<1>1. EventTypeOK /\ AutomationTypeOK /\ SubagentTypeOK /\ CodexTypeOK => TypeOK
  BY DEF TypeOK
<1> QED
  BY <1>1, RecordsCompose, EventTyping, AutomationTyping, TaskTyping, CodexTyping, PTL
=============================================================================
