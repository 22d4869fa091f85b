------------------------ MODULE AgentCompactionProofs ------------------------
(***************************************************************************)
(* Proofs about the conversation an agent keeps in memory: its types, that *)
(* the window keeps its prompt, at most one summary and its newest         *)
(* messages, that what /clear removed does not come back, and that a turn  *)
(* goes on from where the run the agent remembers stands; for any          *)
(* sessions, senders, lengths of the window and numbers of compactions.    *)
(*                                                                         *)
(* The argument: a window begins with the system prompt, a summary may     *)
(* come second, and the rest is conversation (Shaped); every way to cut,   *)
(* heal, extend or summarise one keeps it so, because what is kept of it   *)
(* never reaches back to the first message.  Every message in the window   *)
(* and in the summaries that are on their way is of a turn that began and  *)
(* was not cleared (Spans, JobsFit): a turn that is under way is never     *)
(* cleared, and a summary of the time before /clear has another epoch.     *)
(*                                                                         *)
(* A run moves on in one way, whoever drives it: its status changes and    *)
(* rows of it are added to its session (RunMoves).  A step cuts the window *)
(* in front of its newest four messages or adds messages of the run the    *)
(* agent remembers (Carries).  A question at the end survives every cut,   *)
(* its run has a row at least (Recorded), and what healing puts in its     *)
(* place ends with the newest row, because only the answer of a            *)
(* placeholder is added to it (HealedTailEnds, RowsAtStart).               *)
(***************************************************************************)
EXTENDS AgentCompaction, SelectionProofs, SequenceTheorems,
        FiniteSetTheorems, TLAPS

Item == Message \cup Summary \cup {System}
Run == [status: {"absent", "running", "waiting", "answered", "interrupted",
                  "done"},
        of: Session \cup {NoSession}]

(* The system prompt, perhaps a summary, and conversation.                 *)
Shaped(window) ==
  /\ window \in Seq(Item) /\ window # <<>> /\ window[1] = System
  /\ \A i \in DOMAIN window :
       /\ i > 1 => window[i] \in Message \cup Summary
       /\ i > 2 => window[i] \in Message

(* What a window holds and what its summary covers is of these turns.      *)
Spans(window, turns) ==
  \A i \in DOMAIN window :
    /\ window[i] \in Message => window[i].turn \in turns
    /\ window[i] \in Summary => TurnsIn(window[i].covers) \subseteq turns

Fits(window, turns) == Shaped(window) /\ Spans(window, turns)

Begun == {n \in Turn : runs[n].status # "absent"}
Live  == Begun \ forgotten

(* Summaries on their way: of turns that began and, unless /clear came in  *)
(* between, were not cleared.                                              *)
JobsFit(js, now, begun, live) ==
  \A j \in js :
    /\ j \in Job /\ j.epoch <= now
    /\ TurnsIn(j.covers) \subseteq begun
    /\ j.epoch = now => TurnsIn(j.covers) \subseteq live

Typed ==
  /\ session \in Session
  /\ lastRun \in Turn \cup {NoTurn}
  /\ compacting \in BOOLEAN
  /\ epoch \in 0..MaxClears
  /\ started \in 0..MaxJobs
  /\ pc \in [Sender -> {"idle", "prompt", "turn", "resume"}]
  /\ at \in [Sender -> Turn \cup {NoTurn}]
  /\ runs \in [Turn -> Run]
  /\ stored \in [Session -> Seq(Message)]
  /\ checkpoint \in [Session -> Seq(Summary)]
  /\ forgotten \subseteq Turn

(* Who drives a turn, and what was stored of it.                           *)
Driven ==
  /\ lastRun # NoTurn => lastRun \in Live
  /\ \A t \in Sender :
       /\ at[t] # NoTurn => at[t] \in Live
       /\ pc[t] \in {"turn", "resume"} => at[t] # NoTurn
  /\ \A n \in Begun : runs[n].of \in Session
  /\ forgotten \subseteq Begun
  /\ \A s \in Session :
       Spans(stored[s], Begun) /\ Spans(checkpoint[s], Begun) /\ Len(checkpoint[s]) <= 1

AgentInv ==
  /\ Typed
  /\ Fits(messages, Live)
  /\ JobsFit(jobs, epoch, Begun, Live)
  /\ Driven

-----------------------------------------------------------------------------
(* Messages and windows.                                                   *)

(* The three kinds of items of a window are different.                     *)
LEMMA Kinds ==
  /\ \A m \in Message : m # System /\ ~IsSummaryMessage(m) /\ m \notin Summary
  /\ \A m \in Summary : m # System /\ IsSummaryMessage(m) /\ m \notin Message
  /\ ~IsSummaryMessage(System) /\ System \notin Message /\ System \notin Summary
  /\ \A m \in Message : m.kind # "summary" /\ m.turn \in Turn /\ m.of \in Session
  /\ \A m \in Summary : m.covers \subseteq Message
<1>1. \A m \in Message : m.kind \in {"user", "assistant", "ask", "placeholder", "tool"}
                         /\ m.turn \in Turn /\ m.of \in Session
  BY DEF Message
<1>2. \A m \in Summary : m.kind = "summary" /\ m.covers \subseteq Message
  BY DEF Summary
<1>3. System.kind = "system"
  BY DEF System
<1> QED BY <1>1, <1>2, <1>3 DEF IsSummaryMessage

(* What is said in a turn is a message of it.                              *)
LEMMA SaidIs ==
  ASSUME NEW kind \in {"user", "assistant", "ask", "placeholder", "tool"},
         NEW s \in Session, NEW n \in Turn
  PROVE  Said(kind, s, n) \in Message /\ Said(kind, s, n).turn = n
         /\ Said(kind, s, n).kind = kind
  BY DEF Said, Message

(* The turns of conversation.                                              *)
LEMMA TurnsOfMessages ==
  ASSUME NEW ms \in Seq(Message), NEW turns
  PROVE  /\ Spans(ms, turns) <=> \A i \in DOMAIN ms : ms[i].turn \in turns
         /\ Spans(ms, turns) => ToSet(ms) \subseteq Message /\ TurnsIn(ToSet(ms)) \subseteq turns
  BY Kinds DEF Spans, ToSet, TurnsIn

(* More turns, for messages and for windows.                               *)
LEMMA SpansMore ==
  ASSUME NEW window, NEW turns, NEW more, turns \subseteq more, Spans(window, turns)
  PROVE  Spans(window, more)
  BY DEF Spans

(* A window that fits some turns fits more of them.                        *)
LEMMA FitsMore ==
  ASSUME NEW window, NEW turns, NEW more, turns \subseteq more, Fits(window, turns)
  PROVE  Fits(window, more)
  BY SpansMore DEF Fits

(* What a window that fits holds.                                          *)
LEMMA FitsIs ==
  ASSUME NEW window, NEW turns, Fits(window, turns)
  PROVE  /\ window \in Seq(Item) /\ Len(window) \in Nat /\ Len(window) >= 1
         /\ DOMAIN window = 1..Len(window)
         /\ window[1] = System
         /\ \A i \in 2..Len(window) : window[i] \in Message \cup Summary
         /\ \A i \in 3..Len(window) : window[i] \in Message
         /\ Spans(window, turns)
  BY DEF Fits, Shaped

(* To fit is to be built that way.                                         *)
LEMMA FitsFrom ==
  ASSUME NEW turns, NEW window \in Seq(Item), Len(window) >= 1, window[1] = System,
         \A i \in 2..Len(window) :
           \/ window[i] \in Message /\ window[i].turn \in turns
           \/ i = 2 /\ window[i] \in Summary /\ TurnsIn(window[i].covers) \subseteq turns
  PROVE  Fits(window, turns)
<1>1. Shaped(window)
  BY Kinds DEF Shaped
<1>2. Spans(window, turns)
  BY Kinds DEF Spans
<1> QED BY <1>1, <1>2 DEF Fits

(* Conversation added to a window.                                         *)
LEMMA FitsAppended ==
  ASSUME NEW window, NEW turns, Fits(window, turns),
         NEW ms \in Seq(Message), Spans(ms, turns)
  PROVE  Fits(window \o ms, turns)
<1> DEFINE both == window \o ms
           n == Len(window) + Len(ms)
<1>1. /\ window \in Seq(Item) /\ Len(window) \in Nat /\ Len(window) >= 1
      /\ window[1] = System
      /\ \A i \in 2..Len(window) : window[i] \in Message \cup Summary
      /\ \A i \in 3..Len(window) : window[i] \in Message
      /\ Spans(window, turns)
  BY FitsIs
<1>2. ms \in Seq(Item) /\ \A i \in DOMAIN ms : ms[i] \in Message /\ ms[i].turn \in turns
  BY TurnsOfMessages DEF Item
<1>3. /\ both \in Seq(Item) /\ Len(both) = n /\ n \in Nat /\ n >= 1 /\ DOMAIN both = 1..n
      /\ \A i \in 1..Len(window) : both[i] = window[i]
      /\ \A i \in 1..n : i > Len(window) =>
           i - Len(window) \in DOMAIN ms /\ both[i] = ms[i - Len(window)]
  BY <1>1, <1>2
<1> HIDE DEF both, n
<1>4. ASSUME NEW i \in 2..n
      PROVE  \/ both[i] \in Message /\ both[i].turn \in turns
             \/ i = 2 /\ both[i] \in Summary /\ TurnsIn(both[i].covers) \subseteq turns
  <2>1. CASE i > Len(window)
    BY <1>2, <1>3, <2>1
  <2>2. CASE i <= Len(window)
    <3>1. both[i] = window[i] /\ i \in 2..Len(window)
      BY <1>1, <1>3, <2>2
    <3>2. i = 2 \/ i \in 3..Len(window)
      BY <1>1, <3>1
    <3>3. window[i] \in Message => window[i].turn \in turns
      BY <1>1, <3>1 DEF Spans
    <3>4. window[i] \in Summary => TurnsIn(window[i].covers) \subseteq turns
      BY <1>1, <3>1 DEF Spans
    <3> QED BY <1>1, <3>1, <3>2, <3>3, <3>4
  <2> QED BY <1>1, <1>3, <2>1, <2>2
<1>5. both[1] = System
  BY <1>1, <1>3
<1>6. Fits(both, turns)
  BY <1>3, <1>4, <1>5, FitsFrom
<1> QED BY <1>6 DEF both

(* The beginning of a window.                                              *)
LEMMA FitsBeginning ==
  ASSUME NEW window, NEW turns, Fits(window, turns), NEW n \in 1..Len(window)
  PROVE  Fits(SubSeq(window, 1, n), turns)
<1> DEFINE part == SubSeq(window, 1, n)
<1>1. /\ window \in Seq(Item) /\ Len(window) \in Nat /\ Len(window) >= 1
      /\ window[1] = System
      /\ \A i \in 2..Len(window) : window[i] \in Message \cup Summary
      /\ \A i \in 3..Len(window) : window[i] \in Message
      /\ Spans(window, turns)
  BY FitsIs
<1>2. /\ part \in Seq(Item) /\ Len(part) = n /\ n \in Nat /\ n >= 1 /\ DOMAIN part = 1..n
      /\ \A i \in 1..n : part[i] = window[i] /\ i \in 1..Len(window)
  BY <1>1
<1> HIDE DEF part
<1>3. Shaped(part)
  BY <1>1, <1>2 DEF Shaped
<1>4. Spans(part, turns)
  BY <1>1, <1>2 DEF Spans
<1> QED BY <1>3, <1>4 DEF Fits, part

(* How many numbers there are up to n.                                     *)
LEMMA IntervalSize ==
  ASSUME NEW n \in Nat
  PROVE  IsFiniteSet(1..n) /\ Cardinality(1..n) = n
<1>1. 1 \in Int /\ n \in Int
  OBVIOUS
<1>2. IsFiniteSet(1..n) /\ Cardinality(1..n) = IF 1 > n THEN 0 ELSE n - 1 + 1
  BY <1>1, FS_Interval
<1> QED BY <1>2

(* What is left without the summary: the prompt, and conversation of the   *)
(* window; at most one item is missing.                                    *)
LEMMA NonSummaryIs ==
  ASSUME NEW window, NEW turns, Fits(window, turns)
  PROVE  LET rest == NonSummary(window) IN
         /\ rest \in Seq(Item) /\ Len(rest) \in Nat /\ Len(rest) >= 1
         /\ Len(rest) >= Len(window) - 1 /\ Len(rest) <= Len(window)
         /\ rest[1] = System
         /\ \A i \in 2..Len(rest) : rest[i] \in Message /\ rest[i].turn \in turns
<1> DEFINE rest == NonSummary(window)
           kept == DOMAIN window \ SummariesIn(window)
           n == Len(window)
<1>1. /\ window \in Seq(Item) /\ n \in Nat /\ n >= 1 /\ DOMAIN window = 1..n
      /\ window[1] = System
      /\ \A i \in 2..n : window[i] \in Message \cup Summary
      /\ \A i \in 3..n : window[i] \in Message
      /\ Spans(window, turns)
  BY FitsIs
<1>2. rest = Kept(window, kept) /\ kept \in SUBSET DOMAIN window
  BY DEF NonSummary
<1>3. rest \in Seq(Item) /\ \E h : Picks(h, window, kept, rest)
  BY <1>1, <1>2, KeptInOrder
<1>4. PICK h : Picks(h, window, kept, rest)
  BY <1>3
<1>5. /\ 1 \in kept /\ \A i \in 3..n : i \in kept
      /\ \A i \in kept : i \in 1..n /\ ~IsSummaryMessage(window[i])
  BY <1>1, Kinds DEF SummariesIn
<1>6. Len(rest) >= 1 /\ rest[1] = System /\ Len(rest) \in Nat /\ DOMAIN rest = 1..Len(rest)
  BY <1>1, <1>2, <1>3, <1>5, KeptMembers
<1> HIDE DEF rest, kept, n
<1>7. /\ h \in [1..Len(rest) -> kept]
      /\ \A i \in 1..Len(rest) : rest[i] = window[h[i]]
      /\ \A i, j \in 1..Len(rest) : i < j => h[i] < h[j]
      /\ \A k \in kept : \E i \in 1..Len(rest) : h[i] = k
  BY <1>4 DEF Picks
<1>8. ASSUME NEW i \in 2..Len(rest)
      PROVE  rest[i] \in Message /\ rest[i].turn \in turns
  <2>1. /\ i \in 1..Len(rest) /\ 1 \in 1..Len(rest) /\ 1 < i
    BY <1>6
  <2>2. h[1] < h[i] /\ h[1] \in kept /\ h[i] \in kept
    BY <1>7, <2>1
  <2>3. h[i] \in 2..n
    BY <1>1, <1>5, <2>2
  <2>4. window[h[i]] \in Message
    BY <1>1, <1>5, <2>2, <2>3, Kinds
  <2> QED BY <1>1, <1>7, <2>1, <2>3, <2>4 DEF Spans, n
<1>9. /\ IsFiniteSet(1..n) /\ Cardinality(1..n) = n
      /\ IsFiniteSet(1..Len(rest)) /\ Cardinality(1..Len(rest)) = Len(rest)
  BY <1>1, <1>6, IntervalSize
<1>10. IsFiniteSet(kept) /\ Cardinality(kept) <= n /\ Cardinality(kept) >= n - 1
       /\ Cardinality(kept) \in Nat
  <2>1. kept \subseteq 1..n
    BY <1>5
  <2>2. IsFiniteSet(kept) /\ Cardinality(kept) <= n
    BY <1>9, <2>1, FS_Subset
  <2>3. /\ IsFiniteSet((1..n) \ {2})
        /\ Cardinality((1..n) \ {2}) = IF 2 \in 1..n THEN n - 1 ELSE n
    BY <1>9, FS_RemoveElement
  <2>4. (1..n) \ {2} \subseteq kept
    BY <1>1, <1>5
  <2>5. Cardinality((1..n) \ {2}) <= Cardinality(kept)
    BY <2>2, <2>4, FS_Subset
  <2>6. Cardinality(kept) \in Nat
    BY <2>2, FS_CardinalityType
  <2> QED BY <1>1, <2>2, <2>3, <2>5, <2>6
<1>11. Cardinality(kept) = Len(rest)
  <2>1. h \in Surjection(1..Len(rest), kept)
    BY <1>7 DEF Surjection
  <2>2. \A i, j \in 1..Len(rest) : h[i] = h[j] => i = j
    <3>1. \A i \in 1..Len(rest) : h[i] \in Nat
      BY <1>1, <1>5, <1>7
    <3> QED BY <1>6, <1>7, <3>1
  <2>3. h \in Injection(1..Len(rest), kept)
    BY <1>7, <2>2 DEF Injection, IsInjective
  <2> QED BY <1>9, <2>1, <2>3, FS_Surjection
<1> QED BY <1>1, <1>3, <1>6, <1>8, <1>10, <1>11 DEF rest, n

(* The summary of a window is its own.                                     *)
LEMMA FirstSummaryIs ==
  ASSUME NEW window, NEW turns, Fits(window, turns)
  PROVE  LET first == FirstSummary(window) IN
         \/ first = <<>>
         \/ \E m \in Summary : first = <<m>> /\ TurnsIn(m.covers) \subseteq turns
<1>1. CASE SummariesIn(window) = {}
  BY <1>1 DEF FirstSummary
<1>2. CASE SummariesIn(window) # {}
  <2>1. /\ window \in Seq(Item) /\ DOMAIN window = 1..Len(window) /\ Len(window) \in Nat
        /\ window[1] = System
        /\ \A i \in 2..Len(window) : window[i] \in Message \cup Summary
        /\ \A i \in 3..Len(window) : window[i] \in Message
        /\ Spans(window, turns)
    BY FitsIs
  <2>2. ASSUME NEW i \in SummariesIn(window)
        PROVE  i = 2 /\ window[i] \in Summary
    BY <2>1, Kinds DEF SummariesIn
  <2>3. SummariesIn(window) = {2}
    BY <1>2, <2>2
  <2>4. Min(SummariesIn(window)) = 2
    BY <2>3 DEF Min
  <2>5. 2 \in DOMAIN window /\ window[2] \in Summary
    BY <2>2, <2>3 DEF SummariesIn
  <2> QED BY <1>2, <2>1, <2>4, <2>5 DEF FirstSummary, Spans
<1> QED BY <1>1, <1>2

(* The prompt, at most one summary, and conversation make a window.        *)
LEMMA FitsBuilt ==
  ASSUME NEW turns, NEW first, NEW ms \in Seq(Message), Spans(ms, turns),
         \/ first = <<>>
         \/ \E m \in Summary : first = <<m>> /\ TurnsIn(m.covers) \subseteq turns
  PROVE  Fits(<<System>> \o first \o ms, turns)
<1>1. Fits(<<System>>, turns)
  <2> DEFINE pre == <<System>>
  <2>1. pre \in Seq(Item) /\ Len(pre) = 1 /\ pre[1] = System
    BY DEF Item
  <2> HIDE DEF pre
  <2>2. 2..Len(pre) = {}
    BY <2>1
  <2>3. Fits(pre, turns)
    BY <2>1, <2>2, FitsFrom
  <2> QED BY <2>3 DEF pre
<1>2. CASE first = <<>>
  <2>1. <<System>> \o first = <<System>>
    BY <1>2, <1>1
  <2> QED BY <1>1, <2>1, FitsAppended
<1>3. CASE \E m \in Summary : first = <<m>> /\ TurnsIn(m.covers) \subseteq turns
  <2>1. PICK m \in Summary : first = <<m>> /\ TurnsIn(m.covers) \subseteq turns
    BY <1>3
  <2> DEFINE window == <<System>> \o first
  <2>2. System \in Item /\ m \in Item
    BY DEF Item
  <2>3. /\ window \in Seq(Item) /\ Len(window) = 2
        /\ window[1] = System /\ window[2] = m
    BY <2>1, <2>2
  <2> HIDE DEF window
  <2>4. Fits(window, turns)
    BY <2>1, <2>3, FitsFrom
  <2>5. Fits(window \o ms, turns)
    BY <2>4, FitsAppended
  <2> QED BY <2>5 DEF window
<1> QED BY <1>2, <1>3

(* The newest of a window that are not a summary, without the prompt.      *)
LEMMA RecentIs ==
  ASSUME NEW window, NEW turns, Fits(window, turns),
         NEW first \in 2..(Len(NonSummary(window)) + 1),
         NEW last \in Nat, last <= Len(NonSummary(window))
  PROVE  LET part == SubSeq(NonSummary(window), first, last) IN
         part \in Seq(Message) /\ Spans(part, turns)
<1> DEFINE rest == NonSummary(window)
           part == SubSeq(rest, first, last)
<1>1. /\ rest \in Seq(Item) /\ Len(rest) \in Nat
      /\ \A i \in 2..Len(rest) : rest[i] \in Message /\ rest[i].turn \in turns
  BY NonSummaryIs
<1> HIDE DEF rest
<1>2. first \in Nat /\ first >= 2 /\ last <= Len(rest)
  BY <1>1 DEF rest
<1>3. CASE last < first
  <2>1. part = <<>>
    BY <1>1, <1>2, <1>3
  <2> QED BY <2>1 DEF Spans, rest
<1>4. CASE last >= first
  <2> DEFINE k == last - first + 1
  <2>1. part = [i \in 1..k |-> rest[first + i - 1]] /\ k \in Nat
    BY <1>1, <1>2, <1>4
  <2>2. \A i \in 1..k : first + i - 1 \in 2..Len(rest)
    BY <1>1, <1>2, <1>4
  <2>3. \A i \in 1..k : part[i] \in Message /\ part[i].turn \in turns
    BY <1>1, <2>1, <2>2
  <2> HIDE DEF part, k
  <2>4. part \in Seq(Message) /\ DOMAIN part = 1..k
    <3>1. DOMAIN part = 1..k
      BY <2>1
    <3>2. part \in [1..k -> Message]
      BY <2>1, <2>3
    <3>3. k \in Nat
      BY <2>1
    <3>4. part \in Seq(Message)
      BY <3>2, <3>3, SeqDef
    <3> QED BY <3>1, <3>4
  <2>5. Spans(part, turns)
    BY <2>3, <2>4, TurnsOfMessages
  <2> QED BY <2>4, <2>5 DEF part, rest
<1> QED BY <1>2, <1>3, <1>4

-----------------------------------------------------------------------------
(* Cutting the window.                                                     *)

(* A window that slides on keeps the prompt, the summary and the newest.   *)
LEMMA SlideFits ==
  ASSUME NEW window, NEW turns, Fits(window, turns),
         NEW keep \in Nat, keep < Len(NonSummary(window))
  PROVE  Fits(Slide(window, keep), turns)
<1> DEFINE n == Len(NonSummary(window))
<1>1. n \in Nat /\ n >= 1 /\ window[1] = System
  BY NonSummaryIs, FitsIs
<1>2. Recent(NonSummary(window), keep) = SubSeq(NonSummary(window), n - keep + 1, n)
  BY <1>1 DEF Recent
<1>3. n - keep + 1 \in 2..(n + 1)
  BY <1>1
<1>4. /\ SubSeq(NonSummary(window), n - keep + 1, n) \in Seq(Message)
      /\ Spans(SubSeq(NonSummary(window), n - keep + 1, n), turns)
  BY <1>1, <1>3, RecentIs
<1> HIDE DEF n
<1>5. \/ FirstSummary(window) = <<>>
      \/ \E m \in Summary : FirstSummary(window) = <<m>> /\ TurnsIn(m.covers) \subseteq turns
  BY FirstSummaryIs
<1> QED BY <1>1, <1>2, <1>4, <1>5, FitsBuilt DEF Slide

(* A long window has enough conversation to keep.                          *)
LEMMA KeptOfLong ==
  ASSUME NEW window, NEW turns, Fits(window, turns), Len(window) > ShortWindow
  PROVE  /\ Len(NonSummary(window)) \in Nat
         /\ KeepRecent < Len(NonSummary(window)) /\ KeepCount(window) = KeepRecent
         /\ KeepRecent \in Nat
<1>1. Len(NonSummary(window)) \in Nat /\ Len(NonSummary(window)) >= Len(window) - 1
  BY NonSummaryIs
<1>2. Len(window) \in Nat
  BY FitsIs
<1> QED BY <1>1, <1>2 DEF KeepCount, KeepRecent, ShortWindow

(* The window that checkCompaction leaves.                                 *)
LEMMA CheckedFits ==
  ASSUME NEW turns, Fits(messages, turns)
  PROVE  Fits(Checked, turns)
<1>1. Len(messages) \in Nat
  BY FitsIs
<1>2. CASE Len(messages) <= ShortWindow
  BY <1>2 DEF Checked
<1>3. CASE ~(Len(messages) <= ShortWindow)
  <2>1. Len(messages) > ShortWindow
    BY <1>1, <1>3 DEF ShortWindow
  <2>2. /\ Fits(Slide(messages, KeepRecent), turns)
        /\ Fits(Slide(messages, KeepCount(messages)), turns)
    BY <2>1, KeptOfLong, SlideFits
  <2> QED BY <1>3, <2>2 DEF Checked, CascadeEvict
<1> QED BY <1>2, <1>3

(* refreshSystemPrompt finds the prompt in place.                          *)
LEMMA PromptStays ==
  ASSUME NEW turns, NEW window, Fits(window, turns)
  PROVE  RefreshSystemPrompt(window) = window
<1>1. 1 \in DOMAIN window /\ window[1] = System
  BY FitsIs
<1> QED BY <1>1 DEF RefreshSystemPrompt

(* What is summarised is conversation of the window.                       *)
LEMMA CutOffIs ==
  ASSUME NEW turns, NEW window, Fits(window, turns), Len(window) > ShortWindow
  PROVE  CutOff(window) \in Seq(Message) /\ Spans(CutOff(window), turns)
<1> DEFINE n == Len(NonSummary(window))
<1>1. n \in Nat /\ KeepCount(window) \in Nat /\ KeepCount(window) < n
  BY KeptOfLong
<1>2. 2 \in 2..(n + 1) /\ n - KeepCount(window) \in Nat /\ n - KeepCount(window) <= n
  BY <1>1
<1> QED BY <1>2, RecentIs DEF CutOff

(* So is what is summarised of a window that was not cut.                  *)
LEMMA WholeIs ==
  ASSUME NEW turns, NEW window, Fits(window, turns)
  PROVE  Whole(window) \in Seq(Message) /\ Spans(Whole(window), turns)
<1> DEFINE rest == NonSummary(window)
<1>1. rest \in Seq(Item) /\ Len(rest) \in Nat /\ Len(rest) >= 1
  BY NonSummaryIs
<1>2. Tail(rest) = SubSeq(rest, 2, Len(rest))
  BY <1>1
<1>3. 2 \in 2..(Len(rest) + 1)
  BY <1>1
<1>4. /\ SubSeq(NonSummary(window), 2, Len(NonSummary(window))) \in Seq(Message)
      /\ Spans(SubSeq(NonSummary(window), 2, Len(NonSummary(window))), turns)
  BY <1>1, <1>3, RecentIs
<1>5. Whole(window) = SubSeq(NonSummary(window), 2, Len(NonSummary(window)))
  BY <1>2 DEF Whole
<1> QED BY <1>4, <1>5

-----------------------------------------------------------------------------
(* Asking for summaries.                                                   *)

(* Turns that begin and turns that are resumed disturb no summary.         *)
LEMMA JobsFitMore ==
  ASSUME NEW js, NEW now, NEW begun, NEW live, NEW begun2, NEW live2,
         JobsFit(js, now, begun, live), begun \subseteq begun2, live \subseteq live2
  PROVE  JobsFit(js, now, begun2, live2)
  BY DEF JobsFit

(* The request of startAsyncCompaction: its summary is of turns that were  *)
(* not cleared.                                                            *)
LEMMA Asked ==
  ASSUME Typed, JobsFit(jobs, epoch, Begun, Live),
         NEW toCompact \in Seq(Message), Spans(toCompact, Live),
         AskForSummary(toCompact)
  PROVE  /\ JobsFit(jobs', epoch', Begun, Live)
         /\ compacting' \in BOOLEAN /\ epoch' = epoch /\ started' \in 0..MaxJobs
<1>1. CASE /\ compacting' = FALSE
           /\ UNCHANGED <<epoch, jobs, started>>
  BY <1>1 DEF Typed
<1>2. CASE /\ started < MaxJobs
           /\ compacting' = TRUE /\ started' = started + 1 /\ epoch' = epoch
           /\ jobs' = jobs \cup {[id |-> started', covers |-> ToSet(toCompact),
                                  epoch |-> epoch, timedOut |-> FALSE]}
  <2>1. MaxJobs \in Nat /\ MaxClears \in Nat /\ started \in 0..MaxJobs /\ epoch \in 0..MaxClears
    BY AgentAssumption DEF AgentAssumption, Typed
  <2>2. started' \in 1..MaxJobs
    BY <1>2, <2>1
  <2> DEFINE job == [id |-> started', covers |-> ToSet(toCompact), epoch |-> epoch,
                     timedOut |-> FALSE]
  <2>3. ToSet(toCompact) \subseteq Message /\ TurnsIn(ToSet(toCompact)) \subseteq Live
    BY TurnsOfMessages
  <2>4. job \in Job /\ job.epoch = epoch /\ job.covers = ToSet(toCompact)
    BY <2>1, <2>2, <2>3 DEF Job
  <2> HIDE DEF job
  <2>5. jobs' = jobs \cup {job}
    BY <1>2 DEF job
  <2>6. Live \subseteq Begun
    BY DEF Live
  <2>7. JobsFit(jobs', epoch, Begun, Live)
    BY <2>1, <2>3, <2>4, <2>5, <2>6 DEF JobsFit
  <2> QED BY <1>2, <2>2, <2>7
<1> QED BY <1>1, <1>2 DEF AskForSummary

(* checkCompaction asks for what it cuts off.                              *)
LEMMA CheckAsks ==
  ASSUME Typed, JobsFit(jobs, epoch, Begun, Live), Fits(messages, Live), CheckCompaction
  PROVE  /\ JobsFit(jobs', epoch', Begun, Live)
         /\ compacting' \in BOOLEAN /\ epoch' = epoch /\ started' \in 0..MaxJobs
<1>1. CASE MayCompact /\ AskForSummary(CutOff(messages))
  <2>1. CutOff(messages) \in Seq(Message) /\ Spans(CutOff(messages), Live)
    BY <1>1, CutOffIs DEF MayCompact
  <2> QED BY <1>1, <2>1, Asked
<1>2. CASE UNCHANGED jobVars
  BY <1>2 DEF jobVars, Typed
<1> QED BY <1>1, <1>2 DEF CheckCompaction

(* After a turn the whole window is summarised.                            *)
LEMMA ScheduleAsks ==
  ASSUME Typed, JobsFit(jobs, epoch, Begun, Live), NEW window, Fits(window, Live),
         ScheduleBackgroundCompaction(window)
  PROVE  /\ JobsFit(jobs', epoch', Begun, Live)
         /\ compacting' \in BOOLEAN /\ epoch' = epoch /\ started' \in 0..MaxJobs
<1>1. CASE AskForSummary(Whole(window))
  BY <1>1, WholeIs, Asked
<1>2. CASE UNCHANGED jobVars
  BY <1>2 DEF jobVars, Typed
<1> QED BY <1>1, <1>2 DEF ScheduleBackgroundCompaction

-----------------------------------------------------------------------------
(* Healing a window that ends with a question.                             *)

(* Messages of one turn, one after another.                                *)
LEMMA JoinedTurns ==
  ASSUME NEW a \in Seq(Message), NEW b \in Seq(Message), NEW n,
         \A i \in DOMAIN a : a[i].turn = n, \A i \in DOMAIN b : b[i].turn = n
  PROVE  a \o b \in Seq(Message) /\ \A i \in DOMAIN (a \o b) : (a \o b)[i].turn = n
<1> DEFINE both == a \o b
           k == Len(a)
<1>1. /\ both \in Seq(Message) /\ k \in Nat
      /\ \A i \in 1..k : both[i] = a[i] /\ i \in DOMAIN a
      /\ \A i \in DOMAIN both : i > k => i - k \in DOMAIN b /\ both[i] = b[i - k]
      /\ DOMAIN both = 1..Len(both) /\ Len(both) \in Nat
  OBVIOUS
<1> HIDE DEF both, k
<1>2. ASSUME NEW i \in DOMAIN both
      PROVE  both[i].turn = n
  <2>1. i \in 1..k \/ i > k
    BY <1>1
  <2> QED BY <1>1, <2>1
<1> QED BY <1>1, <1>2 DEF both

(* The rows of a run are of that run.                                      *)
LEMMA RowsAre ==
  ASSUME Typed, NEW n \in Turn, runs[n].of \in Session
  PROVE  Rows(n) \in Seq(Message) /\ \A i \in DOMAIN Rows(n) : Rows(n)[i].turn = n
<1> DEFINE all  == stored[runs[n].of]
           kept == {i \in DOMAIN all : all[i].turn = n}
<1>1. all \in Seq(Message)
  BY DEF Typed
<1>2. Rows(n) = Kept(all, kept) /\ kept \in SUBSET DOMAIN all
  BY DEF Rows
<1>3. \A k \in kept : all[k].turn = n
  OBVIOUS
<1> HIDE DEF all, kept
<1> QED BY <1>1, <1>2, <1>3, KeptMembers

(* The answer that recoverRunContext stores is of the run.                 *)
LEMMA RecoveredIs ==
  ASSUME NEW n \in Turn, runs[n].of \in Session
  PROVE  Recovered(n) \in Seq(Message) /\ \A i \in DOMAIN Recovered(n) : Recovered(n)[i].turn = n
<1>1. Answered(n) \in Message /\ Answered(n).turn = n
  BY SaidIs DEF Answered
<1>2. Recovered(n) = <<Answered(n)>> \/ Recovered(n) = <<>>
  BY DEF Recovered
<1> DEFINE answer == Answered(n)
<1>3. answer \in Message /\ answer.turn = n
  BY <1>1
<1> HIDE DEF answer
<1>4. CASE Recovered(n) = <<answer>>
  BY <1>3, <1>4
<1>5. CASE Recovered(n) = <<>>
  BY <1>5
<1> QED BY <1>2, <1>4, <1>5 DEF answer

(* What takes the place of the question is of the run.                     *)
LEMMA HealedTailIs ==
  ASSUME Typed, NEW n \in Turn, runs[n].of \in Session
  PROVE  /\ HealedTail(n) \in Seq(Message)
         /\ \A i \in DOMAIN HealedTail(n) : HealedTail(n)[i].turn = n
<1> DEFINE all  == Rows(n) \o Recovered(n)
           kept == {i \in DOMAIN all : all[i].kind # "placeholder"}
           after == Kept(all, kept)
           asks == AsksIn(after)
<1>1. /\ Rows(n) \in Seq(Message) /\ \A i \in DOMAIN Rows(n) : Rows(n)[i].turn = n
      /\ Recovered(n) \in Seq(Message)
      /\ \A i \in DOMAIN Recovered(n) : Recovered(n)[i].turn = n
  BY RowsAre, RecoveredIs
<1>2. all \in Seq(Message) /\ \A i \in DOMAIN all : all[i].turn = n
  BY <1>1, JoinedTurns
<1>3. kept \in SUBSET DOMAIN all
  OBVIOUS
<1>4. HealedTail(n) = IF asks = {} THEN after ELSE SubSeq(after, Min(asks), Len(after))
  BY DEF HealedTail
<1> HIDE DEF all, kept
<1>5. after \in Seq(Message) /\ \A i \in DOMAIN after : after[i].turn = n
  BY <1>2, <1>3, KeptMembers
<1> HIDE DEF after
<1>6. CASE asks = {}
  BY <1>4, <1>5, <1>6
<1>7. CASE asks # {}
  <2> DEFINE m == Min(asks)
             part == SubSeq(after, m, Len(after))
             k == Len(after) - m + 1
  <2>1. asks \subseteq Nat /\ asks \subseteq 1..Len(after) /\ Len(after) \in Nat
    BY <1>5 DEF AsksIn
  <2>2. \E x \in asks : \A y \in asks : x <= y
    BY <1>7, <2>1, LeastNumber
  <2>3. m \in asks
    BY <2>2 DEF Min
  <2> HIDE DEF m
  <2>4. m \in 1..Len(after)
    BY <2>1, <2>3
  <2>5. /\ part = [i \in 1..k |-> after[m + i - 1]] /\ k \in Nat
        /\ \A i \in 1..k : m + i - 1 \in DOMAIN after
    BY <1>5, <2>1, <2>4
  <2> HIDE DEF part, k
  <2>6. \A i \in 1..k : part[i] \in Message /\ part[i].turn = n
    BY <1>5, <2>5
  <2>7. part \in [1..k -> Message]
    BY <2>5, <2>6
  <2>8. part \in Seq(Message) /\ DOMAIN part = 1..k
    BY <2>5, <2>7, SeqDef
  <2> QED BY <1>4, <1>7, <2>6, <2>8 DEF part, m
<1> QED BY <1>6, <1>7

(* A window that ends with a question holds more than the prompt.          *)
LEMMA EndsWithQuestion ==
  ASSUME NEW turns, NEW window, Fits(window, turns), Last(window).kind = "ask"
  PROVE  Fits(Front(window), turns)
<1>1. /\ window \in Seq(Item) /\ Len(window) \in Nat /\ Len(window) >= 1
      /\ window[1] = System
  BY FitsIs
<1>2. Len(window) # 1
  BY <1>1 DEF Last, System
<1> DEFINE n == Len(window)
<1>3. n \in Nat /\ n >= 1 /\ n # 1
  BY <1>1, <1>2
<1> HIDE DEF n
<1>4. n - 1 \in 1..n
  BY <1>3
<1> QED BY <1>4, FitsBeginning DEF Front, n

(* The turns that a healed window holds began and were not cleared.        *)
LEMMA HealedFits ==
  ASSUME Typed, Driven, NEW window, Fits(window, Live)
  PROVE  Fits(Healed(window), Live)
<1>1. CASE ~Dangling(window)
  BY <1>1 DEF Healed
<1>2. CASE Dangling(window)
  <2>1. lastRun \in Turn /\ lastRun \in Live /\ runs[lastRun].of \in Session
    BY <1>2 DEF Dangling, Driven, Live, Begun
  <2>2. HealedTail(lastRun) \in Seq(Message) /\ Spans(HealedTail(lastRun), Live)
    BY <2>1, HealedTailIs, TurnsOfMessages
  <2>3. Fits(Front(window), Live)
    BY <1>2, EndsWithQuestion DEF Dangling
  <2>4. Fits(Front(window) \o HealedTail(lastRun), Live)
    BY <2>2, <2>3, FitsAppended
  <2> QED BY <1>2, <2>4 DEF Healed
<1> QED BY <1>1, <1>2

(* Rows added to a session.                                                *)
LEMMA RowsAdded ==
  ASSUME NEW table \in [Session -> Seq(Message)], NEW turns,
         \A s \in Session : Spans(table[s], turns),
         NEW s \in Session, NEW ms \in Seq(Message), \A i \in DOMAIN ms : ms[i].turn \in turns
  PROVE  LET more == [table EXCEPT ![s] = @ \o ms] IN
         /\ more \in [Session -> Seq(Message)]
         /\ \A r \in Session : Spans(more[r], turns)
<1> DEFINE both == table[s] \o ms
           k == Len(table[s])
<1>1. table[s] \in Seq(Message) /\ \A i \in DOMAIN table[s] : table[s][i].turn \in turns
  BY TurnsOfMessages
<1>2. /\ both \in Seq(Message) /\ k \in Nat
      /\ \A i \in 1..k : both[i] = table[s][i] /\ i \in DOMAIN table[s]
      /\ \A i \in DOMAIN both : i > k => i - k \in DOMAIN ms /\ both[i] = ms[i - k]
      /\ DOMAIN both = 1..Len(both) /\ Len(both) \in Nat
  BY <1>1
<1> HIDE DEF both, k
<1>3. \A i \in DOMAIN both : i \in 1..k \/ i > k
  BY <1>2
<1>4. \A i \in DOMAIN both : both[i].turn \in turns
  BY <1>1, <1>2, <1>3
<1>5. Spans(both, turns)
  BY <1>2, <1>4, TurnsOfMessages
<1> QED BY <1>2, <1>5 DEF both

(* Rows of a run added to its session.                                     *)
LEMMA StoredMore ==
  ASSUME Typed, Driven, NEW n \in Begun, runs[n].of \in Session,
         NEW ms \in Seq(Message), \A i \in DOMAIN ms : ms[i].turn = n,
         stored' = [stored EXCEPT ![runs[n].of] = @ \o ms]
  PROVE  /\ stored' \in [Session -> Seq(Message)]
         /\ \A s \in Session : Spans(stored'[s], Begun)
<1> DEFINE r == runs[n].of
<1>1. /\ stored \in [Session -> Seq(Message)] /\ r \in Session
      /\ \A s \in Session : Spans(stored[s], Begun)
  BY DEF Typed, Driven
<1>2. \A i \in DOMAIN ms : ms[i].turn \in Begun
  OBVIOUS
<1>3. stored' = [stored EXCEPT ![r] = @ \o ms]
  OBVIOUS
<1> HIDE DEF r
<1>4. LET more == [stored EXCEPT ![r] = @ \o ms] IN
      /\ more \in [Session -> Seq(Message)]
      /\ \A s \in Session : Spans(more[s], Begun)
  BY <1>1, <1>2, RowsAdded
<1> QED BY <1>3, <1>4

-----------------------------------------------------------------------------
(* The steps.                                                              *)

(* What the invariant says, part by part.                                  *)
LEMMA AgentParts ==
  ASSUME AgentInv
  PROVE  /\ Typed /\ Driven /\ Fits(messages, Live) /\ JobsFit(jobs, epoch, Begun, Live)
         /\ Begun \subseteq Turn /\ Live \subseteq Begun /\ NoTurn \notin Turn
         /\ \A n \in Begun : runs[n].of \in Session
         /\ \A t \in Sender : pc[t] \in {"turn", "resume"} =>
              at[t] \in Turn /\ at[t] \in Live /\ at[t] \in Begun
<1>1. Begun \subseteq Turn /\ Live \subseteq Begun
  BY DEF Begun, Live
<1>2. NoTurn \notin Turn
  BY AgentAssumption DEF NoTurn, Turn, AgentAssumption
<1> QED BY <1>1, <1>2 DEF AgentInv, Driven

(* How a run goes on: its status may change, and messages of it may be     *)
(* stored in its session.                                                  *)
Statuses == {"running", "waiting", "answered", "interrupted", "done"}

OfTurn(ms, n) == \A i \in DOMAIN ms : ms[i].turn = n

StatusMoves(n) ==
  \/ runs' = runs
  \/ \E now \in Statuses : runs' = [runs EXCEPT ![n].status = now]

RowsMove(n) ==
  \/ stored' = stored
  \/ \E ms \in Seq(Message) : OfTurn(ms, n) /\ stored' = AppendRows(runs[n].of, ms)

RunMoves(n) == n \in Begun /\ StatusMoves(n) /\ RowsMove(n)

(* The status of a run that began.                                         *)
LEMMA StatusSet ==
  ASSUME AgentInv, NEW n \in Begun, StatusMoves(n)
  PROVE  /\ runs' \in [Turn -> Run] /\ Begun' = Begun
         /\ \A m \in Begun : runs'[m].of = runs[m].of
<1>1. runs \in [Turn -> Run] /\ n \in Turn
  BY AgentParts DEF Typed
<1>2. CASE runs' = runs
  BY <1>1, <1>2 DEF Begun
<1>3. CASE \E now \in Statuses : runs' = [runs EXCEPT ![n].status = now]
  <2>1. PICK now \in Statuses : runs' = [runs EXCEPT ![n].status = now]
    BY <1>3
  <2>2. runs[n].of \in Session \cup {NoSession}
    BY <1>1 DEF Run
  <2>3. /\ runs' \in [Turn -> Run]
        /\ \A m \in Turn : m # n => runs'[m] = runs[m]
        /\ runs'[n].status = now /\ runs'[n].of = runs[n].of
    BY <1>1, <2>1, <2>2 DEF Run, Statuses
  <2>4. Begun' = Begun
    <3>1. now # "absent"
      BY <2>1 DEF Statuses
    <3> QED BY <1>1, <2>3, <3>1 DEF Begun
  <2>5. \A m \in Begun : runs'[m].of = runs[m].of
    BY <2>3 DEF Begun
  <2> QED BY <2>3, <2>4, <2>5
<1> QED BY <1>2, <1>3 DEF StatusMoves

(* What a run leaves as it was.                                            *)
LEMMA RunKept ==
  ASSUME AgentInv, NEW n, RunMoves(n)
  PROVE  /\ n \in Turn /\ n \in Begun /\ runs[n].of \in Session
         /\ runs' \in [Turn -> Run] /\ Begun' = Begun
         /\ \A m \in Begun : runs'[m].of = runs[m].of
         /\ stored' \in [Session -> Seq(Message)]
         /\ \A s \in Session : Spans(stored'[s], Begun)
<1>1. n \in Begun /\ n \in Turn /\ runs[n].of \in Session
  BY AgentParts DEF RunMoves
<1>2. /\ runs' \in [Turn -> Run] /\ Begun' = Begun
      /\ \A m \in Begun : runs'[m].of = runs[m].of
  BY <1>1, StatusSet DEF RunMoves
<1>3. /\ stored' \in [Session -> Seq(Message)]
      /\ \A s \in Session : Spans(stored'[s], Begun)
  <2>1. CASE stored' = stored
    BY <2>1, AgentParts DEF Typed, Driven
  <2>2. CASE \E ms \in Seq(Message) : OfTurn(ms, n) /\ stored' = AppendRows(runs[n].of, ms)
    <3>1. PICK ms \in Seq(Message) :
            OfTurn(ms, n) /\ stored' = AppendRows(runs[n].of, ms)
      BY <2>2
    <3>2. /\ \A i \in DOMAIN ms : ms[i].turn = n
          /\ stored' = [stored EXCEPT ![runs[n].of] = @ \o ms]
      BY <3>1 DEF OfTurn, AppendRows
    <3> QED BY <1>1, <3>1, <3>2, AgentParts, StoredMore
  <2> QED BY <2>1, <2>2 DEF RunMoves, RowsMove
<1> QED BY <1>1, <1>2, <1>3

(* One message of a run is stored.                                         *)
LEMMA OneStored ==
  ASSUME AgentInv, NEW n \in Begun,
         NEW kind \in {"user", "assistant", "ask", "placeholder", "tool"}, Store(n, kind)
  PROVE  RowsMove(n)
<1> DEFINE said == Said(kind, runs[n].of, n)
           ms   == <<said>>
<1>1. said \in Message /\ said.turn = n
  BY AgentParts, SaidIs
<1>2. stored' = AppendRows(runs[n].of, ms)
  BY DEF Store
<1> HIDE DEF said
<1>3. ms \in Seq(Message) /\ OfTurn(ms, n)
  BY <1>1 DEF OfTurn
<1> QED BY <1>2, <1>3 DEF RowsMove

(* The loop of a run that began ends, or the run is resumed.               *)
LEMMA LoopMoves ==
  ASSUME AgentInv, NEW n \in Turn, NEW kind \in {"assistant", "ask"}, LoopEnds(n, kind)
  PROVE  RunMoves(n)
<1>1. CASE kind = "assistant" /\ AwaitsModel(n) /\ Store(n, "assistant")
           /\ runs' = [runs EXCEPT ![n].status = "done"]
  <2>1. n \in Begun
    BY <1>1 DEF AwaitsModel, Begun
  <2> QED BY <1>1, <2>1, OneStored DEF RunMoves, StatusMoves, Statuses
<1>2. CASE kind = "ask" /\ AwaitsTool(n) /\ Store(n, "placeholder")
           /\ runs' = [runs EXCEPT ![n].status = "waiting"]
  <2>1. n \in Begun
    BY <1>2 DEF AwaitsTool, Begun
  <2> QED BY <1>2, <2>1, OneStored DEF RunMoves, StatusMoves, Statuses
<1> QED BY <1>1, <1>2 DEF LoopEnds

(* A resumed run gets the answer it lacked, if any.                        *)
LEMMA ResumeMoves ==
  ASSUME AgentInv, NEW n \in Turn, ResumeRun(n)
  PROVE  RunMoves(n)
<1>1. /\ runs' = [runs EXCEPT ![n].status = "running"]
      /\ stored' = AppendRows(runs[n].of, Recovered(n))
  BY DEF ResumeRun
<1>2. n \in Begun
  BY DEF ResumeRun, Resumable, Begun
<1>3. Recovered(n) \in Seq(Message) /\ OfTurn(Recovered(n), n)
  BY <1>2, AgentParts, RecoveredIs DEF OfTurn
<1> QED BY <1>1, <1>2, <1>3 DEF RunMoves, StatusMoves, RowsMove, Statuses

(* The model and the tools answer between the ends of a run.               *)
LEMMA StepMoves ==
  ASSUME AgentInv, NEW n \in Turn, ModelAsks(n) \/ ToolEnds(n) \/ LoopThrows(n) \/ Approve(n)
  PROVE  RunMoves(n)
<1>1. n \in Begun
  BY DEF ModelAsks, ToolEnds, LoopThrows, Approve, AwaitsModel, AwaitsTool, Begun
<1>2. StatusMoves(n)
  BY DEF ModelAsks, ToolEnds, LoopThrows, Approve, StatusMoves, Statuses
<1>3. RowsMove(n)
  <2>1. stored' = stored \/ Store(n, "ask") \/ Store(n, "tool")
    BY DEF ModelAsks, ToolEnds, LoopThrows, Approve
  <2> QED BY <1>1, <2>1, OneStored DEF RowsMove
<1> QED BY <1>1, <1>2, <1>3 DEF RunMoves

(* When no turn is forgotten, what fitted still fits.                      *)
LEMMA MoreTurns ==
  ASSUME AgentInv, Begun \subseteq Begun', Live \subseteq Live'
  PROVE  /\ Fits(messages, Live')
         /\ JobsFit(jobs, epoch, Begun', Live')
         /\ \A s \in Session : Spans(stored[s], Begun') /\ Spans(checkpoint[s], Begun')
<1>1. Fits(messages, Live')
  BY AgentParts, FitsMore
<1>2. JobsFit(jobs, epoch, Begun', Live')
  BY AgentParts, JobsFitMore
<1>3. \A s \in Session : Spans(stored[s], Begun') /\ Spans(checkpoint[s], Begun')
  BY AgentParts, SpansMore DEF Driven
<1> QED BY <1>1, <1>2, <1>3

(* A prompt on its way changes nothing.                                    *)
LEMMA Sends ==
  ASSUME AgentInv, NEW t \in Sender, Send(t)
  PROVE  AgentInv'
<1>1. /\ UNCHANGED <<messages, session, lastRun, compacting, epoch, jobs, started, at, runs,
                     stored, checkpoint, forgotten>>
      /\ pc' = [pc EXCEPT ![t] = "prompt"]
  BY DEF Send, agentVars, jobVars, storeVars
<1>2. Begun' = Begun /\ Live' = Live
  BY <1>1 DEF Begun, Live
<1>3. Typed'
  BY <1>1, AgentParts DEF Typed
<1>4. Driven'
  BY <1>1, <1>2, AgentParts DEF Driven, Typed
<1> QED BY <1>1, <1>2, <1>3, <1>4, AgentParts DEF AgentInv

(* A turn begins: the window is cut and healed, and a new run is stored.   *)
LEMMA Starts ==
  ASSUME AgentInv, NEW t \in Sender, StartTurn(t)
  PROVE  AgentInv'
<1> DEFINE window == RefreshSystemPrompt(Checked)
           fresh  == {n \in Turn : runs[n].status = "absent"}
           n      == CHOOSE k \in fresh : \A l \in fresh : k <= l
           healed == IF Dangling(window) THEN Recovered(lastRun) ELSE <<>>
           after  == IF healed = <<>> THEN stored ELSE AppendRows(runs[lastRun].of, healed)
           said   == Said("user", session, n)
<1>0. /\ Typed /\ Driven /\ Fits(messages, Live) /\ JobsFit(jobs, epoch, Begun, Live)
      /\ Begun \subseteq Turn /\ Live \subseteq Begun
      /\ \A m \in Begun : runs[m].of \in Session
  BY AgentParts
<1>1. /\ fresh # {} /\ CheckCompaction /\ messages' = Healed(window)
      /\ pc' = [pc EXCEPT ![t] = "turn"] /\ at' = [at EXCEPT ![t] = n]
      /\ runs' = [runs EXCEPT ![n] = [status |-> "running", of |-> session]]
      /\ stored' = [after EXCEPT ![session] = Append(@, said)]
      /\ UNCHANGED <<session, lastRun, checkpoint, forgotten>>
  BY DEF StartTurn
<1>2. window = Checked /\ Fits(window, Live)
  BY <1>0, CheckedFits, PromptStays
<1>3. n \in fresh
  <2>1. fresh \subseteq Nat
    BY DEF Turn
  <2>2. \E k \in fresh : \A l \in fresh : k <= l
    BY <1>1, <2>1, LeastNumber
  <2> QED BY <2>2
<1>4. n \in Turn /\ n \notin Begun /\ n \notin forgotten /\ session \in Session
  BY <1>0, <1>3 DEF Begun, Driven, Typed
<1> HIDE DEF window, n, fresh
<1>5. /\ runs' \in [Turn -> Run] /\ Begun' = Begun \cup {n} /\ Live' = Live \cup {n}
      /\ \A m \in Begun' : runs'[m].of \in Session
  <2>1. [status |-> "running", of |-> session] \in Run
    BY <1>4 DEF Run
  <2>2. /\ runs' \in [Turn -> Run]
        /\ \A m \in Turn : m # n => runs'[m] = runs[m]
        /\ runs'[n].status = "running" /\ runs'[n].of = session
    BY <1>0, <1>1, <1>4, <2>1 DEF Typed
  <2>3. Begun' = Begun \cup {n}
    BY <1>4, <2>2 DEF Begun
  <2>4. Live' = Live \cup {n}
    BY <1>1, <1>4, <2>3 DEF Live
  <2> QED BY <1>0, <1>4, <2>2, <2>3, <2>4
<1>6. Fits(messages', Live')
  BY <1>0, <1>1, <1>2, <1>5, HealedFits, FitsMore
<1>7. /\ JobsFit(jobs', epoch', Begun', Live')
      /\ compacting' \in BOOLEAN /\ epoch' = epoch /\ started' \in 0..MaxJobs
  BY <1>0, <1>1, <1>5, CheckAsks, JobsFitMore
<1>8. /\ after \in [Session -> Seq(Message)]
      /\ \A s \in Session : Spans(after[s], Begun)
  <2>1. CASE healed = <<>>
    BY <1>0, <2>1 DEF Typed, Driven
  <2>2. CASE healed # <<>>
    <3>1. healed = Recovered(lastRun) /\ lastRun # NoTurn
      BY <2>2 DEF Dangling
    <3>2. lastRun \in Begun /\ lastRun \in Turn /\ runs[lastRun].of \in Session
      BY <1>0, <3>1 DEF Driven
    <3>3. healed \in Seq(Message) /\ \A i \in DOMAIN healed : healed[i].turn \in Begun
      BY <3>1, <3>2, RecoveredIs
    <3> HIDE DEF healed
    <3>4. after = [stored EXCEPT ![runs[lastRun].of] = @ \o healed]
      BY <2>2 DEF AppendRows
    <3> HIDE DEF after
    <3> QED BY <1>0, <3>2, <3>3, <3>4, RowsAdded DEF Typed, Driven
  <2> QED BY <2>1, <2>2
<1> HIDE DEF after
<1>9. /\ stored' \in [Session -> Seq(Message)]
      /\ \A s \in Session : Spans(stored'[s], Begun')
  <2>1. said \in Message /\ said.turn = n
    BY <1>4, SaidIs
  <2> HIDE DEF said
  <2>2. <<said>> \in Seq(Message) /\ \A i \in DOMAIN <<said>> : <<said>>[i].turn \in Begun'
    BY <1>5, <2>1
  <2>3. stored' = [after EXCEPT ![session] = @ \o <<said>>]
    <3>1. Append(after[session], said) = after[session] \o <<said>>
      BY <1>4, <1>8, <2>1
    <3> QED BY <1>1, <3>1
  <2>4. \A s \in Session : Spans(after[s], Begun')
    BY <1>5, <1>8, SpansMore
  <2> QED BY <1>4, <1>8, <2>2, <2>3, <2>4, RowsAdded
<1>10. Typed'
  BY <1>0, <1>1, <1>4, <1>5, <1>7, <1>9 DEF Typed
<1>11. Driven'
  <2>1. /\ lastRun' # NoTurn => lastRun' \in Live'
        /\ \A u \in Sender :
             /\ at'[u] # NoTurn => at'[u] \in Live'
             /\ pc'[u] \in {"turn", "resume"} => at'[u] # NoTurn
    <3>1. n # NoTurn
      BY <1>4, AgentParts
    <3> QED BY <1>0, <1>1, <1>5, <3>1 DEF Driven, Typed
  <2>2. forgotten' \subseteq Begun'
    BY <1>0, <1>1, <1>5 DEF Driven
  <2>3. \A s \in Session : Spans(checkpoint'[s], Begun') /\ Len(checkpoint'[s]) <= 1
    BY <1>0, <1>1, <1>5, SpansMore DEF Driven
  <2> QED BY <1>5, <1>9, <2>1, <2>2, <2>3 DEF Driven
<1> QED BY <1>6, <1>7, <1>10, <1>11 DEF AgentInv

(* A turn that must wait for a person only cuts the window.                *)
LEMMA Waits ==
  ASSUME AgentInv, NEW t \in Sender, SendMustWait(t)
  PROVE  AgentInv'
<1>0. /\ Typed /\ Driven /\ Fits(messages, Live) /\ JobsFit(jobs, epoch, Begun, Live)
  BY AgentParts
<1>1. /\ CheckCompaction /\ messages' = RefreshSystemPrompt(Checked)
      /\ pc' = [pc EXCEPT ![t] = "idle"]
      /\ UNCHANGED <<session, lastRun, at, runs, stored, checkpoint, forgotten>>
  BY DEF SendMustWait, storeVars
<1>2. Begun' = Begun /\ Live' = Live
  BY <1>1 DEF Begun, Live
<1>3. Fits(messages', Live)
  BY <1>0, <1>1, CheckedFits, PromptStays
<1>4. /\ JobsFit(jobs', epoch', Begun, Live)
      /\ compacting' \in BOOLEAN /\ epoch' = epoch /\ started' \in 0..MaxJobs
  BY <1>0, <1>1, CheckAsks
<1>5. Typed'
  BY <1>0, <1>1, <1>4 DEF Typed
<1>6. Driven'
  BY <1>0, <1>1, <1>2 DEF Driven, Typed
<1> QED BY <1>2, <1>3, <1>4, <1>5, <1>6 DEF AgentInv

(* The turn of a sender ends with an answer or a question.                 *)
LEMMA Finishes ==
  ASSUME AgentInv, NEW t \in Sender, NEW kind \in {"assistant", "ask"}, FinishTurn(t, kind)
  PROVE  AgentInv'
<1> DEFINE n      == at[t]
           said   == Said(kind, runs[n].of, n)
           asked  == Said("user", runs[n].of, n)
           window == messages \o <<asked, said>>
<1>0. /\ Typed /\ Driven /\ Fits(messages, Live) /\ JobsFit(jobs, epoch, Begun, Live)
      /\ Begun \subseteq Turn /\ Live \subseteq Begun
  BY AgentParts
<1>1. /\ pc[t] = "turn" /\ LoopEnds(n, kind)
      /\ ScheduleBackgroundCompaction(window) /\ messages' = window
      /\ lastRun' = n
      /\ pc' = [pc EXCEPT ![t] = "idle"] /\ at' = [at EXCEPT ![t] = NoTurn]
      /\ UNCHANGED <<session, checkpoint, forgotten>>
  BY DEF FinishTurn
<1>2. n \in Turn /\ n \in Live /\ n \in Begun /\ runs[n].of \in Session
  BY <1>1, AgentParts
<1>3. said \in Message /\ said.turn = n /\ asked \in Message /\ asked.turn = n
  BY <1>2, SaidIs
<1> HIDE DEF n, said, asked
<1>4. RunMoves(n)
  BY <1>1, <1>2, LoopMoves
<1>5. /\ runs' \in [Turn -> Run] /\ Begun' = Begun
      /\ \A m \in Begun : runs'[m].of = runs[m].of
      /\ stored' \in [Session -> Seq(Message)]
      /\ \A s \in Session : Spans(stored'[s], Begun)
  BY <1>4, RunKept
<1>6. Live' = Live
  BY <1>1, <1>5 DEF Live
<1>7. Fits(window, Live)
  <2> DEFINE both == <<asked, said>>
  <2>1. both \in Seq(Message) /\ \A i \in DOMAIN both : both[i].turn = n
    BY <1>3
  <2>2. Spans(both, Live)
    BY <1>2, <2>1, TurnsOfMessages
  <2> HIDE DEF both
  <2>3. Fits(messages \o both, Live)
    BY <1>0, <2>1, <2>2, FitsAppended
  <2> QED BY <2>3 DEF both
<1> HIDE DEF window
<1>8. /\ JobsFit(jobs', epoch', Begun, Live)
      /\ compacting' \in BOOLEAN /\ epoch' = epoch /\ started' \in 0..MaxJobs
  BY <1>0, <1>1, <1>7, ScheduleAsks
<1>9. Typed'
  BY <1>0, <1>1, <1>2, <1>5, <1>8 DEF Typed
<1>10. Driven'
  BY <1>0, <1>1, <1>2, <1>5, <1>6, AgentParts DEF Driven, Typed
<1> QED BY <1>1, <1>5, <1>6, <1>7, <1>8, <1>9, <1>10 DEF AgentInv

(* A run that goes on without the agent, and whose callers stay or leave.  *)
LEMMA GoesOn ==
  ASSUME AgentInv, NEW n, RunMoves(n),
         pc' \in [Sender -> {"idle", "prompt", "turn", "resume"}],
         at' \in [Sender -> Turn \cup {NoTurn}],
         \A t \in Sender : /\ at'[t] \in {at[t], NoTurn}
                           /\ pc'[t] \in {"turn", "resume"} => pc'[t] = pc[t] /\ at'[t] = at[t],
         UNCHANGED <<messages, session, lastRun, compacting, epoch, jobs, started, checkpoint,
                     forgotten>>
  PROVE  AgentInv'
<1>0. /\ Typed /\ Driven /\ Fits(messages, Live) /\ JobsFit(jobs, epoch, Begun, Live)
      /\ \A m \in Begun : runs[m].of \in Session
  BY AgentParts
<1>1. /\ runs' \in [Turn -> Run] /\ Begun' = Begun
      /\ \A m \in Begun : runs'[m].of = runs[m].of
      /\ stored' \in [Session -> Seq(Message)]
      /\ \A s \in Session : Spans(stored'[s], Begun)
  BY RunKept
<1>2. Live' = Live
  BY <1>1 DEF Live
<1>3. Typed'
  BY <1>0, <1>1 DEF Typed
<1>4. Driven'
  BY <1>0, <1>1, <1>2 DEF Driven
<1> QED BY <1>0, <1>1, <1>2, <1>3, <1>4 DEF AgentInv

(* The model, the tools, a person and the web routes leave the window.     *)
LEMMA Behind ==
  ASSUME AgentInv, NEW n \in Turn,
         \/ ModelAsks(n) \/ ToolEnds(n) \/ LoopThrows(n) \/ Approve(n) \/ ResumeElsewhere(n)
         \/ \E kind \in {"assistant", "ask"} : FinishElsewhere(n, kind)
  PROVE  AgentInv'
<1>1. RunMoves(n)
  BY StepMoves, ResumeMoves, LoopMoves DEF ResumeElsewhere, FinishElsewhere
<1>2. UNCHANGED <<messages, session, lastRun, compacting, epoch, jobs, started, checkpoint,
                  forgotten>>
  BY DEF ModelAsks, ToolEnds, LoopThrows, Approve, ResumeElsewhere, FinishElsewhere,
         agentVars, jobVars
<1>3. /\ pc \in [Sender -> {"idle", "prompt", "turn", "resume"}]
      /\ at \in [Sender -> Turn \cup {NoTurn}]
  BY AgentParts DEF Typed
<1>4. \/ UNCHANGED <<pc, at>>
      \/ /\ pc' = [t \in Sender |-> IF at[t] = n THEN "idle" ELSE pc[t]]
         /\ at' = [t \in Sender |-> IF at[t] = n THEN NoTurn ELSE at[t]]
  BY DEF ModelAsks, ToolEnds, LoopThrows, Approve, ResumeElsewhere, FinishElsewhere,
         callerVars
<1>5. /\ pc' \in [Sender -> {"idle", "prompt", "turn", "resume"}]
      /\ at' \in [Sender -> Turn \cup {NoTurn}]
      /\ \A t \in Sender : /\ at'[t] \in {at[t], NoTurn}
                           /\ pc'[t] \in {"turn", "resume"} => pc'[t] = pc[t] /\ at'[t] = at[t]
  BY <1>3, <1>4
<1> QED BY <1>1, <1>2, <1>5, GoesOn

(* A run that is resumed is not forgotten any more.                        *)
LEMMA Resumes ==
  ASSUME AgentInv, NEW t \in Sender, NEW n \in Turn, Resume(t, n)
  PROVE  AgentInv'
<1>0. Typed /\ Driven /\ Fits(messages, Live) /\ JobsFit(jobs, epoch, Begun, Live)
      /\ \A m \in Begun : runs[m].of \in Session
  BY AgentParts
<1>1. /\ ResumeRun(n)
      /\ pc' = [pc EXCEPT ![t] = "resume"] /\ at' = [at EXCEPT ![t] = n]
      /\ forgotten' = forgotten \ {n}
      /\ UNCHANGED <<messages, session, lastRun, compacting, epoch, jobs, started,
                     checkpoint>>
  BY DEF Resume, agentVars, jobVars
<1>2. /\ n \in Begun /\ n # NoTurn
      /\ runs' \in [Turn -> Run] /\ Begun' = Begun
      /\ \A m \in Begun : runs'[m].of = runs[m].of
      /\ stored' \in [Session -> Seq(Message)]
      /\ \A s \in Session : Spans(stored'[s], Begun)
  BY <1>1, ResumeMoves, RunKept, AgentParts
<1>3. Live \subseteq Live' /\ n \in Live'
  BY <1>1, <1>2 DEF Live
<1>4. Fits(messages', Live') /\ JobsFit(jobs', epoch', Begun', Live')
  BY <1>1, <1>2, <1>3, MoreTurns
<1>5. Typed'
  BY <1>0, <1>1, <1>2 DEF Typed
<1>6. Driven'
  BY <1>0, <1>1, <1>2, <1>3 DEF Driven, Typed
<1> QED BY <1>4, <1>5, <1>6 DEF AgentInv

(* What a resumed run ended with is added to the window.                   *)
LEMMA ResumesEnd ==
  ASSUME AgentInv, NEW t \in Sender, NEW kind \in {"assistant", "ask"}, FinishResume(t, kind)
  PROVE  AgentInv'
<1> DEFINE n    == at[t]
           said == Said(kind, runs[n].of, n)
           part == IF messages # <<>> /\ Last(messages).kind = "ask"
                   THEN Front(messages) ELSE messages
<1>0. /\ Typed /\ Driven /\ Fits(messages, Live) /\ JobsFit(jobs, epoch, Begun, Live)
  BY AgentParts
<1>1. /\ pc[t] = "resume" /\ LoopEnds(n, kind)
      /\ messages' = part \o <<said>>
      /\ lastRun' = n
      /\ pc' = [pc EXCEPT ![t] = "idle"] /\ at' = [at EXCEPT ![t] = NoTurn]
      /\ UNCHANGED <<session, compacting, epoch, jobs, started, checkpoint, forgotten>>
  BY DEF FinishResume, jobVars
<1>2. n \in Turn /\ n \in Live /\ n \in Begun /\ runs[n].of \in Session
  BY <1>1, AgentParts
<1>3. said \in Message /\ said.turn = n
  BY <1>2, SaidIs
<1>4. Fits(part, Live)
  BY <1>0, EndsWithQuestion
<1> HIDE DEF n, said, part
<1>5. /\ <<said>> \in Seq(Message) /\ \A i \in DOMAIN <<said>> : <<said>>[i].turn = n
  BY <1>3
<1>6. Fits(part \o <<said>>, Live)
  <2> DEFINE one == <<said>>
  <2>1. one \in Seq(Message) /\ \A i \in DOMAIN one : one[i].turn = n
    BY <1>5
  <2> HIDE DEF one
  <2>2. Spans(one, Live)
    BY <1>2, <2>1, TurnsOfMessages
  <2>3. Fits(part \o one, Live)
    BY <1>4, <2>1, <2>2, FitsAppended
  <2> QED BY <2>3 DEF one
<1>7. /\ runs' \in [Turn -> Run] /\ Begun' = Begun
      /\ \A m \in Begun : runs'[m].of = runs[m].of
      /\ stored' \in [Session -> Seq(Message)]
      /\ \A s \in Session : Spans(stored'[s], Begun)
  BY <1>1, <1>2, LoopMoves, RunKept
<1>8. Live' = Live
  BY <1>1, <1>7 DEF Live
<1>9. Typed'
  BY <1>0, <1>1, <1>2, <1>7 DEF Typed
<1>10. Driven'
  BY <1>0, <1>1, <1>2, <1>7, <1>8, AgentParts DEF Driven, Typed
<1> QED BY <1>0, <1>1, <1>6, <1>7, <1>8, <1>9, <1>10 DEF AgentInv

(* The window is what is stored of a session: every turn in it began.      *)
LEMMA Loads ==
  ASSUME AgentInv, NEW s \in Session, LoadSessionHistory(s)
  PROVE  AgentInv'
<1>0. Typed /\ Driven /\ JobsFit(jobs, epoch, Begun, Live) /\ Live \subseteq Begun
  BY AgentParts
<1>1. /\ messages' = <<System>> \o checkpoint[s] \o stored[s]
      /\ session' = s /\ lastRun' = NoTurn /\ forgotten' = {}
      /\ UNCHANGED <<compacting, epoch, jobs, started, pc, at, runs, stored, checkpoint>>
  BY DEF LoadSessionHistory, jobVars, callerVars, storeVars
<1>2. Begun' = Begun /\ Live' = Begun
  BY <1>1 DEF Begun, Live
<1>3. /\ checkpoint[s] \in Seq(Summary) /\ Len(checkpoint[s]) <= 1
      /\ Spans(checkpoint[s], Begun)
      /\ stored[s] \in Seq(Message) /\ Spans(stored[s], Begun)
  BY <1>0 DEF Typed, Driven
<1>4. \/ checkpoint[s] = <<>>
      \/ \E m \in Summary : checkpoint[s] = <<m>> /\ TurnsIn(m.covers) \subseteq Begun
  <2> DEFINE first == checkpoint[s]
  <2>1. first \in Seq(Summary) /\ Len(first) <= 1 /\ Spans(first, Begun)
    BY <1>3
  <2> HIDE DEF first
  <2>2. CASE Len(first) = 0
    BY <2>1, <2>2 DEF first
  <2>3. CASE Len(first) = 1
    <3>1. first = <<first[1]>> /\ first[1] \in Summary /\ 1 \in DOMAIN first
      BY <2>1, <2>3
    <3>2. TurnsIn(first[1].covers) \subseteq Begun
      BY <2>1, <3>1 DEF Spans
    <3> QED BY <3>1, <3>2 DEF first
  <2>4. Len(first) \in Nat
    BY <2>1
  <2>5. Len(first) = 0 \/ Len(first) = 1
    <3>1. \A k \in Nat : k <= 1 => k = 0 \/ k = 1
      OBVIOUS
    <3> QED BY <2>1, <2>4, <3>1
  <2> QED BY <2>2, <2>3, <2>5 DEF first
<1>5. Fits(messages', Live')
  <2>1. <<System>> \o checkpoint[s] \o stored[s] = messages'
    BY <1>1
  <2> QED BY <1>2, <1>3, <1>4, <2>1, FitsBuilt
<1>6. JobsFit(jobs', epoch', Begun', Live')
  BY <1>0, <1>1, <1>2, JobsFitMore
<1>7. Typed'
  BY <1>0, <1>1 DEF Typed
<1>8. Driven'
  BY <1>0, <1>1, <1>2 DEF Driven
<1> QED BY <1>5, <1>6, <1>7, <1>8 DEF AgentInv

(* /clear: summaries on their way get the epoch of the past; turns that    *)
(* are under way are not forgotten.                                        *)
LEMMA Clears ==
  ASSUME AgentInv, ClearContext
  PROVE  AgentInv'
<1> DEFINE gone == (TurnsIn(ToSet(messages)) \cup UNION {TurnsIn(j.covers) : j \in jobs})
                     \ Running
<1>0. /\ Typed /\ Driven /\ Fits(messages, Live) /\ JobsFit(jobs, epoch, Begun, Live)
      /\ Begun \subseteq Turn /\ Live \subseteq Begun
  BY AgentParts
<1>1. /\ messages' = SubSeq(messages, 1, 1) /\ lastRun' = NoTurn
      /\ epoch < MaxClears /\ epoch' = epoch + 1 /\ compacting' = FALSE
      /\ forgotten' = forgotten \cup gone
      /\ UNCHANGED <<session, jobs, started, pc, at, runs, stored, checkpoint>>
  BY DEF ClearContext, callerVars, storeVars
<1>2. gone \subseteq Begun
  <2>1. TurnsIn(ToSet(messages)) \subseteq Begun
    <3>1. \A i \in DOMAIN messages : messages[i] \in Message => messages[i].turn \in Live
      BY <1>0 DEF Fits, Spans
    <3>2. \A x \in ToSet(messages) : \E i \in DOMAIN messages : x = messages[i]
      BY DEF ToSet
    <3>3. \A x \in ToSet(messages) : x \in Message => x.turn \in Begun
      BY <1>0, <3>1, <3>2
    <3> QED BY <3>3 DEF TurnsIn
  <2>2. \A j \in jobs : TurnsIn(j.covers) \subseteq Begun
    BY <1>0 DEF JobsFit
  <2> QED BY <2>1, <2>2
<1> HIDE DEF gone
<1>3. Begun' = Begun /\ Live' = Live \ gone
  BY <1>1 DEF Begun, Live
<1>4. epoch \in Nat /\ epoch' \in 0..MaxClears
  BY <1>0, <1>1, AgentAssumption DEF Typed, AgentAssumption
<1>5. Fits(messages', Live')
  <2>1. 1 \in DOMAIN messages /\ messages[1] = System /\ messages \in Seq(Item)
    BY <1>0, FitsIs
  <2>2. /\ messages' \in Seq(Item) /\ Len(messages') = 1 /\ messages'[1] = System
    BY <1>1, <2>1
  <2> DEFINE now == messages'
             turns == Live \ gone
  <2>3. now \in Seq(Item) /\ Len(now) = 1 /\ now[1] = System
    BY <2>2
  <2> HIDE DEF now, turns
  <2>4. Fits(now, turns)
    BY <2>3, FitsFrom
  <2> QED BY <1>3, <2>4 DEF now, turns
<1>6. JobsFit(jobs', epoch', Begun', Live')
  <2>1. \A j \in jobs : j \in Job /\ j.epoch \in Nat /\ j.epoch <= epoch
    BY <1>0, AgentAssumption DEF JobsFit, Job, AgentAssumption
  <2>2. \A j \in jobs : j.epoch <= epoch + 1 /\ j.epoch # epoch + 1
    BY <1>4, <2>1
  <2> QED BY <1>0, <1>1, <1>3, <2>1, <2>2 DEF JobsFit
<1>7. Typed'
  BY <1>0, <1>1, <1>2, <1>4 DEF Typed
<1>8. Driven'
  <2>1. \A t \in Sender : at'[t] # NoTurn => at'[t] \in Live'
    <3>1. \A t \in Sender : at[t] \notin gone
      BY DEF gone, Running
    <3> QED BY <1>0, <1>1, <1>3, <3>1 DEF Driven
  <2>2. forgotten' \subseteq Begun'
    BY <1>0, <1>1, <1>2, <1>3 DEF Driven
  <2> QED BY <1>0, <1>1, <1>3, <2>1, <2>2 DEF Driven
<1> QED BY <1>5, <1>6, <1>7, <1>8 DEF AgentInv

(* /compact cuts the window.                                               *)
LEMMA Compacts ==
  ASSUME AgentInv, CompactNow
  PROVE  AgentInv'
<1>0. Typed /\ Driven /\ Fits(messages, Live) /\ JobsFit(jobs, epoch, Begun, Live)
  BY AgentParts
<1>1. /\ CheckCompaction /\ messages' = Checked
      /\ UNCHANGED <<session, lastRun, pc, at, runs, stored, checkpoint, forgotten>>
  BY DEF CompactNow, callerVars, storeVars
<1>2. Begun' = Begun /\ Live' = Live
  BY <1>1 DEF Begun, Live
<1>3. Fits(messages', Live)
  BY <1>0, <1>1, CheckedFits
<1>4. /\ JobsFit(jobs', epoch', Begun, Live)
      /\ compacting' \in BOOLEAN /\ epoch' = epoch /\ started' \in 0..MaxJobs
  BY <1>0, <1>1, CheckAsks
<1>5. Typed'
  BY <1>0, <1>1, <1>4 DEF Typed
<1>6. Driven'
  BY <1>0, <1>1, <1>2 DEF Driven
<1> QED BY <1>2, <1>3, <1>4, <1>5, <1>6 DEF AgentInv

(* A new summary takes the place of the old one.                           *)
LEMMA InsertedFits ==
  ASSUME NEW window, NEW turns, Fits(window, turns),
         NEW m \in Summary, TurnsIn(m.covers) \subseteq turns
  PROVE  Fits(Inserted(window, m), turns)
<1> DEFINE tail == Tail(window)
           kept == DOMAIN tail \ SummariesIn(tail)
           rest == NonSummary(tail)
<1>1. /\ window \in Seq(Item) /\ Len(window) \in Nat /\ Len(window) >= 1
      /\ window[1] = System
      /\ \A i \in 2..Len(window) : window[i] \in Message \cup Summary
      /\ Spans(window, turns)
  BY FitsIs
<1>2. /\ tail \in Seq(Item) /\ Len(tail) = Len(window) - 1 /\ DOMAIN tail = 1..Len(tail)
      /\ \A i \in 1..Len(tail) : tail[i] = window[i + 1] /\ i + 1 \in 2..Len(window)
  BY <1>1
<1>3. rest = Kept(tail, kept) /\ kept \in SUBSET DOMAIN tail
  BY DEF NonSummary
<1> HIDE DEF tail
<1>4. \A k \in kept : tail[k] \in Message /\ tail[k].turn \in turns
  <2>1. ASSUME NEW k \in kept
        PROVE  tail[k] \in Message /\ tail[k].turn \in turns
    <3>1. /\ k \in 1..Len(tail) /\ tail[k] = window[k + 1] /\ k + 1 \in DOMAIN window
          /\ tail[k] \in Message \cup Summary /\ ~IsSummaryMessage(tail[k])
      BY <1>1, <1>2 DEF SummariesIn
    <3>2. tail[k] \in Message
      BY <3>1, Kinds
    <3> QED BY <1>1, <3>1, <3>2 DEF Spans
  <2> QED BY <2>1
<1> HIDE DEF kept, rest
<1>5. /\ rest \in Seq(Item)
      /\ \A i \in DOMAIN rest : \E k \in kept : rest[i] = tail[k]
  BY <1>2, <1>3, KeptMembers
<1>6. \A i \in DOMAIN rest : rest[i] \in Message /\ rest[i].turn \in turns
  BY <1>4, <1>5
<1>7. rest \in Seq(Message) /\ Spans(rest, turns)
  <2>1. Len(rest) \in Nat /\ rest \in [1..Len(rest) -> Message]
    BY <1>5, <1>6
  <2>2. rest \in Seq(Message)
    BY <2>1, SeqDef
  <2> QED BY <1>6, <2>2, TurnsOfMessages
<1>8. Fits(<<System>> \o <<m>> \o rest, turns)
  BY <1>7, FitsBuilt
<1>9. <<System>> \o <<m>> \o rest = <<System, m>> \o rest
  OBVIOUS
<1> QED BY <1>1, <1>8, <1>9 DEF Inserted, rest, tail

(* A race that ends leaves every variable its type.                        *)
LEMMA RaceEnds ==
  ASSUME AgentInv, NEW j \in jobs, EndRace(j)
  PROVE  compacting' \in BOOLEAN
<1>1. compacting \in BOOLEAN /\ j.timedOut \in BOOLEAN
  BY AgentParts DEF Typed, JobsFit, Job
<1> QED BY <1>1 DEF EndRace

(* A summary of the present epoch: nothing it covers was cleared.          *)
LEMMA Arrives ==
  ASSUME AgentInv, NEW j \in jobs, SummaryArrives(j)
  PROVE  AgentInv'
<1> DEFINE summary == [kind |-> "summary", job |-> j.id, covers |-> j.covers]
<1>0. Typed /\ Driven /\ Fits(messages, Live) /\ JobsFit(jobs, epoch, Begun, Live)
      /\ Live \subseteq Begun
  BY AgentParts
<1>1. /\ j.epoch = epoch
      /\ messages' = Inserted(messages, summary)
      /\ checkpoint' = [checkpoint EXCEPT ![session] = <<summary>>]
      /\ jobs' = jobs \ {j} /\ EndRace(j)
      /\ UNCHANGED <<session, lastRun, epoch, started, pc, at, runs, stored, forgotten>>
  BY DEF SummaryArrives, callerVars
<1>2. Begun' = Begun /\ Live' = Live
  BY <1>1 DEF Begun, Live
<1>3. summary \in Summary /\ summary.covers = j.covers /\ TurnsIn(j.covers) \subseteq Live
  BY <1>0, <1>1 DEF JobsFit, Job, Summary
<1> HIDE DEF summary
<1>4. Fits(messages', Live)
  BY <1>0, <1>1, <1>3, InsertedFits
<1>5. JobsFit(jobs', epoch, Begun, Live)
  BY <1>0, <1>1 DEF JobsFit
<1>6. /\ <<summary>> \in Seq(Summary) /\ Len(<<summary>>) = 1 /\ Spans(<<summary>>, Begun)
  <2>1. Spans(<<summary>>, Begun)
    BY <1>0, <1>3, Kinds DEF Spans
  <2> QED BY <1>3, <2>1
<1>7. compacting' \in BOOLEAN
  BY <1>1, RaceEnds
<1>8. /\ checkpoint' \in [Session -> Seq(Summary)]
      /\ \A s \in Session : Spans(checkpoint'[s], Begun) /\ Len(checkpoint'[s]) <= 1
  <2> DEFINE one == <<summary>>
  <2>1. /\ one \in Seq(Summary) /\ Len(one) <= 1 /\ Spans(one, Begun)
        /\ checkpoint' = [checkpoint EXCEPT ![session] = one]
    BY <1>1, <1>6
  <2> HIDE DEF one
  <2> QED BY <1>0, <2>1 DEF Typed, Driven
<1>9. Typed'
  BY <1>0, <1>1, <1>7, <1>8 DEF Typed
<1>10. Driven'
  BY <1>0, <1>1, <1>2, <1>8 DEF Driven
<1> QED BY <1>1, <1>2, <1>4, <1>5, <1>9, <1>10 DEF AgentInv

(* Summaries that come to nothing, and the timer of one.                   *)
LEMMA Drops ==
  ASSUME AgentInv, NEW j \in jobs, StaleSummaryArrives(j) \/ SummaryFails(j) \/ TimeOut(j)
  PROVE  AgentInv'
<1>0. Typed /\ Driven /\ Fits(messages, Live) /\ JobsFit(jobs, epoch, Begun, Live)
  BY AgentParts
<1>1. UNCHANGED <<messages, session, lastRun, epoch, started, pc, at, runs, stored,
                  checkpoint, forgotten>>
  BY DEF StaleSummaryArrives, SummaryFails, TimeOut, agentVars, callerVars, storeVars
<1>2. Begun' = Begun /\ Live' = Live
  BY <1>1 DEF Begun, Live
<1>3. compacting' \in BOOLEAN
  BY RaceEnds DEF StaleSummaryArrives, SummaryFails, TimeOut
<1>4. JobsFit(jobs', epoch, Begun, Live)
  <2>1. CASE StaleSummaryArrives(j) \/ SummaryFails(j)
    BY <1>0, <2>1 DEF StaleSummaryArrives, SummaryFails, JobsFit
  <2>2. CASE TimeOut(j)
    <3> DEFINE late == [j EXCEPT !.timedOut = TRUE]
    <3>1. late \in Job /\ late.epoch = j.epoch /\ late.covers = j.covers
      BY <1>0 DEF JobsFit, Job
    <3>2. jobs' = (jobs \ {j}) \cup {late}
      BY <2>2 DEF TimeOut
    <3> HIDE DEF late
    <3> QED BY <1>0, <3>1, <3>2 DEF JobsFit
  <2> QED BY <2>1, <2>2
<1>5. Typed'
  BY <1>0, <1>1, <1>3 DEF Typed
<1>6. Driven'
  BY <1>0, <1>1, <1>2 DEF Driven
<1> QED BY <1>0, <1>1, <1>2, <1>4, <1>5, <1>6 DEF AgentInv

-----------------------------------------------------------------------------
(* The theorems.                                                           *)

(* A new agent has only its prompt.                                        *)
LEMMA AgentStarts == Init => AgentInv
<1> SUFFICES ASSUME Init PROVE AgentInv
  OBVIOUS
<1>0. /\ NoTurn \notin Turn /\ 0 \in 0..MaxClears /\ 0 \in 0..MaxJobs
  BY AgentAssumption DEF NoTurn, Turn, AgentAssumption
<1>1. Begun = {} /\ Live = {}
  BY DEF Init, Begun, Live
<1>2. Typed
  <2>1. runs \in [Turn -> Run]
    BY DEF Init, Run
  <2>2. <<>> \in Seq(Message) /\ <<>> \in Seq(Summary)
    OBVIOUS
  <2>3. /\ stored \in [Session -> Seq(Message)]
        /\ checkpoint \in [Session -> Seq(Summary)]
    BY <2>2 DEF Init
  <2> QED BY <1>0, <2>1, <2>3 DEF Init, Typed
<1>3. Fits(messages, Live)
  <2> DEFINE window == <<System>>
  <2>1. window \in Seq(Item) /\ Len(window) = 1 /\ window[1] = System
    BY DEF Item
  <2> HIDE DEF window
  <2>2. Fits(window, Live)
    BY <2>1, FitsFrom
  <2> QED BY <2>2 DEF Init, window
<1>4. JobsFit(jobs, epoch, Begun, Live)
  BY DEF Init, JobsFit
<1>5. Driven
  BY <1>1 DEF Init, Driven, Spans
<1> QED BY <1>2, <1>3, <1>4, <1>5 DEF AgentInv

(* Every step keeps the invariant.                                         *)
LEMMA AgentSteps == AgentInv /\ [Next]_vars => AgentInv'
<1> SUFFICES ASSUME AgentInv, [Next]_vars PROVE AgentInv'
  OBVIOUS
<1>1. CASE \E t \in Sender :
             \/ Send(t) \/ StartTurn(t) \/ SendMustWait(t)
             \/ \E kind \in {"assistant", "ask"} : FinishTurn(t, kind) \/ FinishResume(t, kind)
             \/ \E n \in Turn : Resume(t, n)
  BY <1>1, Sends, Starts, Waits, Finishes, ResumesEnd, Resumes
<1>2. CASE \E n \in Turn :
             \/ ModelAsks(n) \/ ToolEnds(n) \/ LoopThrows(n)
             \/ Approve(n) \/ ResumeElsewhere(n)
             \/ \E kind \in {"assistant", "ask"} : FinishElsewhere(n, kind)
  BY <1>2, Behind
<1>3. CASE \E s \in Session : LoadSessionHistory(s)
  BY <1>3, Loads
<1>4. CASE ClearContext \/ CompactNow
  BY <1>4, Clears, Compacts
<1>5. CASE \E j \in jobs : \/ SummaryArrives(j) \/ StaleSummaryArrives(j)
                           \/ SummaryFails(j) \/ TimeOut(j)
  BY <1>5, Arrives, Drops
<1>6. CASE UNCHANGED vars
  <2>1. UNCHANGED <<messages, session, lastRun, compacting, epoch, jobs, started, pc, at,
                    runs, stored, checkpoint, forgotten>>
    BY <1>6 DEF vars, agentVars, jobVars, callerVars, storeVars
  <2>2. Begun' = Begun /\ Live' = Live
    BY <2>1 DEF Begun, Live
  <2>3. Typed' /\ Driven'
    BY <2>1, <2>2, AgentParts DEF Typed, Driven
  <2> QED BY <2>1, <2>2, <2>3, AgentParts DEF AgentInv
<1>7. Next => \/ \E t \in Sender :
                   \/ Send(t) \/ StartTurn(t) \/ SendMustWait(t)
                   \/ \E kind \in {"assistant", "ask"} :
                        FinishTurn(t, kind) \/ FinishResume(t, kind)
                   \/ \E n \in Turn : Resume(t, n)
              \/ \E n \in Turn :
                   \/ ModelAsks(n) \/ ToolEnds(n) \/ LoopThrows(n)
                   \/ Approve(n) \/ ResumeElsewhere(n)
                   \/ \E kind \in {"assistant", "ask"} : FinishElsewhere(n, kind)
              \/ \E s \in Session : LoadSessionHistory(s)
              \/ ClearContext \/ CompactNow
              \/ \E j \in jobs : \/ SummaryArrives(j) \/ StaleSummaryArrives(j)
                                 \/ SummaryFails(j) \/ TimeOut(j)
  BY DEF Next
<1> QED BY <1>1, <1>2, <1>3, <1>4, <1>5, <1>6, <1>7

(* The invariant of the window and of the summaries on their way.          *)
LEMMA AgentAlways == Spec => []AgentInv
<1>1. Init => AgentInv
  BY AgentStarts
<1>2. AgentInv /\ [Next]_vars => AgentInv'
  BY AgentSteps
<1> QED BY <1>1, <1>2, PTL DEF Spec

(* The variables have their types, and what the model is asked to          *)
(* summarise is conversation: neither the prompt nor an earlier summary is *)
(* ever part of it (startAsyncCompaction, agent.ts).                       *)
THEOREM AgentTyping == Spec => []TypeOK
<1>1. AgentInv => TypeOK
  <2> SUFFICES ASSUME AgentInv PROVE TypeOK
    OBVIOUS
  <2>1. messages \in Seq(Message \cup Summary \cup {System})
    BY AgentParts, FitsIs DEF Item
  <2>2. \A j \in jobs : j \in Job
    BY AgentParts DEF JobsFit
  <2>3. \A n \in Turn :
          /\ runs[n].status \in {"absent", "running", "waiting", "answered",
                                  "interrupted", "done"}
          /\ runs[n].of \in Session \cup {NoSession}
    BY AgentParts DEF Typed, Run
  <2> QED BY <2>1, <2>2, <2>3, AgentParts DEF TypeOK, Typed
<1> QED BY <1>1, AgentAlways, PTL

(* Whatever is cut, healed, loaded, cleared or summarised late, the window *)
(* begins with the only prompt and has at most one summary, right after it *)
(* (checkCompaction, cascadeEvict, healPendingRun, /clear: agent.ts).      *)
THEOREM WindowKeepsItsShape == Spec => []OneSummary
<1>1. AgentInv => OneSummary
  <2> SUFFICES ASSUME AgentInv PROVE OneSummary
    OBVIOUS
  <2>1. /\ Len(messages) \in Nat /\ Len(messages) >= 1 /\ messages \in Seq(Item)
        /\ DOMAIN messages = 1..Len(messages)
        /\ messages[1] = System
        /\ \A i \in 2..Len(messages) : messages[i] \in Message \cup Summary
        /\ \A i \in 3..Len(messages) : messages[i] \in Message
    BY AgentParts, FitsIs
  <2>2. ASSUME NEW i \in DOMAIN messages
        PROVE  /\ messages[i] = System => i = 1
               /\ IsSummaryMessage(messages[i]) => i = 2
    <3>1. i = 1 \/ i = 2 \/ i \in 3..Len(messages)
      BY <2>1
    <3>2. CASE i = 1
      BY <2>1, <3>2, Kinds
    <3>3. CASE i = 2
      BY <2>1, <3>3, Kinds
    <3>4. CASE i \in 3..Len(messages)
      BY <2>1, <3>4, Kinds
    <3> QED BY <3>1, <3>2, <3>3, <3>4
  <2>3. messages # <<>>
    BY <2>1
  <2> QED BY <2>1, <2>2, <2>3 DEF OneSummary
<1> QED BY <1>1, AgentAlways, PTL

(* What /clear removed does not come back in a summary that was on its way,*)
(* until its run is resumed or a session is loaded: the epoch test in the  *)
(* background task of startAsyncCompaction (agent.ts) is enough, however   *)
(* many summaries are under way at once.                                   *)
THEOREM ClearedStaysCleared == Spec => []ClearForgets
<1>1. AgentInv => ClearForgets
  <2> SUFFICES ASSUME AgentInv, NEW i \in DOMAIN messages, IsSummaryMessage(messages[i])
               PROVE  TurnsIn(messages[i].covers) \cap forgotten = {}
    BY DEF ClearForgets
  <2>1. /\ DOMAIN messages = 1..Len(messages) /\ Len(messages) \in Nat
        /\ messages[1] = System
        /\ \A k \in 2..Len(messages) : messages[k] \in Message \cup Summary
        /\ Spans(messages, Live)
    BY AgentParts, FitsIs
  <2>2. messages[i] \in Summary
    <3>1. i = 1 \/ i \in 2..Len(messages)
      BY <2>1
    <3> QED BY <2>1, <3>1, Kinds
  <2>3. TurnsIn(messages[i].covers) \subseteq Live
    BY <2>1, <2>2 DEF Spans
  <2> QED BY <2>3 DEF Live
<1> QED BY <1>1, AgentAlways, PTL

-----------------------------------------------------------------------------
(* The conversation of a window.                                           *)

(* Between the prompt and the conversation: nothing, or a summary.         *)
Opens(first) == first = <<>> \/ \E m \in Summary : first = <<m>>

(* An opening is at most one item, and not of the conversation.            *)
LEMMA OpeningIs ==
  ASSUME NEW first, Opens(first)
  PROVE  /\ first \in Seq(Item) /\ Len(first) \in 0..1
         /\ \A i \in 1..Len(first) : first[i] \in Summary
<1>1. CASE first = <<>>
  BY <1>1
<1>2. CASE \E m \in Summary : first = <<m>>
  <2>1. PICK m \in Summary : first = <<m>>
    BY <1>2
  <2>2. m \in Item
    BY DEF Item
  <2> QED BY <2>1, <2>2
<1> QED BY <1>1, <1>2 DEF Opens

(* The conversation is what follows the prompt and the summary; without    *)
(* the summary, the prompt and the conversation are left.                  *)
LEMMA ConversationIs ==
  ASSUME NEW first, Opens(first), NEW ms \in Seq(Message)
  PROVE  LET window == <<System>> \o first \o ms IN
         /\ Conversation(window) = ms
         /\ NonSummary(window) = <<System>> \o ms
         /\ NonSummary(first \o ms) = ms
         /\ Tail(window) = first \o ms
         /\ window \in Seq(Item) /\ Len(window) = 1 + Len(first) + Len(ms)
<1> DEFINE k == Len(first)
           n == Len(ms)
           head == <<System>> \o first
           window == head \o ms
           rest == first \o ms
<1>1. /\ first \in Seq(Item) /\ k \in 0..1 /\ k \in Nat /\ n \in Nat
      /\ \A i \in 1..k : first[i] \in Summary
      /\ System \in Item /\ ms \in Seq(Item) /\ \A i \in 1..n : ms[i] \in Message
  BY OpeningIs DEF Item
<1>2. /\ head \in Seq(Item) /\ Len(head) = k + 1
      /\ head[1] = System /\ \A i \in 2..(k + 1) : head[i] \in Summary
  BY <1>1
<1>3. /\ rest \in Seq(Item) /\ Len(rest) = k + n /\ DOMAIN rest = 1..(k + n)
      /\ \A i \in 1..k : rest[i] \in Summary
      /\ \A i \in (k + 1)..(k + n) : rest[i] \in Message
  <2>1. /\ rest \in Seq(Item) /\ Len(rest) = k + n /\ DOMAIN rest = 1..(k + n)
        /\ \A i \in 1..k : rest[i] = first[i]
        /\ \A i \in (k + 1)..(k + n) : rest[i] = ms[i - k] /\ i - k \in 1..n
    BY <1>1
  <2> QED BY <1>1, <2>1
<1>4. /\ window \in Seq(Item) /\ Len(window) = k + 1 + n /\ DOMAIN window = 1..(k + 1 + n)
      /\ \A i \in 1..(k + 1) : window[i] = head[i]
      /\ \A i \in (k + 2)..(k + n + 1) : window[i] \in Message
  <2> HIDE DEF head
  <2>1. /\ window \in Seq(Item) /\ Len(window) = k + 1 + n /\ DOMAIN window = 1..(k + 1 + n)
        /\ \A i \in 1..(k + 1) : window[i] = head[i]
        /\ \A i \in (k + 2)..(k + n + 1) : window[i] = ms[i - (k + 1)] /\ i - (k + 1) \in 1..n
    BY <1>1, <1>2
  <2> QED BY <1>1, <2>1
<1>5. /\ window[1] = System /\ \A i \in 2..(k + 1) : window[i] \in Summary
  BY <1>1, <1>2, <1>4
<1>6. Tail(window) = rest
  <2>1. <<System>> \o rest = window
    <3>1. <<System>> \in Seq(Item) /\ first \in Seq(Item) /\ ms \in Seq(Item)
      BY <1>1
    <3>2. PICK pre \in Seq(Item) : pre = <<System>>
      BY <3>1
    <3>3. (pre \o first) \o ms = pre \o (first \o ms)
      BY <3>1, <3>2, ConcatAssociative
    <3> QED BY <3>2, <3>3
  <2> HIDE DEF rest, window, head
  <2>2. Tail(<<System>> \o rest) = rest
    BY <1>1, <1>3
  <2> QED BY <2>1, <2>2
<1>7. {i \in DOMAIN window : window[i] \in Message} = (k + 2)..(k + n + 1)
  <2> HIDE DEF window, head, rest, k, n
  <2>1. ASSUME NEW i \in DOMAIN window
        PROVE  window[i] \in Message <=> i \in (k + 2)..(k + n + 1)
    <3>1. i = 1 \/ i \in 2..(k + 1) \/ i \in (k + 2)..(k + n + 1)
      BY <1>1, <1>4
    <3>2. CASE i = 1
      BY <1>1, <1>5, <3>2, Kinds
    <3>3. CASE i \in 2..(k + 1)
      <4>1. i \notin (k + 2)..(k + n + 1)
        BY <1>1, <3>3
      <4> QED BY <1>5, <3>3, <4>1, Kinds
    <3>4. CASE i \in (k + 2)..(k + n + 1)
      BY <1>4, <3>4
    <3> QED BY <3>1, <3>2, <3>3, <3>4
  <2>2. (k + 2)..(k + n + 1) \subseteq DOMAIN window
    BY <1>1, <1>4
  <2> QED BY <2>1, <2>2
<1>8. DOMAIN window \ SummariesIn(window) = {1} \cup (k + 2)..(k + n + 1)
  <2> HIDE DEF window, head, rest, k, n
  <2>1. ASSUME NEW i \in DOMAIN window
        PROVE  ~IsSummaryMessage(window[i]) <=> i \in {1} \cup (k + 2)..(k + n + 1)
    <3>1. i = 1 \/ i \in 2..(k + 1) \/ i \in (k + 2)..(k + n + 1)
      BY <1>1, <1>4
    <3>2. CASE i = 1
      BY <1>5, <3>2, Kinds
    <3>3. CASE i \in 2..(k + 1)
      <4>1. i \notin (k + 2)..(k + n + 1) /\ i # 1
        BY <1>1, <3>3
      <4> QED BY <1>5, <3>3, <4>1, Kinds
    <3>4. CASE i \in (k + 2)..(k + n + 1)
      BY <1>4, <3>4, Kinds
    <3> QED BY <3>1, <3>2, <3>3, <3>4
  <2>2. {1} \cup (k + 2)..(k + n + 1) \subseteq DOMAIN window
    BY <1>1, <1>4
  <2> QED BY <2>1, <2>2 DEF SummariesIn
<1>9. DOMAIN rest \ SummariesIn(rest) = (k + 1)..(k + n)
  <2> HIDE DEF window, head, rest, k, n
  <2>1. ASSUME NEW i \in DOMAIN rest
        PROVE  ~IsSummaryMessage(rest[i]) <=> i \in (k + 1)..(k + n)
    <3>1. i \in 1..k \/ i \in (k + 1)..(k + n)
      BY <1>1, <1>3
    <3>2. CASE i \in 1..k
      <4>1. i \notin (k + 1)..(k + n)
        BY <1>1, <3>2
      <4> QED BY <1>3, <3>2, <4>1, Kinds
    <3>3. CASE i \in (k + 1)..(k + n)
      BY <1>3, <3>3, Kinds
    <3> QED BY <3>1, <3>2, <3>3
  <2>2. (k + 1)..(k + n) \subseteq DOMAIN rest
    BY <1>1, <1>3
  <2> QED BY <2>1, <2>2 DEF SummariesIn
<1>10. Conversation(window) = ms
  <2>1. Kept(head \o ms, (Len(head) + 1)..(Len(head) + Len(ms))) = ms
    <3> HIDE DEF head
    <3> QED BY <1>1, <1>2, KeptLast
  <2>2. (Len(head) + 1)..(Len(head) + Len(ms)) = (k + 2)..(k + n + 1)
    <3> HIDE DEF head, k
    <3> QED BY <1>1, <1>2
  <2> QED BY <1>7, <2>1, <2>2 DEF Conversation
<1>11. NonSummary(window) = <<System>> \o ms
  <2>1. PICK kept : kept = {1} \cup (Len(first) + 2)..(Len(first) + Len(ms) + 1)
    OBVIOUS
  <2>2. Kept(<<System>> \o first \o ms, kept) = <<System>> \o ms
    <3>1. System \in Item /\ first \in Seq(Item) /\ ms \in Seq(Item)
      BY <1>1
    <3> HIDE DEF window, head, rest, k, n
    <3>2. \A a, b \in Seq(Item) : kept = {1} \cup (Len(a) + 2)..(Len(a) + Len(b) + 1) =>
            Kept(<<System>> \o a \o b, kept) = <<System>> \o b
      BY <3>1, KeptEnds, Zenon
    <3> QED BY <2>1, <3>1, <3>2, Zenon
  <2> QED BY <1>8, <2>1, <2>2 DEF NonSummary
<1>12. NonSummary(rest) = ms
  <2>1. Kept(first \o ms, (Len(first) + 1)..(Len(first) + Len(ms))) = ms
    BY <1>1, KeptLast
  <2> QED BY <1>9, <2>1 DEF NonSummary
<1>13. Len(window) = 1 + Len(first) + Len(ms)
  BY <1>1, <1>4
<1> QED BY <1>4, <1>6, <1>10, <1>11, <1>12, <1>13

(* The same, of a window that has a name.                                  *)
LEMMA PartsOf ==
  ASSUME NEW first, Opens(first), NEW ms \in Seq(Message),
         NEW window, window = <<System>> \o first \o ms
  PROVE  /\ Conversation(window) = ms
         /\ NonSummary(window) = <<System>> \o ms
         /\ NonSummary(Tail(window)) = ms
<1> DEFINE built == <<System>> \o first \o ms
<1>1. /\ Conversation(built) = ms /\ NonSummary(built) = <<System>> \o ms
      /\ NonSummary(first \o ms) = ms /\ Tail(built) = first \o ms
  BY ConversationIs
<1>2. window = built
  OBVIOUS
<1> HIDE DEF built
<1> QED BY <1>1, <1>2

(* A window is its prompt, perhaps a summary, and its conversation.        *)
LEMMA WindowIs ==
  ASSUME NEW window, NEW turns, Fits(window, turns)
  PROVE  /\ Conversation(window) \in Seq(Message)
         /\ \E first : Opens(first) /\ window = <<System>> \o first \o Conversation(window)
<1>1. /\ window \in Seq(Item) /\ Len(window) \in Nat /\ Len(window) >= 1
      /\ DOMAIN window = 1..Len(window)
      /\ window[1] = System
      /\ \A i \in 2..Len(window) : window[i] \in Message \cup Summary
      /\ \A i \in 3..Len(window) : window[i] \in Message
  BY FitsIs
<1> DEFINE n == Len(window)
<1>2. ASSUME NEW k \in 1..n, \A i \in (k + 1)..n : window[i] \in Message
      PROVE  SubSeq(window, k + 1, n) \in Seq(Message)
  <2> DEFINE ms == SubSeq(window, k + 1, n)
  <2>1. /\ ms = [i \in 1..(n - k) |-> window[k + i]] /\ n - k \in Nat
        /\ \A i \in 1..(n - k) : k + i \in (k + 1)..n
    BY <1>1
  <2>2. ms \in [1..(n - k) -> Message]
    BY <1>2, <2>1
  <2> HIDE DEF ms, n
  <2> QED BY <2>1, <2>2, SeqDef DEF ms
<1>3. CASE n >= 2 /\ window[2] \in Summary
  <2> DEFINE m == window[2]
             ms == SubSeq(window, 3, n)
  <2>1. 2 \in 1..n /\ 2 + 1 = 3
    BY <1>1, <1>3
  <2>2. ms \in Seq(Message)
    BY <1>1, <1>2, <2>1
  <2>3. window = <<System>> \o <<m>> \o ms
    BY <1>1, <1>3
  <2>4. Opens(<<m>>)
    BY <1>3 DEF Opens
  <2> HIDE DEF m, ms
  <2>5. Conversation(window) = ms
    BY <2>2, <2>3, <2>4, ConversationIs
  <2> QED BY <2>2, <2>3, <2>4, <2>5
<1>4. CASE ~(n >= 2 /\ window[2] \in Summary)
  <2> DEFINE ms == SubSeq(window, 2, n)
  <2>1. 1 \in 1..n /\ 1 + 1 = 2 /\ \A i \in 2..n : i = 2 \/ i \in 3..n
    BY <1>1
  <2>2. \A i \in 2..n : window[i] \in Message
    BY <1>1, <1>4, <2>1
  <2>3. ms \in Seq(Message)
    BY <1>2, <2>1, <2>2
  <2>4. window = <<System>> \o <<>> \o ms
    BY <1>1
  <2>5. Opens(<<>>)
    BY DEF Opens
  <2> HIDE DEF ms
  <2>6. Conversation(window) = ms
    BY <2>3, <2>4, <2>5, ConversationIs
  <2> QED BY <2>3, <2>4, <2>5, <2>6
<1> QED BY <1>3, <1>4

(* The newest messages are the last ones before and after a cut.           *)
Trimmed(old, new) ==
  \/ new = old
  \/ Len(old) > KeepRecent /\ new = SubSeq(old, Len(old) - KeepRecent + 1, Len(old))

(* The end of a sequence does not depend on what comes first.              *)
LEMMA EndAfterFirst ==
  ASSUME NEW Elem, NEW e \in Elem, NEW seq \in Seq(Elem), NEW i \in Nat, i >= 1,
         NEW n \in Nat, n = Len(seq), i <= n
  PROVE  SubSeq(<<e>> \o seq, i + 1, n + 1) = SubSeq(seq, i, n)
<1> DEFINE both == <<e>> \o seq
           k == n - i + 1
<1>1. /\ both \in Seq(Elem) /\ Len(both) = n + 1 /\ k \in Nat
      /\ \A j \in 1..n : both[j + 1] = seq[j]
  OBVIOUS
<1> HIDE DEF both
<1>2. SubSeq(both, i + 1, n + 1) = [j \in 1..k |-> both[j + i]]
  BY <1>1
<1>3. SubSeq(seq, i, n) = [j \in 1..k |-> seq[j + i - 1]]
  BY <1>1
<1>4. \A j \in 1..k : both[j + i] = seq[j + i - 1]
  <2>1. \A j \in 1..k : j + i - 1 \in 1..n /\ (j + i - 1) + 1 = j + i
    BY <1>1
  <2> QED BY <1>1, <2>1
<1> HIDE DEF k
<1> QED BY <1>2, <1>3, <1>4 DEF both

(* A window that slides on keeps the end of its conversation.              *)
LEMMA SlideConversation ==
  ASSUME NEW window, NEW turns, Fits(window, turns),
         NEW keep \in Nat, keep < Len(NonSummary(window))
  PROVE  LET old == Conversation(window) IN
         /\ keep <= Len(old)
         /\ Conversation(Slide(window, keep)) = SubSeq(old, Len(old) - keep + 1, Len(old))
<1> DEFINE old == Conversation(window)
           n == Len(old)
           new == SubSeq(old, n - keep + 1, n)
<1>1. old \in Seq(Message) /\ \E first : Opens(first) /\ window = <<System>> \o first \o old
  BY WindowIs
<1>2. NonSummary(window) = <<System>> \o old /\ window[1] = System
  <2>1. window[1] = System
    BY FitsIs
  <2>2. PICK first : Opens(first) /\ window = <<System>> \o first \o old
    BY <1>1
  <2> HIDE DEF old
  <2>3. NonSummary(<<System>> \o first \o old) = <<System>> \o old
    BY <1>1, <2>2, ConversationIs
  <2> QED BY <2>1, <2>2, <2>3
<1>3. Opens(FirstSummary(window))
  BY FirstSummaryIs DEF Opens
<1> HIDE DEF old
<1>4. /\ n \in Nat /\ Len(NonSummary(window)) = n + 1 /\ keep <= n
  BY <1>1, <1>2
<1>5. new \in Seq(Message)
  BY <1>1, <1>4
<1>6. Recent(NonSummary(window), keep) = new
  <2>1. Recent(NonSummary(window), keep) = SubSeq(NonSummary(window), n - keep + 2, n + 1)
    <3>1. ~(keep >= n + 1) /\ (n + 1) - keep + 1 = n - keep + 2
      BY <1>4
    <3> QED BY <1>4, <3>1 DEF Recent
  <2>2. <<System>> \in Seq(Item) /\ old \in Seq(Item) /\ Len(<<System>>) = 1
    BY <1>1 DEF Item
  <2>3. CASE keep = 0
    <3>1. n - keep + 2 > n + 1 /\ n - keep + 1 > n
      BY <1>4, <2>3
    <3> QED BY <1>4, <2>1, <3>1, SubSeqEmpty
  <2>4. CASE keep # 0
    <3> DEFINE pre == <<System>>
    <3>1. pre \in Seq(Item) /\ old \in Seq(Item) /\ Len(pre) = 1
      BY <2>2
    <3> HIDE DEF pre
    <3>2. SubSeq(pre \o old, n - keep + 2, n + 1) = SubSeq(old, n - keep + 1, n)
      BY <1>4, <2>2, <2>4, EndAfterFirst DEF pre
    <3> QED BY <1>2, <2>1, <3>2 DEF pre
  <2> QED BY <2>3, <2>4
<1> HIDE DEF new
<1>7. Slide(window, keep) = <<System>> \o FirstSummary(window) \o new
  BY <1>2, <1>6 DEF Slide
<1>8. Conversation(Slide(window, keep)) = new
  <2>1. PICK head : head = FirstSummary(window) /\ Opens(head)
    BY <1>3
  <2>2. PICK slid : slid = Slide(window, keep)
    OBVIOUS
  <2>3. slid = <<System>> \o head \o new
    BY <1>7, <2>1, <2>2
  <2> HIDE DEF n
  <2>4. Conversation(slid) = new
    BY <1>5, <2>1, <2>3, PartsOf
  <2> QED BY <2>2, <2>4
<1> QED BY <1>4, <1>8 DEF new, old

(* checkCompaction keeps the newest messages, whatever it cuts.            *)
LEMMA CheckedConversation ==
  ASSUME NEW turns, Fits(messages, turns)
  PROVE  Trimmed(Conversation(messages), Conversation(Checked))
<1>1. Len(messages) \in Nat
  BY FitsIs
<1>2. CASE Len(messages) <= ShortWindow
  BY <1>2 DEF Checked, Trimmed
<1>3. CASE ~(Len(messages) <= ShortWindow)
  <2>1. Len(messages) > ShortWindow
    BY <1>1, <1>3 DEF ShortWindow
  <2>2. /\ KeepRecent < Len(NonSummary(messages)) /\ KeepCount(messages) = KeepRecent
        /\ KeepRecent \in Nat
    BY <2>1, KeptOfLong
  <2>3. /\ KeepRecent <= Len(Conversation(messages))
        /\ Conversation(Slide(messages, KeepRecent))
             = SubSeq(Conversation(messages), Len(Conversation(messages)) - KeepRecent + 1,
                      Len(Conversation(messages)))
    BY <2>2, SlideConversation
  <2>4. Conversation(messages) \in Seq(Message)
    BY WindowIs
  <2>5. Trimmed(Conversation(messages), Conversation(Slide(messages, KeepRecent)))
    <3> DEFINE old == Conversation(messages)
    <3>1. old \in Seq(Message) /\ KeepRecent <= Len(old)
      BY <2>3, <2>4
    <3> HIDE DEF old
    <3>2. Len(old) > KeepRecent \/ SubSeq(old, Len(old) - KeepRecent + 1, Len(old)) = old
      <4>1. Len(old) > KeepRecent \/ Len(old) = KeepRecent
        <5>1. Len(old) \in Nat
          BY <3>1, LenProperties
        <5> DEFINE n == Len(old)
        <5>2. n \in Nat /\ KeepRecent <= n
          BY <3>1, <5>1
        <5> HIDE DEF n
        <5>3. n > KeepRecent \/ n = KeepRecent
          BY <5>2 DEF KeepRecent
        <5> QED BY <5>3 DEF n
      <4>2. SubSeq(old, 1, Len(old)) = old
        BY <3>1, SubSeqFull
      <4>3. KeepRecent - KeepRecent + 1 = 1
        BY DEF KeepRecent
      <4> QED BY <4>1, <4>2, <4>3
    <3> QED BY <2>3, <3>2 DEF Trimmed, old
  <2>6. Checked \in {messages, Slide(messages, KeepRecent)}
    BY <1>3, <2>2 DEF Checked, CascadeEvict
  <2> QED BY <2>5, <2>6 DEF Trimmed
<1> QED BY <1>2, <1>3

(* A summary that arrives leaves the conversation alone.                   *)
LEMMA InsertedConversation ==
  ASSUME NEW window, NEW turns, Fits(window, turns), NEW m \in Summary
  PROVE  Conversation(Inserted(window, m)) = Conversation(window)
<1> DEFINE old == Conversation(window)
<1>1. PICK first : Opens(first) /\ window = <<System>> \o first \o old
  BY WindowIs
<1>2. old \in Seq(Message) /\ window[1] = System
  BY WindowIs, FitsIs
<1> HIDE DEF old
<1>3. NonSummary(Tail(window)) = old
  BY <1>1, <1>2, PartsOf, Zenon
<1>4. Inserted(window, m) = <<System>> \o <<m>> \o old
  <2>1. <<System, m>> = <<System>> \o <<m>>
    OBVIOUS
  <2> QED BY <1>2, <1>3, <2>1 DEF Inserted
<1>5. Opens(<<m>>)
  BY DEF Opens
<1>6. Conversation(Inserted(window, m)) = old
  BY <1>2, <1>4, <1>5, PartsOf, Zenon
<1> QED BY <1>6 DEF old

(* Messages added to a window are added to its conversation.               *)
LEMMA AppendedConversation ==
  ASSUME NEW window, NEW turns, Fits(window, turns), NEW ms \in Seq(Message)
  PROVE  Conversation(window \o ms) = Conversation(window) \o ms
<1> DEFINE old == Conversation(window)
<1>1. PICK first : Opens(first) /\ window = <<System>> \o first \o old
  BY WindowIs
<1>2. old \in Seq(Message)
  BY WindowIs
<1> HIDE DEF old
<1>3. window \o ms = <<System>> \o first \o (old \o ms)
  <2> DEFINE head == <<System>> \o first
  <2>1. head \in Seq(Item) /\ old \in Seq(Item) /\ ms \in Seq(Item)
    BY <1>1, <1>2, OpeningIs DEF Item
  <2> HIDE DEF head
  <2>2. (head \o old) \o ms = head \o (old \o ms)
    BY <2>1, ConcatAssociative
  <2> QED BY <1>1, <2>2 DEF head
<1>4. old \o ms \in Seq(Message)
  BY <1>2
<1> DEFINE both == old \o ms
<1>5. Conversation(window \o ms) = both
  <2> HIDE DEF both
  <2>1. both \in Seq(Message) /\ window \o ms = <<System>> \o first \o both
    BY <1>3, <1>4 DEF both
  <2>2. Conversation(<<System>> \o first \o both) = both
    BY <1>1, <2>1, ConversationIs
  <2> QED BY <2>1, <2>2
<1> QED BY <1>5 DEF old

(* The end of a window is the end of its conversation.                     *)
LEMMA FrontConversation ==
  ASSUME NEW window, NEW turns, Fits(window, turns)
  PROVE  /\ Last(window) \in Message => Conversation(window) # <<>>
         /\ Conversation(window) # <<>> =>
              /\ Last(window) = Last(Conversation(window))
              /\ Conversation(Front(window)) = Front(Conversation(window))
<1> DEFINE old == Conversation(window)
           n == Len(old)
<1>1. PICK first : Opens(first) /\ window = <<System>> \o first \o old
  BY WindowIs
<1>2. old \in Seq(Message)
  BY WindowIs
<1> HIDE DEF old
<1> DEFINE head == <<System>> \o first
           k == Len(head)
<1>3. /\ head \in Seq(Item) /\ k \in 1..2 /\ \A i \in 1..k : head[i] \notin Message
      /\ n \in Nat /\ old \in Seq(Item)
  <2>1. /\ first \in Seq(Item) /\ Len(first) \in 0..1
        /\ \A i \in 1..Len(first) : first[i] \in Summary
    BY <1>1, OpeningIs
  <2>2. /\ head \in Seq(Item) /\ k = 1 + Len(first) /\ head[1] = System
        /\ \A i \in 2..k : head[i] = first[i - 1] /\ i - 1 \in 1..Len(first)
    BY <2>1 DEF Item
  <2>3. \A i \in 1..k : i = 1 \/ i \in 2..k
    BY <2>1, <2>2
  <2> HIDE DEF head
  <2>4. \A i \in 1..k : head[i] \notin Message
    BY <2>1, <2>2, <2>3, Kinds
  <2> QED BY <1>2, <2>1, <2>2, <2>4 DEF Item
<1>4. window = head \o old
  BY <1>1
<1> HIDE DEF head
<1>5. /\ Len(window) = k + n
      /\ n # 0 => window[k + n] = old[n]
      /\ n = 0 => window[k + n] = head[k]
  BY <1>3, <1>4
<1>6. ASSUME Last(window) \in Message
      PROVE  old # <<>>
  <2>1. n # 0
    BY <1>3, <1>5, <1>6 DEF Last
  <2> QED BY <2>1
<1>7. ASSUME old # <<>>
      PROVE  Last(window) = Last(old) /\ Conversation(Front(window)) = Front(old)
  <2>1. n # 0
    BY <1>2, <1>7
  <2>2. Front(window) = head \o Front(old)
    <3>1. Front(window) = SubSeq(head \o old, 1, k + n - 1) /\ Front(old) = SubSeq(old, 1, n - 1)
      BY <1>4, <1>5 DEF Front
    <3> QED BY <1>3, <2>1, <3>1
  <2>3. Front(old) \in Seq(Message)
    <3>1. Front(old) = SubSeq(old, 1, n - 1)
      BY DEF Front
    <3> QED BY <1>2, <1>3, <2>1, <3>1
  <2>4. Conversation(Front(window)) = Front(old)
    <3> DEFINE front == Front(old)
    <3>1. front \in Seq(Message) /\ Front(window) = <<System>> \o first \o front
      BY <2>2, <2>3 DEF head
    <3> HIDE DEF front
    <3>2. Conversation(<<System>> \o first \o front) = front
      BY <1>1, <3>1, ConversationIs
    <3> QED BY <3>1, <3>2 DEF front
  <2> QED BY <1>5, <2>1, <2>4 DEF Last
<1> QED BY <1>6, <1>7 DEF old

(* A question at the end of a window belongs to its conversation.          *)
LEMMA QuestionIsMessage ==
  ASSUME NEW window, NEW turns, Fits(window, turns), Last(window).kind = "ask"
  PROVE  Last(window) \in Message
<1>1. /\ window \in Seq(Item) /\ Len(window) \in Nat /\ Len(window) >= 1
  BY FitsIs
<1>2. Last(window) \in Item
  BY <1>1 DEF Last
<1>3. System.kind # "ask" /\ \A m \in Summary : m.kind # "ask"
  BY DEF System, Summary
<1> QED BY <1>2, <1>3 DEF Item

(* Healing puts rows of the run in the place of the question.              *)
LEMMA HealedConversation ==
  ASSUME Typed, Driven, NEW window, Fits(window, Live)
  PROVE  LET old == Conversation(window) IN
         /\ ~Dangling(window) => Healed(window) = window
         /\ Dangling(window) =>
              /\ old # <<>> /\ Last(old).kind = "ask"
              /\ Conversation(Healed(window)) = Front(old) \o HealedTail(lastRun)
<1>1. ASSUME Dangling(window)
      PROVE  LET old == Conversation(window) IN
             /\ old # <<>> /\ Last(old).kind = "ask"
             /\ Conversation(Healed(window)) = Front(old) \o HealedTail(lastRun)
  <2>1. lastRun \in Turn /\ lastRun \in Live /\ runs[lastRun].of \in Session
    BY <1>1 DEF Dangling, Driven, Live, Begun
  <2>2. HealedTail(lastRun) \in Seq(Message)
    BY <2>1, HealedTailIs
  <2>3. Last(window).kind = "ask"
    BY <1>1 DEF Dangling
  <2>4. Fits(Front(window), Live) /\ Last(window) \in Message
    BY <2>3, EndsWithQuestion, QuestionIsMessage
  <2>5. /\ Conversation(window) # <<>> /\ Last(window) = Last(Conversation(window))
        /\ Conversation(Front(window)) = Front(Conversation(window))
    BY <2>4, FrontConversation
  <2>6. Conversation(Front(window) \o HealedTail(lastRun))
          = Conversation(Front(window)) \o HealedTail(lastRun)
    BY <2>2, <2>4, AppendedConversation
  <2> QED BY <1>1, <2>3, <2>5, <2>6 DEF Healed
<1> QED BY <1>1 DEF Healed

(* kept stands in a sequence, and what comes after it is of one turn.      *)
Holds(kept, new, turn) ==
  \E i \in 0..Len(new) :
    /\ i + Len(kept) <= Len(new)
    /\ SubSeq(new, i + 1, i + Len(kept)) = kept
    /\ \A k \in (i + Len(kept) + 1)..Len(new) : new[k].turn = turn

(* What RecentStay says of the conversation before and after a step.       *)
Carries(c, new, turn) ==
  LET old == Newest(c)
  IN  \/ Holds(old, new, turn)
      \/ old # <<>> /\ Last(old).kind = "ask" /\ Holds(Front(old), new, turn)

(* The newest messages are the end of what a cut leaves.                   *)
LEMMA NewestOfTrimmed ==
  ASSUME NEW c \in Seq(Message), NEW r, Trimmed(c, r)
  PROVE  /\ r \in Seq(Message) /\ Newest(c) \in Seq(Message)
         /\ \E i \in Nat : /\ i + Len(Newest(c)) = Len(r)
                           /\ Newest(c) = SubSeq(r, i + 1, Len(r))
         /\ r # <<>> => Newest(c) # <<>> /\ Last(Newest(c)) = Last(r)
<1> DEFINE n == Len(c)
           first == IF n <= KeepRecent THEN 1 ELSE n - KeepRecent + 1
           old == SubSeq(c, first, n)
<1>1. n \in Nat /\ first \in Nat /\ first >= 1 /\ first <= n + 1 /\ (n > 0 => first <= n)
  BY DEF KeepRecent
<1>2. Newest(c) = old
  BY DEF Newest
<1> HIDE DEF first
<1>3. /\ old \in Seq(Message) /\ Len(old) = n - first + 1
      /\ \A j \in 1..(n - first + 1) : old[j] = c[first + j - 1]
  BY <1>1
<1>4. CASE r = c
  <2>1. first - 1 \in Nat /\ (first - 1) + Len(old) = Len(r) /\ (first - 1) + 1 = first
    BY <1>1, <1>3, <1>4
  <2>2. old = SubSeq(r, (first - 1) + 1, Len(r))
    BY <1>4, <2>1
  <2>3. ASSUME r # <<>>
        PROVE  old # <<>> /\ Last(old) = Last(r)
    <3>1. n > 0 /\ first <= n
      BY <1>1, <1>4, <2>3
    <3>2. /\ n - first + 1 \in 1..(n - first + 1) /\ first + (n - first + 1) - 1 = n
          /\ Len(old) # 0
      BY <1>1, <1>3, <3>1
    <3>3. old[Len(old)] = c[n]
      BY <1>3, <3>2
    <3> HIDE DEF old
    <3> QED BY <1>3, <1>4, <3>2, <3>3 DEF Last
  <2> QED BY <1>2, <1>3, <1>4, <2>1, <2>2, <2>3
<1>5. CASE n > KeepRecent /\ r = SubSeq(c, n - KeepRecent + 1, n)
  <2>1. r = old
    <3>1. first = n - KeepRecent + 1
      <4>1. ~(n <= KeepRecent)
        BY <1>1, <1>5 DEF KeepRecent
      <4> QED BY <4>1 DEF first
    <3> QED BY <1>5, <3>1
  <2> HIDE DEF old
  <2>2. 0 \in Nat /\ 0 + Len(old) = Len(r) /\ old = SubSeq(r, 0 + 1, Len(r))
    BY <1>3, <2>1
  <2> QED BY <1>2, <1>3, <2>1, <2>2
<1> QED BY <1>4, <1>5 DEF Trimmed

(* A part of a sequence is a part of a longer one.                         *)
LEMMA PartOfLonger ==
  ASSUME NEW Elem, NEW seq \in Seq(Elem), NEW ms \in Seq(Elem), NEW n \in 0..Len(seq),
         NEW i \in Nat, NEW last \in Nat, last <= n
  PROVE  SubSeq(SubSeq(seq, 1, n) \o ms, i + 1, last) = SubSeq(seq, i + 1, last)
<1> DEFINE front == SubSeq(seq, 1, n)
           both == front \o ms
           k == last - i
<1>1. front \in Seq(Elem) /\ Len(front) = n /\ n \in Nat /\ \A j \in 1..n : front[j] = seq[j]
  OBVIOUS
<1> HIDE DEF front
<1>2. both \in Seq(Elem) /\ \A j \in 1..n : both[j] = seq[j]
  BY <1>1
<1> HIDE DEF both
<1>3. /\ SubSeq(both, i + 1, last) = [j \in 1..k |-> both[i + j]]
      /\ SubSeq(seq, i + 1, last) = [j \in 1..k |-> seq[i + j]]
  BY <1>1, <1>2
<1>4. \A j \in 1..k : i + j \in 1..n
  BY <1>1
<1> QED BY <1>2, <1>3, <1>4 DEF both, front

(* A sequence without its last member.                                     *)
LEMMA FrontIs ==
  ASSUME NEW Elem, NEW r \in Seq(Elem), r # <<>>
  PROVE  /\ Front(r) \in Seq(Elem) /\ Len(Front(r)) = Len(r) - 1
         /\ \A i \in 1..(Len(r) - 1) : Front(r)[i] = r[i]
         /\ Len(r) \in Nat /\ Len(r) >= 1
<1>1. Len(r) \in Nat /\ Len(r) >= 1
  <2> DEFINE n == Len(r)
  <2>1. n \in Nat \ {0}
    BY EmptySeq
  <2> HIDE DEF n
  <2>2. n \in Nat /\ n >= 1
    BY <2>1
  <2> QED BY <2>2 DEF n
<1>2. Front(r) = SubSeq(r, 1, Len(r) - 1)
  BY DEF Front
<1>3. /\ SubSeq(r, 1, Len(r) - 1) \in Seq(Elem) /\ Len(SubSeq(r, 1, Len(r) - 1)) = Len(r) - 1
      /\ \A i \in 1..(Len(r) - 1) : SubSeq(r, 1, Len(r) - 1)[i] = r[i]
  <2> DEFINE n == Len(r)
  <2>1. n \in Nat /\ n = Len(r) /\ n >= 1 /\ n - 1 <= n /\ n - 1 \in Nat
    BY <1>1
  <2> HIDE DEF n
  <2>2. SubSeq(r, 1, n - 1) \in Seq(Elem) /\ Len(SubSeq(r, 1, n - 1)) = n - 1
    BY <2>1
  <2>3. \A i \in 1..(n - 1) : SubSeq(r, 1, n - 1)[i] = r[i]
    BY <2>1
  <2> QED BY <2>2, <2>3 DEF n
<1> QED BY <1>1, <1>2, <1>3

(* What follows the first i elements.                                      *)
EndFrom(old, r, i) == i + Len(old) = Len(r) /\ old = SubSeq(r, i + 1, Len(r))

(* Without its last member, the end of a sequence stops one earlier.       *)
LEMMA FrontOfEnd ==
  ASSUME NEW Elem, NEW r \in Seq(Elem), NEW i \in Nat, NEW old, EndFrom(old, r, i),
         old # <<>>
  PROVE  \E l \in Nat :
           /\ i + l + 1 = Len(r) /\ Len(old) = l + 1
           /\ Len(Front(old)) = l /\ Front(old) = SubSeq(r, i + 1, i + l)
<1>0. /\ i + Len(old) = Len(r) /\ old = SubSeq(r, i + 1, Len(r))
      /\ old \in Seq(Elem) /\ Len(old) \in Nat /\ Len(old) # 0 /\ i < Len(r)
  <2>1. i + Len(old) = Len(r) /\ old = SubSeq(r, i + 1, Len(r))
    BY DEF EndFrom
  <2>2. old \in Seq(Elem)
    BY <2>1
  <2> DEFINE q == Len(old)
             n == Len(r)
  <2>3. q \in Nat /\ q # 0 /\ n \in Nat /\ i + q = n
    BY <2>1, <2>2, EmptySeq
  <2> HIDE DEF q, n
  <2>4. i < n
    BY <2>3
  <2> QED BY <2>1, <2>2, <2>3, <2>4 DEF q, n
<1> DEFINE n == Len(r)
           l == n - 1 - i
<1>1. n \in Nat /\ l \in Nat /\ i + l = n - 1 /\ n - i = l + 1 /\ i + l + 1 = n
  BY <1>0
<1>2. old = [j \in 1..(l + 1) |-> r[i + j]] /\ Len(old) = l + 1
  <2>1. r \in Seq(Elem) /\ i + 1 \in Nat /\ old = SubSeq(r, i + 1, n)
    BY <1>0
  <2>2. Len(old) = l + 1
    <3>1. i + Len(old) = n
      BY <1>0
    <3> HIDE DEF n, l
    <3> QED BY <1>0, <1>1, <3>1
  <2> HIDE DEF n, l
  <2>3. n - (i + 1) + 1 = l + 1
    BY <1>1
  <2>4. \A j \in 1..(l + 1) : i + 1 + j - 1 = i + j
    BY <1>1
  <2>5. old = [j \in 1..(l + 1) |-> r[i + j]]
    BY <1>1, <2>1, <2>3, <2>4
  <2> QED BY <2>2, <2>5
<1>3. SubSeq(r, i + 1, i + l) = [j \in 1..l |-> r[i + j]]
  BY <1>1
<1>4. Front(old) = [j \in 1..l |-> old[j]]
  <2>1. Front(old) = SubSeq(old, 1, Len(old) - 1)
    BY DEF Front
  <2> HIDE DEF l
  <2>2. Len(old) - 1 = l
    BY <1>1, <1>2
  <2>3. SubSeq(old, 1, l) = [j \in 1..l |-> old[j]]
    BY <1>1, <1>2
  <2> QED BY <2>1, <2>2, <2>3
<1>5. Front(old) = SubSeq(r, i + 1, i + l)
  <2>1. \A j \in 1..l : j \in 1..(l + 1)
    BY <1>1
  <2> HIDE DEF l, n
  <2> QED BY <1>2, <1>3, <1>4, <2>1
<1>6. Len(Front(old)) = l
  <2> HIDE DEF l, n
  <2> QED BY <1>1, <1>4
<1> HIDE DEF l
<1> QED BY <1>1, <1>2, <1>5, <1>6

(* Where the members of the second of two sequences stand.                 *)
LEMMA MembersJoined ==
  ASSUME NEW Elem, NEW a \in Seq(Elem), NEW b \in Seq(Elem)
  PROVE  /\ Len(a \o b) = Len(a) + Len(b)
         /\ \A k \in (Len(a) + 1)..(Len(a) + Len(b)) : (a \o b)[k] = b[k - Len(a)]
OBVIOUS

(* What is kept up to the end of a part stands in front of what follows.   *)
LEMMA KeptInFront ==
  ASSUME NEW seq \in Seq(Message), NEW q \in 0..Len(seq), NEW i \in Nat, NEW l \in Nat,
         i + l = q, NEW kept, kept = SubSeq(seq, i + 1, i + l), Len(kept) = l,
         NEW ms \in Seq(Message), NEW turn, OfTurn(ms, turn)
  PROVE  Holds(kept, SubSeq(seq, 1, q) \o ms, turn)
<1> DEFINE front == SubSeq(seq, 1, q)
           new == front \o ms
           n == Len(ms)
<1>1. q \in Nat /\ n \in Nat /\ i <= q /\ q <= Len(seq) /\ i + l \in Nat
  OBVIOUS
<1>2. front \in Seq(Message) /\ Len(front) = q
  BY <1>1
<1>3. SubSeq(front \o ms, i + 1, i + l) = SubSeq(seq, i + 1, i + l)
  BY <1>1, PartOfLonger
<1> HIDE DEF front
<1>4. Len(new) = q + n /\ \A k \in (q + 1)..(q + n) : new[k] = ms[k - q]
  <2>1. /\ Len(new) = Len(front) + n
        /\ \A k \in (Len(front) + 1)..(Len(front) + n) : new[k] = ms[k - Len(front)]
    BY <1>2, MembersJoined
  <2> QED BY <1>2, <2>1
<1>5. \A k \in (q + 1)..(q + n) : new[k].turn = turn
  <2>1. \A k \in (q + 1)..(q + n) : k - q \in DOMAIN ms
    BY <1>1
  <2> QED BY <1>4, <2>1 DEF OfTurn
<1> HIDE DEF new, n
<1>6. /\ i \in 0..Len(new) /\ i + l <= Len(new)
      /\ \A k \in (i + l + 1)..Len(new) : new[k].turn = turn
  BY <1>1, <1>4, <1>5
<1>7. SubSeq(new, i + 1, i + l) = kept
  BY <1>3 DEF new
<1>8. Holds(kept, new, turn)
  BY <1>6, <1>7 DEF Holds
<1> QED BY <1>8 DEF new, front

(* A cut and new messages of a turn leave the newest ones in place.        *)
LEMMA CarriesAdded ==
  ASSUME NEW c \in Seq(Message), NEW r, Trimmed(c, r),
         NEW turn, NEW ms \in Seq(Message), OfTurn(ms, turn)
  PROVE  Carries(c, r \o ms, turn)
<1> DEFINE old == Newest(c)
           l == Len(old)
           q == Len(r)
<1>1. PICK i \in Nat : i + Len(old) = Len(r) /\ old = SubSeq(r, i + 1, Len(r))
  BY NewestOfTrimmed
<1>2. r \in Seq(Message) /\ old \in Seq(Message)
  BY NewestOfTrimmed
<1> HIDE DEF old
<1>3. /\ l \in Nat /\ q \in 0..Len(r) /\ i + l = q /\ SubSeq(r, 1, q) = r
      /\ old = SubSeq(r, i + 1, i + l) /\ Len(old) = l
  BY <1>1, <1>2, SubSeqFull
<1> HIDE DEF l, q
<1>4. Holds(old, SubSeq(r, 1, q) \o ms, turn)
  BY <1>2, <1>3, KeptInFront
<1> QED BY <1>3, <1>4 DEF Carries, old

(* So do a cut and messages of a turn in the place of a question.          *)
LEMMA CarriesHealed ==
  ASSUME NEW c \in Seq(Message), NEW r, Trimmed(c, r), r # <<>>, Last(r).kind = "ask",
         NEW turn, NEW ms \in Seq(Message), OfTurn(ms, turn)
  PROVE  Carries(c, Front(r) \o ms, turn)
<1> DEFINE old == Newest(c)
           q == Len(r) - 1
<1>1. PICK i \in Nat : i + Len(old) = Len(r) /\ old = SubSeq(r, i + 1, Len(r))
  BY NewestOfTrimmed
<1>2. /\ r \in Seq(Message) /\ old \in Seq(Message)
      /\ old # <<>> /\ Last(old).kind = "ask"
  BY NewestOfTrimmed
<1> HIDE DEF old
<1>3. EndFrom(old, r, i)
  BY <1>1 DEF EndFrom
<1>4. PICK l \in Nat :
        /\ i + l + 1 = Len(r) /\ Len(old) = l + 1
        /\ Len(Front(old)) = l /\ Front(old) = SubSeq(r, i + 1, i + l)
  BY <1>2, <1>3, FrontOfEnd
<1>5. q \in 0..Len(r) /\ i + l = q /\ Front(r) = SubSeq(r, 1, q)
  <2>1. Front(r) = SubSeq(r, 1, Len(r) - 1)
    BY DEF Front
  <2>2. Len(r) \in Nat /\ Len(r) >= 1
    BY <1>2, FrontIs
  <2> QED BY <1>4, <2>1, <2>2
<1> HIDE DEF q
<1>6. Holds(Front(old), SubSeq(r, 1, q) \o ms, turn)
  BY <1>2, <1>4, <1>5, KeptInFront
<1> QED BY <1>2, <1>5, <1>6 DEF Carries, old

(* A cut that adds nothing.                                                *)
LEMMA CarriesCut ==
  ASSUME NEW c \in Seq(Message), NEW r, Trimmed(c, r), NEW turn
  PROVE  Carries(c, r, turn)
<1>1. r \in Seq(Message)
  BY NewestOfTrimmed
<1>2. <<>> \in Seq(Message) /\ OfTurn(<<>>, turn) /\ r \o <<>> = r
  BY <1>1 DEF OfTurn
<1>3. Carries(c, r \o <<>>, turn)
  BY <1>2, CarriesAdded
<1> QED BY <1>2, <1>3

(* Only /clear and a load take messages away.                              *)
LEMMA RecentKept ==
  ASSUME AgentInv, Next
  PROVE  \/ \E s \in Session : LoadSessionHistory(s)
         \/ ClearContext
         \/ Carries(Conversation(messages), Conversation(messages'), lastRun')
<1> DEFINE c == Conversation(messages)
           new == Conversation(messages')
<1>0. Typed /\ Driven /\ Fits(messages, Live)
  BY AgentParts
<1>1. c \in Seq(Message)
  BY <1>0, WindowIs
<1>2. Trimmed(c, Conversation(Checked)) /\ Trimmed(c, c)
  BY <1>0, CheckedConversation DEF Trimmed
<1>3. RefreshSystemPrompt(Checked) = Checked /\ Fits(Checked, Live)
  BY <1>0, CheckedFits, PromptStays
<1>4. ASSUME messages' = messages
      PROVE  Carries(c, new, lastRun')
  BY <1>1, <1>2, <1>4, CarriesCut
<1>5. ASSUME messages' = Checked
      PROVE  Carries(c, new, lastRun')
  BY <1>1, <1>2, <1>5, CarriesCut
<1>6. ASSUME NEW t \in Sender, StartTurn(t)
      PROVE  Carries(c, new, lastRun')
  <2> DEFINE window == Checked
             r == Conversation(window)
             ms == HealedTail(lastRun)
  <2>1. messages' = Healed(window) /\ lastRun' = lastRun
    BY <1>3, <1>6 DEF StartTurn
  <2>2. /\ ~Dangling(window) => Healed(window) = window
        /\ Dangling(window) =>
             /\ r # <<>> /\ Last(r).kind = "ask"
             /\ Conversation(Healed(window)) = Front(r) \o ms
    BY <1>0, <1>3, HealedConversation
  <2>3. CASE ~Dangling(window)
    BY <1>5, <2>1, <2>2, <2>3
  <2>4. CASE Dangling(window)
    <3>1. /\ lastRun \in Begun /\ lastRun \in Turn /\ runs[lastRun].of \in Session
      BY <1>0, <2>4, AgentParts DEF Dangling, Driven
    <3>2. ms \in Seq(Message) /\ OfTurn(ms, lastRun)
      BY <1>0, <3>1, HealedTailIs DEF OfTurn
    <3> HIDE DEF ms, r, c
    <3>3. Carries(c, Front(r) \o ms, lastRun)
      BY <1>1, <1>2, <2>2, <2>4, <3>2, CarriesHealed DEF r
    <3> QED BY <2>1, <2>2, <2>4, <3>3
  <2> QED BY <2>3, <2>4
<1>7. ASSUME NEW t \in Sender, NEW kind \in {"assistant", "ask"}, FinishTurn(t, kind)
      PROVE  Carries(c, new, lastRun')
  <2> DEFINE n == at[t]
             asked == Said("user", runs[n].of, n)
             said == Said(kind, runs[n].of, n)
             ms == <<asked, said>>
  <2>1. /\ messages' = messages \o ms /\ lastRun' = n
        /\ n \in Turn /\ runs[n].of \in Session
    BY <1>7, AgentParts DEF FinishTurn
  <2>2. asked \in Message /\ said \in Message /\ asked.turn = n /\ said.turn = n
    BY <2>1, SaidIs
  <2> HIDE DEF asked, said, n
  <2>3. ms \in Seq(Message) /\ OfTurn(ms, n)
    BY <2>2 DEF OfTurn
  <2> HIDE DEF ms
  <2>4. Conversation(messages \o ms) = c \o ms
    BY <1>0, <2>3, AppendedConversation
  <2>5. Carries(c, c \o ms, n)
    <3> HIDE DEF c
    <3> QED BY <1>1, <1>2, <2>3, CarriesAdded
  <2> QED BY <2>1, <2>4, <2>5
<1>8. ASSUME NEW t \in Sender, NEW kind \in {"assistant", "ask"}, FinishResume(t, kind)
      PROVE  Carries(c, new, lastRun')
  <2> DEFINE n == at[t]
             said == Said(kind, runs[n].of, n)
             ms == <<said>>
             asks == messages # <<>> /\ Last(messages).kind = "ask"
  <2>1. /\ messages' = (IF asks THEN Front(messages) ELSE messages) \o ms /\ lastRun' = n
        /\ n \in Turn /\ runs[n].of \in Session
    BY <1>8, AgentParts DEF FinishResume
  <2>2. said \in Message /\ said.turn = n
    BY <2>1, SaidIs
  <2> HIDE DEF said, n
  <2>3. ms \in Seq(Message) /\ OfTurn(ms, n)
    BY <2>2 DEF OfTurn
  <2> HIDE DEF ms
  <2>4. CASE ~asks
    <3>1. new = c \o ms
      BY <1>0, <2>1, <2>3, <2>4, AppendedConversation
    <3> HIDE DEF c, new
    <3> QED BY <1>1, <1>2, <2>1, <2>3, <3>1, CarriesAdded
  <2>5. CASE asks
    <3>1. Fits(Front(messages), Live) /\ Last(messages) \in Message
      BY <1>0, <2>5, EndsWithQuestion, QuestionIsMessage
    <3>2. c # <<>> /\ Last(c).kind = "ask" /\ Conversation(Front(messages)) = Front(c)
      BY <1>0, <2>5, <3>1, FrontConversation
    <3>3. new = Front(c) \o ms
      BY <2>1, <2>3, <2>5, <3>1, <3>2, AppendedConversation
    <3> HIDE DEF c, new
    <3> QED BY <1>1, <1>2, <2>1, <2>3, <3>2, <3>3, CarriesHealed
  <2> QED BY <2>4, <2>5
<1>9. ASSUME NEW j \in jobs, SummaryArrives(j)
      PROVE  Carries(c, new, lastRun')
  <2> DEFINE summary == [kind |-> "summary", job |-> j.id, covers |-> j.covers]
  <2>1. messages' = Inserted(messages, summary)
    BY <1>9 DEF SummaryArrives
  <2>2. summary \in Summary
    BY AgentParts DEF JobsFit, Job, Summary
  <2> HIDE DEF summary
  <2>3. new = c
    BY <1>0, <2>1, <2>2, InsertedConversation
  <2> QED BY <1>1, <1>2, <2>3, CarriesCut
<1>10. ASSUME \E t \in Sender : Send(t) \/ \E n \in Turn : Resume(t, n)
       PROVE  Carries(c, new, lastRun')
  BY <1>4, <1>10 DEF Send, Resume, agentVars
<1>11. ASSUME \E n \in Turn : \/ ModelAsks(n) \/ ToolEnds(n) \/ LoopThrows(n)
                              \/ Approve(n) \/ ResumeElsewhere(n)
                              \/ \E kind \in {"assistant", "ask"} : FinishElsewhere(n, kind)
       PROVE  Carries(c, new, lastRun')
  BY <1>4, <1>11 DEF ModelAsks, ToolEnds, LoopThrows, Approve, ResumeElsewhere,
                     FinishElsewhere, agentVars
<1>12. ASSUME CompactNow \/ \E t \in Sender : SendMustWait(t)
       PROVE  Carries(c, new, lastRun')
  BY <1>3, <1>5, <1>12 DEF CompactNow, SendMustWait
<1>13. ASSUME \E j \in jobs : StaleSummaryArrives(j) \/ SummaryFails(j) \/ TimeOut(j)
       PROVE  Carries(c, new, lastRun')
  BY <1>4, <1>13 DEF StaleSummaryArrives, SummaryFails, TimeOut, agentVars
<1> HIDE DEF c, new
<1>14. \/ \E s \in Session : LoadSessionHistory(s)
       \/ ClearContext
       \/ Carries(c, new, lastRun')
  BY <1>6, <1>7, <1>8, <1>9, <1>10, <1>11, <1>12, <1>13 DEF Next
<1> QED BY <1>14 DEF c, new

(* Whatever is cut, evicted, healed, resumed or summarised late, the       *)
(* newest four messages of the conversation stay in the window, one after  *)
(* the other, a question at their end aside, whose answer takes its place; *)
(* what comes after them is of the run the agent remembers: "the sliding   *)
(* window guarantees the last turns stay available regardless" (send,      *)
(* agent.ts), for any threshold and number of senders.                     *)
THEOREM NewestMessagesStay == Spec => RecentStay
<1>1. AgentInv /\ [Next]_vars =>
        [ \/ \E s \in Session : LoadSessionHistory(s)
          \/ ClearContext
          \/ Carries(Conversation(messages), Conversation(messages'), lastRun') ]_vars
  BY RecentKept
<1>2. Spec => [][ \/ \E s \in Session : LoadSessionHistory(s)
                  \/ ClearContext
                  \/ Carries(Conversation(messages), Conversation(messages'), lastRun') ]_vars
  BY <1>1, AgentAlways, PTL DEF Spec
<1> QED BY <1>2 DEF RecentStay, Carries, Holds

-----------------------------------------------------------------------------
(* A turn goes on from where the run the agent remembers stands.           *)

RowsIn(all, n) == Kept(all, {i \in DOMAIN all : all[i].turn = n})

(* One more row is the last of its run.                                    *)
LEMMA RowAppended ==
  ASSUME NEW all \in Seq(Message), NEW m \in Message, NEW n
  PROVE  RowsIn(Append(all, m), n) =
           IF m.turn = n THEN Append(RowsIn(all, n), m) ELSE RowsIn(all, n)
<1> DEFINE more == Append(all, m)
           kept == {i \in DOMAIN all : all[i].turn = n}
           longer == {i \in DOMAIN more : more[i].turn = n}
           k == Len(all)
<1>1. /\ k \in Nat /\ DOMAIN all = 1..k /\ DOMAIN more = 1..(k + 1)
      /\ more[k + 1] = m /\ \A i \in 1..k : more[i] = all[i]
  OBVIOUS
<1> HIDE DEF more, k
<1>2. /\ \A i \in 1..k : i \in kept <=> i \in longer
      /\ k + 1 \in longer <=> m.turn = n
  BY <1>1
<1> HIDE DEF kept, longer
<1>3. Kept(Append(all, m), longer) =
        IF k + 1 \in longer THEN Append(Kept(all, kept), m) ELSE Kept(all, kept)
  BY <1>2, KeptAppended DEF k
<1> QED BY <1>2, <1>3 DEF RowsIn, kept, longer, more

(* A run that began has its prompt, at least, in its session.              *)
HasRow(table, s, n) == \E i \in DOMAIN table[s] : table[s][i].turn = n

Recorded == \A n \in Begun : HasRow(stored, runs[n].of, n)

(* Rows are only added.                                                    *)
LEMMA RowsRemain ==
  ASSUME NEW table \in [Session -> Seq(Message)], NEW s \in Session, NEW ms \in Seq(Message),
         NEW r \in Session, NEW n, HasRow(table, r, n)
  PROVE  HasRow([table EXCEPT ![s] = @ \o ms], r, n)
<1> DEFINE all == table[s]
           both == all \o ms
           more == [table EXCEPT ![s] = @ \o ms]
<1>1. CASE r # s
  <2>1. more[r] = table[r]
    BY <1>1
  <2> QED BY <2>1 DEF HasRow
<1>2. CASE r = s
  <2>1. more[r] = both /\ all \in Seq(Message)
    BY <1>2
  <2>2. PICK i \in DOMAIN all : all[i].turn = n
    BY <1>2 DEF HasRow
  <2> HIDE DEF all, more
  <2>3. i \in DOMAIN both /\ both[i] = all[i]
    BY <2>1, <2>2
  <2> HIDE DEF both
  <2> QED BY <2>1, <2>2, <2>3 DEF HasRow, more
<1> QED BY <1>1, <1>2

(* The prompt is the first row of a new run; later ones only follow it.    *)
LEMMA RecordedStart ==
  ASSUME AgentInv, Recorded, NEW t \in Sender, StartTurn(t)
  PROVE  Recorded'
<1> DEFINE window == RefreshSystemPrompt(Checked)
           fresh  == {n \in Turn : runs[n].status = "absent"}
           n      == CHOOSE k \in fresh : \A l \in fresh : k <= l
           healed == IF Dangling(window) THEN Recovered(lastRun) ELSE <<>>
           after  == IF healed = <<>> THEN stored ELSE AppendRows(runs[lastRun].of, healed)
           said   == Said("user", session, n)
<1>1. /\ fresh # {}
      /\ runs' = [runs EXCEPT ![n] = [status |-> "running", of |-> session]]
      /\ stored' = [after EXCEPT ![session] = Append(@, said)]
  BY DEF StartTurn
<1>2. n \in fresh
  <2>1. fresh \subseteq Nat
    BY DEF Turn
  <2>2. \E k \in fresh : \A l \in fresh : k <= l
    BY <1>1, <2>1, LeastNumber
  <2> QED BY <2>2
<1>3. /\ n \in Turn /\ n \notin Begun /\ session \in Session /\ runs \in [Turn -> Run]
      /\ stored \in [Session -> Seq(Message)] /\ \A m \in Begun : runs[m].of \in Session
  BY <1>2, AgentParts DEF Begun, Typed
<1> HIDE DEF n, fresh
<1>4. /\ after \in [Session -> Seq(Message)]
      /\ \A m \in Begun : HasRow(after, runs[m].of, m)
  <2>1. CASE healed = <<>>
    BY <1>3, <2>1 DEF Recorded
  <2>2. CASE healed # <<>>
    <3>1. healed = Recovered(lastRun) /\ lastRun # NoTurn
      BY <2>2 DEF Dangling
    <3>2. lastRun \in Begun /\ lastRun \in Turn /\ runs[lastRun].of \in Session
      BY <3>1, AgentParts DEF Driven
    <3>3. healed \in Seq(Message)
      BY <3>1, <3>2, RecoveredIs
    <3> HIDE DEF healed
    <3>4. after = [stored EXCEPT ![runs[lastRun].of] = @ \o healed]
      BY <2>2 DEF AppendRows
    <3> HIDE DEF after
    <3>5. \A m \in Begun : HasRow(after, runs[m].of, m)
      BY <1>3, <3>2, <3>3, <3>4, RowsRemain DEF Recorded
    <3>6. after \in [Session -> Seq(Message)]
      <4> DEFINE r == runs[lastRun].of
                 both == stored[r] \o healed
      <4>1. both \in Seq(Message)
        BY <1>3, <3>2, <3>3
      <4>2. after = [stored EXCEPT ![r] = both]
        BY <3>4
      <4> HIDE DEF both
      <4> QED BY <1>3, <4>1, <4>2
    <3> QED BY <3>5, <3>6
  <2> QED BY <2>1, <2>2
<1> HIDE DEF after
<1>5. said \in Message /\ said.turn = n
  BY <1>3, SaidIs
<1> HIDE DEF said
<1>6. stored' = [after EXCEPT ![session] = @ \o <<said>>] /\ <<said>> \in Seq(Message)
  <2>1. Append(after[session], said) = after[session] \o <<said>>
    BY <1>3, <1>4, <1>5
  <2> QED BY <1>1, <1>5, <2>1
<1>7. /\ runs'[n].of = session
      /\ \A m \in Begun' : m = n \/ (m \in Begun /\ runs'[m].of = runs[m].of)
  BY <1>1, <1>3 DEF Begun
<1>8. ASSUME NEW m \in Begun
      PROVE  HasRow(stored', runs[m].of, m)
  BY <1>3, <1>4, <1>6, RowsRemain
<1>9. HasRow(stored', session, n)
  <2> DEFINE all == after[session]
             more == Append(all, said)
  <2>1. stored'[session] = more /\ all \in Seq(Message)
    BY <1>1, <1>3, <1>4
  <2> HIDE DEF all
  <2>2. Len(all) + 1 \in DOMAIN more /\ more[Len(all) + 1] = said
    BY <1>5, <2>1
  <2> HIDE DEF more
  <2> QED BY <1>5, <2>1, <2>2 DEF HasRow
<1>10. \A m \in Begun' : HasRow(stored', runs'[m].of, m)
  BY <1>7, <1>8, <1>9
<1> QED BY <1>10 DEF Recorded, HasRow

(* What changes of the runs and their rows in a step.                      *)
LEMMA StepOfRuns ==
  ASSUME AgentInv, [Next]_vars
  PROVE  \/ UNCHANGED <<runs, stored>>
         \/ \E n \in Turn : RunMoves(n)
         \/ \E t \in Sender : StartTurn(t)
<1>1. ASSUME NEW t \in Sender, NEW kind \in {"assistant", "ask"},
             FinishTurn(t, kind) \/ FinishResume(t, kind)
      PROVE  \E n \in Turn : RunMoves(n)
  <2>1. at[t] \in Turn /\ LoopEnds(at[t], kind)
    BY <1>1, AgentParts DEF FinishTurn, FinishResume
  <2> QED BY <2>1, LoopMoves
<1>2. ASSUME NEW n \in Turn,
             \/ ModelAsks(n) \/ ToolEnds(n) \/ LoopThrows(n)
             \/ Approve(n) \/ ResumeElsewhere(n)
             \/ \E kind \in {"assistant", "ask"} : FinishElsewhere(n, kind)
             \/ \E t \in Sender : Resume(t, n)
      PROVE  RunMoves(n)
  BY <1>2, StepMoves, ResumeMoves, LoopMoves DEF ResumeElsewhere, FinishElsewhere, Resume
<1>3. ASSUME \/ \E t \in Sender : Send(t) \/ SendMustWait(t)
             \/ \E s \in Session : LoadSessionHistory(s)
             \/ ClearContext \/ CompactNow
             \/ \E j \in jobs : \/ SummaryArrives(j) \/ StaleSummaryArrives(j)
                                \/ SummaryFails(j) \/ TimeOut(j)
             \/ UNCHANGED vars
      PROVE  UNCHANGED <<runs, stored>>
  BY <1>3 DEF Send, SendMustWait, LoadSessionHistory, ClearContext, CompactNow,
              SummaryArrives, StaleSummaryArrives, SummaryFails, TimeOut, vars, storeVars
<1> QED BY <1>1, <1>2, <1>3 DEF Next

(* Every step keeps the first row of every run.                            *)
LEMMA RecordedSteps == AgentInv /\ Recorded /\ [Next]_vars => Recorded'
<1> SUFFICES ASSUME AgentInv, Recorded, [Next]_vars PROVE Recorded'
  OBVIOUS
<1>1. CASE UNCHANGED <<runs, stored>>
  BY <1>1 DEF Recorded, Begun, HasRow
<1>2. CASE \E t \in Sender : StartTurn(t)
  BY <1>2, RecordedStart
<1>3. CASE \E n \in Turn : RunMoves(n)
  <2>1. PICK n \in Turn : RunMoves(n)
    BY <1>3
  <2>2. /\ n \in Begun /\ runs[n].of \in Session
        /\ Begun' = Begun /\ \A m \in Begun : runs'[m].of = runs[m].of
    BY <2>1, RunKept
  <2>3. /\ stored \in [Session -> Seq(Message)] /\ \A m \in Begun : runs[m].of \in Session
    BY AgentParts DEF Typed
  <2>4. ASSUME NEW m \in Begun
        PROVE  HasRow(stored', runs[m].of, m)
    <3>1. HasRow(stored, runs[m].of, m)
      BY DEF Recorded
    <3>2. CASE stored' = stored
      BY <3>1, <3>2
    <3>3. CASE \E ms \in Seq(Message) : OfTurn(ms, n) /\ stored' = AppendRows(runs[n].of, ms)
      <4>1. PICK ms \in Seq(Message) : stored' = AppendRows(runs[n].of, ms)
        BY <3>3
      <4>2. stored' = [stored EXCEPT ![runs[n].of] = @ \o ms]
        BY <4>1 DEF AppendRows
      <4> QED BY <2>2, <2>3, <3>1, <4>2, RowsRemain
    <3> QED BY <2>1, <3>2, <3>3 DEF RunMoves, RowsMove
  <2>5. \A m \in Begun' : HasRow(stored', runs'[m].of, m)
    BY <2>2, <2>4
  <2> QED BY <2>5 DEF Recorded, HasRow
<1> QED BY <1>1, <1>2, <1>3, StepOfRuns

(* Every run that began has a row, always.                                 *)
LEMMA RecordedAlways == Spec => [](AgentInv /\ Recorded)
<1>1. Init => AgentInv
  BY AgentStarts
<1>2. Init => Recorded
  BY DEF Init, Recorded, Begun
<1>3. AgentInv /\ [Next]_vars => AgentInv'
  BY AgentSteps
<1>4. AgentInv /\ Recorded /\ [Next]_vars => Recorded'
  BY RecordedSteps
<1> QED BY <1>1, <1>2, <1>3, <1>4, PTL DEF Spec

(* The last member stays the last where it is kept.                        *)
LEMMA LastKept ==
  ASSUME NEW Elem, NEW seq \in Seq(Elem), seq # <<>>, NEW kept, Len(seq) \in kept
  PROVE  /\ Kept(seq, kept) \in Seq(Elem) /\ Kept(seq, kept) # <<>>
         /\ Last(Kept(seq, kept)) = Last(seq)
<1> DEFINE L == Len(seq)
<1>1. PICK upTo : Stepwise(upTo, Elem, seq, kept)
  BY KeptSteps
<1>2. /\ upTo \in [0..L -> Seq(Elem)] /\ Kept(seq, kept) = upTo[L]
      /\ \A n \in 1..L : upTo[n] = IF n \in kept THEN Append(upTo[n - 1], seq[n]) ELSE upTo[n - 1]
  BY <1>1 DEF Stepwise
<1>3. L \in Nat /\ L >= 1
  BY FrontIs
<1> DEFINE e == seq[L]
           part == upTo[L - 1]
<1>4. e \in Elem /\ e = Last(seq) /\ part \in Seq(Elem) /\ L \in 1..L /\ L \in kept
  <2>1. L - 1 \in 0..L /\ L \in 1..L
    BY <1>3
  <2> QED BY <1>2, <2>1 DEF Last
<1>5. Kept(seq, kept) = Append(part, e)
  BY <1>2, <1>4
<1> HIDE DEF e, part, L
<1>6. /\ Append(part, e) \in Seq(Elem) /\ Append(part, e) # <<>>
      /\ Append(part, e)[Len(Append(part, e))] = e
  BY <1>4
<1> QED BY <1>4, <1>5, <1>6 DEF Last

(* What takes the place of the question ends with the newest row of the    *)
(* run, with the answer that was missing.                                  *)
LEMMA HealedTailEnds ==
  ASSUME Typed, NEW n \in Turn, runs[n].of \in Session, Rows(n) # <<>>
  PROVE  LET all == Rows(n) \o Recovered(n) IN
         HealedTail(n) # <<>> /\ Last(HealedTail(n)) = Last(all)
<1> DEFINE rows == Rows(n)
           all  == rows \o Recovered(n)
           kept == {i \in DOMAIN all : all[i].kind # "placeholder"}
           after == Kept(all, kept)
           asks == AsksIn(after)
           result == HealedTail(n)
<1>1. rows \in Seq(Message) /\ rows # <<>> /\ Recovered(n) \in Seq(Message)
  BY RowsAre, RecoveredIs
<1>2. all \in Seq(Message) /\ all # <<>> /\ Last(all).kind # "placeholder"
  <2>1. CASE Last(rows).kind = "placeholder"
    <3> DEFINE answer == Answered(n)
    <3>1. answer \in Message /\ answer.kind = "tool"
      BY SaidIs DEF Answered
    <3>2. all = rows \o <<answer>>
      BY <1>1, <2>1 DEF Recovered
    <3> HIDE DEF rows, all, answer
    <3>3. all = Append(rows, answer)
      BY <1>1, <3>1, <3>2
    <3>4. all \in Seq(Message) /\ Len(all) = Len(rows) + 1 /\ all[Len(all)] = answer
      BY <1>1, <3>1, <3>3
    <3> QED BY <1>1, <3>1, <3>4 DEF Last
  <2>2. CASE Last(rows).kind # "placeholder"
    <3>1. Recovered(n) = <<>>
      BY <2>2 DEF Recovered
    <3> HIDE DEF rows
    <3>2. all = rows
      BY <1>1, <3>1
    <3> QED BY <1>1, <2>2, <3>2
  <2> QED BY <2>1, <2>2
<1>3. result = IF asks = {} THEN after ELSE SubSeq(after, Min(asks), Len(after))
  BY DEF HealedTail
<1> HIDE DEF all, rows
<1>4. Len(all) \in kept
  BY <1>2, FrontIs DEF Last
<1> HIDE DEF kept
<1>5. after \in Seq(Message) /\ after # <<>> /\ Last(after) = Last(all)
  BY <1>2, <1>4, LastKept
<1> HIDE DEF after, result
<1>6. CASE asks = {}
  BY <1>3, <1>5, <1>6 DEF result, all, rows
<1>7. CASE asks # {}
  <2> DEFINE m == Min(asks)
  <2>1. asks \subseteq Nat /\ asks \subseteq 1..Len(after)
    BY <1>5 DEF AsksIn
  <2>2. \E x \in asks : \A y \in asks : x <= y
    BY <1>7, <2>1, LeastNumber
  <2>3. m \in asks
    BY <2>2 DEF Min
  <2> HIDE DEF m
  <2>4. m \in 1..Len(after) /\ Len(after) \in Nat
    BY <1>5, <2>1, <2>3
  <2>5. result = SubSeq(after, m, Len(after))
    BY <1>3, <1>7 DEF m
  <2>6. Len(result) = Len(after) - m + 1 /\ result[Len(after) - m + 1] = after[Len(after)]
    BY <1>5, <2>4, <2>5
  <2>7. Len(after) - m + 1 # 0
    BY <2>4
  <2>8. result # <<>> /\ Last(result) = Last(after)
    BY <2>6, <2>7 DEF Last
  <2> QED BY <1>5, <2>8 DEF result, all, rows
<1> QED BY <1>6, <1>7

(* No cut takes a question at the end away.                                *)
LEMMA QuestionStays ==
  ASSUME AgentInv, Last(messages).kind = "ask", lastRun # NoTurn
  PROVE  Dangling(RefreshSystemPrompt(Checked))
<1> DEFINE c == Conversation(messages)
           r == Conversation(Checked)
<1>0. Fits(messages, Live) /\ Fits(Checked, Live) /\ RefreshSystemPrompt(Checked) = Checked
  BY AgentParts, CheckedFits, PromptStays
<1>1. c \in Seq(Message) /\ c # <<>> /\ Last(c) = Last(messages)
  BY <1>0, WindowIs, QuestionIsMessage, FrontConversation
<1>2. Trimmed(c, r) /\ Trimmed(c, c)
  BY <1>0, CheckedConversation DEF Trimmed
<1> HIDE DEF c, r
<1>3. Newest(c) # <<>> /\ Last(Newest(c)) = Last(c)
  BY <1>1, <1>2, NewestOfTrimmed
<1>4. /\ r \in Seq(Message) /\ Newest(c) \in Seq(Message)
      /\ \E i \in Nat : i + Len(Newest(c)) = Len(r)
      /\ r # <<>> => Last(Newest(c)) = Last(r)
  BY <1>1, <1>2, NewestOfTrimmed
<1>5. r # <<>>
  <2> DEFINE old == Newest(c)
  <2>1. old \in Seq(Message) /\ Len(old) \in Nat /\ Len(old) # 0
    BY <1>3, <1>4, EmptySeq
  <2> HIDE DEF old
  <2>2. Len(r) # 0
    BY <1>4, <2>1 DEF old
  <2> QED BY <2>2
<1>6. Last(Checked) = Last(r)
  BY <1>0, <1>5, FrontConversation DEF r
<1>7. Checked # <<>>
  BY <1>0, FitsIs
<1> QED BY <1>0, <1>1, <1>3, <1>4, <1>5, <1>6, <1>7 DEF Dangling

(* The answer that was missing is the only row a new turn adds to the run  *)
(* the agent remembers.                                                    *)
LEMMA RowsAtStart ==
  ASSUME AgentInv, NEW t \in Sender, StartTurn(t), Dangling(RefreshSystemPrompt(Checked))
  PROVE  Rows(lastRun)' = Rows(lastRun) \o Recovered(lastRun)
<1> DEFINE window == RefreshSystemPrompt(Checked)
           fresh  == {n \in Turn : runs[n].status = "absent"}
           n      == CHOOSE k \in fresh : \A l \in fresh : k <= l
           healed == Recovered(lastRun)
           after  == IF healed = <<>> THEN stored ELSE AppendRows(runs[lastRun].of, healed)
           said   == Said("user", session, n)
           r      == runs[lastRun].of
<1>1. /\ fresh # {} /\ lastRun' = lastRun
      /\ runs' = [runs EXCEPT ![n] = [status |-> "running", of |-> session]]
      /\ stored' = [after EXCEPT ![session] = Append(@, said)]
  BY DEF StartTurn
<1>2. n \in fresh
  <2>1. fresh \subseteq Nat
    BY DEF Turn
  <2>2. \E k \in fresh : \A l \in fresh : k <= l
    BY <1>1, <2>1, LeastNumber
  <2> QED BY <2>2
<1>3. /\ lastRun \in Begun /\ lastRun \in Turn /\ r \in Session
      /\ n \in Turn /\ n # lastRun /\ session \in Session /\ runs \in [Turn -> Run]
      /\ stored \in [Session -> Seq(Message)]
  BY <1>2, AgentParts DEF Begun, Typed, Driven, Dangling
<1> HIDE DEF n, fresh
<1>4. runs'[lastRun].of = r
  BY <1>1, <1>3
<1>5. Rows(lastRun) = RowsIn(stored[r], lastRun) /\ RowsIn(stored[r], lastRun) \in Seq(Message)
  BY <1>3, RowsAre, AgentParts DEF Rows, RowsIn
<1>6. Rows(lastRun)' = RowsIn(stored'[r], lastRun)
  BY <1>1, <1>4 DEF Rows, RowsIn
<1> DEFINE answer == Answered(lastRun)
<1>7. /\ answer \in Message /\ answer.turn = lastRun
      /\ said \in Message /\ said.turn = n
  BY <1>3, SaidIs DEF Answered
<1>8. healed = <<>> \/ healed = <<answer>>
  BY DEF Recovered
<1> HIDE DEF healed, answer, said, r
<1>9. /\ after \in [Session -> Seq(Message)]
      /\ RowsIn(after[r], lastRun) = RowsIn(stored[r], lastRun) \o healed
  <2>1. CASE healed = <<>>
    <3> DEFINE rows == RowsIn(stored[r], lastRun)
    <3>1. rows \in Seq(Message)
      BY <1>5
    <3> HIDE DEF rows
    <3>2. rows \o healed = rows
      BY <2>1, <3>1
    <3> QED BY <1>3, <2>1, <3>2 DEF rows
  <2>2. CASE healed = <<answer>>
    <3> DEFINE all == stored[r]
               rows == RowsIn(all, lastRun)
    <3>1. all \in Seq(Message) /\ rows \in Seq(Message)
      BY <1>3, <1>5
    <3>2. healed # <<>>
      BY <2>2
    <3>3. after = [stored EXCEPT ![r] = @ \o healed]
      BY <3>2 DEF AppendRows, r
    <3> HIDE DEF after
    <3>4. after = [stored EXCEPT ![r] = all \o healed] /\ after[r] = all \o healed
      BY <1>3, <3>3
    <3> HIDE DEF all
    <3>5. all \o healed = Append(all, answer) /\ all \o healed \in Seq(Message)
      BY <1>7, <2>2, <3>1
    <3>6. RowsIn(Append(all, answer), lastRun) = Append(rows, answer)
      BY <1>7, <3>1, RowAppended
    <3> HIDE DEF rows
    <3>7. Append(rows, answer) = rows \o healed
      BY <1>7, <2>2, <3>1
    <3>8. after \in [Session -> Seq(Message)]
      <4> DEFINE both == all \o healed
      <4>1. both \in Seq(Message) /\ after = [stored EXCEPT ![r] = both]
        BY <3>4, <3>5
      <4> HIDE DEF both
      <4> QED BY <1>3, <4>1
    <3> QED BY <3>4, <3>5, <3>6, <3>7, <3>8 DEF rows, all
  <2> QED BY <1>8, <2>1, <2>2
<1> HIDE DEF after
<1>10. RowsIn(stored'[r], lastRun) = RowsIn(after[r], lastRun)
  <2>1. CASE r # session
    BY <1>1, <1>3, <1>9, <2>1
  <2>2. CASE r = session
    <3> DEFINE all == after[r]
    <3>1. stored'[r] = Append(all, said) /\ all \in Seq(Message)
      BY <1>1, <1>3, <1>9, <2>2
    <3> HIDE DEF all
    <3>2. RowsIn(Append(all, said), lastRun) = RowsIn(all, lastRun)
      BY <1>3, <1>7, <3>1, RowAppended
    <3> QED BY <3>1, <3>2 DEF all
  <2> QED BY <2>1, <2>2
<1> QED BY <1>5, <1>6, <1>9, <1>10 DEF healed

(* Only StartTurn begins a turn.                                           *)
LEMMA TurnStarts ==
  ASSUME AgentInv, Next, NEW t \in Sender, pc[t] = "prompt", pc'[t] = "turn"
  PROVE  StartTurn(t)
<1>0. pc \in [Sender -> {"idle", "prompt", "turn", "resume"}]
  BY AgentParts DEF Typed
<1>1. ASSUME NEW u \in Sender,
             \/ Send(u) \/ SendMustWait(u)
             \/ \E kind \in {"assistant", "ask"} : FinishTurn(u, kind) \/ FinishResume(u, kind)
             \/ \E n \in Turn : Resume(u, n)
      PROVE  FALSE
  <2>1. \E now \in {"idle", "prompt", "resume"} : pc' = [pc EXCEPT ![u] = now]
    BY <1>1 DEF Send, SendMustWait, FinishTurn, FinishResume, Resume
  <2> QED BY <1>0, <2>1
<1>2. ASSUME NEW u \in Sender, StartTurn(u), u # t
      PROVE  FALSE
  BY <1>0, <1>2 DEF StartTurn
<1>3. ASSUME \/ \E n \in Turn :
                  \/ ModelAsks(n) \/ ToolEnds(n)
                  \/ Approve(n) \/ ResumeElsewhere(n)
                  \/ \E kind \in {"assistant", "ask"} : FinishElsewhere(n, kind)
             \/ \E s \in Session : LoadSessionHistory(s)
             \/ ClearContext \/ CompactNow
             \/ \E j \in jobs : \/ SummaryArrives(j) \/ StaleSummaryArrives(j)
                                \/ SummaryFails(j) \/ TimeOut(j)
      PROVE  FALSE
  <2>1. pc' = pc
    BY <1>3 DEF ModelAsks, ToolEnds, Approve, ResumeElsewhere, FinishElsewhere,
                LoadSessionHistory, ClearContext, CompactNow, SummaryArrives,
                StaleSummaryArrives, SummaryFails, TimeOut, callerVars
  <2> QED BY <2>1
<1>4. ASSUME NEW n \in Turn, LoopThrows(n)
      PROVE  FALSE
  <2>1. pc' = [u \in Sender |-> IF at[u] = n THEN "idle" ELSE pc[u]]
    BY <1>4 DEF LoopThrows
  <2> QED BY <2>1
<1> QED BY <1>1, <1>2, <1>3, <1>4 DEF Next

(* A turn that comes after a question of the run the agent remembers goes  *)
(* on from where that run stands: the last message of its conversation is  *)
(* the newest row of the run, however the window was cut and whoever       *)
(* answered the question and resumed the run, and whether or not that has  *)
(* ended (healPendingRun, agent.ts; recoverRunContext, runner.ts).  It     *)
(* does not follow that the row is an answer: see NoDanglingQuestion.      *)
THEOREM TurnsContinue == Spec => TurnsGoOn
<1>1. ASSUME AgentInv, Recorded, Next, NEW t \in Sender, pc[t] = "prompt", pc'[t] = "turn",
             lastRun # NoTurn, Last(messages).kind = "ask"
      PROVE  Last(messages') = Last(Rows(lastRun)')
  <2> DEFINE window == RefreshSystemPrompt(Checked)
             tail == HealedTail(lastRun)
             front == Front(window)
  <2>1. StartTurn(t) /\ Dangling(window)
    BY <1>1, TurnStarts, QuestionStays
  <2>2. messages' = front \o tail
    BY <2>1 DEF StartTurn, Healed
  <2>3. Rows(lastRun)' = Rows(lastRun) \o Recovered(lastRun)
    BY <1>1, <2>1, RowsAtStart
  <2>4. /\ Typed /\ Driven /\ Fits(messages, Live)
        /\ lastRun \in Turn /\ lastRun \in Begun /\ runs[lastRun].of \in Session
    BY <1>1, AgentParts DEF Driven
  <2>5. Rows(lastRun) # <<>>
    <3> DEFINE all == stored[runs[lastRun].of]
    <3>1. all \in Seq(Message) /\ \E i \in DOMAIN all : all[i].turn = lastRun
      BY <1>1, <2>4 DEF Recorded, HasRow, Typed
    <3>2. Rows(lastRun) = Kept(all, {i \in DOMAIN all : all[i].turn = lastRun})
      BY DEF Rows
    <3> HIDE DEF all
    <3> DEFINE kept == {i \in DOMAIN all : all[i].turn = lastRun}
    <3>3. kept # {} /\ kept \in SUBSET DOMAIN all
      BY <3>1
    <3> HIDE DEF kept
    <3>4. \E i \in DOMAIN Kept(all, kept) : TRUE
      BY <3>1, <3>3, KeptMembers
    <3> QED BY <3>2, <3>4 DEF kept
  <2>6. /\ tail # <<>> /\ tail \in Seq(Message)
        /\ Last(tail) = Last(Rows(lastRun) \o Recovered(lastRun))
    BY <2>4, <2>5, HealedTailIs, HealedTailEnds
  <2>7. front \in Seq(Item)
    BY <2>1, <2>4, CheckedFits, PromptStays, EndsWithQuestion, FitsIs DEF Dangling
  <2> HIDE DEF tail, front
  <2>8. Last(front \o tail) = Last(tail)
    <3>1. tail \in Seq(Item) /\ Len(tail) \in Nat /\ Len(tail) # 0
      BY <2>6, EmptySeq DEF Item
    <3>2. Len(front \o tail) = Len(front) + Len(tail)
      BY <2>7, <3>1
    <3>3. (front \o tail)[Len(front) + Len(tail)] = tail[Len(tail)]
      BY <2>7, <3>1
    <3> QED BY <3>2, <3>3 DEF Last
  <2> QED BY <2>2, <2>3, <2>6, <2>8
<1>2. AgentInv /\ Recorded /\ [Next]_vars =>
        [ \A t \in Sender :
            /\ pc[t] = "prompt" /\ pc'[t] = "turn"
            /\ lastRun # NoTurn /\ Last(messages).kind = "ask"
            => Last(messages') = Last(Rows(lastRun)') ]_vars
  BY <1>1
<1>3. Spec => [][ \A t \in Sender :
                    /\ pc[t] = "prompt" /\ pc'[t] = "turn"
                    /\ lastRun # NoTurn /\ Last(messages).kind = "ask"
                    => Last(messages') = Last(Rows(lastRun)') ]_vars
  BY <1>2, RecordedAlways, PTL DEF Spec
<1> QED BY <1>3 DEF TurnsGoOn
=============================================================================
