------------------------ MODULE ChannelDeliveryProofs ------------------------
(***************************************************************************)
(* Proofs about the outbound messages of the channels: their types, that   *)
(* attempts are counted, and that a message is sent once, for any messages,*)
(* channels, passes, limits and windows.                                   *)
(*                                                                         *)
(* The argument: a pass has one request under way, for the first of its    *)
(* rows, which are distinct (Paced).  Unless two requests for a row raced, *)
(* there is at most one, and it knows the attempts of the row, so that     *)
(* what it writes back is one more than what is stored.  A row that no     *)
(* pass took out of other hands is in one hand at a time, and not settled  *)
(* while it is (Fits): whoever has it may try it once more, and a          *)
(* delivered row is in nobody's hands.                                     *)
(***************************************************************************)
EXTENDS ChannelDelivery, SelectionProofs, SequenceTheorems,
        FiniteSetTheorems, TLAPS

Row == [status: {"absent", "pending", "delivered", "failed"}, attempts: Nat]
Present == {d \in Delivery : deliveries[d].status # "absent"}

(* The rows in the order of their last update: each once.                  *)
Ordered(rows, all) ==
  /\ rows \in Seq(Delivery)
  /\ \A i, j \in 1..Len(rows) : rows[i] = rows[j] => i = j
  /\ \A d \in Delivery : d \in all <=> \E i \in 1..Len(rows) : rows[i] = d

Typed ==
  /\ deliveries \in [Delivery -> Row]
  /\ Ordered(byUpdate, Present)
  /\ channels \in [Channel -> {"gone", "known", "unknown"}]
  /\ passes \in [Pass -> Seq(Delivery)]
  /\ requests \subseteq Request
  /\ deaths \in 0..MaxDeaths
  /\ story \in [Delivery -> Story]

(* A list a row is on.                                                     *)
Holds(list, d) == \E i \in 1..Len(list) : list[i] = d

(* A pass waits for the request of the first of its rows.                  *)
Paced ==
  /\ \A q \in requests :
       /\ q.of \in Present
       /\ q.by # "enqueue" => Len(passes[q.by]) >= 1 /\ q.of = passes[q.by][1]
  /\ \A q, r \in requests : q.by = r.by /\ q.by # "enqueue" => q = r
  /\ \A p \in Pass :
       /\ \A i \in 1..Len(passes[p]) : passes[p][i] \in Present
       /\ \A i, j \in 1..Len(passes[p]) : passes[p][i] = passes[p][j] => i = j
       /\ Len(passes[p]) >= 1 => \E q \in requests : q.by = p
  /\ \A d \in Delivery : d \notin Present => deliveries[d].attempts = 0

(* The requests for a row and its history agree with the row; one that no  *)
(* pass took out of other hands is in the hands of one at a time, and open.*)
Fits(row, told, asked, lists, d) ==
  /\ told.upset # "raced" =>
       /\ row.attempts = told.ended
       /\ \A q \in asked : q.of = d => q.seen = told.ended
       /\ \A q, r \in asked : q.of = d /\ r.of = d => q = r
  /\ told.upset \in {"no", "lost"} =>
       /\ told.ended <= MaxAttempts
       /\ Asked(asked, d) \/ (\E p \in Pass : Holds(lists[p], d)) =>
            row.status \in {"pending", "failed"} /\ row.attempts < MaxAttempts
       /\ \A p, r \in Pass : Holds(lists[p], d) /\ Holds(lists[r], d) => p = r
       /\ \A q \in asked : \A p \in Pass : q.of = d /\ Holds(lists[p], d) => q.by = p
  /\ told.upset = "no" =>
       told.arrived = 0 \/ (told.arrived = 1 /\ row.status = "delivered")

AllFit(rows, told, asked, lists) ==
  \A d \in Delivery : Fits(rows[d], told[d], asked, lists, d)
Orderly == \A d \in Delivery : Fits(deliveries[d], story[d], requests, passes, d)

(* The passes, the rows of p being others, none of them written in a step. *)
RowsOf(lists, p, rows) ==
  lists[p] = rows /\ \A r \in Pass : r # p => lists[r] = passes[r]
Unwritten(rows) == \A i \in 1..Len(rows) : deliveries'[rows[i]] = deliveries[rows[i]]

DeliveryInv == Typed /\ Paced /\ Orderly

-----------------------------------------------------------------------------
(* The rows a pass takes.                                                  *)

(* `part` is the end of `rows`.                                            *)
EndOf(part, rows) ==
  /\ part \in Seq(Delivery)
  /\ \E k \in 0..Len(rows) :
       /\ Len(part) = Len(rows) - k
       /\ \A i \in 1..Len(part) : i + k \in 1..Len(rows) /\ part[i] = rows[i + k]

(* A set of numbers with a bound has a greatest member.                    *)
LEMMA GreatestNumber ==
  ASSUME NEW L \in Nat, NEW S, S \subseteq 0..L, S # {}
  PROVE  Max(S) \in S
<1> DEFINE T == {n \in Nat : \A s \in S : s <= n}
<1>1. T \subseteq Nat /\ L \in T
  OBVIOUS
<1>2. PICK m \in T : \A n \in T : m <= n
  BY <1>1, LeastNumber
<1>3. m \in S
  <2>1. SUFFICES ASSUME m \notin S PROVE FALSE
    OBVIOUS
  <2>2. \A s \in S : s <= m /\ s # m /\ s \in Nat
    BY <1>2, <2>1
  <2>3. PICK s \in S : TRUE
    OBVIOUS
  <2>4. m \in Nat /\ m >= 1
    BY <1>2, <2>2, <2>3
  <2>5. m - 1 \in T
    BY <2>2, <2>4
  <2> QED BY <1>2, <2>4, <2>5
<1>4. \A s \in S : m >= s
  BY <1>2, <1>3
<1> QED BY <1>3, <1>4 DEF Max

(* A part of a sequence.                                                   *)
LEMMA PartIs ==
  ASSUME NEW rows \in Seq(Delivery), NEW a \in 1..(Len(rows) + 1), NEW b \in 0..Len(rows)
  PROVE  LET part == SubSeq(rows, a, b) IN
         /\ part \in Seq(Delivery)
         /\ Len(part) = IF a <= b THEN b - a + 1 ELSE 0
         /\ \A i \in 1..Len(part) : i + (a - 1) \in 1..Len(rows) /\ part[i] = rows[i + (a - 1)]
<1> DEFINE part == SubSeq(rows, a, b)
           n == Len(rows)
<1>1. n \in Nat /\ a \in Nat /\ a >= 1 /\ b \in Nat /\ b <= n
  OBVIOUS
<1>2. CASE a <= b
  <2>1. part = [i \in 1..(b - a + 1) |-> rows[a + i - 1]] /\ b - a + 1 \in Nat
    BY <1>1, <1>2
  <2>2. \A i \in 1..(b - a + 1) : a + i - 1 \in 1..n /\ i + (a - 1) = a + i - 1
    BY <1>1, <1>2
  <2>3. part \in [1..(b - a + 1) -> Delivery]
    BY <2>1, <2>2
  <2>4. part \in Seq(Delivery) /\ Len(part) = b - a + 1
    BY <2>1, <2>3, SeqDef
  <2> QED BY <1>2, <2>1, <2>2, <2>4
<1>3. CASE ~(a <= b)
  <2>1. part = <<>>
    BY <1>1, <1>3
  <2> QED BY <1>3, <2>1
<1> QED BY <1>2, <1>3

(* What FromConfigured leaves is the end of the pass.                      *)
LEMMA FromConfiguredIs ==
  ASSUME NEW rows \in Seq(Delivery)
  PROVE  EndOf(FromConfigured(rows), rows)
<1> DEFINE skipped == {i \in 0..Len(rows) : \A j \in 1..i : ~Configured(rows[j])}
           k == Max(skipped)
           part == FromConfigured(rows)
<1>1. Len(rows) \in Nat /\ 0 \in skipped /\ skipped \subseteq 0..Len(rows)
  OBVIOUS
<1>2. k \in 0..Len(rows)
  BY <1>1, GreatestNumber
<1>3. part = SubSeq(rows, k + 1, Len(rows))
  BY DEF FromConfigured
<1> HIDE DEF k, part, skipped
<1>4. k + 1 \in 1..(Len(rows) + 1) /\ Len(rows) \in 0..Len(rows) /\ (k + 1) - 1 = k
  BY <1>1, <1>2
<1>5. /\ part \in Seq(Delivery)
      /\ Len(part) = IF k + 1 <= Len(rows) THEN Len(rows) - (k + 1) + 1 ELSE 0
      /\ \A i \in 1..Len(part) :
           i + ((k + 1) - 1) \in 1..Len(rows) /\ part[i] = rows[i + ((k + 1) - 1)]
  BY <1>3, <1>4, PartIs
<1>6. Len(part) = Len(rows) - k
  BY <1>1, <1>2, <1>5
<1> QED BY <1>2, <1>4, <1>5, <1>6 DEF EndOf, part

(* The first rows that are unsettled, each once.                           *)
LEMMA TakenIs ==
  ASSUME Typed
  PROVE  /\ Taken \in Seq(Delivery)
         /\ \A i, j \in 1..Len(Taken) : Taken[i] = Taken[j] => i = j
         /\ \A i \in 1..Len(Taken) : Unsettled(Taken[i]) /\ Taken[i] \in Present
<1> DEFINE kept == {i \in DOMAIN byUpdate : Unsettled(byUpdate[i])}
           rows == Kept(byUpdate, kept)
           n    == IF Len(rows) < Window THEN Len(rows) ELSE Window
<1>1. /\ byUpdate \in Seq(Delivery) /\ DOMAIN byUpdate = 1..Len(byUpdate)
      /\ \A i, j \in 1..Len(byUpdate) : byUpdate[i] = byUpdate[j] => i = j
  BY DEF Typed, Ordered
<1>2. Taken = SubSeq(rows, 1, n)
  BY DEF Taken
<1>3. kept \in SUBSET DOMAIN byUpdate /\ \A k \in kept : Unsettled(byUpdate[k])
  OBVIOUS
<1>4. \A k, l \in kept : byUpdate[k] = byUpdate[l] => k = l
  BY <1>1
<1> HIDE DEF kept
<1>5. /\ rows \in Seq(Delivery)
      /\ \A i \in DOMAIN rows : \E k \in kept : rows[i] = byUpdate[k]
      /\ \A i, j \in DOMAIN rows : rows[i] = rows[j] => i = j
  BY <1>1, <1>3, <1>4, KeptMembers
<1>6. Len(rows) \in Nat /\ DOMAIN rows = 1..Len(rows) /\ \A i \in DOMAIN rows : Unsettled(rows[i])
  BY <1>3, <1>5
<1> HIDE DEF rows
<1>7. n \in 0..Len(rows) /\ 1 \in 1..(Len(rows) + 1) /\ n = IF 1 <= n THEN n - 1 + 1 ELSE 0
  BY <1>6, DeliveryAssumption DEF DeliveryAssumption
<1> HIDE DEF n
<1>8. /\ Taken \in Seq(Delivery) /\ Len(Taken) = n
      /\ \A i \in 1..Len(Taken) : i + (1 - 1) \in 1..Len(rows) /\ Taken[i] = rows[i + (1 - 1)]
  BY <1>2, <1>5, <1>7, PartIs
<1>9. \A i \in 1..Len(Taken) : i \in DOMAIN rows /\ Taken[i] = rows[i]
  BY <1>6, <1>8
<1>10. \A i \in 1..Len(Taken) : Taken[i] \in Delivery
  BY <1>5, <1>9
<1> QED BY <1>5, <1>6, <1>8, <1>9, <1>10 DEF Unsettled, Present

(* A row that is updated goes to the end.                                  *)
LEMMA TouchedIs ==
  ASSUME Typed, NEW d \in Present
  PROVE  Ordered(Touched(d), Present)
<1> DEFINE kept == {i \in DOMAIN byUpdate : byUpdate[i] # d}
           rows == Kept(byUpdate, kept)
           new  == Append(rows, d)
<1>1. /\ byUpdate \in Seq(Delivery) /\ DOMAIN byUpdate = 1..Len(byUpdate)
      /\ \A i, j \in 1..Len(byUpdate) : byUpdate[i] = byUpdate[j] => i = j
      /\ \A e \in Delivery : e \in Present <=> \E i \in 1..Len(byUpdate) : byUpdate[i] = e
  BY DEF Typed, Ordered
<1>2. Touched(d) = new /\ d \in Delivery
  BY DEF Touched, Present
<1>3. /\ kept \in SUBSET DOMAIN byUpdate /\ \A k \in kept : byUpdate[k] # d
      /\ \A k \in DOMAIN byUpdate : byUpdate[k] # d => k \in kept
  OBVIOUS
<1>4. \A k, l \in kept : byUpdate[k] = byUpdate[l] => k = l
  BY <1>1
<1> HIDE DEF kept
<1>5. /\ rows \in Seq(Delivery)
      /\ \A i \in DOMAIN rows : \E k \in kept : rows[i] = byUpdate[k]
      /\ \A k \in kept : \E i \in DOMAIN rows : rows[i] = byUpdate[k]
      /\ \A i, j \in DOMAIN rows : rows[i] = rows[j] => i = j
  <2>1. byUpdate \in Seq(Delivery) /\ kept \in SUBSET DOMAIN byUpdate
    BY <1>1, <1>3
  <2>2. /\ rows \in Seq(Delivery)
        /\ \A i \in DOMAIN rows : \E k \in kept : rows[i] = byUpdate[k]
        /\ \A k \in kept : \E i \in DOMAIN rows : rows[i] = byUpdate[k]
        /\ (\A k, l \in kept : byUpdate[k] = byUpdate[l] => k = l) =>
             \A i, j \in DOMAIN rows : rows[i] = rows[j] => i = j
    BY <2>1, KeptMembers
  <2> HIDE DEF rows
  <2> QED BY <1>4, <2>2
<1> HIDE DEF rows
<1>6. /\ new \in Seq(Delivery) /\ Len(new) = Len(rows) + 1 /\ Len(rows) \in Nat
      /\ new[Len(rows) + 1] = d /\ DOMAIN rows = 1..Len(rows)
      /\ \A i \in 1..Len(rows) : new[i] = rows[i]
  BY <1>2, <1>5
<1> HIDE DEF new
<1>7. \A i \in 1..Len(new) : i \in 1..Len(rows) \/ i = Len(rows) + 1
  BY <1>6
<1>8. \A i \in 1..Len(rows) : rows[i] # d
  BY <1>3, <1>5, <1>6
<1>9. \A i, j \in 1..Len(new) : new[i] = new[j] => i = j
  BY <1>5, <1>6, <1>7, <1>8
<1>10. ASSUME NEW e \in Delivery
       PROVE  e \in Present <=> \E i \in 1..Len(new) : new[i] = e
  <2>1. ASSUME e \in Present
        PROVE  \E i \in 1..Len(new) : new[i] = e
    <3>1. CASE e = d
      BY <1>6, <3>1
    <3>2. CASE e # d
      <4>1. PICK k \in 1..Len(byUpdate) : byUpdate[k] = e
        BY <1>1, <2>1
      <4>2. PICK i \in 1..Len(rows) : rows[i] = e
        BY <1>1, <1>3, <1>5, <1>6, <3>2, <4>1
      <4> QED BY <1>6, <4>2
    <3> QED BY <3>1, <3>2
  <2>2. ASSUME NEW i \in 1..Len(new), new[i] = e
        PROVE  e \in Present
    <3>1. CASE i = Len(rows) + 1
      BY <1>6, <2>2, <3>1
    <3>2. CASE i \in 1..Len(rows)
      <4>1. PICK k \in kept : rows[i] = byUpdate[k]
        BY <1>5, <1>6, <3>2
      <4> QED BY <1>1, <1>3, <1>6, <2>2, <3>2, <4>1
    <3> QED BY <1>7, <3>1, <3>2
  <2> QED BY <2>1, <2>2
<1> QED BY <1>2, <1>6, <1>9, <1>10 DEF Ordered

(* A new row is the latest.                                                *)
LEMMA AppendedIs ==
  ASSUME NEW rows, NEW all, Ordered(rows, all), NEW d \in Delivery, d \notin all
  PROVE  Ordered(Append(rows, d), all \cup {d})
<1> DEFINE new == Append(rows, d)
<1>1. /\ rows \in Seq(Delivery)
      /\ \A i, j \in 1..Len(rows) : rows[i] = rows[j] => i = j
      /\ \A e \in Delivery : e \in all <=> \E i \in 1..Len(rows) : rows[i] = e
  BY DEF Ordered
<1>2. /\ new \in Seq(Delivery) /\ Len(new) = Len(rows) + 1 /\ Len(rows) \in Nat
      /\ new[Len(rows) + 1] = d
      /\ \A i \in 1..Len(rows) : new[i] = rows[i] /\ rows[i] \in Delivery
  BY <1>1
<1> HIDE DEF new
<1>3. \A i \in 1..Len(new) : i \in 1..Len(rows) \/ i = Len(rows) + 1
  BY <1>2
<1>4. \A i \in 1..Len(rows) : rows[i] # d
  BY <1>1
<1>5. \A i, j \in 1..Len(new) : new[i] = new[j] => i = j
  BY <1>1, <1>2, <1>3, <1>4
<1>6. \A i \in 1..Len(rows) : i \in 1..Len(new)
  BY <1>2
<1>7. Len(rows) + 1 \in 1..Len(new)
  BY <1>2
<1>8. \A e \in Delivery : e \in all \cup {d} <=> \E i \in 1..Len(new) : new[i] = e
  BY <1>1, <1>2, <1>3, <1>6, <1>7
<1> QED BY <1>2, <1>5, <1>8 DEF Ordered, new

-----------------------------------------------------------------------------
(* The history of a row.                                                   *)

(* What makes a request is a pass or enqueue.                              *)
LEMMA NobodyIsEnqueue ==
  /\ \A p \in Pass : p # "enqueue"
  /\ \A q \in Request : /\ q.of \in Delivery /\ q.seen \in Nat
                        /\ q.by # "enqueue" => q.by \in Pass
  /\ MaxAttempts \in Nat /\ MaxAttempts # 0 /\ MaxDeaths \in Nat
  BY DeliveryAssumption DEF DeliveryAssumption, Request, Requester

(* The worst of a row has a type.                                          *)
LEMMA Upsetting ==
  ASSUME NEW row \in Story, NEW how \in {"lost", "shared", "raced"}
  PROVE  /\ Upset(row, how) \in Story
         /\ Upset(row, how).upset = how
         /\ how # "raced" => Upset(row, how).ended = row.ended
  BY DEF Upset, Story

(* A request that starts beside another for its row ends the story.        *)
LEMMA TryTold ==
  ASSUME NEW told \in [Delivery -> Story], NEW others, NEW d \in Delivery
  PROVE  /\ WithTry(told, others, d) \in [Delivery -> Story]
         /\ \A e \in Delivery : e # d => WithTry(told, others, d)[e] = told[e]
         /\ Asked(others, d) => WithTry(told, others, d)[d].upset = "raced"
         /\ ~Asked(others, d) => WithTry(told, others, d) = told
<1> DEFINE row == Upset(told[d], "raced")
<1>1. row \in Story /\ row.upset = "raced"
  BY Upsetting
<1>2. WithTry(told, others, d) = IF Asked(others, d) THEN [told EXCEPT ![d] = row] ELSE told
  BY DEF WithTry
<1> HIDE DEF row
<1>3. CASE Asked(others, d)
  BY <1>1, <1>2, <1>3
<1>4. CASE ~Asked(others, d)
  BY <1>2, <1>4
<1> QED BY <1>3, <1>4

(* The answers that are never read.                                        *)
LEMMA LossTold ==
  ASSUME NEW told \in [Delivery -> Story], NEW asked
  PROVE  /\ WithLoss(told, asked) \in [Delivery -> Story]
         /\ \A d \in Delivery :
              \/ WithLoss(told, asked)[d] = told[d]
              \/ /\ told[d].upset = "no" /\ WithLoss(told, asked)[d].upset = "lost"
                 /\ WithLoss(told, asked)[d].ended = told[d].ended
<1> DEFINE now(d) == IF Asked(asked, d) /\ told[d].upset = "no"
                     THEN Upset(told[d], "lost") ELSE told[d]
<1>1. ASSUME NEW d \in Delivery
      PROVE  /\ now(d) \in Story
             /\ \/ now(d) = told[d]
                \/ /\ told[d].upset = "no" /\ now(d).upset = "lost"
                   /\ now(d).ended = told[d].ended
  <2>1. told[d] \in Story
    OBVIOUS
  <2>2. CASE Asked(asked, d) /\ told[d].upset = "no"
    BY <2>1, <2>2, Upsetting
  <2>3. CASE ~(Asked(asked, d) /\ told[d].upset = "no")
    BY <2>1, <2>3
  <2> QED BY <2>2, <2>3
<1>2. WithLoss(told, asked) = [d \in Delivery |-> now(d)]
  BY DEF WithLoss
<1> HIDE DEF now
<1> QED BY <1>1, <1>2

(* The rows a pass took out of other hands.                                *)
LEMMA TakenTold ==
  ASSUME Typed, NEW rows \in Seq(Delivery)
  PROVE  /\ WithTaken(rows) \in [Delivery -> Story]
         /\ \A d \in Delivery :
              \/ WithTaken(rows)[d] = story[d] /\ story[d].upset = "raced"
              \/ WithTaken(rows)[d] = story[d] /\ ~(Holds(rows, d) /\ Handled(d))
              \/ /\ WithTaken(rows)[d].upset = "shared" /\ story[d].upset # "raced"
                 /\ WithTaken(rows)[d].ended = story[d].ended
<1> DEFINE now(d) == IF d \in ToSet(rows) /\ Handled(d) /\ story[d].upset # "raced"
                     THEN Upset(story[d], "shared") ELSE story[d]
<1>1. ASSUME NEW d \in Delivery
      PROVE  /\ now(d) \in Story
             /\ \/ now(d) = story[d] /\ story[d].upset = "raced"
                \/ now(d) = story[d] /\ ~(Holds(rows, d) /\ Handled(d))
                \/ /\ now(d).upset = "shared" /\ story[d].upset # "raced"
                   /\ now(d).ended = story[d].ended
  <2>1. story[d] \in Story
    BY DEF Typed
  <2>2. Holds(rows, d) => d \in ToSet(rows)
    BY DEF Holds, ToSet
  <2>3. CASE d \in ToSet(rows) /\ Handled(d) /\ story[d].upset # "raced"
    BY <2>1, <2>3, Upsetting
  <2>4. CASE ~(d \in ToSet(rows) /\ Handled(d) /\ story[d].upset # "raced")
    BY <2>1, <2>2, <2>4
  <2> QED BY <2>3, <2>4
<1>2. WithTaken(rows) = [d \in Delivery |-> now(d)]
  BY DEF WithTaken
<1> HIDE DEF now
<1> QED BY <1>1, <1>2

(* The end of an attempt counts, unless requests for the row raced.        *)
LEMMA EndTold ==
  ASSUME Typed, NEW d \in Delivery, NEW how \in {"arrived", "failed", "lost"}
  PROVE  /\ WithEnd(d, how) \in [Delivery -> Story]
         /\ \A e \in Delivery : e # d => WithEnd(d, how)[e] = story[e]
         /\ story[d].upset = "raced" => WithEnd(d, how)[d].upset = "raced"
         /\ story[d].upset # "raced" =>
              /\ WithEnd(d, how)[d].ended = story[d].ended + 1
              /\ \/ WithEnd(d, how)[d].upset = story[d].upset
                 \/ story[d].upset = "no" /\ WithEnd(d, how)[d].upset = "lost"
         /\ WithEnd(d, how)[d].upset = "no" =>
              /\ story[d].upset = "no"
              /\ \/ WithEnd(d, how)[d].arrived = story[d].arrived
                 \/ how = "arrived" /\ WithEnd(d, how)[d].arrived = story[d].arrived + 1
<1> DEFINE was == story[d]
           row == IF was.upset = "raced" THEN was ELSE [was EXCEPT !.ended = @ + 1]
           now == IF row.upset = "no" /\ how = "lost" THEN Upset(row, "lost")
                  ELSE IF row.upset = "no" /\ how = "arrived" THEN [row EXCEPT !.arrived = @ + 1]
                  ELSE row
<1>1. was \in Story /\ story \in [Delivery -> Story]
  BY DEF Typed
<1>2. WithEnd(d, how) = [story EXCEPT ![d] = now]
  BY DEF WithEnd
<1> HIDE DEF was
<1>3. /\ row \in Story /\ row.upset = was.upset /\ row.arrived = was.arrived
      /\ was.upset # "raced" => row.ended = was.ended + 1
  BY <1>1 DEF Story
<1> HIDE DEF row
<1>4. /\ now \in Story
      /\ was.upset = "raced" => now.upset = "raced"
      /\ was.upset # "raced" =>
           /\ now.ended = was.ended + 1
           /\ now.upset = was.upset \/ (was.upset = "no" /\ now.upset = "lost")
      /\ now.upset = "no" =>
           /\ was.upset = "no"
           /\ \/ now.arrived = was.arrived
              \/ how = "arrived" /\ now.arrived = was.arrived + 1
  <2>1. CASE row.upset = "no" /\ how = "lost"
    <3>1. now = Upset(row, "lost")
      BY <2>1
    <3> HIDE DEF now
    <3> QED BY <1>3, <2>1, <3>1, Upsetting
  <2>2. CASE row.upset = "no" /\ how = "arrived"
    <3>1. now = [row EXCEPT !.arrived = @ + 1]
      BY <2>2
    <3> HIDE DEF now
    <3>2. /\ now \in Story /\ now.ended = row.ended /\ now.upset = row.upset
          /\ now.arrived = row.arrived + 1
      BY <1>3, <3>1 DEF Story
    <3> QED BY <1>3, <2>2, <3>2
  <2>3. CASE ~(row.upset = "no" /\ how = "lost") /\ ~(row.upset = "no" /\ how = "arrived")
    BY <1>3, <2>3
  <2> QED BY <2>1, <2>2, <2>3
<1> HIDE DEF now
<1> QED BY <1>1, <1>2, <1>4 DEF was

(* Fewer requests and fewer rows in hand fit as well.                      *)
LEMMA FitsFewer ==
  ASSUME NEW row, NEW told, NEW asked, NEW lists, NEW d,
         Fits(row, told, asked, lists, d),
         NEW fewer, \A q \in fewer : q.of = d => q \in asked,
         NEW shorter, \A p \in Pass : Holds(shorter[p], d) => Holds(lists[p], d)
  PROVE  Fits(row, told, fewer, shorter, d)
<1>1. told.upset # "raced" =>
        /\ row.attempts = told.ended
        /\ \A q \in fewer : q.of = d => q.seen = told.ended
        /\ \A q, r \in fewer : q.of = d /\ r.of = d => q = r
  BY DEF Fits
<1>2. Asked(fewer, d) => Asked(asked, d)
  BY DEF Asked
<1>3. told.upset \in {"no", "lost"} =>
        /\ told.ended <= MaxAttempts
        /\ Asked(fewer, d) \/ (\E p \in Pass : Holds(shorter[p], d)) =>
             row.status \in {"pending", "failed"} /\ row.attempts < MaxAttempts
        /\ \A p, r \in Pass : Holds(shorter[p], d) /\ Holds(shorter[r], d) => p = r
        /\ \A q \in fewer : \A p \in Pass : q.of = d /\ Holds(shorter[p], d) => q.by = p
  BY <1>2 DEF Fits
<1> QED BY <1>1, <1>3 DEF Fits

-----------------------------------------------------------------------------
(* A pass that goes on.                                                    *)

(* What a pass does next.                                                  *)
LEMMA GoesOn ==
  ASSUME NEW p, NEW rows \in Seq(Delivery), NEW others, NEW told, GoOn(p, rows, others, told)
  PROVE  \/ /\ passes' = [passes EXCEPT ![p] = <<>>]
            /\ requests' = others
            /\ story' = told
         \/ ProcessEnds(others, told)
         \/ \E rest \in Seq(Delivery) :
              /\ EndOf(rest, rows) /\ Len(rest) >= 1
              /\ passes' = [passes EXCEPT ![p] = rest]
              /\ requests' = others \cup {Tried(rest[1], p)}
              /\ story' = WithTry(told, others, rest[1])
<1> DEFINE rest == FromConfigured(rows)
<1>1. EndOf(rest, rows) /\ rest \in Seq(Delivery)
  BY FromConfiguredIs DEF EndOf
<1>2. \/ /\ rest = <<>>
         /\ passes' = [passes EXCEPT ![p] = <<>>]
         /\ requests' = others
         /\ story' = told
      \/ /\ rest # <<>>
         /\ passes' = [passes EXCEPT ![p] = rest]
         /\ requests' = others \cup {Tried(Head(rest), p)}
         /\ story' = WithTry(told, others, Head(rest))
      \/ ProcessEnds(others, told)
  BY DEF GoOn
<1> HIDE DEF rest
<1>3. rest # <<>> => Len(rest) >= 1 /\ Head(rest) = rest[1]
  BY <1>1
<1> QED BY <1>1, <1>2, <1>3

(* The pass p drops the request it had and may make another.               *)
LEMMA PassTyped ==
  ASSUME Typed, Paced, NEW p \in Pass, NEW rows \in Seq(Delivery),
         \A i \in 1..Len(rows) : rows[i] \in Present,
         \A i, j \in 1..Len(rows) : rows[i] = rows[j] => i = j,
         NEW others, others \subseteq requests,
         \A q \in requests : q.by # p <=> q \in others,
         NEW told \in [Delivery -> Story],
         GoOn(p, rows, others, told), Present' = Present,
         \A d \in Delivery : d \notin Present => deliveries'[d] = deliveries[d]
  PROVE  /\ passes' \in [Pass -> Seq(Delivery)]
         /\ requests' \subseteq Request
         /\ story' \in [Delivery -> Story]
         /\ Paced'
<1>1. passes \in [Pass -> Seq(Delivery)] /\ requests \subseteq Request /\ p # "enqueue"
  BY NobodyIsEnqueue DEF Typed
<1>2. /\ \A q \in requests :
           /\ q.of \in Present
           /\ q.by # "enqueue" => Len(passes[q.by]) >= 1 /\ q.of = passes[q.by][1]
      /\ \A q, r \in requests : q.by = r.by /\ q.by # "enqueue" => q = r
      /\ \A r \in Pass :
           /\ \A i \in 1..Len(passes[r]) : passes[r][i] \in Present
           /\ \A i, j \in 1..Len(passes[r]) : passes[r][i] = passes[r][j] => i = j
           /\ Len(passes[r]) >= 1 => \E q \in requests : q.by = r
  BY DEF Paced
<1>3. \A q \in others : /\ q.by # p /\ q \in requests
                        /\ q.by # "enqueue" => q.by \in Pass
  BY <1>1, NobodyIsEnqueue
<1>0. \A d \in Delivery : d \notin Present' => deliveries'[d].attempts = 0
  BY DEF Paced
<1>4. CASE ProcessEnds(others, told)
  <2>1. /\ passes' = [r \in Pass |-> <<>>] /\ requests' = {} /\ story' = WithLoss(told, others)
    BY <1>4 DEF ProcessEnds
  <2>2. \A r \in Pass : passes'[r] = <<>> /\ Len(passes'[r]) = 0
    BY <2>1
  <2>3. story' \in [Delivery -> Story]
    BY <2>1, LossTold
  <2>4. Paced'
    BY <1>0, <2>1, <2>2 DEF Paced
  <2> QED BY <2>1, <2>3, <2>4
<1>5. CASE /\ passes' = [passes EXCEPT ![p] = <<>>]
           /\ requests' = others
           /\ story' = told
  <2>1. /\ \A r \in Pass : r # p => passes'[r] = passes[r]
        /\ passes'[p] = <<>> /\ Len(passes'[p]) = 0
        /\ passes' \in [Pass -> Seq(Delivery)]
    BY <1>1, <1>5
  <2>2. \A q \in requests' :
          /\ q.of \in Present'
          /\ q.by # "enqueue" => Len(passes'[q.by]) >= 1 /\ q.of = passes'[q.by][1]
    BY <1>2, <1>3, <1>5, <2>1
  <2>3. \A q, r \in requests' : q.by = r.by /\ q.by # "enqueue" => q = r
    BY <1>2, <1>3, <1>5
  <2>4. ASSUME NEW r \in Pass
        PROVE  /\ \A i \in 1..Len(passes'[r]) : passes'[r][i] \in Present'
               /\ \A i, j \in 1..Len(passes'[r]) : passes'[r][i] = passes'[r][j] => i = j
               /\ Len(passes'[r]) >= 1 => \E q \in requests' : q.by = r
    <3>1. CASE r = p
      BY <2>1, <3>1
    <3>2. CASE r # p
      BY <1>2, <1>5, <2>1, <3>2
    <3> QED BY <3>1, <3>2
  <2>5. Paced'
    BY <1>0, <2>2, <2>3, <2>4 DEF Paced
  <2> QED BY <1>1, <1>3, <1>5, <2>1, <2>5
<1>6. ASSUME NEW rest \in Seq(Delivery),
             EndOf(rest, rows), Len(rest) >= 1,
             passes' = [passes EXCEPT ![p] = rest],
             requests' = others \cup {Tried(rest[1], p)},
             story' = WithTry(told, others, rest[1])
      PROVE  /\ passes' \in [Pass -> Seq(Delivery)]
             /\ requests' \subseteq Request
             /\ story' \in [Delivery -> Story]
             /\ Paced'
  <2> DEFINE new == Tried(rest[1], p)
  <2>1. /\ \A r \in Pass : r # p => passes'[r] = passes[r]
        /\ passes'[p] = rest /\ passes' \in [Pass -> Seq(Delivery)]
    BY <1>1, <1>6
  <2>2. /\ rest[1] \in Delivery /\ \A i \in 1..Len(rest) : rest[i] \in Present
        /\ \A i, j \in 1..Len(rest) : rest[i] = rest[j] => i = j
    <3>1. PICK k \in 0..Len(rows) :
            \A i \in 1..Len(rest) : i + k \in 1..Len(rows) /\ rest[i] = rows[i + k]
      BY <1>6 DEF EndOf
    <3>2. \A i \in 1..Len(rest) : \E l \in 1..Len(rows) : rest[i] = rows[l]
      BY <3>1
    <3>3. ASSUME NEW i \in 1..Len(rest), NEW j \in 1..Len(rest), rest[i] = rest[j]
          PROVE  i = j
      <4>1. i + k = j + k
        BY <3>1, <3>3
      <4>2. i \in Int /\ j \in Int /\ k \in Int
        OBVIOUS
      <4> QED BY <4>1, <4>2
    <3> QED BY <1>6, <3>2, <3>3
  <2>3. deliveries[rest[1]].attempts \in Nat
    BY <2>2 DEF Typed, Row
  <2>4. new \in Request /\ new.of = rest[1] /\ new.by = p
    BY <2>2, <2>3 DEF Tried, Request, Requester
  <2>5. story' \in [Delivery -> Story]
    BY <1>6, <2>2, TryTold
  <2> HIDE DEF new
  <2>6. requests' = others \cup {new}
    BY <1>6 DEF new
  <2>7. 1 \in 1..Len(rest)
    BY <1>6
  <2>8. ASSUME NEW q \in requests'
        PROVE  /\ q.of \in Present'
               /\ q.by # "enqueue" => Len(passes'[q.by]) >= 1 /\ q.of = passes'[q.by][1]
    <3>1. CASE q = new
      BY <1>6, <2>1, <2>2, <2>4, <2>7, <3>1
    <3>2. CASE q \in others
      BY <1>2, <1>3, <2>1, <3>2
    <3> QED BY <2>6, <3>1, <3>2
  <2>9. \A q, r \in requests' : q.by = r.by /\ q.by # "enqueue" => q = r
    BY <1>2, <1>3, <2>4, <2>6
  <2>10. ASSUME NEW r \in Pass
         PROVE  /\ \A i \in 1..Len(passes'[r]) : passes'[r][i] \in Present'
                /\ \A i, j \in 1..Len(passes'[r]) : passes'[r][i] = passes'[r][j] => i = j
                /\ Len(passes'[r]) >= 1 => \E q \in requests' : q.by = r
    <3>1. CASE r = p
      BY <2>1, <2>2, <2>4, <2>6, <3>1
    <3>2. CASE r # p
      BY <1>2, <2>1, <2>6, <3>2
    <3> QED BY <3>1, <3>2
  <2>11. Paced'
    BY <1>0, <2>8, <2>9, <2>10 DEF Paced
  <2> QED BY <1>1, <1>3, <2>1, <2>4, <2>5, <2>6, <2>11
<1> HIDE DEF Typed, Paced
<1> QED BY <1>4, <1>5, <1>6, GoesOn

(* The rows of p being `rows`, every row fits what p does next.            *)
LEMMA PassOrderly ==
  ASSUME passes \in [Pass -> Seq(Delivery)],
         NEW p \in Pass, NEW rows \in Seq(Delivery),
         NEW others, NEW told \in [Delivery -> Story],
         GoOn(p, rows, others, told),
         NEW lists,
         AllFit(deliveries', told, others, lists),
         RowsOf(lists, p, rows), Unwritten(rows)
  PROVE  Orderly'
<1>0. /\ \A d \in Delivery : Fits(deliveries'[d], told[d], others, lists, d)
      /\ lists[p] = rows /\ \A r \in Pass : r # p => lists[r] = passes[r]
      /\ \A i \in 1..Len(rows) : deliveries'[rows[i]] = deliveries[rows[i]]
  BY DEF AllFit, RowsOf, Unwritten
<1>1. CASE ProcessEnds(others, told)
  <2>1. /\ passes' = [r \in Pass |-> <<>>] /\ requests' = {} /\ story' = WithLoss(told, others)
    BY <1>1 DEF ProcessEnds
  <2>2. ASSUME NEW d \in Delivery
        PROVE  Fits(deliveries'[d], story'[d], requests', passes', d)
    <3>1. \A r \in Pass : ~Holds(passes'[r], d)
      <4>1. \A r \in Pass : passes'[r] = <<>>
        BY <2>1
      <4> QED BY <4>1 DEF Holds
    <3>2. /\ Fits(deliveries'[d], told[d], others, lists, d)
          /\ \/ story'[d] = told[d]
             \/ /\ told[d].upset = "no" /\ story'[d].upset = "lost"
                /\ story'[d].ended = told[d].ended
      BY <1>0, <2>1, LossTold
    <3>3. Fits(deliveries'[d], told[d], requests', passes', d)
      BY <2>1, <3>1, <3>2, FitsFewer
    <3> QED BY <3>2, <3>3 DEF Fits
  <2> QED BY <2>2 DEF Orderly
<1>2. CASE /\ passes' = [passes EXCEPT ![p] = <<>>]
           /\ requests' = others
           /\ story' = told
  <2>1. ASSUME NEW d \in Delivery
        PROVE  Fits(deliveries'[d], story'[d], requests', passes', d)
    <3>1. \A r \in Pass : Holds(passes'[r], d) => Holds(lists[r], d)
      <4>1. passes'[p] = <<>> /\ \A r \in Pass : r # p => passes'[r] = lists[r]
        BY <1>0, <1>2
      <4>2. ~Holds(passes'[p], d)
        BY <4>1 DEF Holds
      <4> QED BY <4>1, <4>2
    <3> QED BY <1>0, <1>2, <3>1, FitsFewer
  <2> QED BY <2>1 DEF Orderly
<1>3. ASSUME NEW rest \in Seq(Delivery),
             EndOf(rest, rows), Len(rest) >= 1,
             passes' = [passes EXCEPT ![p] = rest],
             requests' = others \cup {Tried(rest[1], p)},
             story' = WithTry(told, others, rest[1])
      PROVE  Orderly'
  <2> DEFINE new == Tried(rest[1], p)
             d1  == rest[1]
  <2>1. d1 \in Delivery /\ 1 \in 1..Len(rest)
    BY <1>3
  <2>2. PICK k \in 1..Len(rows) : rows[k] = d1
    BY <1>3, <2>1 DEF EndOf
  <2>3. Holds(lists[p], d1) /\ deliveries'[d1] = deliveries[d1]
    BY <1>0, <2>2 DEF Holds
  <2>4. new.of = d1 /\ new.by = p /\ new.seen = deliveries'[d1].attempts
    BY <2>3 DEF Tried
  <2>5. /\ \A e \in Delivery : e # d1 => story'[e] = told[e]
        /\ Asked(others, d1) => story'[d1].upset = "raced"
        /\ ~Asked(others, d1) => story' = told
    BY <1>3, <2>1, TryTold
  <2> HIDE DEF new
  <2>6. requests' = others \cup {new}
    BY <1>3 DEF new
  <2>7. ASSUME NEW d
        PROVE  \A r \in Pass : Holds(passes'[r], d) => Holds(lists[r], d)
    <3>1. passes'[p] = rest /\ \A r \in Pass : r # p => passes'[r] = lists[r]
      BY <1>0, <1>3
    <3>2. Holds(rest, d) => Holds(rows, d)
      BY <1>3 DEF Holds, EndOf
    <3> QED BY <1>0, <3>1, <3>2
  <2>8. ASSUME NEW d \in Delivery
        PROVE  Fits(deliveries'[d], told[d], others, passes', d)
    BY <1>0, <2>7, FitsFewer
  <2> HIDE DEF d1
  <2>9. ASSUME NEW d \in Delivery, d # d1
        PROVE  Fits(deliveries'[d], story'[d], requests', passes', d)
    <3>1. \A q \in requests' : q.of = d => q \in others
      BY <2>4, <2>6, <2>9
    <3> QED BY <2>5, <2>8, <2>9, <3>1, FitsFewer
  <2>10. Fits(deliveries'[d1], story'[d1], requests', passes', d1)
    <3>1. CASE Asked(others, d1)
      BY <2>5, <3>1 DEF Fits
    <3>2. CASE ~Asked(others, d1)
      <4> DEFINE row == deliveries'[d1]
                 tale == told[d1]
      <4>1. /\ Fits(row, tale, others, lists, d1) /\ Fits(row, tale, others, passes', d1)
            /\ story'[d1] = tale /\ Holds(lists[p], d1)
        BY <1>0, <2>1, <2>3, <2>5, <2>8, <3>2
      <4>2. \A q \in requests' : q.of = d1 => q = new
        BY <2>6, <3>2 DEF Asked
      <4> HIDE DEF row, tale
      <4>3. tale.upset # "raced" =>
              /\ row.attempts = tale.ended
              /\ \A q \in requests' : q.of = d1 => q.seen = tale.ended
              /\ \A q, r \in requests' : q.of = d1 /\ r.of = d1 => q = r
        BY <2>4, <4>1, <4>2 DEF Fits, row
      <4>4. tale.upset \in {"no", "lost"} =>
              /\ tale.ended <= MaxAttempts
              /\ row.status \in {"pending", "failed"} /\ row.attempts < MaxAttempts
              /\ \A r \in Pass : Holds(lists[r], d1) => p = r
        BY <4>1 DEF Fits
      <4>5. tale.upset \in {"no", "lost"} =>
              /\ \A r, s \in Pass : Holds(passes'[r], d1) /\ Holds(passes'[s], d1) => r = s
              /\ \A q \in requests' : \A r \in Pass :
                   q.of = d1 /\ Holds(passes'[r], d1) => q.by = r
        BY <2>4, <2>7, <4>2, <4>4
      <4>6. tale.upset = "no" =>
              tale.arrived = 0 \/ (tale.arrived = 1 /\ row.status = "delivered")
        BY <4>1 DEF Fits
      <4>7. Fits(row, tale, requests', passes', d1)
        BY <4>3, <4>4, <4>5, <4>6 DEF Fits
      <4> QED BY <4>1, <4>7 DEF row
    <3> QED BY <3>1, <3>2
  <2> QED BY <2>9, <2>10 DEF Orderly
<1> HIDE DEF Fits
<1> QED BY <1>1, <1>2, <1>3, GoesOn

-----------------------------------------------------------------------------
(* The end of an attempt.                                                  *)

(* The row is written, and is the latest.                                  *)
LEMMA AttemptWrites ==
  ASSUME Typed, Paced, NEW q \in requests,
         NEW status \in {"delivered", "failed"}, AttemptEnds(q, status)
  PROVE  /\ q.of \in Delivery /\ q.seen \in Nat
         /\ deliveries' \in [Delivery -> Row]
         /\ deliveries'[q.of] = [status |-> status, attempts |-> q.seen + 1]
         /\ \A d \in Delivery : d # q.of => deliveries'[d] = deliveries[d]
         /\ Present' = Present /\ q.of \in Present
         /\ Ordered(byUpdate', Present')
<1>1. /\ q \in Request /\ q.of \in Delivery /\ q.seen \in Nat /\ q.of \in Present
      /\ deliveries \in [Delivery -> Row]
  BY NobodyIsEnqueue DEF Typed, Paced
<1> DEFINE row == [status |-> status, attempts |-> q.seen + 1]
<1>2. row \in Row /\ row.status # "absent"
  BY <1>1 DEF Row
<1>3. deliveries' = [deliveries EXCEPT ![q.of] = row] /\ byUpdate' = Touched(q.of)
  BY DEF AttemptEnds
<1> HIDE DEF row
<1>4. /\ deliveries' \in [Delivery -> Row] /\ deliveries'[q.of] = row
      /\ \A d \in Delivery : d # q.of => deliveries'[d] = deliveries[d]
  BY <1>1, <1>2, <1>3
<1>5. Present' = Present
  BY <1>1, <1>2, <1>4 DEF Present
<1>6. Ordered(byUpdate', Present')
  BY <1>1, <1>3, <1>5, TouchedIs
<1> QED BY <1>1, <1>4, <1>5, <1>6 DEF row

(* The request of a pass is its own.                                       *)
LEMMA OwnRequest ==
  ASSUME Typed, Paced, NEW q \in requests, q.by # "enqueue"
  PROVE  /\ q.by \in Pass
         /\ \A r \in requests : r.by # q.by <=> r \in requests \ {q}
         /\ Len(passes[q.by]) >= 1 /\ q.of = passes[q.by][1]
         /\ Tail(passes[q.by]) \in Seq(Delivery)
         /\ Len(Tail(passes[q.by])) = Len(passes[q.by]) - 1
         /\ \A i \in 1..Len(Tail(passes[q.by])) :
              /\ i + 1 \in 2..Len(passes[q.by]) /\ i + 1 \in 1..Len(passes[q.by])
              /\ Tail(passes[q.by])[i] = passes[q.by][i + 1]
<1>1. q.by \in Pass
  BY NobodyIsEnqueue DEF Typed
<1>2. \A r \in requests : r.by # q.by <=> r \in requests \ {q}
  BY DEF Paced
<1>3. /\ Len(passes[q.by]) >= 1 /\ q.of = passes[q.by][1] /\ passes[q.by] \in Seq(Delivery)
  BY <1>1 DEF Paced, Typed
<1> DEFINE rows == passes[q.by]
<1> HIDE DEF rows
<1>4. rows \in Seq(Delivery) /\ Len(rows) >= 1 /\ Len(rows) \in Nat
  BY <1>3 DEF rows
<1>5. /\ Tail(rows) \in Seq(Delivery) /\ Len(Tail(rows)) = Len(rows) - 1
      /\ \A i \in 1..Len(Tail(rows)) : Tail(rows)[i] = rows[i + 1]
  BY <1>4
<1>6. \A i \in 1..Len(Tail(rows)) : i + 1 \in 2..Len(rows) /\ i + 1 \in 1..Len(rows)
  BY <1>4, <1>5
<1> QED BY <1>1, <1>2, <1>3, <1>5, <1>6 DEF rows

(* The rows a pass has still to try once its attempt is over: distinct, and*)
(* not the one it tried.                                                   *)
LEMMA OwnRest ==
  ASSUME Typed, Paced, NEW q \in requests, q.by # "enqueue"
  PROVE  LET rows == Tail(passes[q.by]) IN
         /\ rows \in Seq(Delivery)
         /\ \A i \in 1..Len(rows) : rows[i] \in Present /\ rows[i] # q.of
         /\ \A i, j \in 1..Len(rows) : rows[i] = rows[j] => i = j
         /\ \A d : Holds(rows, d) => Holds(passes[q.by], d) /\ d # q.of
<1> DEFINE rows == Tail(passes[q.by])
<1>1. /\ q.by \in Pass /\ rows \in Seq(Delivery)
      /\ Len(passes[q.by]) >= 1 /\ q.of = passes[q.by][1] /\ 1 \in 1..Len(passes[q.by])
      /\ \A i \in 1..Len(rows) :
           /\ i + 1 \in 2..Len(passes[q.by]) /\ i + 1 \in 1..Len(passes[q.by])
           /\ rows[i] = passes[q.by][i + 1]
  BY OwnRequest DEF Typed
<1>2. /\ \A i \in 1..Len(passes[q.by]) : passes[q.by][i] \in Present
      /\ \A i, j \in 1..Len(passes[q.by]) : passes[q.by][i] = passes[q.by][j] => i = j
  BY <1>1 DEF Paced
<1> HIDE DEF rows
<1>3. ASSUME NEW i \in 1..Len(rows)
      PROVE  rows[i] \in Present /\ rows[i] # q.of
  <2>1. i + 1 # 1
    OBVIOUS
  <2> QED BY <1>1, <1>2, <2>1
<1>4. ASSUME NEW i \in 1..Len(rows), NEW j \in 1..Len(rows), rows[i] = rows[j]
      PROVE  i = j
  <2>1. i + 1 = j + 1
    BY <1>1, <1>2, <1>4
  <2> QED BY <2>1
<1>5. \A d : Holds(rows, d) => Holds(passes[q.by], d) /\ d # q.of
  BY <1>1, <1>3 DEF Holds
<1> QED BY <1>1, <1>3, <1>4, <1>5 DEF rows

(* Once its attempt is over, a row fits the other requests and the rows    *)
(* the passes have still to try.                                           *)
LEMMA AttemptFits ==
  ASSUME DeliveryInv, NEW q \in requests,
         NEW status \in {"delivered", "failed"}, AttemptEnds(q, status),
         NEW how \in {"arrived", "failed", "lost"}, how = "arrived" => status = "delivered",
         NEW lists,
         \A p \in Pass : p # q.by => lists[p] = passes[p],
         q.by # "enqueue" => lists[q.by] = Tail(passes[q.by]),
         NEW d \in Delivery
  PROVE  Fits(deliveries'[d], WithEnd(q.of, how)[d], requests \ {q}, lists, d)
<1> DEFINE others == requests \ {q}
           was == story[d]
           now == WithEnd(q.of, how)[d]
           row == deliveries'[d]
<1>1. Typed /\ Paced /\ Fits(deliveries[d], was, requests, passes, d)
  BY DEF DeliveryInv, Orderly
<1>2. /\ q.of \in Delivery /\ q.seen \in Nat
      /\ deliveries'[q.of] = [status |-> status, attempts |-> q.seen + 1]
      /\ d # q.of => deliveries'[d] = deliveries[d]
  BY <1>1, AttemptWrites
<1>3. \A p \in Pass : Holds(lists[p], d) => Holds(passes[p], d) /\ (p = q.by => d # q.of)
  <2>1. \A p \in Pass : p # "enqueue"
    BY NobodyIsEnqueue
  <2>2. q.by # "enqueue" =>
          \A e : Holds(Tail(passes[q.by]), e) => Holds(passes[q.by], e) /\ e # q.of
    BY <1>1, OwnRest
  <2> QED BY <2>1, <2>2
<1>4. CASE d # q.of
  <2>1. now = was
    BY <1>1, <1>2, <1>4, EndTold
  <2>2. Fits(deliveries[d], was, others, lists, d)
    BY <1>1, <1>3, FitsFewer
  <2> QED BY <1>2, <1>4, <2>1, <2>2
<1>5. CASE d = q.of
  <2>1. row.status = status /\ row.attempts = q.seen + 1
    BY <1>2, <1>5
  <2>2. /\ was.upset = "raced" => now.upset = "raced"
        /\ was.upset # "raced" =>
             /\ now.ended = was.ended + 1
             /\ now.upset = was.upset \/ (was.upset = "no" /\ now.upset = "lost")
        /\ now.upset = "no" =>
             /\ was.upset = "no"
             /\ \/ now.arrived = was.arrived
                \/ how = "arrived" /\ now.arrived = was.arrived + 1
    BY <1>1, <1>2, <1>5, EndTold
  <2>3. was.ended \in Nat /\ deliveries[d].attempts \in Nat /\ MaxAttempts \in Nat
    BY <1>1, NobodyIsEnqueue DEF Typed, Story, Row
  <2>4. Asked(requests, d)
    BY <1>5 DEF Asked
  <2> HIDE DEF was, now, row
  <2>5. was.upset # "raced" => /\ deliveries[d].attempts = was.ended /\ q.seen = was.ended
                               /\ \A r \in others : r.of # d
    BY <1>1, <1>5 DEF Fits
  <2>6. was.upset \in {"no", "lost"} =>
          /\ deliveries[d].status \in {"pending", "failed"} /\ deliveries[d].attempts < MaxAttempts
          /\ \A p \in Pass : Holds(passes[p], d) => q.by = p
    BY <1>1, <1>5, <2>4 DEF Fits
  <2>7. now.upset # "raced" => was.upset # "raced"
    BY <2>2
  <2>8. now.upset # "raced" => row.attempts = now.ended /\ \A r \in others : r.of # d
    BY <2>1, <2>2, <2>5, <2>7
  <2>9. now.upset \in {"no", "lost"} => was.upset \in {"no", "lost"}
    BY <2>2, <2>7
  <2>10. now.upset \in {"no", "lost"} =>
           now.ended <= MaxAttempts /\ \A p \in Pass : ~Holds(lists[p], d)
    <3>1. ASSUME was.upset \in {"no", "lost"}
          PROVE  now.ended <= MaxAttempts
      BY <2>2, <2>3, <2>5, <2>6, <3>1
    <3>2. ASSUME was.upset \in {"no", "lost"}, NEW p \in Pass, Holds(lists[p], d)
          PROVE  FALSE
      BY <1>3, <1>5, <2>6, <3>2
    <3> QED BY <2>9, <3>1, <3>2
  <2>11. now.upset = "no" => now.arrived = 0 \/ (now.arrived = 1 /\ row.status = "delivered")
    <3>1. ASSUME now.upset = "no"
          PROVE  now.arrived = 0 \/ (now.arrived = 1 /\ row.status = "delivered")
      <4>1. was.upset = "no" /\ deliveries[d].status # "delivered"
        BY <2>2, <2>6, <3>1
      <4>2. was.arrived = 0
        BY <1>1, <4>1 DEF Fits
      <4> QED BY <2>1, <2>2, <3>1, <4>2
    <3> QED BY <3>1
  <2>12. now.upset # "raced" => ~Asked(others, d)
    BY <2>8 DEF Asked
  <2> HIDE DEF others
  <2>13. Fits(row, now, others, lists, d)
    BY <2>8, <2>10, <2>11, <2>12 DEF Fits
  <2> QED BY <2>13 DEF others, now, row
<1> QED BY <1>4, <1>5

(* Both ends of an attempt.                                                *)
LEMMA AttemptKeeps ==
  ASSUME DeliveryInv, NEW q \in requests,
         NEW status \in {"delivered", "failed"}, AttemptEnds(q, status),
         NEW how \in {"arrived", "failed", "lost"}, how = "arrived" => status = "delivered",
         Resume(q, WithEnd(q.of, how)),
         channels' = channels, deaths' = deaths
  PROVE  DeliveryInv'
<1> DEFINE told == WithEnd(q.of, how)
           others == requests \ {q}
<1>1. /\ Typed /\ Paced
      /\ passes \in [Pass -> Seq(Delivery)] /\ requests \subseteq Request
  BY DEF DeliveryInv, Typed
<1>2. /\ q.of \in Delivery /\ q.of \in Present
      /\ deliveries' \in [Delivery -> Row] /\ Present' = Present
      /\ Ordered(byUpdate', Present')
      /\ \A d \in Delivery : d # q.of => deliveries'[d] = deliveries[d]
  BY <1>1, AttemptWrites
<1>3. told \in [Delivery -> Story]
  BY <1>1, <1>2, EndTold
<1>4. \A d \in Delivery : d \notin Present => deliveries'[d] = deliveries[d]
  BY <1>2
<1>5. /\ passes' \in [Pass -> Seq(Delivery)]
      /\ requests' \subseteq Request
      /\ story' \in [Delivery -> Story]
      /\ Paced' /\ Orderly'
  <2>1. CASE q.by = "enqueue"
    <3>1. requests' = others /\ story' = told /\ passes' = passes
      BY <2>1 DEF Resume
    <3>2. \A p \in Pass : p # q.by
      BY <2>1, NobodyIsEnqueue
    <3>3. Paced'
      <4>1. \A d \in Delivery : d \notin Present' => deliveries'[d].attempts = 0
        BY <1>1, <1>2, <1>4 DEF Paced
      <4> QED BY <1>1, <1>2, <3>1, <3>2, <4>1 DEF Paced
    <3>4. ASSUME NEW d \in Delivery
          PROVE  Fits(deliveries'[d], told[d], others, passes, d)
      BY <2>1, <3>2, AttemptFits
    <3>5. Orderly'
      BY <3>1, <3>4 DEF Orderly
    <3> QED BY <1>1, <1>3, <3>1, <3>3, <3>5
  <2>2. CASE q.by # "enqueue"
    <3> DEFINE p     == q.by
               rows  == Tail(passes[p])
               lists == [passes EXCEPT ![p] = rows]
    <3>1. /\ p \in Pass /\ others \subseteq requests
          /\ \A r \in requests : r.by # p <=> r \in others
      BY <1>1, <2>2, OwnRequest
    <3>2. /\ rows \in Seq(Delivery)
          /\ \A i \in 1..Len(rows) : rows[i] \in Present /\ rows[i] # q.of
          /\ \A i, j \in 1..Len(rows) : rows[i] = rows[j] => i = j
      BY <1>1, <2>2, OwnRest
    <3>3. GoOn(p, rows, others, told)
      BY <2>2 DEF Resume
    <3>4. lists[p] = rows /\ \A r \in Pass : r # p => lists[r] = passes[r]
      BY <1>1, <3>1
    <3>5. ASSUME NEW d \in Delivery
          PROVE  Fits(deliveries'[d], told[d], others, lists, d)
      <4> HIDE DEF lists
      <4>1. /\ \A r \in Pass : r # q.by => lists[r] = passes[r]
            /\ q.by # "enqueue" => lists[q.by] = Tail(passes[q.by])
        BY <3>4
      <4>2. Fits(deliveries'[d], WithEnd(q.of, how)[d], requests \ {q}, lists, d)
        BY <4>1, AttemptFits
      <4> QED BY <4>2
    <3>5a. AllFit(deliveries', told, others, lists)
      BY <3>5 DEF AllFit
    <3>6. RowsOf(lists, p, rows) /\ Unwritten(rows)
      BY <1>2, <3>2, <3>4 DEF RowsOf, Unwritten, Present
    <3> HIDE DEF p, rows, others, told, lists
    <3>7. /\ passes' \in [Pass -> Seq(Delivery)]
          /\ requests' \subseteq Request
          /\ story' \in [Delivery -> Story]
          /\ Paced'
      BY <1>1, <1>2, <1>3, <1>4, <3>1, <3>2, <3>3, PassTyped
    <3>8. Orderly'
      BY <1>1, <1>3, <3>1, <3>2, <3>3, <3>5a, <3>6, PassOrderly
    <3> QED BY <3>7, <3>8
  <2> QED BY <2>1, <2>2
<1>6. Typed'
  BY <1>1, <1>2, <1>5 DEF Typed
<1> QED BY <1>5, <1>6 DEF DeliveryInv

(* The platform answers.                                                   *)
LEMMA AcceptedKeeps ==
  ASSUME DeliveryInv, NEW q \in requests, Accepted(q)
  PROVE  DeliveryInv'
<1>1. /\ AttemptEnds(q, "delivered") /\ Resume(q, WithEnd(q.of, "arrived"))
      /\ channels' = channels /\ deaths' = deaths
  BY DEF Accepted
<1> QED BY <1>1, AttemptKeeps

(* The request fails, the message arrived or not.                          *)
LEMMA RejectedKeeps ==
  ASSUME DeliveryInv, NEW q \in requests, Rejected(q)
  PROVE  DeliveryInv'
<1>1. /\ AttemptEnds(q, "failed")
      /\ channels' = channels /\ deaths' = deaths
  BY DEF Rejected
<1>2. PICK how \in {"failed", "lost"} : Resume(q, WithEnd(q.of, how))
  BY DEF Rejected
<1>3. how \in {"arrived", "failed", "lost"} /\ how # "arrived"
  BY <1>2
<1> QED BY <1>1, <1>2, <1>3, AttemptKeeps

-----------------------------------------------------------------------------
(* The other steps.                                                        *)

(* A row more.                                                             *)
LEMMA EnqueueKeeps ==
  ASSUME DeliveryInv, NEW d \in Delivery, Enqueue(d)
  PROVE  DeliveryInv'
<1> DEFINE new == Tried(d, "enqueue")
<1>1. /\ deliveries \in [Delivery -> Row] /\ passes \in [Pass -> Seq(Delivery)]
      /\ requests \subseteq Request
      /\ deliveries[d].status = "absent" /\ d \notin Present
  BY DEF DeliveryInv, Typed, Enqueue, Present
<1>2. /\ deliveries[d] \in Row
      /\ deliveries' = [deliveries EXCEPT ![d].status = "pending"]
      /\ byUpdate' = Append(byUpdate, d)
      /\ channels' = channels /\ passes' = passes /\ deaths' = deaths /\ story' = story
      /\ requests' = requests \cup {new} \/ requests' = requests
  BY <1>1 DEF Enqueue
<1>3. /\ deliveries' \in [Delivery -> Row]
      /\ deliveries'[d].status = "pending" /\ deliveries'[d].attempts = deliveries[d].attempts
      /\ \A e \in Delivery : e # d => deliveries'[e] = deliveries[e]
  BY <1>1, <1>2 DEF Row
<1>4. Present' = Present \cup {d}
  BY <1>1, <1>3 DEF Present
<1>5. Ordered(byUpdate', Present')
  BY <1>1, <1>2, <1>4, AppendedIs DEF DeliveryInv, Typed
<1>6. new \in Request /\ new.of = d /\ new.by = "enqueue" /\ new.seen = deliveries[d].attempts
  BY <1>2 DEF Tried, Request, Requester, Row
<1> HIDE DEF new
<1>7. requests' \subseteq Request /\ \A q \in requests' : q \in requests \/ q = new
  BY <1>1, <1>2, <1>6
<1>8. Typed'
  BY <1>1, <1>2, <1>3, <1>5, <1>7 DEF DeliveryInv, Typed
<1>9. /\ \A q \in requests : q.of \in Present /\ q.of # d
      /\ \A p \in Pass : \A i \in 1..Len(passes[p]) :
           passes[p][i] \in Present /\ passes[p][i] # d
      /\ deliveries[d].attempts = 0
  BY <1>1 DEF DeliveryInv, Paced
<1>10. Paced'
  <2>1. \A q \in requests' :
          /\ q.of \in Present'
          /\ q.by # "enqueue" => Len(passes'[q.by]) >= 1 /\ q.of = passes'[q.by][1]
    BY <1>2, <1>4, <1>6, <1>7 DEF DeliveryInv, Paced
  <2>2. \A q, r \in requests' : q.by = r.by /\ q.by # "enqueue" => q = r
    BY <1>6, <1>7 DEF DeliveryInv, Paced
  <2>3. ASSUME NEW p \in Pass
        PROVE  /\ \A i \in 1..Len(passes'[p]) : passes'[p][i] \in Present'
               /\ \A i, j \in 1..Len(passes'[p]) : passes'[p][i] = passes'[p][j] => i = j
               /\ Len(passes'[p]) >= 1 => \E q \in requests' : q.by = p
    BY <1>2, <1>4 DEF DeliveryInv, Paced
  <2>4. \A e \in Delivery : e \notin Present' => deliveries'[e].attempts = 0
    BY <1>3, <1>4 DEF DeliveryInv, Paced
  <2> QED BY <2>1, <2>2, <2>3, <2>4 DEF Paced
<1>11. ASSUME NEW e \in Delivery
       PROVE  Fits(deliveries'[e], story'[e], requests', passes', e)
  <2>1. Fits(deliveries[e], story[e], requests, passes, e)
    BY DEF DeliveryInv, Orderly
  <2>2. CASE e # d
    <3>1. \A q \in requests' : q.of = e => q \in requests
      BY <1>6, <1>7, <2>2
    <3>2. \A p \in Pass : Holds(passes'[p], e) => Holds(passes[p], e)
      BY <1>2
    <3>3. Fits(deliveries[e], story[e], requests', passes', e)
      BY <2>1, <3>1, <3>2, FitsFewer
    <3> QED BY <1>2, <1>3, <2>2, <3>3
  <2>3. CASE e = d
    <3> DEFINE row == deliveries'[d]
               tale == story[d]
    <3>1. /\ row.status = "pending" /\ row.attempts = 0 /\ 0 < MaxAttempts
          /\ deliveries[d].attempts = 0 /\ deliveries[d].status = "absent"
          /\ Fits(deliveries[d], tale, requests, passes, d)
      BY <1>1, <1>3, <1>9, <2>1, <2>3, NobodyIsEnqueue
    <3>2. \A q \in requests' : q.of = d => q = new /\ q.seen = 0
      BY <1>6, <1>7, <1>9
    <3>3. \A p \in Pass : ~Holds(passes'[p], d)
      BY <1>2, <1>9 DEF Holds
    <3> HIDE DEF row, tale
    <3>4. tale.upset # "raced" => tale.ended = 0
      BY <3>1 DEF Fits
    <3>5. tale.upset = "no" => tale.arrived = 0
      BY <3>1 DEF Fits
    <3>6. tale.upset \in {"no", "lost"} => tale.ended <= MaxAttempts
      BY <3>1 DEF Fits
    <3>7. Fits(row, tale, requests', passes', d)
      BY <3>1, <3>2, <3>3, <3>4, <3>5, <3>6 DEF Fits
    <3> QED BY <1>2, <2>3, <3>7 DEF row, tale
  <2> QED BY <2>2, <2>3
<1> QED BY <1>8, <1>10, <1>11 DEF DeliveryInv, Orderly

(* A pass takes rows, some of them out of other hands.                     *)
LEMMA ProcessPendingKeeps ==
  ASSUME DeliveryInv, ProcessPending
  PROVE  DeliveryInv'
<1> DEFINE rows == Taken
           told == WithTaken(rows)
<1>1. /\ Typed /\ Paced /\ Orderly
      /\ deliveries' = deliveries /\ byUpdate' = byUpdate /\ channels' = channels
      /\ deaths' = deaths /\ Present' = Present
      /\ passes \in [Pass -> Seq(Delivery)]
  BY DEF DeliveryInv, ProcessPending, Present, Typed
<1>2. PICK p \in Pass : passes[p] = <<>> /\ GoOn(p, rows, requests, told)
  BY DEF ProcessPending, IdlePasses
<1>3. /\ rows \in Seq(Delivery)
      /\ \A i, j \in 1..Len(rows) : rows[i] = rows[j] => i = j
      /\ \A i \in 1..Len(rows) : Unsettled(rows[i]) /\ rows[i] \in Present
  BY <1>1, TakenIs
<1> HIDE DEF rows
<1>4. /\ told \in [Delivery -> Story]
      /\ \A d \in Delivery :
           \/ told[d] = story[d] /\ story[d].upset = "raced"
           \/ told[d] = story[d] /\ ~(Holds(rows, d) /\ Handled(d))
           \/ /\ told[d].upset = "shared" /\ story[d].upset # "raced"
              /\ told[d].ended = story[d].ended
  BY <1>1, <1>3, TakenTold
<1>5. /\ \A q \in requests : q.by # p <=> q \in requests
      /\ requests \subseteq requests
  <2>1. Len(passes[p]) = 0 /\ p # "enqueue"
    BY <1>2, NobodyIsEnqueue
  <2> QED BY <1>1, <2>1 DEF Paced
<1> DEFINE lists == [passes EXCEPT ![p] = rows]
<1>6. lists[p] = rows /\ \A r \in Pass : r # p => lists[r] = passes[r]
  BY <1>1
<1> HIDE DEF told, lists
<1>7. ASSUME NEW d \in Delivery
      PROVE  Fits(deliveries[d], told[d], requests, lists, d)
  <2>1. Fits(deliveries[d], story[d], requests, passes, d)
    BY <1>1 DEF Orderly
  <2>2. CASE told[d] = story[d] /\ story[d].upset = "raced"
    BY <2>2 DEF Fits
  <2>3. CASE told[d] = story[d] /\ ~Holds(rows, d)
    <3>1. \A r \in Pass : Holds(lists[r], d) => Holds(passes[r], d)
      BY <1>6, <2>3
    <3> QED BY <2>1, <2>3, <3>1, FitsFewer
  <2>4. CASE told[d] = story[d] /\ Holds(rows, d) /\ ~Handled(d)
    <3>1. ~Asked(requests, d) /\ \A r \in Pass : d \notin ToSet(passes[r])
      BY <2>4 DEF Handled
    <3>2. \A r \in Pass : ~Holds(passes[r], d)
      <4>1. \A r \in Pass : Holds(passes[r], d) => d \in ToSet(passes[r])
        BY <1>1 DEF Holds, ToSet
      <4> QED BY <3>1, <4>1
    <3>3. \A r \in Pass : Holds(lists[r], d) => r = p
      BY <1>6, <3>2
    <3>4. deliveries[d].status \in {"pending", "failed"} /\ deliveries[d].attempts < MaxAttempts
      BY <1>3, <2>4 DEF Holds, Unsettled
    <3>5. \A q \in requests : q.of # d
      BY <3>1 DEF Asked
    <3>6. /\ story[d].upset \in {"no", "lost"} => story[d].ended <= MaxAttempts
          /\ story[d].upset # "raced" => deliveries[d].attempts = story[d].ended
          /\ story[d].upset = "no" =>
               \/ story[d].arrived = 0
               \/ story[d].arrived = 1 /\ deliveries[d].status = "delivered"
      BY <2>1 DEF Fits
    <3> QED BY <2>4, <3>3, <3>4, <3>5, <3>6 DEF Fits
  <2>5. CASE /\ told[d].upset = "shared" /\ story[d].upset # "raced"
             /\ told[d].ended = story[d].ended
    BY <2>1, <2>5 DEF Fits
  <2> QED BY <1>4, <2>2, <2>3, <2>4, <2>5
<1>8. /\ passes' \in [Pass -> Seq(Delivery)]
      /\ requests' \subseteq Request
      /\ story' \in [Delivery -> Story]
      /\ Paced'
  BY <1>1, <1>2, <1>3, <1>4, <1>5, PassTyped
<1>9. Typed'
  BY <1>1, <1>8 DEF Typed
<1>10. Orderly'
  <2>1. AllFit(deliveries', told, requests, lists)
    BY <1>1, <1>7 DEF AllFit
  <2>2. RowsOf(lists, p, rows) /\ Unwritten(rows)
    BY <1>1, <1>6 DEF RowsOf, Unwritten
  <2> QED BY <1>1, <1>2, <1>3, <1>4, <2>1, <2>2, PassOrderly
<1> QED BY <1>8, <1>9, <1>10 DEF DeliveryInv

(* A channel is added or deleted.                                          *)
LEMMA ChannelChangesKeeps ==
  ASSUME DeliveryInv, NEW c \in Channel, ChannelChanges(c)
  PROVE  DeliveryInv'
<1>1. /\ deliveries' = deliveries /\ byUpdate' = byUpdate /\ passes' = passes
      /\ requests' = requests /\ deaths' = deaths /\ story' = story
      /\ channels \in [Channel -> {"gone", "known", "unknown"}]
  BY DEF ChannelChanges, DeliveryInv, Typed
<1>2. channels' \in [Channel -> {"gone", "known", "unknown"}]
  BY <1>1 DEF ChannelChanges
<1> QED BY <1>1, <1>2 DEF DeliveryInv, Typed, Paced, Orderly, Present

(* The process dies.                                                       *)
LEMMA ProcessDiesKeeps ==
  ASSUME DeliveryInv, ProcessDies
  PROVE  DeliveryInv'
<1>1. /\ deliveries' = deliveries /\ byUpdate' = byUpdate /\ channels' = channels
      /\ passes' = [p \in Pass |-> <<>>] /\ requests' = {} /\ story' = WithLoss(story, requests)
      /\ deaths' = deaths + 1 /\ deaths < MaxDeaths /\ Present' = Present
  BY DEF ProcessDies, ProcessEnds, Present
<1>2. deaths' \in 0..MaxDeaths /\ story \in [Delivery -> Story]
  BY <1>1, NobodyIsEnqueue DEF DeliveryInv, Typed
<1>3. \A p \in Pass : passes'[p] = <<>> /\ Len(passes'[p]) = 0
  BY <1>1
<1>4. passes' \in [Pass -> Seq(Delivery)]
  BY <1>1
<1>5. /\ story' \in [Delivery -> Story]
      /\ \A d \in Delivery :
           \/ story'[d] = story[d]
           \/ /\ story[d].upset = "no" /\ story'[d].upset = "lost"
              /\ story'[d].ended = story[d].ended
  BY <1>1, <1>2, LossTold
<1>6. Typed'
  BY <1>1, <1>2, <1>4, <1>5 DEF DeliveryInv, Typed
<1>7. Paced'
  BY <1>1, <1>3 DEF DeliveryInv, Paced
<1>8. ASSUME NEW d \in Delivery
      PROVE  Fits(deliveries'[d], story'[d], requests', passes', d)
  <2>1. Fits(deliveries[d], story[d], requests, passes, d)
    BY DEF DeliveryInv, Orderly
  <2>2. \A p \in Pass : ~Holds(passes'[p], d)
    BY <1>3 DEF Holds
  <2>3. Fits(deliveries[d], story[d], requests', passes', d)
    BY <1>1, <2>1, <2>2, FitsFewer
  <2> QED BY <1>1, <1>5, <2>3 DEF Fits
<1> QED BY <1>6, <1>7, <1>8 DEF DeliveryInv, Orderly

-----------------------------------------------------------------------------
(* The invariant.                                                          *)

(* Nothing was sent yet.                                                   *)
LEMMA DeliveryStarts ==
  ASSUME DeliveryInit
  PROVE  DeliveryInv
<1>1. /\ deliveries = [d \in Delivery |-> [status |-> "absent", attempts |-> 0]]
      /\ byUpdate = <<>> /\ passes = [p \in Pass |-> <<>>] /\ requests = {} /\ deaths = 0
      /\ channels \in [Channel -> {"gone", "known", "unknown"}]
      /\ story = [d \in Delivery |-> Untold]
  <2>1. channels \in [Channel -> {"known", "unknown"}]
    BY DEF DeliveryInit
  <2>2. channels \in [Channel -> {"gone", "known", "unknown"}]
    BY <2>1
  <2> QED BY <2>2 DEF DeliveryInit
<1>2. /\ \A d \in Delivery : deliveries[d].status = "absent" /\ deliveries[d].attempts = 0
      /\ deliveries \in [Delivery -> Row] /\ Present = {}
  BY <1>1 DEF Row, Present
<1>3. /\ \A d \in Delivery : story[d].ended = 0 /\ story[d].arrived = 0
      /\ story \in [Delivery -> Story]
  BY <1>1 DEF Untold, Story
<1>4. Ordered(byUpdate, Present) /\ passes \in [Pass -> Seq(Delivery)]
  BY <1>1, <1>2 DEF Ordered
<1>5. Typed
  BY <1>1, <1>2, <1>3, <1>4, NobodyIsEnqueue DEF Typed
<1>6. \A p \in Pass : passes[p] = <<>> /\ Len(passes[p]) = 0
  BY <1>1
<1>7. Paced
  BY <1>1, <1>2, <1>6 DEF Paced
<1>8. ASSUME NEW d \in Delivery
      PROVE  Fits(deliveries[d], story[d], requests, passes, d)
  <2>1. ~Asked(requests, d) /\ \A p \in Pass : ~Holds(passes[p], d)
    BY <1>1, <1>6 DEF Asked, Holds
  <2> QED BY <1>1, <1>2, <1>3, <2>1, NobodyIsEnqueue DEF Fits
<1> QED BY <1>5, <1>7, <1>8 DEF DeliveryInv, Orderly

(* The invariant holds in every state.                                     *)
LEMMA DeliveryInvariance == DeliverySpec => []DeliveryInv
<1>1. DeliveryInit => DeliveryInv
  BY DeliveryStarts
<1>2. DeliveryInv /\ [DeliveryNext]_deliveryVars => DeliveryInv'
  <2> SUFFICES ASSUME DeliveryInv, [DeliveryNext]_deliveryVars PROVE DeliveryInv'
    OBVIOUS
  <2>1. ASSUME NEW d \in Delivery, Enqueue(d) PROVE DeliveryInv'
    BY <2>1, EnqueueKeeps
  <2>2. CASE ProcessPending
    BY <2>2, ProcessPendingKeeps
  <2>3. ASSUME NEW q \in requests, Accepted(q) PROVE DeliveryInv'
    BY <2>3, AcceptedKeeps
  <2>4. ASSUME NEW q \in requests, Rejected(q) PROVE DeliveryInv'
    BY <2>4, RejectedKeeps
  <2>5. ASSUME NEW c \in Channel, ChannelChanges(c) PROVE DeliveryInv'
    BY <2>5, ChannelChangesKeeps
  <2>6. CASE ProcessDies
    BY <2>6, ProcessDiesKeeps
  <2>7. CASE UNCHANGED deliveryVars
    BY <2>7 DEF deliveryVars, DeliveryInv, Typed, Paced, Orderly, Present
  <2> QED BY <2>1, <2>2, <2>3, <2>4, <2>5, <2>6, <2>7 DEF DeliveryNext
<1> QED BY <1>1, <1>2, PTL DEF DeliverySpec

(* Every variable has its type, and the rows are in the order of their     *)
(* last update, each once (saveDelivery and the query of processPending).  *)
THEOREM DeliveryTyping == DeliverySpec => []DeliveryTypeOK
<1>1. DeliveryInv => DeliveryTypeOK
  <2> SUFFICES ASSUME DeliveryInv PROVE DeliveryTypeOK
    OBVIOUS
  <2>1. Typed
    BY DEF DeliveryInv
  <2>2. /\ byUpdate \in Seq(Delivery) /\ DOMAIN byUpdate = 1..Len(byUpdate)
        /\ \A i, j \in 1..Len(byUpdate) : byUpdate[i] = byUpdate[j] => i = j
        /\ \A d \in Delivery : d \in Present <=> \E i \in 1..Len(byUpdate) : byUpdate[i] = d
    BY <2>1 DEF Typed, Ordered
  <2>3. IsInjective(byUpdate)
    BY <2>2 DEF IsInjective
  <2>4. ToSet(byUpdate) = Present
    <3>1. \A e : e \in ToSet(byUpdate) <=> \E i \in 1..Len(byUpdate) : byUpdate[i] = e
      BY <2>2 DEF ToSet
    <3>2. \A i \in 1..Len(byUpdate) : byUpdate[i] \in Delivery
      BY <2>2
    <3>3. Present \subseteq Delivery
      BY DEF Present
    <3>4. \A e : e \in ToSet(byUpdate) <=> e \in Present
      BY <2>2, <3>1, <3>2, <3>3
    <3> QED BY <3>4
  <2> QED BY <2>1, <2>2, <2>3, <2>4 DEF Typed, Row, Present, DeliveryTypeOK
<1> QED BY <1>1, DeliveryInvariance, PTL

(* The attempts of a row are those that ended, unless two requests for it  *)
(* raced; and nothing is tried more often than it may be, unless a pass    *)
(* took the row while another pass had it on its list or a request for it, *)
(* enqueue's first one included, was under way (attempt, processPending).  *)
THEOREM CountedAttempts == DeliverySpec => []AttemptsAreCounted
<1>1. DeliveryInv => AttemptsAreCounted
  <2> SUFFICES ASSUME DeliveryInv, NEW d \in Delivery
      PROVE  /\ story[d].upset # "raced" => deliveries[d].attempts = story[d].ended
             /\ story[d].upset \in {"no", "lost"} =>
                  story[d].ended + Cardinality({q \in requests : q.of = d}) <= MaxAttempts
    BY DEF AttemptsAreCounted
  <2> DEFINE asked == {q \in requests : q.of = d}
  <2>1. /\ deliveries[d].attempts \in Nat /\ story[d].ended \in Nat /\ MaxAttempts \in Nat
        /\ Fits(deliveries[d], story[d], requests, passes, d)
    BY NobodyIsEnqueue DEF DeliveryInv, Orderly, Typed, Row, Story
  <2>2. story[d].upset # "raced" => deliveries[d].attempts = story[d].ended
    BY <2>1 DEF Fits
  <2>3. ASSUME story[d].upset \in {"no", "lost"}
        PROVE  story[d].ended + Cardinality(asked) <= MaxAttempts
    <3>1. CASE Asked(requests, d)
      <4>1. PICK q \in requests : q.of = d
        BY <3>1 DEF Asked
      <4>2. asked = {q}
        BY <2>1, <2>3, <4>1 DEF Fits
      <4>3. Cardinality(asked) = 1
        BY <4>2, FS_Singleton
      <4>4. story[d].ended < MaxAttempts
        BY <2>1, <2>2, <2>3, <3>1 DEF Fits
      <4> HIDE DEF asked
      <4> QED BY <2>1, <4>3, <4>4
    <3>2. CASE ~Asked(requests, d)
      <4>1. asked = {}
        BY <3>2 DEF Asked
      <4>2. Cardinality(asked) = 0
        BY <4>1, FS_EmptySet
      <4>3. story[d].ended <= MaxAttempts
        BY <2>1, <2>3 DEF Fits
      <4> HIDE DEF asked
      <4> QED BY <2>1, <4>2, <4>3
    <3> QED BY <3>1, <3>2
  <2> QED BY <2>2, <2>3
<1> QED BY <1>1, DeliveryInvariance, PTL

(* A platform gets a message twice only when the answer to a request got   *)
(* lost, be it with the process, or a pass took the row while another pass *)
(* had it on its list or a request for it, enqueue's first one included,   *)
(* was under way (attempt, processPending).                                *)
THEOREM OneSending == DeliverySpec => []SentOnce
<1>1. DeliveryInv => SentOnce
  <2> SUFFICES ASSUME DeliveryInv, NEW d \in Delivery, story[d].upset = "no"
      PROVE  story[d].arrived <= 1
    BY DEF SentOnce
  <2>1. story[d].arrived = 0 \/ story[d].arrived = 1
    BY DEF DeliveryInv, Orderly, Fits
  <2> QED BY <2>1
<1> QED BY <1>1, DeliveryInvariance, PTL
=============================================================================
