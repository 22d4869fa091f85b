-------------------------- MODULE ChannelDelivery --------------------------
(***************************************************************************)
(* Outbound messages of the channels (channels.ts).  A message is a row of *)
(* channel_deliveries; enqueue tries it at once, and every five seconds    *)
(* processPending tries the first rows that are not delivered, one after   *)
(* the other, without looking whether the previous pass has ended.         *)
(*                                                                         *)
(* An attempt reads how often the row was tried before the request and     *)
(* writes that number plus one after it.  The request of an attempt may    *)
(* reach the platform although its answer gets lost.  What an attempt      *)
(* throws outside its `try` rejects the promise of the pass, which nobody  *)
(* handles: the process ends and is started again.                         *)
(*                                                                         *)
(* `retry`, which nothing in src/ calls, is left out.                      *)
(***************************************************************************)
EXTENDS Naturals, Sequences, FiniteSets, SequencesExt, Selection

CONSTANTS
  Channel,
  Delivery,      \* rows of channel_deliveries
  ChannelOf,     \* the channel of each row
  Pass,          \* passes under way at the same time
  MaxAttempts,   \* rows tried this often are left alone: 5
  Window,        \* rows a pass takes: 20
  MaxDeaths      \* bound: ends of the process from outside

ASSUME DeliveryAssumption ==
  /\ ChannelOf \in [Delivery -> Channel]
  /\ "enqueue" \notin Pass
  /\ MaxAttempts \in Nat \ {0} /\ Window \in Nat \ {0}
  /\ MaxDeaths \in Nat

VARIABLES
  deliveries,  \* status and attempts of each row
  byUpdate,    \* the rows, least recently updated first
  channels,    \* the configuration: gone, of a known type, or of another
  passes,      \* the rows each pass has still to try, the current one first
  requests,    \* the requests under way
  deaths,
  story        \* history: what happened to each row

deliveryVars == <<deliveries, byUpdate, channels, passes, requests, deaths, story>>

Requester == Pass \cup {"enqueue"}
Request == [of: Delivery, seen: Nat, by: Requester]

(* Of a row: the attempts that ended; how often the platform got it; and   *)
(* the worst that happened to it: the answer to a request was lost, a pass *)
(* took it out of other hands, two requests for it raced.  Arrivals are    *)
(* told until something happened, attempts until a race.                   *)
Story == [ended: Nat, arrived: Nat, upset: {"no", "lost", "shared", "raced"}]
Untold == [ended |-> 0, arrived |-> 0, upset |-> "no"]
Upset(row, how) == [ended |-> IF how = "raced" THEN 0 ELSE row.ended,
                    arrived |-> 0, upset |-> how]

(* Nothing bounds the attempts of passes that overlap: a slow one may      *)
(* lower what is stored, which lets others take the row again, and a later *)
(* one raise it beyond MaxAttempts.                                        *)
DeliveryTypeOK ==
  /\ deliveries \in [Delivery -> [status: {"absent", "pending", "delivered", "failed"},
                                  attempts: Nat]]
  /\ byUpdate \in Seq(Delivery) /\ IsInjective(byUpdate)
  /\ ToSet(byUpdate) = {d \in Delivery : deliveries[d].status # "absent"}
  /\ channels \in [Channel -> {"gone", "known", "unknown"}]
  /\ passes \in [Pass -> Seq(Delivery)]
  /\ requests \subseteq Request
  /\ deaths \in 0..MaxDeaths
  /\ story \in [Delivery -> Story]

DeliveryInit ==
  /\ deliveries = [d \in Delivery |-> [status |-> "absent", attempts |-> 0]]
  /\ byUpdate = <<>>
  /\ channels \in [Channel -> {"known", "unknown"}]
  /\ passes = [p \in Pass |-> <<>>]
  /\ requests = {}
  /\ deaths = 0
  /\ story = [d \in Delivery |-> Untold]

-----------------------------------------------------------------------------
Supported(d) == channels[ChannelOf[d]] = "known"
Configured(d) == channels[ChannelOf[d]] # "gone"

(* Mutant: the status is not asked for.                                    *)
Unsettled_AnyStatus(d) == deliveries[d].attempts < MaxAttempts

Unsettled(d) ==
  /\ deliveries[d].status \in {"pending", "failed"}
  /\ deliveries[d].attempts < MaxAttempts

Touched(d) ==
  Append(Kept(byUpdate, {i \in DOMAIN byUpdate : byUpdate[i] # d}), d)

Asked(asked, d) == \E q \in asked : q.of = d
Handled(d) == Asked(requests, d) \/ \E p \in Pass : d \in ToSet(passes[p])

(* The history when a pass takes these rows.                               *)
WithTaken(rows) ==
  [d \in Delivery |-> IF d \in ToSet(rows) /\ Handled(d) /\ story[d].upset # "raced"
                     THEN Upset(story[d], "shared") ELSE story[d]]

(* A request for d starts beside the others.                               *)
WithTry(told, others, d) ==
  IF Asked(others, d) THEN [told EXCEPT ![d] = Upset(@, "raced")] ELSE told

(* The answers to these requests are never read.                           *)
WithLoss(told, asked) ==
  [d \in Delivery |-> IF Asked(asked, d) /\ told[d].upset = "no"
                     THEN Upset(told[d], "lost") ELSE told[d]]

(* An attempt for d ends: the platform got the message and said so, got it *)
(* and the answer was lost, or did not get it.                             *)
WithEnd(d, how) ==
  LET row == IF story[d].upset = "raced" THEN story[d] ELSE [story[d] EXCEPT !.ended = @ + 1]
  IN [story EXCEPT ![d] =
        IF row.upset = "no" /\ how = "lost" THEN Upset(row, "lost")
        ELSE IF row.upset = "no" /\ how = "arrived" THEN [row EXCEPT !.arrived = @ + 1]
        ELSE row]

(* The rows a pass takes, without those whose channel is gone.             *)
Taken == LET rows == Kept(byUpdate, {i \in DOMAIN byUpdate : Unsettled(byUpdate[i])})
         IN SubSeq(rows, 1, IF Len(rows) < Window THEN Len(rows) ELSE Window)

(* Mutant: a row whose channel is gone ends the pass.                      *)
FromConfigured_Stops(rows) ==
  IF rows # <<>> /\ ~Configured(Head(rows)) THEN <<>> ELSE rows

(* The rest of a pass, from the next row with a channel on.                *)
FromConfigured(rows) ==
  LET skipped == {i \in 0..Len(rows) : \A j \in 1..i : ~Configured(rows[j])}
  IN SubSeq(rows, Max(skipped) + 1, Len(rows))

Tried(d, by) == [of |-> d, seen |-> deliveries[d].attempts, by |-> by]

(* The process ends, with everything it had in memory: the answers to the  *)
(* requests under way are lost.                                            *)
ProcessEnds(asked, told) ==
  /\ passes' = [p \in Pass |-> <<>>]
  /\ requests' = {}
  /\ story' = WithLoss(told, asked)

(* A pass p goes on with these rows, beside the other requests; `told` is  *)
(* what happened so far.                                                   *)
GoOn(p, rows, others, told) ==
  LET rest == FromConfigured(rows) IN
  \/ /\ rest = <<>>
     /\ passes' = [passes EXCEPT ![p] = <<>>]
     /\ requests' = others
     /\ story' = told
  \/ /\ rest # <<>> /\ Supported(Head(rest))
     /\ passes' = [passes EXCEPT ![p] = rest]
     /\ requests' = others \cup {Tried(Head(rest), p)}
     /\ story' = WithTry(told, others, Head(rest))
  \/ /\ rest # <<>> /\ ~Supported(Head(rest))
     /\ ProcessEnds(others, told)

-----------------------------------------------------------------------------
(* The type of the channel in the hands of a caller, who may have read the *)
(* configuration long ago: the channel may be gone since.                  *)
Captured(c) == IF channels[c] = "gone" THEN {"known", "unknown"} ELSE {channels[c]}

(* enqueue: without an adapter the caller gets an error, the row stays.    *)
Enqueue(d) ==
  /\ deliveries[d].status = "absent"
  /\ deliveries' = [deliveries EXCEPT ![d].status = "pending"]
  /\ byUpdate' = Append(byUpdate, d)
  /\ \/ /\ "known" \in Captured(ChannelOf[d])
        /\ requests' = requests \cup {Tried(d, "enqueue")}
     \/ "unknown" \in Captured(ChannelOf[d]) /\ UNCHANGED requests
  /\ UNCHANGED <<channels, passes, deaths, story>>

IdlePasses == {p \in Pass : passes[p] = <<>>}

(* The timer rings: processPending up to its first request.  The query is  *)
(* made once.                                                              *)
ProcessPending ==
  /\ IdlePasses # {}
  /\ \E rows \in {Taken} :
       /\ FromConfigured(rows) # <<>>
       /\ GoOn(CHOOSE p \in IdlePasses : TRUE, rows, requests, WithTaken(rows))
  /\ UNCHANGED <<deliveries, byUpdate, channels, deaths>>

(* Mutant: a failed attempt is not counted.                                *)
AttemptEnds_Uncounted(q, status) ==
  /\ deliveries' = [deliveries EXCEPT ![q.of] =
       [status |-> status, attempts |-> IF status = "failed" THEN q.seen ELSE q.seen + 1]]
  /\ byUpdate' = Touched(q.of)

(* The end of attempt: the row is written without looking at it again.     *)
AttemptEnds(q, status) ==
  /\ deliveries' = [deliveries EXCEPT ![q.of] =
       [status |-> status, attempts |-> q.seen + 1]]
  /\ byUpdate' = Touched(q.of)

(* The attempt is over, and its pass goes on with the next row.            *)
Resume(q, told) ==
  IF q.by = "enqueue"
  THEN requests' = requests \ {q} /\ story' = told /\ UNCHANGED passes
  ELSE GoOn(q.by, Tail(passes[q.by]), requests \ {q}, told)

Accepted(q) ==
  /\ AttemptEnds(q, "delivered")
  /\ Resume(q, WithEnd(q.of, "arrived"))
  /\ UNCHANGED <<channels, deaths>>

(* The request fails, before or after the platform got the message.        *)
Rejected(q) ==
  /\ AttemptEnds(q, "failed")
  /\ \E how \in {"failed", "lost"} : Resume(q, WithEnd(q.of, how))
  /\ UNCHANGED <<channels, deaths>>

(* A channel is deleted, or added by a route that knows the types; only a  *)
(* configuration file written by hand has others.                          *)
ChannelChanges(c) ==
  /\ channels' = [channels EXCEPT ![c] = IF @ = "gone" THEN "known" ELSE "gone"]
  /\ UNCHANGED <<deliveries, byUpdate, passes, requests, deaths, story>>

ProcessDies ==
  /\ deaths < MaxDeaths /\ requests # {}
  /\ deaths' = deaths + 1
  /\ ProcessEnds(requests, story)
  /\ UNCHANGED <<deliveries, byUpdate, channels>>

DeliveryNext ==
  \/ \E d \in Delivery : Enqueue(d)
  \/ ProcessPending
  \/ \E q \in requests : Accepted(q) \/ Rejected(q)
  \/ \E c \in Channel : ChannelChanges(c)
  \/ ProcessDies

DeliverySpec == DeliveryInit /\ [][DeliveryNext]_deliveryVars

(* The timer of five seconds keeps ringing, and every request ends, by its *)
(* answer or by an error of the connection.                                *)
DeliveryFairness ==
  /\ WF_deliveryVars(ProcessPending)
  /\ \A d \in Delivery :
       WF_deliveryVars(\E q \in requests : q.of = d /\ (Accepted(q) \/ Rejected(q)))

-----------------------------------------------------------------------------
(* The attempts stored with a row are those that ended, unless two         *)
(* requests for it were under way at once; and nothing is tried more than  *)
(* MaxAttempts times, unless a pass took the row while another pass had it *)
(* on its list, or while a request for it, enqueue's first one included,   *)
(* was under way.  Passes that overlap without that, and the end of the    *)
(* process, change nothing of this (attempt, processPending).              *)
AttemptsAreCounted ==
  \A d \in Delivery :
    /\ story[d].upset # "raced" => deliveries[d].attempts = story[d].ended
    /\ story[d].upset \in {"no", "lost"} =>
         story[d].ended + Cardinality({q \in requests : q.of = d}) <= MaxAttempts

(* A platform gets a message twice only when the answer to a request got   *)
(* lost, be it with the process, or a pass took the row while another pass *)
(* had it on its list or a request for it, enqueue's first one included,   *)
(* was under way (processPending asks for the status before it takes a     *)
(* row, and not again before it tries it).                                 *)
SentOnce ==
  \A d \in Delivery : story[d].upset = "no" => story[d].arrived <= 1

(* The rows in front of every pass that no pass ever tries.                *)
Blocked ==
  \/ \E d \in Delivery : Unsettled(d) /\ channels[ChannelOf[d]] = "unknown"
  \/ Cardinality({d \in Delivery : Unsettled(d) /\ ~Configured(d)}) >= Window

(* A message of a channel in use is delivered or given up, whatever passes *)
(* overlap and whatever answers come late, unless rows that cannot be      *)
(* tried fill the window (processPending).                                 *)
DeliverySettles ==
  \A d \in Delivery :
    Unsettled(d) ~> ~Unsettled(d) \/ ~Configured(d) \/ Blocked
=============================================================================
