------------------------ MODULE HarnessRunnerProofs ------------------------
(***************************************************************************)
(* Proofs about a durable run: its types, and that no tool call of it is   *)
(* answered twice or before a person decided, for any number of surfaces,  *)
(* calls and crashes.                                                      *)
(*                                                                         *)
(* The argument: the rows stay well formed (RowsInv), so resumeMessages    *)
(* yields one answer for every open placeholder and none for an answered   *)
(* call (RebuiltIsWellFormed, PersistedAnswers).  What a loop answers, the *)
(* rows answer too, or will before it asks the model (ContextInv), and no  *)
(* thread stores an answer to a call that another one runs, has stored, or *)
(* a person is asked about (WorkInv, UnsavedInv, ApprovalsInv).            *)
(*                                                                         *)
(* The second half is about a run that nobody resumes by hand, whose model *)
(* asks for one call at a time (Serial): one thread at most is under way,  *)
(* beside surfaces that repair the memory of the agent, and a person is    *)
(* asked only when it ends (Control).  So one loop drives the run, every   *)
(* call it asked for is met until a crash (CallsMet), the rounds are       *)
(* counted (RoundsInv), and, if nothing is repaired, no tool is started    *)
(* behind an answer (StartedInv).                                          *)
(***************************************************************************)
EXTENDS HarnessRunner, SelectionProofs, SequenceTheorems, FiniteSetTheorems,
        TLAPS

-----------------------------------------------------------------------------
(* The conversation from the stored rows                                   *)

PlaceholdersIn(messages, c) ==
  {i \in DOMAIN messages : messages[i].kind = "placeholder" /\ c \in messages[i].calls}

(* A tool row is for one call; a call has at most one answer and at most one
   placeholder, and both come after the message that asks for it. *)
WellFormed(messages) ==
  /\ \A i \in DOMAIN messages :
       messages[i].kind # "asks" => \E c \in Call : messages[i].calls = {c}
  /\ \A c \in Call :
       /\ \A i, j \in AnswersIn(messages, c) : i = j
       /\ \A i, j \in PlaceholdersIn(messages, c) : i = j
       /\ \A i \in AnswersIn(messages, c) \cup PlaceholdersIn(messages, c) :
            \E j \in AsksIn(messages, c) : j < i

(* A function on 1..n is a sequence. *)
LEMMA FunctionIsSequence ==
  ASSUME NEW S, NEW n \in Nat, NEW f \in [1..n -> S]
  PROVE  f \in Seq(S)
  <1>1. f \in UNION {[1..k -> S] : k \in Nat}
    OBVIOUS
  <1>2. QED
    BY <1>1, SeqDef

(* A message and the same message with an answer in place of the placeholder. *)
LEMMA AnswerToMessage ==
  ASSUME NEW m \in Message
  PROVE  /\ AnswerTo(m) \in Message
         /\ AnswerTo(m).calls = m.calls
         /\ AnswerTo(m).kind \in Answer
  <1>1. PICK kind \in Answer : AnswerTo(m) = [m EXCEPT !.kind = kind]
    BY DEF AnswerTo, Answer
  <1>2. AnswerTo(m) = [kind |-> kind, calls |-> m.calls] /\ m.calls \in SUBSET Call
    BY <1>1 DEF Message
  <1>3. QED
    BY <1>2 DEF Message

(* Message i of a result is message h[i] of the rows, in their order, and
   answered if that one is open. *)
TracedTo(h, kept, result) ==
  /\ h \in [DOMAIN result -> kept]
  /\ \A i, j \in DOMAIN result : h[i] = h[j] => i = j
  /\ \A i, j \in DOMAIN result : h[i] < h[j] => i < j
  /\ \A k \in kept : \E i \in DOMAIN result : h[i] = k
  /\ \A i \in DOMAIN result :
       /\ result[i].calls = rows[h[i]].calls
       /\ IsOpen(rows[h[i]]) => result[i].kind \in Answer /\ result[i] = AnswerTo(rows[h[i]])
       /\ ~IsOpen(rows[h[i]]) => result[i] = rows[h[i]]

(* What keeping some rows and answering the open ones gives. *)
LEMMA AnsweredRows ==
  ASSUME rows \in Seq(Message), NEW kept \in SUBSET DOMAIN rows
  PROVE  /\ Answered(Kept(rows, kept)) \in Seq(Message)
         /\ \E h : TracedTo(h, kept, Answered(Kept(rows, kept)))
  <1> DEFINE s == Kept(rows, kept)
             result == Answered(s)
  <1>1. s \in Seq(Message)
    BY KeptInOrder
  <1>2. PICK h : Picks(h, rows, kept, s)
    BY KeptInOrder
  <1> HIDE DEF s
  <1>3. DOMAIN s = 1..Len(s) /\ Len(s) \in Nat /\ \A i \in 1..Len(s) : s[i] \in Message
    BY <1>1
  <1>4. /\ h \in [1..Len(s) -> kept]
        /\ \A i \in 1..Len(s) : s[i] = rows[h[i]]
        /\ \A i, j \in 1..Len(s) : i < j => h[i] < h[j]
        /\ \A k \in kept : \E i \in 1..Len(s) : h[i] = k
    BY <1>2 DEF Picks
  <1>5. /\ DOMAIN result = 1..Len(s)
        /\ \A i \in 1..Len(s) :
             result[i] = IF IsOpen(s[i]) THEN AnswerTo(s[i]) ELSE s[i]
    BY <1>3 DEF Answered
  <1>6. result \in [1..Len(s) -> Message]
    <2>1. \A i \in 1..Len(s) : result[i] \in Message
      BY <1>3, <1>5, AnswerToMessage
    <2>2. result = [i \in 1..Len(s) |-> result[i]]
      BY <1>3 DEF Answered
    <2> HIDE DEF result
    <2>3. QED
      BY <2>1, <2>2
  <1> HIDE DEF result
  <1>7. result \in Seq(Message)
    <2>1. PICK n \in Nat : n = Len(s)
      BY <1>3
    <2>2. result \in [1..n -> Message]
      BY <1>6, <2>1
    <2>3. QED
      BY <2>2, FunctionIsSequence
  <1>8. \A i \in 1..Len(s) : h[i] \in Nat
    BY <1>4
  <1>9. \A i, j \in 1..Len(s) : /\ h[i] = h[j] => i = j
                                /\ h[i] < h[j] => i < j
    <2> SUFFICES ASSUME NEW i \in 1..Len(s), NEW j \in 1..Len(s)
                 PROVE  (h[i] = h[j] => i = j) /\ (h[i] < h[j] => i < j)
      OBVIOUS
    <2>1. h[i] \in Nat /\ h[j] \in Nat /\ i \in Nat /\ j \in Nat
      BY <1>3, <1>8
    <2>2. (i < j => h[i] < h[j]) /\ (j < i => h[j] < h[i])
      BY <1>4
    <2>3. QED
      BY <2>1, <2>2
  <1>10. \A i \in 1..Len(s) :
           /\ result[i].calls = rows[h[i]].calls
           /\ IsOpen(rows[h[i]]) =>
                result[i].kind \in Answer /\ result[i] = AnswerTo(rows[h[i]])
           /\ ~IsOpen(rows[h[i]]) => result[i] = rows[h[i]]
    BY <1>3, <1>4, <1>5, AnswerToMessage
  <1>11. TracedTo(h, kept, result)
    <2>1. DOMAIN result = 1..Len(s)
      BY <1>5
    <2>2. h \in [DOMAIN result -> kept]
      BY <1>4, <2>1, Zenon
    <2>3. QED
      BY <1>4, <1>9, <1>10, <2>1, <2>2, Zenon DEF TracedTo
  <1>12. QED
    BY <1>7, <1>11 DEF result, s

(* The conversation a resumed loop starts from has no placeholder, answers
   no call twice or too early, and answers only calls the rows answer or
   hold an open placeholder for. *)
LEMMA RebuiltIsWellFormed ==
  ASSUME rows \in Seq(Message), WellFormed(rows)
  PROVE  /\ RebuiltMessages \in Seq(Message)
         /\ WellFormed(RebuiltMessages)
         /\ \A c \in Call : PlaceholdersIn(RebuiltMessages, c) = {}
         /\ \A c \in Call : AnswersIn(RebuiltMessages, c) # {} => c \in Stored \cup OpenCalls
         /\ \A i \in DOMAIN RebuiltMessages : RebuiltMessages[i].kind # "placeholder"
  <1> DEFINE kept   == {i \in DOMAIN rows : rows[i].kind # "placeholder" \/ IsOpen(rows[i])}
             result == RebuiltMessages
  <1>1. kept \in SUBSET DOMAIN rows /\ result = Answered(Kept(rows, kept))
    BY DEF RebuiltMessages
  <1>2. result \in Seq(Message)
    BY <1>1, AnsweredRows
  <1>3. PICK h : TracedTo(h, kept, result)
    BY <1>1, AnsweredRows
  <1> HIDE DEF result
  <1> USE <1>3 DEF TracedTo
  <1>4. \A i \in DOMAIN result :
          /\ h[i] \in DOMAIN rows
          /\ rows[h[i]].kind = "placeholder" => IsOpen(rows[h[i]])
    BY <1>3
  <1> HIDE DEF kept
  <1>5. \A m : IsOpen(m) => m.kind = "placeholder" /\ m.calls \cap Stored = {}
    BY DEF IsOpen
  <1>6. \A i \in DOMAIN result : result[i].kind # "placeholder"
    BY <1>3, <1>4, <1>5 DEF Answer
  <1>7. ASSUME NEW c \in Call, NEW i \in AnswersIn(result, c)
        PROVE  \/ h[i] \in AnswersIn(rows, c) /\ c \in Stored
               \/ /\ h[i] \in PlaceholdersIn(rows, c) /\ IsOpen(rows[h[i]])
                  /\ c \in OpenCalls /\ c \notin Stored
    <2>1. i \in DOMAIN result /\ result[i].kind \in Answer /\ c \in result[i].calls
      BY DEF AnswersIn
    <2>2. h[i] \in DOMAIN rows /\ c \in rows[h[i]].calls
      BY <1>3, <1>4, <2>1
    <2>3. CASE IsOpen(rows[h[i]])
      BY <1>5, <2>2, <2>3 DEF PlaceholdersIn, OpenCalls
    <2>4. CASE ~IsOpen(rows[h[i]])
      BY <1>3, <2>1, <2>2, <2>4 DEF AnswersIn, Stored
    <2>5. QED
      BY <2>3, <2>4
  <1>8. ASSUME NEW c \in Call, NEW i \in AnswersIn(result, c), NEW j \in AnswersIn(result, c)
        PROVE  i = j
    <2>1. i \in DOMAIN result /\ j \in DOMAIN result
      BY DEF AnswersIn
    <2>2. h[i] = h[j]
      BY <1>7 DEF WellFormed
    <2>3. QED
      BY <1>3, <2>1, <2>2
  <1>9. ASSUME NEW c \in Call, NEW i \in AnswersIn(result, c)
        PROVE  \E j \in AsksIn(result, c) : j < i
    <2>1. h[i] \in AnswersIn(rows, c) \cup PlaceholdersIn(rows, c)
      BY <1>7
    <2>2. PICK k \in AsksIn(rows, c) : k < h[i]
      BY <2>1 DEF WellFormed
    <2>3. k \in DOMAIN rows /\ rows[k].kind = "asks" /\ c \in rows[k].calls
      BY DEF AsksIn
    <2>4. k \in kept /\ ~IsOpen(rows[k])
      BY <2>3 DEF kept, IsOpen
    <2>5. PICK j \in DOMAIN result : h[j] = k
      BY <1>3, <2>4
    <2>6. result[j] = rows[k]
      BY <1>3, <2>4, <2>5
    <2>7. j \in AsksIn(result, c)
      BY <2>3, <2>6 DEF AsksIn
    <2>8. j < i
      BY <1>3, <2>2, <2>5 DEF AnswersIn
    <2>9. QED
      BY <2>7, <2>8
  <1>10. ASSUME NEW i \in DOMAIN result, result[i].kind # "asks"
         PROVE  \E c \in Call : result[i].calls = {c}
    <2>1. h[i] \in DOMAIN rows /\ rows[h[i]].kind # "asks"
      BY <1>3, <1>4, <1>5, <1>10
    <2>2. QED
      BY <1>3, <2>1 DEF WellFormed
  <1>11. \A c \in Call : PlaceholdersIn(result, c) = {}
    BY <1>6 DEF PlaceholdersIn
  <1>12. WellFormed(result)
    BY <1>8, <1>9, <1>10, <1>11 DEF WellFormed
  <1>13. QED
    BY <1>2, <1>6, <1>7, <1>11, <1>12 DEF result

(* What is stored for it: one answer for every open placeholder. *)
LEMMA PersistedAnswers ==
  ASSUME rows \in Seq(Message), WellFormed(rows)
  PROVE  /\ MessagesToPersist \in Seq(Message)
         /\ \A i \in DOMAIN MessagesToPersist :
              /\ MessagesToPersist[i].kind \in Answer
              /\ \E c \in OpenCalls : MessagesToPersist[i].calls = {c}
         /\ \A i, j \in DOMAIN MessagesToPersist :
              MessagesToPersist[i].calls = MessagesToPersist[j].calls => i = j
         /\ \A c \in OpenCalls :
              \E i \in DOMAIN MessagesToPersist : MessagesToPersist[i].calls = {c}
  <1> DEFINE kept   == {i \in DOMAIN rows : IsOpen(rows[i])}
             result == MessagesToPersist
  <1>1. kept \in SUBSET DOMAIN rows /\ result = Answered(Kept(rows, kept))
    BY DEF MessagesToPersist
  <1>2. result \in Seq(Message)
    BY <1>1, AnsweredRows
  <1>3. PICK h : TracedTo(h, kept, result)
    BY <1>1, AnsweredRows
  <1> HIDE DEF result
  <1> USE <1>3 DEF TracedTo
  <1>4. ASSUME NEW k \in kept
        PROVE  \E c \in OpenCalls : rows[k].calls = {c} /\ k \in PlaceholdersIn(rows, c)
    <2>1. k \in DOMAIN rows /\ IsOpen(rows[k]) /\ rows[k].kind = "placeholder"
      BY DEF IsOpen
    <2>2. PICK c \in Call : rows[k].calls = {c}
      BY <2>1 DEF WellFormed
    <2>3. QED
      BY <2>1, <2>2 DEF PlaceholdersIn, OpenCalls
  <1>5. ASSUME NEW c \in OpenCalls
        PROVE  \E k \in kept : rows[k].calls = {c}
    <2>1. PICK k \in DOMAIN rows : IsOpen(rows[k]) /\ c \in rows[k].calls
      BY DEF OpenCalls
    <2>2. PICK d : rows[k].calls = {d}
      BY <1>4, <2>1
    <2>3. QED
      BY <2>1, <2>2
  <1>6. \A i \in DOMAIN result : h[i] \in kept /\ IsOpen(rows[h[i]])
    BY <1>3
  <1> HIDE DEF kept
  <1>7. ASSUME NEW i \in DOMAIN result
        PROVE  result[i].kind \in Answer /\ \E c \in OpenCalls : result[i].calls = {c}
    BY <1>3, <1>4, <1>6
  <1>8. ASSUME NEW i \in DOMAIN result, NEW j \in DOMAIN result, result[i].calls = result[j].calls
        PROVE  i = j
    <2>1. PICK c \in OpenCalls : rows[h[i]].calls = {c} /\ h[i] \in PlaceholdersIn(rows, c)
      BY <1>4, <1>6
    <2>2. PICK d \in OpenCalls : rows[h[j]].calls = {d} /\ h[j] \in PlaceholdersIn(rows, d)
      BY <1>4, <1>6
    <2>3. result[i].calls = {c} /\ result[j].calls = {d} /\ c \in Call
      BY <2>1, <2>2 DEF OpenCalls
    <2>4. c = d
      BY <1>8, <2>3
    <2>5. h[i] = h[j]
      BY <2>1, <2>2, <2>3, <2>4 DEF WellFormed
    <2>6. QED
      BY <2>5
  <1>9. ASSUME NEW c \in OpenCalls
        PROVE  \E i \in DOMAIN result : result[i].calls = {c}
    <2>1. PICK k \in kept : rows[k].calls = {c}
      BY <1>5
    <2>2. PICK i \in DOMAIN result : h[i] = k
      OBVIOUS
    <2>3. QED
      BY <2>1, <2>2
  <1>10. QED
    BY <1>2, <1>7, <1>8, <1>9 DEF result

-----------------------------------------------------------------------------
(* Types                                                                   *)

(* A loop that runs a tool or records a call has one to run, and a surface
   that acts on an answer knows which call it is about. *)
Places ==
  \A t \in Thread :
    /\ pc[t] \in {"record", "tool"} => work[t] # {}
    /\ pc[t] \in {"saving", "answered", "approved_tool"} => job[t] # 0

Typing == TypeOK /\ Places

(* The next call of a round is one of the round. *)
LEMMA NextCallIsWork ==
  ASSUME TypeOK, NEW t \in Thread, work[t] # {}
  PROVE  NextCall(t) \in work[t] /\ NextCall(t) \in Call
  <1>1. work[t] \subseteq Call /\ work[t] \subseteq Nat
    BY DEF TypeOK, Call
  <1>2. \E c \in work[t] : \A d \in work[t] : c <= d
    BY <1>1, LeastNumber
  <1>3. QED
    BY <1>1, <1>2 DEF NextCall

(* What may happen in a behaviour is one of the settings. *)
LEMMA SettingTypes ==
  ASSUME TypeOK
  PROVE  Offered \subseteq Decision /\ MaxCrashes \in Nat
  BY RunnerAssumption DEF TypeOK, Offered, MaxCrashes

(* The turn and the surfaces are threads; no thread is NoThread. *)
LEMMA Threads ==
  /\ Turn \in Thread
  /\ \A t \in Surface : t \in Thread
  /\ \A t \in Thread : t # NoThread
  BY RunnerAssumption DEF Thread

(* The conjuncts of the types that are about the event loop. *)
Sections == \A t \in Thread : pc[t] \in Section <=> busy = t

LoopTypes ==
  /\ busy \in Thread \cup {NoThread}
  /\ pc \in [Thread -> Awaiting \cup Section]
  /\ Sections
  /\ Places

(* The types hold before the run exists. *)
LEMMA InitTyping == Init => Typing
  <1> SUFFICES ASSUME Init PROVE Typing
    OBVIOUS
  <1>1. TypeOK
    BY RunnerAssumption, Threads DEF Init, TypeOK, MaxCrashes, Awaiting, Section, CallStatus
  <1>2. QED
    BY <1>1 DEF Init, Typing, Places

(* A step that moves one thread keeps the event loop to one thread. *)
LEMMA EnterTypes ==
  ASSUME Typing, NEW t \in Thread, NEW label \in Section, Enter(t, label),
         label = "record" => work'[t] # {}, label = "answered" => job'[t] # 0,
         \A u \in Thread \ {t} : work'[u] = work[u] /\ job'[u] = job[u]
  PROVE  LoopTypes'
  <1>1. pc \in [Thread -> Awaiting \cup Section] /\ Sections /\ Places
    BY DEF Typing, TypeOK, Sections
  <1>2. busy = NoThread /\ busy' = t /\ pc' = [pc EXCEPT ![t] = label]
    BY DEF Enter
  <1>3. QED
    BY <1>1, <1>2, Threads DEF LoopTypes, Sections, Places, Section

(* A thread that goes on within its section. *)
LEMMA GotoTypes ==
  ASSUME Typing, NEW t \in Thread, pc[t] \in Section, NEW label \in Section, Goto(t, label),
         label = "record" => work'[t] # {}, label = "answered" => job'[t] # 0,
         \A u \in Thread \ {t} : work'[u] = work[u] /\ job'[u] = job[u]
  PROVE  LoopTypes'
  <1>1. pc \in [Thread -> Awaiting \cup Section] /\ Sections /\ Places
    BY DEF Typing, TypeOK, Sections
  <1>2. busy = t /\ busy' = t /\ pc' = [pc EXCEPT ![t] = label]
    BY <1>1 DEF Goto, Sections
  <1>3. QED
    BY <1>1, <1>2 DEF LoopTypes, Sections, Places, Section

(* A thread that gives up the event loop. *)
LEMMA AwaitTypes ==
  ASSUME Typing, NEW t \in Thread, pc[t] \in Section \/ busy = NoThread,
         NEW label \in Awaiting, Await(t, label),
         label = "tool" => work'[t] # {}, label \in {"saving", "approved_tool"} => job'[t] # 0,
         \A u \in Thread \ {t} : work'[u] = work[u] /\ job'[u] = job[u]
  PROVE  LoopTypes'
  <1>1. pc \in [Thread -> Awaiting \cup Section] /\ Sections /\ Places
    BY DEF Typing, TypeOK, Sections
  <1>2. busy \in {t, NoThread} /\ busy' = NoThread /\ pc' = [pc EXCEPT ![t] = label]
    BY <1>1 DEF Await, Sections
  <1>3. Awaiting \cap Section = {}
    BY DEF Awaiting, Section
  <1>4. \A u \in Thread : pc'[u] \notin Section
    BY <1>1, <1>2, <1>3, Threads DEF Sections
  <1>5. QED
    BY <1>1, <1>2, <1>4, Threads DEF LoopTypes, Sections, Places, Awaiting, Section

(* Which labels are between two awaits, and which are not. *)
LEMMA Labels ==
  /\ "idle" \in Awaiting
  /\ "model" \in Awaiting
  /\ "tool" \in Awaiting
  /\ "saving" \in Awaiting
  /\ "approved_tool" \in Awaiting
  /\ "begin" \in Section
  /\ "request" \in Section
  /\ "finish" \in Section
  /\ "fail" \in Section
  /\ "abort" \in Section
  /\ "calls" \in Section
  /\ "record" \in Section
  /\ "answered" \in Section
  /\ "check" \in Section
  /\ "resume" \in Section
  /\ "persist" \in Section
  /\ "heal" \in Section
  BY DEF Awaiting, Section

(* The conjuncts that are about the data. *)
DataTypes ==
  /\ setting \in Settings
  /\ run \in RunStatus \cup {"absent"}
  /\ rows \in Seq(Message)
  /\ toolCalls \in [Call -> CallStatus]
  /\ approvals \in [Call -> {"none", "pending"} \cup Decision]
  /\ context \in [Thread -> Seq(Message)]
  /\ work \in [Thread -> SUBSET Call]
  /\ waiting \in [Thread -> BOOLEAN]
  /\ unsaved \in [Thread -> Seq(Message)]
  /\ job \in [Thread -> Call \cup {0}]
  /\ asked \in 0..MaxCalls
  /\ started \subseteq Call
  /\ crashes \in 0..MaxCrashes

(* The types, in two halves. *)
LEMMA TypingParts ==
  /\ Typing <=> DataTypes /\ LoopTypes
  /\ Typing' <=> DataTypes' /\ LoopTypes'
  BY DEF Typing, TypeOK, DataTypes, LoopTypes, Sections

(* A step that gives up the event loop and forgets the work of its thread. *)
LEMMA LeaveTypes ==
  ASSUME Typing, NEW t \in Thread, pc[t] \in Section, Leave(t),
         run' \in RunStatus \cup {"absent"}, UNCHANGED <<rows, toolCalls, approvals, history>>
  PROVE  Typing'
  <1>1. DataTypes /\ <<>> \in Seq(Message)
    BY TypingParts
  <1>2. DataTypes'
    BY <1>1 DEF DataTypes, Leave, MaxCrashes, history
  <1>3. Await(t, "idle") /\ "idle" \in Awaiting
    BY DEF Leave, Awaiting
  <1>4. \A u \in Thread \ {t} : work'[u] = work[u] /\ job'[u] = job[u]
    BY <1>1 DEF DataTypes, Leave
  <1>5. LoopTypes'
    BY <1>3, <1>4, AwaitTypes
  <1>6. QED
    BY <1>2, <1>5, TypingParts

(* A message of the model or of the queue goes to the rows and to a loop. *)
LEMMA AddMessageTypes ==
  ASSUME DataTypes, NEW t \in Thread, NEW message \in Message, AddMessage(t, message)
  PROVE  rows' \in Seq(Message) /\ context' \in [Thread -> Seq(Message)]
  <1>1. rows \in Seq(Message) /\ context \in [Thread -> Seq(Message)] /\ context[t] \in Seq(Message)
    BY DEF DataTypes
  <1>2. Append(rows, message) \in Seq(Message) /\ Append(context[t], message) \in Seq(Message)
    BY <1>1
  <1>3. QED
    BY <1>1, <1>2 DEF AddMessage

(* The steps that neither add a message nor rebuild a conversation. *)
LEMMA LoopTyping ==
  ASSUME Typing, NEW t \in Thread,
         \/ RequestModel(t) \/ ModelFails(t)
         \/ Finish(t) \/ Fail(t) \/ Interrupt(t)
         \/ RefuseToolCall(t) \/ AskForApproval(t) \/ StartTool(t) \/ ToolReturns(t)
         \/ NextRound(t) \/ WaitForApproval(t)
  PROVE  Typing'
  <1>1. DataTypes /\ LoopTypes
    BY TypingParts
  <1>2. t \in Thread /\ pc \in [Thread -> Awaiting \cup Section] /\ Places /\ Sections
    BY <1>1 DEF LoopTypes
  <1>3. CASE RequestModel(t)
    <2>1. DataTypes' /\ pc[t] \in Section /\ work' = work /\ job' = job
      BY <1>1, <1>3 DEF RequestModel, DataTypes, MaxCrashes, durable, loop, history, Section
    <2>2. CASE Goto(t, "fail")
      <3>1. LoopTypes'
        BY <2>1, <2>2, GotoTypes, Labels
      <3>2. QED
        BY <2>1, <3>1, TypingParts
    <2>3. CASE Await(t, "model")
      <3>1. LoopTypes'
        BY <2>1, <2>3, AwaitTypes, Labels
      <3>2. QED
        BY <2>1, <3>1, TypingParts
    <2>4. QED
      BY <1>3, <2>2, <2>3 DEF RequestModel
  <1>4. CASE ModelFails(t)
    <2>1. DataTypes' /\ work' = work /\ job' = job
      BY <1>1, <1>4 DEF ModelFails, DataTypes, MaxCrashes, durable, loop, history
    <2>2. LoopTypes'
      BY <1>4, <2>1, EnterTypes, Labels DEF ModelFails
    <2>3. QED
      BY <2>1, <2>2, TypingParts
  <1>5. CASE Finish(t) \/ Fail(t) \/ Interrupt(t) \/ WaitForApproval(t)
    <2>1. pc[t] \in Section /\ Leave(t) /\ UNCHANGED <<rows, toolCalls, approvals, history>>
      BY <1>5 DEF Finish, Fail, Interrupt, EndRun, WaitForApproval, Section
    <2>2. run' \in RunStatus
      BY <1>5 DEF Finish, Fail, Interrupt, EndRun, WaitForApproval, RunStatus
    <2>3. QED
      BY <2>1, <2>2, LeaveTypes
  <1>6. CASE RefuseToolCall(t) \/ AskForApproval(t)
    <2>1. pc[t] = "calls" /\ work[t] # {} /\ Goto(t, "record")
          /\ UNCHANGED <<run, rows, loop, job, history>>
      BY <1>6 DEF RefuseToolCall, AskForApproval
    <2>2. NextCall(t) \in Call
      BY <2>1, NextCallIsWork DEF Typing
    <2>3. /\ toolCalls' \in [Call -> CallStatus]
          /\ approvals' \in [Call -> {"none", "pending"} \cup Decision]
      <3>1. /\ toolCalls \in [Call -> CallStatus]
            /\ approvals \in [Call -> {"none", "pending"} \cup Decision]
        BY <1>1 DEF DataTypes
      <3>2. {"absent", "failed", "denied", "approval_required"} \subseteq CallStatus
        BY DEF CallStatus, TerminalCall
      <3>3. /\ \/ UNCHANGED approvals
               \/ approvals' = [approvals EXCEPT ![NextCall(t)] = "pending"]
            /\ \E status \in {"absent", "failed", "denied", "approval_required"} :
                 toolCalls' = [toolCalls EXCEPT ![NextCall(t)] = status]
        BY <1>6 DEF RefuseToolCall, AskForApproval
      <3>4. toolCalls' \in [Call -> CallStatus]
        BY <2>2, <3>1, <3>2, <3>3
      <3>5. approvals' \in [Call -> {"none", "pending"} \cup Decision]
        BY <2>2, <3>1, <3>3
      <3>6. QED
        BY <3>4, <3>5
    <2>4. DataTypes'
      BY <1>1, <2>1, <2>3 DEF DataTypes, MaxCrashes, loop, history
    <2>5. LoopTypes'
      <3>1. work' = work /\ job' = job /\ pc[t] \in Section
        BY <2>1, Labels DEF loop
      <3>2. QED
        BY <2>1, <3>1, GotoTypes, Labels
    <2>6. QED
      BY <2>4, <2>5, TypingParts
  <1>7. CASE StartTool(t)
    <2>1. pc[t] = "calls" /\ work[t] # {} /\ Await(t, "tool")
          /\ UNCHANGED <<run, rows, approvals, loop, job, asked, crashes, setting>>
      BY <1>7 DEF StartTool
    <2>2. NextCall(t) \in Call
      BY <2>1, NextCallIsWork DEF Typing
    <2>3. toolCalls' \in [Call -> CallStatus] /\ started' \subseteq Call
      BY <1>1, <1>7, <2>2 DEF StartTool, DataTypes, CallStatus, TerminalCall
    <2>4. DataTypes'
      BY <1>1, <2>1, <2>3 DEF DataTypes, MaxCrashes, loop
    <2>5. LoopTypes'
      <3>1. work' = work /\ job' = job /\ pc[t] \in Section
        BY <2>1, Labels DEF loop
      <3>2. QED
        BY <2>1, <3>1, AwaitTypes, Labels
    <2>6. QED
      BY <2>4, <2>5, TypingParts
  <1>8. CASE ToolReturns(t)
    <2>1. pc[t] = "tool" /\ Enter(t, "record")
          /\ UNCHANGED <<run, rows, approvals, loop, job, history>>
      BY <1>8 DEF ToolReturns
    <2>2. work[t] # {}
      BY <1>2, <2>1 DEF Places
    <2>3. NextCall(t) \in Call
      BY <2>2, NextCallIsWork DEF Typing
    <2>4. toolCalls' \in [Call -> CallStatus]
      BY <1>1, <1>8, <2>3 DEF ToolReturns, DataTypes, CallStatus, TerminalCall
    <2>5. DataTypes'
      BY <1>1, <2>1, <2>4 DEF DataTypes, MaxCrashes, loop, history
    <2>6. LoopTypes'
      <3>1. work' = work /\ job' = job
        BY <2>1 DEF loop
      <3>2. QED
        BY <2>1, <2>2, <3>1, EnterTypes, Labels
    <2>7. QED
      BY <2>5, <2>6, TypingParts
  <1>9. CASE NextRound(t)
    <2>1. DataTypes' /\ pc[t] \in Section /\ Goto(t, "request") /\ work' = work /\ job' = job
      BY <1>1, <1>9 DEF NextRound, DataTypes, MaxCrashes, durable, loop, history, Section
    <2>2. LoopTypes'
      BY <2>1, GotoTypes, Labels
    <2>3. QED
      BY <2>1, <2>2, TypingParts
  <1>10. QED
    BY <1>3, <1>4, <1>5, <1>6, <1>7, <1>8, <1>9

(* What is rebuilt from the rows is a conversation. *)
LEMMA RebuiltTypes ==
  ASSUME DataTypes
  PROVE  RebuiltMessages \in Seq(Message) /\ MessagesToPersist \in Seq(Message)
  <1>1. rows \in Seq(Message)
    BY DEF DataTypes
  <1>2. /\ {i \in DOMAIN rows : rows[i].kind # "placeholder" \/ IsOpen(rows[i])}
             \in SUBSET DOMAIN rows
        /\ {i \in DOMAIN rows : IsOpen(rows[i])} \in SUBSET DOMAIN rows
    OBVIOUS
  <1>3. QED
    BY <1>1, <1>2, AnsweredRows DEF RebuiltMessages, MessagesToPersist

(* The steps that add a message. *)
LEMMA MessageTyping ==
  ASSUME Typing, NEW t \in Thread,
         (\E n \in 0..MaxParallel : ModelAnswers(t, n)) \/ RecordToolMessage(t)
  PROVE  Typing'
  <1>1. DataTypes /\ LoopTypes
    BY TypingParts
  <1>2. pc \in [Thread -> Awaiting \cup Section] /\ Places /\ Sections
    BY <1>1 DEF LoopTypes
  <1>3. ASSUME NEW n \in 0..MaxParallel, ModelAnswers(t, n) PROVE Typing'
    <2> DEFINE calls == (asked + 1)..(asked + n)
    <2>1. asked \in Nat /\ n \in Nat /\ MaxCalls \in Nat
      BY <1>1, RunnerAssumption DEF DataTypes
    <2>2. asked + n <= MaxCalls /\ AddMessage(t, Asks(calls)) /\ asked' = asked + n
          /\ work' = [work EXCEPT ![t] = calls] /\ waiting' = [waiting EXCEPT ![t] = FALSE]
          /\ UNCHANGED <<run, toolCalls, approvals, unsaved, job, started, crashes, setting>>
      BY <1>3 DEF ModelAnswers
    <2>3. PICK label \in {"finish", "fail", "calls"} : Enter(t, label)
      BY <1>3 DEF ModelAnswers
    <2>4. calls \subseteq Call /\ asked' \in 0..MaxCalls
      BY <2>1, <2>2 DEF Call
    <2> HIDE DEF calls
    <2>5. Asks(calls) \in Message
      BY <2>4 DEF Asks, Message
    <2>6. rows' \in Seq(Message) /\ context' \in [Thread -> Seq(Message)]
      BY <1>1, <2>2, <2>5, AddMessageTypes
    <2>7. DataTypes'
      BY <1>1, <2>2, <2>4, <2>6 DEF DataTypes, MaxCrashes
    <2>8. LoopTypes'
      <3>1. \A u \in Thread \ {t} : work'[u] = work[u] /\ job'[u] = job[u]
        BY <1>1, <2>2 DEF DataTypes
      <3>2. label \in Section /\ label # "record" /\ label # "answered"
        BY <2>3, Labels
      <3>3. QED
        BY <2>3, <3>1, <3>2, EnterTypes
    <2>9. QED
      BY <2>7, <2>8, TypingParts
  <1>4. CASE RecordToolMessage(t)
    <2> DEFINE asks == toolCalls[NextCall(t)] = "approval_required"
               message == Tool(IF asks THEN "placeholder" ELSE "outcome", NextCall(t))
    <2>1. /\ pc[t] = "record"
          /\ AddMessage(t, message)
          /\ work' = [work EXCEPT ![t] = @ \ {NextCall(t)}]
          /\ waiting' = [waiting EXCEPT ![t] = @ \/ asks]
          /\ Goto(t, "calls")
          /\ UNCHANGED <<run, toolCalls, approvals, unsaved, job, history>>
      BY <1>4 DEF RecordToolMessage
    <2>2. NextCall(t) \in Call
      BY <1>2, <2>1, NextCallIsWork DEF Typing, Places
    <2>3. message \in Message
      BY <2>2 DEF Tool, Message, Answer
    <2> HIDE DEF message, asks
    <2>4. rows' \in Seq(Message) /\ context' \in [Thread -> Seq(Message)]
      BY <1>1, <2>1, <2>3, AddMessageTypes
    <2>5. work' \in [Thread -> SUBSET Call] /\ waiting' \in [Thread -> BOOLEAN]
      BY <1>1, <2>1 DEF DataTypes, asks
    <2>6. DataTypes'
      BY <1>1, <2>1, <2>4, <2>5 DEF DataTypes, MaxCrashes, history
    <2>7. LoopTypes'
      <3>1. \A u \in Thread \ {t} : work'[u] = work[u] /\ job'[u] = job[u]
        BY <1>1, <2>1 DEF DataTypes
      <3>2. pc[t] \in Section
        BY <2>1, Labels
      <3>3. QED
        BY <2>1, <3>1, <3>2, GotoTypes, Labels
    <2>8. QED
      BY <2>6, <2>7, TypingParts
  <1>5. QED
    BY <1>3, <1>4

(* The steps of a surface that has answered or resumes. *)
LEMMA SurfaceTyping ==
  ASSUME Typing, NEW t \in Thread, SurfaceStep(t)
  PROVE  Typing'
  <1>1. DataTypes /\ LoopTypes
    BY TypingParts
  <1>2. pc \in [Thread -> Awaiting \cup Section] /\ Places /\ Sections
    BY <1>1 DEF LoopTypes
  <1>3. CASE ConfigSaved(t)
    <2>1. pc[t] = "saving" /\ Enter(t, "answered") /\ UNCHANGED <<durable, loop, job, history>>
      BY <1>3 DEF ConfigSaved
    <2>2. DataTypes' /\ work' = work /\ job' = job
      BY <1>1, <2>1 DEF DataTypes, MaxCrashes, durable, loop, history
    <2>3. job[t] # 0
      BY <1>2, <2>1 DEF Places
    <2>4. LoopTypes'
      BY <2>1, <2>2, <2>3, EnterTypes, Labels
    <2>5. QED
      BY <2>2, <2>4, TypingParts
  <1>4. CASE RunApproved(t)
    <2>1. pc[t] = "answered" /\ Await(t, "approved_tool")
          /\ toolCalls' = [toolCalls EXCEPT ![job[t]] = "running"]
          /\ started' = started \cup {job[t]}
          /\ UNCHANGED <<run, rows, approvals, loop, job, asked, crashes, setting>>
      BY <1>4 DEF RunApproved
    <2>2. job[t] # 0 /\ job[t] \in Call
      BY <1>1, <1>2, <2>1 DEF Places, DataTypes
    <2>3. DataTypes' /\ work' = work /\ job' = job
      BY <1>1, <2>1, <2>2 DEF DataTypes, MaxCrashes, loop, CallStatus
    <2>4. LoopTypes'
      BY <2>1, <2>2, <2>3, AwaitTypes, Labels
    <2>5. QED
      BY <2>3, <2>4, TypingParts
  <1>5. CASE Leave(t) /\ pc[t] \in Section /\ UNCHANGED <<durable, history>>
    <2>1. run' \in RunStatus \cup {"absent"}
      BY <1>1, <1>5 DEF DataTypes, durable
    <2>2. QED
      BY <1>5, <2>1, LeaveTypes DEF durable
  <1>6. CASE RunApprovedThrows(t) \/ CommandEnds(t) \/ RefuseResume(t) \/ EndHeal(t)
    BY <1>5, <1>6, Labels DEF RunApprovedThrows, CommandEnds, RefuseResume, EndHeal
  <1>7. CASE pc[t] \in Section /\ (\E label \in {"check", "resume"} : Goto(t, label))
             /\ UNCHANGED <<durable, loop, job, history>>
    <2>1. DataTypes' /\ work' = work /\ job' = job
      BY <1>1, <1>7 DEF DataTypes, MaxCrashes, durable, loop, history
    <2>2. PICK label \in {"check", "resume"} : Goto(t, label)
      BY <1>7
    <2>3. label \in Section /\ label # "record" /\ label # "answered"
      BY <2>2, Labels
    <2>4. LoopTypes'
      BY <1>7, <2>1, <2>2, <2>3, GotoTypes
    <2>5. QED
      BY <2>1, <2>4, TypingParts
  <1>8. CASE NothingToRun(t)
    BY <1>7, <1>8, Labels DEF NothingToRun
  <1>9. CASE ApprovedToolReturns(t)
    <2>1. pc[t] = "approved_tool" /\ Enter(t, "check")
          /\ UNCHANGED <<run, rows, approvals, loop, job, history>>
      BY <1>9 DEF ApprovedToolReturns
    <2>2. job[t] # 0 /\ job[t] \in Call
      BY <1>1, <1>2, <2>1 DEF Places, DataTypes
    <2>3. toolCalls' \in [Call -> CallStatus]
      BY <1>1, <1>9, <2>2 DEF ApprovedToolReturns, DataTypes, CallStatus, TerminalCall
    <2>4. DataTypes' /\ work' = work /\ job' = job
      BY <1>1, <2>1, <2>3 DEF DataTypes, MaxCrashes, loop, history
    <2>5. LoopTypes'
      BY <2>1, <2>4, EnterTypes, Labels
    <2>6. QED
      BY <2>4, <2>5, TypingParts
  <1>10. CASE CheckRemaining(t)
    BY <1>5, <1>7, <1>10, Labels DEF CheckRemaining
  <1>11. CASE BeginResume(t)
    <2>1. pc[t] = "resume" /\ Goto(t, "persist")
          /\ context' = [context EXCEPT ![t] = RebuiltMessages]
          /\ unsaved' = [unsaved EXCEPT ![t] = MessagesToPersist]
          /\ UNCHANGED <<durable, work, waiting, job, history>>
      BY <1>11 DEF BeginResume
    <2>2. DataTypes'
      BY <1>1, <2>1, RebuiltTypes DEF DataTypes, MaxCrashes, durable, history
    <2>3. LoopTypes'
      BY <2>1, GotoTypes, Labels
    <2>4. QED
      BY <2>2, <2>3, TypingParts
  <1>12. CASE PersistAnswer(t)
    <2>1. unsaved[t] # <<>>
          /\ rows' = Append(rows, Head(unsaved[t]))
          /\ unsaved' = [unsaved EXCEPT ![t] = Tail(@)]
          /\ UNCHANGED <<run, toolCalls, approvals, busy, pc, context, work, waiting, job, history>>
      BY <1>12 DEF PersistAnswer
    <2>2. unsaved[t] \in Seq(Message) /\ rows \in Seq(Message)
      BY <1>1 DEF DataTypes
    <2>3. Head(unsaved[t]) \in Message /\ Tail(unsaved[t]) \in Seq(Message)
      BY <2>1, <2>2
    <2>4. rows' \in Seq(Message) /\ unsaved' \in [Thread -> Seq(Message)]
      BY <1>1, <2>1, <2>2, <2>3 DEF DataTypes
    <2>5. DataTypes'
      BY <1>1, <2>1, <2>4 DEF DataTypes, MaxCrashes, history
    <2>6. LoopTypes'
      BY <1>1, <2>1 DEF LoopTypes, Sections, Places
    <2>7. QED
      BY <2>5, <2>6, TypingParts
  <1>13. CASE ResumeLoop(t)
    <2>1. pc[t] = "persist" /\ Goto(t, "request") /\ run' = "running"
          /\ UNCHANGED <<rows, toolCalls, approvals, loop, job, history>>
      BY <1>13 DEF ResumeLoop
    <2>2. DataTypes' /\ work' = work /\ job' = job
      BY <1>1, <2>1 DEF DataTypes, MaxCrashes, loop, history, RunStatus
    <2>3. LoopTypes'
      BY <2>1, <2>2, GotoTypes, Labels
    <2>4. QED
      BY <2>2, <2>3, TypingParts
  <1>14. QED
    BY <1>3, <1>4, <1>6, <1>8, <1>9, <1>10, <1>11, <1>12, <1>13 DEF SurfaceStep

(* The requests people send, and what ends the process or the run. *)
LEMMA RequestTyping ==
  ASSUME Typing, NEW t \in Thread,
         \/ \E c \in Call, d \in Offered : AnswerApproval(t, c, d)
         \/ ResumeRequest(t)
         \/ HealRequest(t)
         \/ CreateRun \/ BeginTurn \/ ModelAborted
         \/ CancelRun \/ CrashAndRestart
  PROVE  Typing'
  <1>1. DataTypes /\ LoopTypes
    BY TypingParts
  <1>2. pc \in [Thread -> Awaiting \cup Section] /\ Places /\ Sections
    BY <1>1 DEF LoopTypes
  <1>3. ASSUME NEW c \in Call, NEW d \in Offered, AnswerApproval(t, c, d) PROVE Typing'
    <2>1. /\ busy = NoThread
          /\ approvals' = [approvals EXCEPT ![c] = d]
          /\ toolCalls' = IF d \in Allowing THEN toolCalls ELSE [toolCalls EXCEPT ![c] = "denied"]
          /\ job' = [job EXCEPT ![t] = c]
          /\ (Await(t, "saving") \/ Enter(t, "answered"))
          /\ UNCHANGED <<run, rows, loop, history>>
      BY <1>3 DEF AnswerApproval
    <2>2. d \in Decision
      BY SettingTypes DEF Typing
    <2>3. /\ toolCalls' \in [Call -> CallStatus]
          /\ approvals' \in [Call -> {"none", "pending"} \cup Decision]
          /\ job' \in [Thread -> Call \cup {0}]
      BY <1>1, <2>1, <2>2 DEF DataTypes, CallStatus, TerminalCall
    <2>4. DataTypes' /\ work' = work
      BY <1>1, <2>1, <2>3 DEF DataTypes, MaxCrashes, loop, history
    <2>5. job'[t] # 0 /\ \A u \in Thread \ {t} : work'[u] = work[u] /\ job'[u] = job[u]
      BY <1>1, <2>1, <2>4 DEF DataTypes, Call
    <2>6. CASE Await(t, "saving")
      <3>1. LoopTypes'
        BY <2>1, <2>5, <2>6, AwaitTypes, Labels
      <3>2. QED
        BY <2>4, <3>1, TypingParts
    <2>7. CASE Enter(t, "answered")
      <3>1. LoopTypes'
        BY <2>5, <2>7, EnterTypes, Labels
      <3>2. QED
        BY <2>4, <3>1, TypingParts
    <2>8. QED
      BY <2>1, <2>6, <2>7
  <1>4. CASE ResumeRequest(t)
    <2>1. DataTypes' /\ work' = work /\ job' = job /\ Enter(t, "resume")
      BY <1>1, <1>4 DEF ResumeRequest, DataTypes, MaxCrashes, durable, loop, history
    <2>2. LoopTypes'
      BY <2>1, EnterTypes, Labels
    <2>3. QED
      BY <2>1, <2>2, TypingParts
  <1>5. CASE HealRequest(t)
    <2>1. unsaved' = [unsaved EXCEPT ![t] = MessagesToPersist] /\ Enter(t, "heal")
          /\ UNCHANGED <<durable, context, work, waiting, job, history>>
      BY <1>5 DEF HealRequest
    <2>2. DataTypes'
      BY <1>1, <2>1, RebuiltTypes DEF DataTypes, MaxCrashes, durable, history
    <2>3. LoopTypes'
      BY <2>1, EnterTypes, Labels
    <2>4. QED
      BY <2>2, <2>3, TypingParts
  <1>6. CASE CreateRun \/ BeginTurn
    <2>1. run' \in RunStatus /\ UNCHANGED <<rows, toolCalls, approvals, loop, job, history>>
      BY <1>6 DEF CreateRun, BeginTurn, RunStatus
    <2>2. DataTypes' /\ work' = work /\ job' = job
      BY <1>1, <2>1 DEF DataTypes, MaxCrashes, loop, history
    <2>3. LoopTypes'
      <3>1. CASE CreateRun
        BY <2>2, <3>1, EnterTypes, Threads, Labels DEF CreateRun
      <3>2. CASE BeginTurn
        BY <2>2, <3>2, GotoTypes, Threads, Labels DEF BeginTurn
      <3>3. QED
        BY <1>6, <3>1, <3>2
    <2>4. QED
      BY <2>2, <2>3, TypingParts
  <1>7. CASE ModelAborted
    <2>1. DataTypes' /\ work' = work /\ job' = job /\ Enter(Turn, "abort")
      BY <1>1, <1>7 DEF ModelAborted, DataTypes, MaxCrashes, durable, loop, history
    <2>2. LoopTypes'
      BY <2>1, EnterTypes, Threads, Labels
    <2>3. QED
      BY <2>1, <2>2, TypingParts
  <1>8. CASE CancelRun
    <2>1. run' \in RunStatus
          /\ UNCHANGED <<rows, toolCalls, approvals, busy, pc, loop, job, history>>
      BY <1>8 DEF CancelRun, RunStatus
    <2>2. DataTypes' /\ LoopTypes'
      BY <1>1, <2>1 DEF DataTypes, LoopTypes, Sections, Places, MaxCrashes, loop, history
    <2>3. QED
      BY <2>2, TypingParts
  <1>9. CASE CrashAndRestart
    <2>1. /\ crashes < MaxCrashes /\ crashes' = crashes + 1
          /\ busy' = NoThread
          /\ pc' = [u \in Thread |-> "idle"]
          /\ context' = [u \in Thread |-> <<>>]
          /\ work' = [u \in Thread |-> {}]
          /\ waiting' = [u \in Thread |-> FALSE]
          /\ unsaved' = [u \in Thread |-> <<>>]
          /\ job' = [u \in Thread |-> 0]
          /\ UNCHANGED <<durable, asked, started, setting>>
      BY <1>9 DEF CrashAndRestart
    <2>2. MaxCrashes \in Nat /\ <<>> \in Seq(Message)
      BY SettingTypes DEF Typing
    <2>3. crashes' \in 0..MaxCrashes'
      BY <1>1, <2>1, <2>2 DEF DataTypes, MaxCrashes
    <2>4. DataTypes'
      BY <1>1, <2>1, <2>2, <2>3 DEF DataTypes, durable
    <2>5. LoopTypes'
      BY <2>1, Threads, Labels DEF LoopTypes, Sections, Places, Section
    <2>6. QED
      BY <2>4, <2>5, TypingParts
  <1>10. QED
    BY <1>3, <1>4, <1>5, <1>6, <1>7, <1>8, <1>9

(* Every step keeps the types. *)
LEMMA StepTyping == Typing /\ [Next]_vars => Typing'
  <1> SUFFICES ASSUME Typing, [Next]_vars PROVE Typing'
    OBVIOUS
  <1>1. CASE UNCHANGED vars
    <2>1. DataTypes /\ LoopTypes
      BY TypingParts
    <2>2. DataTypes' /\ LoopTypes'
      BY <1>1, <2>1 DEF DataTypes, LoopTypes, Sections, Places, MaxCrashes, vars, durable, loop,
           history
    <2>3. QED
      BY <2>2, TypingParts
  <1>2. CASE Next
    <2>1. ASSUME NEW t \in Thread, LoopStep(t) PROVE Typing'
      BY <2>1, LoopTyping, MessageTyping DEF LoopStep
    <2>2. ASSUME NEW t \in Surface,
                 \/ SurfaceStep(t)
                 \/ \E c \in Call, d \in Offered : AnswerApproval(t, c, d)
                 \/ ResumeRequest(t)
                 \/ HealRequest(t)
          PROVE  Typing'
      BY <2>2, SurfaceTyping, RequestTyping, Threads
    <2>3. CASE CreateRun \/ BeginTurn \/ ModelAborted \/ CancelRun \/ CrashAndRestart
      BY <2>3, RequestTyping, Threads
    <2>4. QED
      BY <1>2, <2>1, <2>2, <2>3 DEF Next
  <1>3. QED
    BY <1>1, <1>2

(* The types of the runner, and that at most one thread is between two
   awaits (the last conjunct of TypeOK). *)
THEOREM RunnerTyping == Spec => []TypeOK
  <1>1. Typing => TypeOK
    BY DEF Typing
  <1>2. QED
    BY InitTyping, StepTyping, <1>1, PTL DEF Spec

-----------------------------------------------------------------------------
(* One answer per call                                                     *)

(* What each part of the state says of a call.  The rows are well formed; a
   call nobody asked for yet has neither an ask nor an approval ...        *)
RowsInv ==
  /\ WellFormed(rows)
  /\ \A c \in Call : AsksIn(rows, c) # {} \/ approvals[c] # "none" => c <= asked

(* ... a call that is still to be run is asked for and not answered, belongs
   to one loop, and no person knows of it before it is to be recorded ...  *)
WorkInv ==
  \A t \in Thread, c \in Call : c \in work[t] =>
    /\ pc[t] \in {"calls", "record", "tool", "fail"}
    /\ c <= asked
    /\ AsksIn(rows, c) # {} /\ AsksIn(context[t], c) # {}
    /\ AnswersIn(rows, c) = {} /\ PlaceholdersIn(rows, c) = {}
    /\ \A u \in Thread : c \in work[u] => u = t
    /\ \/ approvals[c] = "none"
       \/ /\ pc[t] = "record" /\ c = NextCall(t)
          /\ approvals[c] = "pending" /\ toolCalls[c] = "approval_required"

(* ... a loop answers a call only if the rows do or will, when the resumed
   loop has stored what it found missing; a loop has a placeholder only in a
   round that ends in front of an approval ...                             *)
Orderly(messages) ==
  /\ \A i \in DOMAIN messages :
       messages[i].kind # "asks" => \E c \in Call : messages[i].calls = {c}
  /\ \A c \in Call :
       /\ \A i, j \in AnswersIn(messages, c) : i = j
       /\ \A i \in AnswersIn(messages, c) : \E j \in AsksIn(messages, c) : j < i

Missing(t, c) == \E i \in DOMAIN unsaved[t] : c \in unsaved[t][i].calls

ContextInv ==
  \A t \in Thread :
    /\ Orderly(context[t])
    /\ \A c \in Call :
         /\ AnswersIn(context[t], c) # {} =>
              AnswersIn(rows, c) # {} \/ (pc[t] = "persist" /\ Missing(t, c))
         /\ PlaceholdersIn(context[t], c) # {} =>
              pc[t] \in {"calls", "record", "tool"} /\ waiting[t]

(* ... what is still to be stored answers placeholders, each once, which
   nothing answers yet and no person is still asked about ...              *)
Owed(c) ==
  PlaceholdersIn(rows, c) # {} /\ AnswersIn(rows, c) = {} /\ approvals[c] # "pending"

AnswersHeld(t) ==
  /\ \A i \in DOMAIN unsaved[t] :
       unsaved[t][i].kind \in Answer /\ \E c \in Call : unsaved[t][i].calls = {c} /\ Owed(c)
  /\ \A i, j \in DOMAIN unsaved[t] : unsaved[t][i].calls = unsaved[t][j].calls => i = j

UnsavedInv ==
  \A t \in Thread :
    /\ unsaved[t] # <<>> => pc[t] \in {"persist", "heal"}
    /\ AnswersHeld(t)

(* ... and a call a person is asked about waits, in the rows and in the
   queue; one that a surface acts on has been decided.                     *)
ApprovalsInv ==
  /\ \A c \in Call : approvals[c] = "pending" =>
       AnswersIn(rows, c) = {} /\ toolCalls[c] = "approval_required"
  /\ \A t \in Thread : job[t] # 0 => approvals[job[t]] \in Decision

(* A run that does not exist yet has no turn. *)
Unborn == run = "absent" => pc[Turn] = "idle"

Answering == RowsInv /\ WorkInv /\ ContextInv /\ UnsavedInv /\ ApprovalsInv

IInv == Typing /\ Unborn /\ Answering

(* Where the answers, asks and placeholders of a call are after one more
   message. *)
LEMMA Appended ==
  ASSUME NEW s \in Seq(Message), NEW m \in Message, NEW c
  PROVE  /\ AnswersIn(Append(s, m), c) =
              IF m.kind \in Answer /\ c \in m.calls
              THEN AnswersIn(s, c) \cup {Len(s) + 1} ELSE AnswersIn(s, c)
         /\ AsksIn(Append(s, m), c) =
              IF m.kind = "asks" /\ c \in m.calls
              THEN AsksIn(s, c) \cup {Len(s) + 1} ELSE AsksIn(s, c)
         /\ PlaceholdersIn(Append(s, m), c) =
              IF m.kind = "placeholder" /\ c \in m.calls
              THEN PlaceholdersIn(s, c) \cup {Len(s) + 1} ELSE PlaceholdersIn(s, c)
  <1> DEFINE L == Len(s)
             r == Append(s, m)
  <1>1. /\ L \in Nat /\ DOMAIN s = 1..L /\ DOMAIN r = 1..(L + 1)
        /\ r[L + 1] = m
        /\ \A i \in 1..L : r[i] = s[i]
    OBVIOUS
  <1> HIDE DEF r, L
  <1>2. 1..(L + 1) = 1..L \cup {L + 1}
    BY <1>1
  <1>3. QED
    BY <1>1, <1>2 DEF AnswersIn, AsksIn, PlaceholdersIn, r, L

(* The positions counted are positions. *)
LEMMA Positions ==
  ASSUME NEW s \in Seq(Message), NEW c
  PROVE  \A i \in AnswersIn(s, c) \cup AsksIn(s, c) \cup PlaceholdersIn(s, c) :
           i \in Nat /\ i < Len(s) + 1
  BY DEF AnswersIn, AsksIn, PlaceholdersIn

(* One more message in a loop: an answer needs its ask, and be the first. *)
LEMMA OrderlyAppend ==
  ASSUME NEW s \in Seq(Message), NEW m \in Message, Orderly(s),
         m.kind # "asks" => \E c \in Call : m.calls = {c},
         \A c \in m.calls : m.kind \in Answer => AsksIn(s, c) # {} /\ AnswersIn(s, c) = {}
  PROVE  Orderly(Append(s, m))
  <1> DEFINE r == Append(s, m)
  <1>1. \A i \in DOMAIN r : r[i].kind # "asks" => \E c \in Call : r[i].calls = {c}
    <2>1. /\ \A i \in DOMAIN r : i \in DOMAIN s \/ i = Len(s) + 1
          /\ r[Len(s) + 1] = m
          /\ \A i \in DOMAIN s : r[i] = s[i]
      OBVIOUS
    <2> HIDE DEF r
    <2>2. QED
      BY <2>1 DEF Orderly
  <1> SUFFICES ASSUME NEW c \in Call
               PROVE  /\ \A i, j \in AnswersIn(r, c) : i = j
                      /\ \A i \in AnswersIn(r, c) : \E j \in AsksIn(r, c) : j < i
    BY <1>1 DEF Orderly
  <1>2. /\ \A i, j \in AnswersIn(s, c) : i = j
        /\ \A i \in AnswersIn(s, c) : \E j \in AsksIn(s, c) : j < i
    BY DEF Orderly
  <1>3. AsksIn(s, c) \subseteq AsksIn(r, c)
    BY Appended
  <1>4. CASE m.kind \in Answer /\ c \in m.calls
    <2>1. AnswersIn(r, c) = {Len(s) + 1} /\ AsksIn(s, c) # {}
      BY <1>4, Appended
    <2>2. QED
      BY <1>3, <2>1, Positions
  <1>5. CASE ~ (m.kind \in Answer /\ c \in m.calls)
    <2>1. AnswersIn(r, c) = AnswersIn(s, c)
      BY <1>5, Appended
    <2>2. QED
      BY <1>2, <1>3, <2>1
  <1>6. QED
    BY <1>4, <1>5

(* One more row: the same, and a placeholder needs to be the first too. *)
LEMMA WellFormedAppend ==
  ASSUME NEW s \in Seq(Message), NEW m \in Message, WellFormed(s),
         m.kind # "asks" => \E c \in Call : m.calls = {c},
         \A c \in m.calls :
           /\ m.kind # "asks" => AsksIn(s, c) # {}
           /\ m.kind \in Answer => AnswersIn(s, c) = {}
           /\ m.kind = "placeholder" => PlaceholdersIn(s, c) = {}
  PROVE  WellFormed(Append(s, m))
  <1> DEFINE r == Append(s, m)
  <1>1. \A i \in DOMAIN r : r[i].kind # "asks" => \E c \in Call : r[i].calls = {c}
    <2>1. /\ \A i \in DOMAIN r : i \in DOMAIN s \/ i = Len(s) + 1
          /\ r[Len(s) + 1] = m
          /\ \A i \in DOMAIN s : r[i] = s[i]
      OBVIOUS
    <2> HIDE DEF r
    <2>2. QED
      BY <2>1 DEF WellFormed
  <1>2. ASSUME NEW c \in Call
        PROVE  /\ \A i, j \in AnswersIn(r, c) : i = j
               /\ \A i, j \in PlaceholdersIn(r, c) : i = j
               /\ \A i \in AnswersIn(r, c) \cup PlaceholdersIn(r, c) :
                    \E j \in AsksIn(r, c) : j < i
    <2>1. /\ \A i, j \in AnswersIn(s, c) : i = j
          /\ \A i, j \in PlaceholdersIn(s, c) : i = j
          /\ \A i \in AnswersIn(s, c) \cup PlaceholdersIn(s, c) :
               \E j \in AsksIn(s, c) : j < i
      BY DEF WellFormed
    <2>2. AsksIn(s, c) \subseteq AsksIn(r, c)
      BY Appended
    <2>3. CASE m.kind \in Answer /\ c \in m.calls
      <3>1. /\ AnswersIn(r, c) = {Len(s) + 1} /\ AsksIn(s, c) # {}
            /\ PlaceholdersIn(r, c) = PlaceholdersIn(s, c)
        BY <2>3, Appended DEF Answer
      <3> HIDE DEF r
      <3>2. QED
        BY <2>1, <2>2, <3>1, Positions
    <2>4. CASE m.kind = "placeholder" /\ c \in m.calls
      <3>1. /\ PlaceholdersIn(r, c) = {Len(s) + 1} /\ AsksIn(s, c) # {}
            /\ AnswersIn(r, c) = AnswersIn(s, c)
        BY <2>4, Appended DEF Answer
      <3> HIDE DEF r
      <3>2. QED
        BY <2>1, <2>2, <3>1, Positions
    <2>5. CASE c \notin m.calls \/ m.kind = "asks"
      <3>1. AnswersIn(r, c) = AnswersIn(s, c) /\ PlaceholdersIn(r, c) = PlaceholdersIn(s, c)
        BY <2>5, Appended DEF Answer
      <3> HIDE DEF r
      <3>2. QED
        BY <2>1, <2>2, <3>1
    <2>6. m.kind \in {"asks", "placeholder"} \cup Answer
      BY DEF Message
    <2>7. QED
      BY <2>3, <2>4, <2>5, <2>6
  <1>3. QED
    BY <1>1, <1>2 DEF WellFormed

(* An empty conversation. *)
LEMMA Nothing ==
  /\ WellFormed(<<>>) /\ Orderly(<<>>)
  /\ \A c \in Call : AnswersIn(<<>>, c) = {} /\ AsksIn(<<>>, c) = {} /\ PlaceholdersIn(<<>>, c) = {}
  BY DEF WellFormed, Orderly, AnswersIn, AsksIn, PlaceholdersIn

(* There is nothing to answer before the run exists. *)
LEMMA InitAnswering == Init => Answering
  <1> SUFFICES ASSUME Init PROVE Answering
    OBVIOUS
  <1>1. RowsInv
    BY Nothing DEF Init, RowsInv
  <1>2. WorkInv
    BY DEF Init, WorkInv
  <1>3. ContextInv
    BY Nothing DEF Init, ContextInv
  <1>4. UnsavedInv
    BY DEF Init, UnsavedInv, AnswersHeld
  <1>5. ApprovalsInv
    BY DEF Init, ApprovalsInv
  <1>6. QED
    BY <1>1, <1>2, <1>3, <1>4, <1>5 DEF Answering

-----------------------------------------------------------------------------
(* The steps of one thread that change no row                              *)

(* What a step of thread t leaves to the other threads. *)
OthersUnchanged(t) ==
  \A u \in Thread \ {t} :
    /\ pc'[u] = pc[u] /\ context'[u] = context[u] /\ work'[u] = work[u]
    /\ waiting'[u] = waiting[u] /\ unsaved'[u] = unsaved[u] /\ job'[u] = job[u]

StoreUnchanged == UNCHANGED <<rows, toolCalls, approvals, asked>>

(* What a thread holds is still to be stored if nothing else changed for it. *)
LEMMA AnswersHeldKept ==
  ASSUME NEW u, AnswersHeld(u), unsaved'[u] = unsaved[u], \A c \in Call : Owed(c) => Owed(c)'
  PROVE  AnswersHeld(u)'
  <1>1. \A i \in DOMAIN unsaved'[u] :
          unsaved'[u][i].kind \in Answer
          /\ \E c \in Call : unsaved'[u][i].calls = {c} /\ Owed(c)'
    BY DEF AnswersHeld
  <1>2. \A i, j \in DOMAIN unsaved'[u] : unsaved'[u][i].calls = unsaved'[u][j].calls => i = j
    BY DEF AnswersHeld
  <1>3. QED
    BY <1>1, <1>2 DEF AnswersHeld

(* A thread with no round, no placeholder and nothing to store moves on. *)
LEMMA MoveKeeps ==
  ASSUME IInv, NEW t \in Thread, StoreUnchanged, OthersUnchanged(t),
         work'[t] = {}, unsaved'[t] = <<>>, job'[t] \in {0, job[t]},
         context'[t] \in {<<>>, context[t]},
         \A c \in Call : PlaceholdersIn(context'[t], c) = {},
         pc[t] = "persist" => unsaved[t] = <<>> \/ context'[t] = <<>>
  PROVE  Answering'
  <1> USE DEF IInv, Answering, StoreUnchanged
  <1>1. RowsInv'
    BY DEF RowsInv
  <1>2. WorkInv'
    <2> SUFFICES ASSUME NEW u \in Thread, NEW c \in Call, c \in work'[u]
                 PROVE  /\ pc'[u] \in {"calls", "record", "tool", "fail"}
                        /\ c <= asked'
                        /\ AsksIn(rows', c) # {} /\ AsksIn(context'[u], c) # {}
                        /\ AnswersIn(rows', c) = {} /\ PlaceholdersIn(rows', c) = {}
                        /\ \A v \in Thread : c \in work'[v] => v = u
                        /\ \/ approvals'[c] = "none"
                           \/ /\ pc'[u] = "record" /\ c = NextCall(u)'
                              /\ approvals'[c] = "pending" /\ toolCalls'[c] = "approval_required"
      BY DEF WorkInv
    <2>1. u # t /\ c \in work[u] /\ work'[u] = work[u]
      BY DEF OthersUnchanged
    <2>2. NextCall(u)' = NextCall(u)
      BY <2>1 DEF NextCall
    <2>3. \A v \in Thread : c \in work'[v] => v = u
      BY <2>1 DEF OthersUnchanged, WorkInv
    <2>4. QED
      BY <2>1, <2>2, <2>3 DEF OthersUnchanged, WorkInv
  <1>3. ContextInv'
    <2>1. Orderly(context'[t])
      BY Nothing DEF ContextInv
    <2>2. ASSUME NEW c \in Call, AnswersIn(context'[t], c) # {}
          PROVE  AnswersIn(rows', c) # {}
      <3>1. context'[t] = context[t] /\ AnswersIn(context[t], c) # {} /\ context'[t] # <<>>
        BY <2>2, Nothing
      <3>2. ~ Missing(t, c) \/ pc[t] # "persist"
        BY <3>1 DEF Missing
      <3>3. QED
        BY <3>1, <3>2 DEF ContextInv
    <2>3. ASSUME NEW u \in Thread, u # t, NEW c \in Call PROVE Missing(u, c)' <=> Missing(u, c)
      BY <2>3 DEF Missing, OthersUnchanged
    <2>4. QED
      BY <2>1, <2>2, <2>3 DEF ContextInv, OthersUnchanged
  <1>4. UnsavedInv'
    <2>1. AnswersHeld(t)'
      BY DEF AnswersHeld
    <2>2. ASSUME NEW u \in Thread, u # t PROVE AnswersHeld(u)'
      <3>1. AnswersHeld(u) /\ unsaved'[u] = unsaved[u]
        BY <2>2 DEF UnsavedInv, OthersUnchanged
      <3>2. \A c \in Call : Owed(c) => Owed(c)'
        BY DEF Owed
      <3>3. QED
        BY <3>1, <3>2, AnswersHeldKept
    <2>3. \A u \in Thread : unsaved'[u] # <<>> => pc'[u] \in {"persist", "heal"}
      BY DEF UnsavedInv, OthersUnchanged
    <2>4. QED
      BY <2>1, <2>2, <2>3 DEF UnsavedInv
  <1>5. ApprovalsInv'
    BY DEF ApprovalsInv, OthersUnchanged
  <1>6. QED
    BY <1>1, <1>2, <1>3, <1>4, <1>5

(* A crash forgets the loops and leaves the rows. *)
LEMMA CrashKeeps ==
  ASSUME IInv, CrashAndRestart
  PROVE  Answering'
  <1>1. /\ pc' = [u \in Thread |-> "idle"]
        /\ context' = [u \in Thread |-> <<>>]
        /\ work' = [u \in Thread |-> {}]
        /\ unsaved' = [u \in Thread |-> <<>>]
        /\ job' = [u \in Thread |-> 0]
        /\ UNCHANGED <<rows, toolCalls, approvals, asked>>
    BY DEF CrashAndRestart, durable
  <1>2. RowsInv /\ ApprovalsInv
    BY DEF IInv, Answering
  <1>3. RowsInv'
    BY <1>1, <1>2 DEF RowsInv
  <1>4. WorkInv'
    BY <1>1 DEF WorkInv
  <1>5. ContextInv'
    BY <1>1, Nothing DEF ContextInv
  <1>6. UnsavedInv'
    BY <1>1 DEF UnsavedInv, AnswersHeld
  <1>7. ApprovalsInv'
    BY <1>1, <1>2 DEF ApprovalsInv
  <1>8. QED
    BY <1>3, <1>4, <1>5, <1>6, <1>7 DEF Answering

(* The decisions are neither "none" nor "pending". *)
LEMMA Kinds ==
  /\ "none" \notin Decision /\ "pending" \notin Decision
  /\ Allowing \subseteq Decision
  BY DEF Decision, Allowing

(* A step of the queue on the next call of a round. *)
LEMMA QueueKeeps ==
  ASSUME IInv, NEW t \in Thread, NEW c \in work[t], c = NextCall(t), pc[t] \in {"calls", "tool"},
         NEW label \in {"record", "tool"}, pc' = [pc EXCEPT ![t] = label],
         UNCHANGED <<rows, asked, context, work, waiting, unsaved, job>>,
         \/ approvals'[c] = "none"
         \/ /\ label = "record"
            /\ approvals'[c] = "pending" /\ toolCalls'[c] = "approval_required",
         \A d \in Call \ {c} : approvals'[d] = approvals[d] /\ toolCalls'[d] = toolCalls[d]
  PROVE  Answering'
  <1> USE DEF IInv, Answering
  <1>1. c \in Call /\ work[t] \subseteq Call /\ pc \in [Thread -> Awaiting \cup Section]
        /\ job \in [Thread -> Call \cup {0}]
    BY DEF Typing, TypeOK
  <1>2. /\ c <= asked
        /\ AnswersIn(rows, c) = {} /\ PlaceholdersIn(rows, c) = {}
        /\ \A u \in Thread : c \in work[u] => u = t
        /\ approvals[c] = "none"
    BY <1>1 DEF WorkInv
  <1>3. pc'[t] = label /\ \A u \in Thread \ {t} : pc'[u] = pc[u]
    BY <1>1
  <1>4. RowsInv'
    BY <1>2 DEF RowsInv
  <1>5. WorkInv'
    <2> SUFFICES ASSUME NEW u \in Thread, NEW d \in Call, d \in work'[u]
                 PROVE  /\ pc'[u] \in {"calls", "record", "tool", "fail"}
                        /\ d <= asked'
                        /\ AsksIn(rows', d) # {} /\ AsksIn(context'[u], d) # {}
                        /\ AnswersIn(rows', d) = {} /\ PlaceholdersIn(rows', d) = {}
                        /\ \A v \in Thread : d \in work'[v] => v = u
                        /\ \/ approvals'[d] = "none"
                           \/ /\ pc'[u] = "record" /\ d = NextCall(u)'
                              /\ approvals'[d] = "pending" /\ toolCalls'[d] = "approval_required"
      BY DEF WorkInv
    <2>1. d \in work[u] /\ NextCall(u)' = NextCall(u)
      BY DEF NextCall
    <2>2. /\ pc[u] \in {"calls", "record", "tool", "fail"}
          /\ d <= asked'
          /\ AsksIn(rows', d) # {} /\ AsksIn(context'[u], d) # {}
          /\ AnswersIn(rows', d) = {} /\ PlaceholdersIn(rows', d) = {}
          /\ \A v \in Thread : d \in work'[v] => v = u
      BY <2>1 DEF WorkInv
    <2>3. pc'[u] \in {"calls", "record", "tool", "fail"}
      BY <1>3, <2>2
    <2>4. CASE d = c
      BY <1>2, <1>3, <2>1, <2>2, <2>3, <2>4
    <2>5. CASE d # c
      <3>1. approvals'[d] = approvals[d] /\ toolCalls'[d] = toolCalls[d]
        BY <2>5
      <3>2. CASE approvals[d] = "none"
        BY <2>2, <2>3, <3>1, <3>2
      <3>3. CASE approvals[d] # "none"
        <4>1. pc[u] = "record" /\ d = NextCall(u) /\ approvals[d] = "pending"
              /\ toolCalls[d] = "approval_required"
          BY <2>1, <3>3 DEF WorkInv
        <4>2. u # t
          BY <4>1
        <4>3. QED
          BY <1>3, <2>1, <2>2, <2>3, <3>1, <4>1, <4>2
      <3>4. QED
        BY <3>2, <3>3
    <2>6. QED
      BY <2>4, <2>5
  <1>6. ContextInv'
    <2>1. \A u \in Thread : \A d \in Call : Missing(u, d)' <=> Missing(u, d)
      BY DEF Missing
    <2>2. QED
      BY <1>3, <2>1 DEF ContextInv
  <1>7. UnsavedInv'
    <2>1. \A d \in Call : Owed(d) => Owed(d)'
      BY <1>2 DEF Owed
    <2>2. \A u \in Thread : AnswersHeld(u) /\ unsaved'[u] = unsaved[u]
      BY DEF UnsavedInv
    <2>3. \A u \in Thread : AnswersHeld(u)'
      BY <2>1, <2>2, AnswersHeldKept
    <2>4. \A u \in Thread : unsaved'[u] # <<>> => pc'[u] \in {"persist", "heal"}
      BY <1>3 DEF UnsavedInv
    <2>5. QED
      BY <2>3, <2>4 DEF UnsavedInv
  <1>8. ApprovalsInv'
    <2>1. \A u \in Thread : job[u] # 0 => job[u] \in Call /\ job[u] # c
      BY <1>1, <1>2, Kinds DEF ApprovalsInv
    <2>2. \A u \in Thread : job'[u] # 0 => approvals'[job'[u]] \in Decision
      BY <2>1 DEF ApprovalsInv
    <2>3. \A d \in Call : approvals'[d] = "pending" =>
            AnswersIn(rows', d) = {} /\ toolCalls'[d] = "approval_required"
      BY <1>2 DEF ApprovalsInv
    <2>4. QED
      BY <2>2, <2>3 DEF ApprovalsInv
  <1>9. QED
    BY <1>4, <1>5, <1>6, <1>7, <1>8

(* A person decides on a call, or the tool decided on runs or returns. *)
LEMMA DecisionKeeps ==
  ASSUME IInv, NEW t \in Thread, NEW c \in Call, approvals[c] # "none", approvals'[c] \in Decision,
         pc[t] \in {"idle", "answered", "approved_tool"}, busy \in {NoThread, t},
         NEW label, pc' = [pc EXCEPT ![t] = label],
         UNCHANGED <<rows, asked, context, work, waiting, unsaved>>,
         job'[t] = c, \A u \in Thread \ {t} : job'[u] = job[u],
         \A d \in Call \ {c} : approvals'[d] = approvals[d] /\ toolCalls'[d] = toolCalls[d]
  PROVE  Answering'
  <1> USE DEF IInv, Answering
  <1>1. /\ pc \in [Thread -> Awaiting \cup Section]
        /\ job \in [Thread -> Call \cup {0}]
        /\ \A u \in Thread : work[u] \subseteq Call
        /\ \A u \in Thread : pc[u] \in Section <=> busy = u
    BY DEF Typing, TypeOK
  <1>2. \A u \in Thread : pc[u] # "record"
    BY <1>1, Threads, Labels
  <1>3. pc'[t] = label /\ \A u \in Thread \ {t} : pc'[u] = pc[u]
    BY <1>1
  <1>4. \A u \in Thread, d \in Call : d \in work[u] => approvals[d] = "none" /\ u # t
    BY <1>2 DEF WorkInv
  <1>5. RowsInv'
    BY DEF RowsInv
  <1>6. WorkInv'
    <2> SUFFICES ASSUME NEW u \in Thread, NEW d \in Call, d \in work'[u]
                 PROVE  /\ pc'[u] \in {"calls", "record", "tool", "fail"}
                        /\ d <= asked'
                        /\ AsksIn(rows', d) # {} /\ AsksIn(context'[u], d) # {}
                        /\ AnswersIn(rows', d) = {} /\ PlaceholdersIn(rows', d) = {}
                        /\ \A v \in Thread : d \in work'[v] => v = u
                        /\ approvals'[d] = "none"
      BY DEF WorkInv
    <2>1. d \in work[u] /\ approvals[d] = "none" /\ u # t /\ d # c
      BY <1>4
    <2>2. approvals'[d] = "none" /\ pc'[u] = pc[u]
      BY <1>3, <2>1
    <2>3. QED
      BY <2>1, <2>2 DEF WorkInv
  <1>7. ContextInv'
    <2>1. \A u \in Thread : \A d \in Call : Missing(u, d)' <=> Missing(u, d)
      BY DEF Missing
    <2>2. QED
      BY <1>3, <2>1 DEF ContextInv
  <1>8. UnsavedInv'
    <2>1. \A d \in Call : Owed(d) => Owed(d)'
      BY Kinds DEF Owed
    <2>2. \A u \in Thread : AnswersHeld(u) /\ unsaved'[u] = unsaved[u]
      BY DEF UnsavedInv
    <2>3. \A u \in Thread : AnswersHeld(u)'
      BY <2>1, <2>2, AnswersHeldKept
    <2>4. \A u \in Thread : unsaved'[u] # <<>> => pc'[u] \in {"persist", "heal"}
      BY <1>3 DEF UnsavedInv
    <2>5. QED
      BY <2>3, <2>4 DEF UnsavedInv
  <1>9. ApprovalsInv'
    <2>1. \A u \in Thread \ {t} : job'[u] # 0 => approvals'[job'[u]] \in Decision
      <3> SUFFICES ASSUME NEW u \in Thread \ {t}, job'[u] # 0
                   PROVE  approvals'[job'[u]] \in Decision
        OBVIOUS
      <3>1. job'[u] = job[u] /\ job[u] \in Call /\ approvals[job[u]] \in Decision
        BY <1>1 DEF ApprovalsInv
      <3>2. QED
        BY <3>1
    <2>2. \A d \in Call : approvals'[d] = "pending" =>
            AnswersIn(rows', d) = {} /\ toolCalls'[d] = "approval_required"
      BY Kinds DEF ApprovalsInv
    <2>3. QED
      BY <2>1, <2>2 DEF ApprovalsInv
  <1>10. QED
    BY <1>5, <1>6, <1>7, <1>8, <1>9

-----------------------------------------------------------------------------
(* The steps that add a message                                            *)

(* Nothing is answered, and nobody is asked, before the model asks for it. *)
LEMMA UnaskedCalls ==
  ASSUME TypeOK, RowsInv, NEW c \in Call, ~ (c <= asked)
  PROVE  /\ AsksIn(rows, c) = {} /\ AnswersIn(rows, c) = {} /\ PlaceholdersIn(rows, c) = {}
         /\ approvals[c] = "none"
  <1>1. AsksIn(rows, c) = {} /\ approvals[c] = "none"
    BY DEF RowsInv
  <1>2. QED
    BY <1>1 DEF RowsInv, WellFormed

(* The model answers: its calls are new. *)
LEMMA ModelKeeps ==
  ASSUME IInv, NEW t \in Thread, NEW n \in 0..MaxParallel, ModelAnswers(t, n)
  PROVE  Answering'
  <1> DEFINE calls == (asked + 1)..(asked + n)
             m == Asks(calls)
  <1> USE DEF IInv, Answering
  <1>1. /\ asked \in Nat /\ n \in Nat /\ MaxCalls \in Nat
        /\ rows \in Seq(Message) /\ context \in [Thread -> Seq(Message)]
        /\ pc \in [Thread -> Awaiting \cup Section] /\ work \in [Thread -> SUBSET Call]
        /\ TypeOK
    BY RunnerAssumption DEF Typing, TypeOK
  <1>2. /\ pc[t] = "model" /\ asked + n <= MaxCalls /\ asked' = asked + n
        /\ rows' = Append(rows, m)
        /\ context' = [context EXCEPT ![t] = Append(@, m)]
        /\ work' = [work EXCEPT ![t] = calls]
        /\ waiting' = [waiting EXCEPT ![t] = FALSE]
        /\ UNCHANGED <<toolCalls, approvals, unsaved, job>>
    BY DEF ModelAnswers, AddMessage
  <1>3. PICK label \in {"finish", "fail", "calls"} :
          pc' = [pc EXCEPT ![t] = label] /\ (label = "finish" => n = 0)
    BY DEF ModelAnswers, Enter
  <1>4. /\ calls \subseteq Call
        /\ \A c \in calls : ~ (c <= asked) /\ c <= asked'
        /\ \A c \in Call : c <= asked => c <= asked'
        /\ n = 0 => calls = {}
    BY <1>1, <1>2 DEF Call
  <1> HIDE DEF calls
  <1>5. m \in Message /\ m.kind = "asks" /\ m.calls = calls
    BY <1>4 DEF Asks, Message
  <1> HIDE DEF m
  <1>6. /\ pc'[t] = label /\ work'[t] = calls /\ context'[t] = Append(context[t], m)
        /\ context[t] \in Seq(Message)
        /\ \A u \in Thread \ {t} :
             /\ pc'[u] = pc[u] /\ work'[u] = work[u] /\ context'[u] = context[u]
             /\ waiting'[u] = waiting[u]
    BY <1>1, <1>2, <1>3 DEF Typing, TypeOK
  <1>7. \A s \in Seq(Message), c \in Call :
          /\ AnswersIn(Append(s, m), c) = AnswersIn(s, c)
          /\ PlaceholdersIn(Append(s, m), c) = PlaceholdersIn(s, c)
          /\ AsksIn(Append(s, m), c) # {} <=> AsksIn(s, c) # {} \/ c \in calls
    BY <1>5, Appended DEF Answer
  <1>8. RowsInv'
    <2>1. WellFormed(rows')
      BY <1>1, <1>2, <1>5, WellFormedAppend DEF RowsInv, Answer
    <2>2. \A c \in Call : AsksIn(rows', c) # {} \/ approvals'[c] # "none" => c <= asked'
      BY <1>1, <1>2, <1>4, <1>7 DEF RowsInv
    <2>3. QED
      BY <2>1, <2>2 DEF RowsInv
  <1>9. WorkInv'
    <2> SUFFICES ASSUME NEW u \in Thread, NEW c \in Call, c \in work'[u]
                 PROVE  /\ pc'[u] \in {"calls", "record", "tool", "fail"}
                        /\ c <= asked'
                        /\ AsksIn(rows', c) # {} /\ AsksIn(context'[u], c) # {}
                        /\ AnswersIn(rows', c) = {} /\ PlaceholdersIn(rows', c) = {}
                        /\ \A v \in Thread : c \in work'[v] => v = u
                        /\ \/ approvals'[c] = "none"
                           \/ /\ pc'[u] = "record" /\ c = NextCall(u)'
                              /\ approvals'[c] = "pending" /\ toolCalls'[c] = "approval_required"
      BY DEF WorkInv
    <2>1. CASE u = t
      <3>1. c \in calls /\ ~ (c <= asked)
        BY <1>4, <1>6, <2>1
      <3>2. \A v \in Thread : c \in work'[v] => v = u
        BY <1>6, <2>1, <3>1 DEF WorkInv
      <3>3. AnswersIn(rows, c) = {} /\ PlaceholdersIn(rows, c) = {} /\ approvals[c] = "none"
        BY <1>1, <3>1, UnaskedCalls
      <3>4. QED
        BY <1>1, <1>2, <1>3, <1>4, <1>6, <1>7, <2>1, <3>1, <3>2, <3>3
    <2>2. CASE u # t
      <3>1. c \in work[u] /\ c <= asked /\ NextCall(u)' = NextCall(u)
        BY <1>6, <2>2 DEF WorkInv, NextCall
      <3>2. \A v \in Thread : c \in work'[v] => v = u
        BY <1>4, <1>6, <3>1 DEF WorkInv
      <3>3. AsksIn(rows, c) # {} /\ AsksIn(context[u], c) # {} /\ AnswersIn(rows, c) = {}
            /\ PlaceholdersIn(rows, c) = {}
        BY <3>1 DEF WorkInv
      <3>4. AsksIn(rows', c) # {} /\ AsksIn(context'[u], c) # {} /\ AnswersIn(rows', c) = {}
            /\ PlaceholdersIn(rows', c) = {}
        BY <1>1, <1>2, <1>6, <1>7, <2>2, <3>3
      <3>5. QED
        BY <1>2, <1>4, <1>6, <2>2, <3>1, <3>2, <3>4 DEF WorkInv
    <2>3. QED
      BY <2>1, <2>2
  <1>10. ContextInv'
    <2>1. Orderly(context'[t])
      <3>1. Orderly(context[t])
        BY DEF ContextInv
      <3>2. QED
        BY <1>5, <1>6, <3>1, OrderlyAppend DEF Answer
    <2>2. \A c \in Call :
            /\ AnswersIn(context'[t], c) # {} => AnswersIn(rows', c) # {}
            /\ PlaceholdersIn(context'[t], c) = {}
      BY <1>1, <1>2, <1>6, <1>7 DEF ContextInv
    <2>3. \A u \in Thread : \A c \in Call : Missing(u, c)' <=> Missing(u, c)
      BY <1>2 DEF Missing
    <2>4. ASSUME NEW u \in Thread \ {t}, NEW c \in Call, AnswersIn(context'[u], c) # {}
          PROVE  AnswersIn(rows', c) # {} \/ (pc'[u] = "persist" /\ Missing(u, c)')
      <3>1. AnswersIn(rows, c) # {} \/ (pc[u] = "persist" /\ Missing(u, c))
        BY <1>6, <2>4 DEF ContextInv
      <3>2. AnswersIn(rows', c) = AnswersIn(rows, c)
        BY <1>1, <1>2, <1>7
      <3>3. QED
        BY <1>6, <2>3, <3>1, <3>2
    <2>5. QED
      BY <1>6, <2>1, <2>2, <2>4 DEF ContextInv
  <1>11. UnsavedInv'
    <2>1. \A c \in Call : Owed(c) => Owed(c)'
      BY <1>1, <1>2, <1>7 DEF Owed
    <2>2. \A u \in Thread : AnswersHeld(u) /\ unsaved'[u] = unsaved[u]
      BY <1>2 DEF UnsavedInv
    <2>3. \A u \in Thread : AnswersHeld(u)'
      BY <2>1, <2>2, AnswersHeldKept
    <2>4. \A u \in Thread : unsaved'[u] # <<>> => pc'[u] \in {"persist", "heal"}
      BY <1>2, <1>6 DEF UnsavedInv
    <2>5. QED
      BY <2>3, <2>4 DEF UnsavedInv
  <1>12. ApprovalsInv'
    BY <1>1, <1>2, <1>7 DEF ApprovalsInv
  <1>13. QED
    BY <1>8, <1>9, <1>10, <1>11, <1>12

(* The outcome of a call, or the placeholder of its approval, is recorded. *)
LEMMA RecordKeeps ==
  ASSUME IInv, NEW t \in Thread, RecordToolMessage(t)
  PROVE  Answering'
  <1> DEFINE c == NextCall(t)
             asks == toolCalls[c] = "approval_required"
             m == Tool(IF asks THEN "placeholder" ELSE "outcome", c)
  <1> USE DEF IInv, Answering
  <1>1. /\ TypeOK /\ Places /\ rows \in Seq(Message) /\ context \in [Thread -> Seq(Message)]
        /\ pc \in [Thread -> Awaiting \cup Section] /\ work \in [Thread -> SUBSET Call]
        /\ waiting \in [Thread -> BOOLEAN]
        /\ \A u \in Thread : pc[u] \in Section <=> busy = u
    BY DEF Typing, TypeOK
  <1>2. /\ pc[t] = "record"
        /\ rows' = Append(rows, m)
        /\ context' = [context EXCEPT ![t] = Append(@, m)]
        /\ work' = [work EXCEPT ![t] = @ \ {c}]
        /\ waiting' = [waiting EXCEPT ![t] = @ \/ asks]
        /\ pc' = [pc EXCEPT ![t] = "calls"]
        /\ UNCHANGED <<toolCalls, approvals, unsaved, job, asked>>
    BY DEF RecordToolMessage, AddMessage, Goto, history
  <1>3. c \in work[t] /\ c \in Call
    BY <1>1, <1>2, NextCallIsWork DEF Places
  <1>4. /\ AsksIn(rows, c) # {} /\ AsksIn(context[t], c) # {}
        /\ AnswersIn(rows, c) = {} /\ PlaceholdersIn(rows, c) = {}
        /\ \A u \in Thread : c \in work[u] => u = t
        /\ approvals[c] = "pending" => asks
    BY <1>3 DEF WorkInv
  <1>5. /\ m \in Message /\ m.calls = {c} /\ m.kind # "asks"
        /\ m.kind = "placeholder" <=> asks
        /\ m.kind \in Answer <=> ~asks
    BY <1>3 DEF Tool, Message, Answer
  <1> HIDE DEF m, asks, c
  <1>6. /\ pc'[t] = "calls" /\ work'[t] = work[t] \ {c} /\ context'[t] = Append(context[t], m)
        /\ context[t] \in Seq(Message) /\ waiting'[t] = (waiting[t] \/ asks)
        /\ \A u \in Thread \ {t} :
             /\ pc'[u] = pc[u] /\ work'[u] = work[u] /\ context'[u] = context[u]
             /\ waiting'[u] = waiting[u]
    BY <1>1, <1>2
  <1>7. \A s \in Seq(Message), d \in Call :
          /\ d # c => AnswersIn(Append(s, m), d) = AnswersIn(s, d)
          /\ asks => AnswersIn(Append(s, m), d) = AnswersIn(s, d)
          /\ ~asks => AnswersIn(Append(s, m), c) # {}
          /\ d # c => PlaceholdersIn(Append(s, m), d) = PlaceholdersIn(s, d)
          /\ ~asks => PlaceholdersIn(Append(s, m), d) = PlaceholdersIn(s, d)
          /\ AsksIn(Append(s, m), d) = AsksIn(s, d)
          /\ AnswersIn(s, d) # {} => AnswersIn(Append(s, m), d) # {}
    BY <1>5, Appended
  <1>8. RowsInv'
    <2>1. WellFormed(rows')
      BY <1>1, <1>2, <1>3, <1>4, <1>5, WellFormedAppend DEF RowsInv
    <2>2. QED
      BY <1>1, <1>2, <1>7, <2>1 DEF RowsInv
  <1>9. WorkInv'
    <2> SUFFICES ASSUME NEW u \in Thread, NEW d \in Call, d \in work'[u]
                 PROVE  /\ pc'[u] \in {"calls", "record", "tool", "fail"}
                        /\ d <= asked'
                        /\ AsksIn(rows', d) # {} /\ AsksIn(context'[u], d) # {}
                        /\ AnswersIn(rows', d) = {} /\ PlaceholdersIn(rows', d) = {}
                        /\ \A v \in Thread : d \in work'[v] => v = u
                        /\ approvals'[d] = "none"
      BY DEF WorkInv
    <2>1. d \in work[u] /\ d # c
      BY <1>4, <1>6
    <2>2. \A v \in Thread : d \in work'[v] => v = u
      BY <1>6, <2>1 DEF WorkInv
    <2>3. approvals[d] = "none"
      <3>1. ~ (pc[u] = "record" /\ d = NextCall(u))
        <4>1. u # t => pc[u] # "record"
          BY <1>1, <1>2, Labels
        <4>2. QED
          BY <2>1, <4>1 DEF c
      <3>2. QED
        BY <2>1, <3>1 DEF WorkInv
    <2>4. /\ AsksIn(rows, d) # {} /\ AsksIn(context[u], d) # {}
          /\ AnswersIn(rows, d) = {} /\ PlaceholdersIn(rows, d) = {}
          /\ d <= asked /\ pc[u] \in {"calls", "record", "tool", "fail"}
      BY <2>1 DEF WorkInv
    <2>5. AsksIn(context'[u], d) # {}
      BY <1>6, <1>7, <2>4
    <2>6. QED
      BY <1>1, <1>2, <1>6, <1>7, <2>1, <2>2, <2>3, <2>4, <2>5
  <1>10. ContextInv'
    <2>1. AnswersIn(context[t], c) = {}
      BY <1>2, <1>3, <1>4 DEF ContextInv
    <2>2. Orderly(context'[t])
      <3>1. Orderly(context[t])
        BY DEF ContextInv
      <3>2. \A d \in m.calls : AsksIn(context[t], d) # {} /\ AnswersIn(context[t], d) = {}
        BY <1>4, <1>5, <2>1
      <3>3. Orderly(Append(context[t], m))
        BY <1>3, <1>5, <1>6, <3>1, <3>2, OrderlyAppend
      <3>4. QED
        BY <1>6, <3>3
    <2>3. ASSUME NEW d \in Call, AnswersIn(context'[t], d) # {}
          PROVE  AnswersIn(rows', d) # {}
      <3>1. CASE AnswersIn(context[t], d) # {}
        <4>1. AnswersIn(rows, d) # {}
          BY <1>2, <3>1 DEF ContextInv
        <4>2. QED
          BY <1>1, <1>2, <1>7, <4>1
      <3>2. CASE AnswersIn(context[t], d) = {}
        <4>1. d = c /\ ~asks
          BY <1>6, <1>7, <2>3, <3>2
        <4>2. QED
          BY <1>1, <1>2, <1>7, <4>1
      <3>3. QED
        BY <3>1, <3>2
    <2>4. ASSUME NEW d \in Call, PlaceholdersIn(context'[t], d) # {} PROVE waiting'[t]
      <3>1. CASE asks
        BY <1>6, <3>1
      <3>2. CASE ~asks
        <4>1. PlaceholdersIn(context[t], d) # {}
          BY <1>6, <1>7, <2>4, <3>2
        <4>2. waiting[t]
          BY <4>1 DEF ContextInv
        <4>3. QED
          BY <1>6, <4>2, Zenon
      <3>3. QED
        BY <3>1, <3>2
    <2>5. \A u \in Thread : \A d \in Call : Missing(u, d)' <=> Missing(u, d)
      BY <1>2 DEF Missing
    <2>6. \A u \in Thread \ {t} : \A d \in Call :
            AnswersIn(context'[u], d) # {} =>
              AnswersIn(rows', d) # {} \/ (pc'[u] = "persist" /\ Missing(u, d)')
      <3> SUFFICES ASSUME NEW u \in Thread \ {t}, NEW d \in Call, AnswersIn(context'[u], d) # {}
                   PROVE  AnswersIn(rows', d) # {} \/ (pc'[u] = "persist" /\ Missing(u, d)')
        OBVIOUS
      <3>1. AnswersIn(rows, d) # {} \/ (pc[u] = "persist" /\ Missing(u, d))
        BY <1>6 DEF ContextInv
      <3>2. AnswersIn(rows, d) # {} => AnswersIn(rows', d) # {}
        BY <1>1, <1>2, <1>7
      <3>3. QED
        BY <1>6, <2>5, <3>1, <3>2
    <2>7. QED
      BY <1>6, <2>2, <2>3, <2>4, <2>6 DEF ContextInv
  <1>11. UnsavedInv'
    <2>1. \A d \in Call : Owed(d) => Owed(d)'
      BY <1>1, <1>2, <1>4, <1>7 DEF Owed
    <2>2. \A u \in Thread : AnswersHeld(u) /\ unsaved'[u] = unsaved[u]
      BY <1>2 DEF UnsavedInv
    <2>3. \A u \in Thread : AnswersHeld(u)'
      BY <2>1, <2>2, AnswersHeldKept
    <2>4. \A u \in Thread : unsaved'[u] # <<>> => pc'[u] \in {"persist", "heal"}
      BY <1>2, <1>6 DEF UnsavedInv
    <2>5. QED
      BY <2>3, <2>4 DEF UnsavedInv
  <1>12. ApprovalsInv'
    <2>1. \A d \in Call : approvals[d] = "pending" => AnswersIn(rows', d) = {}
      BY <1>1, <1>2, <1>4, <1>7 DEF ApprovalsInv
    <2>2. QED
      BY <1>2, <2>1 DEF ApprovalsInv
  <1>13. QED
    BY <1>8, <1>9, <1>10, <1>11, <1>12

-----------------------------------------------------------------------------
(* The steps that rebuild a conversation and store what it was missing     *)

(* An open placeholder waits in the rows for an answer nobody stored. *)
LEMMA OpenIsOwed ==
  ASSUME NEW c \in OpenCalls
  PROVE  c \in Call /\ PlaceholdersIn(rows, c) # {} /\ AnswersIn(rows, c) = {}
  <1>1. PICK i \in DOMAIN rows : IsOpen(rows[i]) /\ c \in rows[i].calls
    BY DEF OpenCalls
  <1>2. c \in Call /\ c \notin Stored /\ i \in PlaceholdersIn(rows, c)
    BY <1>1 DEF OpenCalls, IsOpen, PlaceholdersIn
  <1>3. QED
    BY <1>2 DEF Stored, AnswersIn

(* Once every open call is decided, the answers found are owed. *)
LEMMA AnswersAreOwed ==
  ASSUME IInv, NEW t \in Thread, \A c \in OpenCalls : approvals[c] # "pending",
         unsaved'[t] = MessagesToPersist, rows' = rows, approvals' = approvals
  PROVE  /\ AnswersHeld(t)'
         /\ \A c \in OpenCalls : Missing(t, c)'
  <1>1. rows \in Seq(Message) /\ WellFormed(rows)
    BY DEF IInv, Answering, RowsInv, Typing, TypeOK
  <1>2. \A c \in OpenCalls : c \in Call /\ Owed(c)'
    BY OpenIsOwed DEF Owed
  <1>3. \A i \in DOMAIN unsaved'[t] :
          unsaved'[t][i].kind \in Answer
          /\ \E c \in Call : unsaved'[t][i].calls = {c} /\ Owed(c)'
    BY <1>1, <1>2, PersistedAnswers
  <1>4. \A i, j \in DOMAIN unsaved'[t] : unsaved'[t][i].calls = unsaved'[t][j].calls => i = j
    BY <1>1, PersistedAnswers
  <1>5. ASSUME NEW c \in OpenCalls PROVE Missing(t, c)'
    <2>1. PICK i \in DOMAIN MessagesToPersist : MessagesToPersist[i].calls = {c}
      BY <1>1, PersistedAnswers
    <2>2. i \in DOMAIN unsaved'[t] /\ c \in unsaved'[t][i].calls
      BY <2>1
    <2>3. QED
      BY <2>2 DEF Missing
  <1>6. QED
    BY <1>3, <1>4, <1>5 DEF AnswersHeld

(* A request that begins to store answers. *)
LEMMA CollectKeeps ==
  ASSUME IInv, NEW t \in Thread, NEW label \in {"persist", "heal"},
         pc[t] \in {"idle", "resume"}, pc' = [pc EXCEPT ![t] = label],
         StoreUnchanged, UNCHANGED <<work, waiting, job>>,
         \A c \in OpenCalls : approvals[c] # "pending",
         unsaved' = [unsaved EXCEPT ![t] = MessagesToPersist],
         \/ context' = context
         \/ label = "persist" /\ context' = [context EXCEPT ![t] = RebuiltMessages]
  PROVE  Answering'
  <1> USE DEF IInv, Answering, StoreUnchanged
  <1>1. /\ rows \in Seq(Message) /\ WellFormed(rows)
        /\ context \in [Thread -> Seq(Message)] /\ unsaved \in [Thread -> Seq(Message)]
        /\ pc \in [Thread -> Awaiting \cup Section]
    BY DEF Typing, TypeOK, RowsInv
  <1>2. /\ pc'[t] = label /\ unsaved'[t] = MessagesToPersist
        /\ \A u \in Thread \ {t} :
             pc'[u] = pc[u] /\ unsaved'[u] = unsaved[u] /\ context'[u] = context[u]
    BY <1>1
  <1>3. AnswersHeld(t)' /\ \A c \in OpenCalls : Missing(t, c)'
    BY <1>2, AnswersAreOwed
  <1>4. RowsInv'
    BY DEF RowsInv
  <1>5. WorkInv'
    <2> SUFFICES ASSUME NEW u \in Thread, NEW d \in Call, d \in work'[u]
                 PROVE  /\ pc'[u] \in {"calls", "record", "tool", "fail"}
                        /\ d <= asked'
                        /\ AsksIn(rows', d) # {} /\ AsksIn(context'[u], d) # {}
                        /\ AnswersIn(rows', d) = {} /\ PlaceholdersIn(rows', d) = {}
                        /\ \A v \in Thread : d \in work'[v] => v = u
                        /\ \/ approvals'[d] = "none"
                           \/ /\ pc'[u] = "record" /\ d = NextCall(u)'
                              /\ approvals'[d] = "pending" /\ toolCalls'[d] = "approval_required"
      BY DEF WorkInv
    <2>1. d \in work[u] /\ u # t /\ NextCall(u)' = NextCall(u)
      BY DEF WorkInv, NextCall
    <2>2. QED
      BY <1>2, <2>1 DEF WorkInv
  <1>6. ContextInv'
    <2>1. CASE context'[t] = context[t]
      <3>1. /\ Orderly(context'[t])
            /\ \A c \in Call : /\ AnswersIn(context'[t], c) # {} => AnswersIn(rows', c) # {}
                               /\ PlaceholdersIn(context'[t], c) = {}
        BY <2>1 DEF ContextInv
      <3>2. \A u \in Thread \ {t} : \A d \in Call : Missing(u, d)' <=> Missing(u, d)
        BY <1>2 DEF Missing
      <3>3. QED
        BY <1>2, <3>1, <3>2 DEF ContextInv
    <2>2. CASE label = "persist" /\ context'[t] = RebuiltMessages
      <3>1. /\ WellFormed(context'[t])
            /\ \A c \in Call : /\ AnswersIn(context'[t], c) # {} => c \in Stored \cup OpenCalls
                               /\ PlaceholdersIn(context'[t], c) = {}
        BY <1>1, <2>2, RebuiltIsWellFormed
      <3>2. Orderly(context'[t])
        BY <3>1 DEF WellFormed, Orderly
      <3>3. \A c \in Stored : AnswersIn(rows', c) # {}
        BY DEF Stored, AnswersIn
      <3>4. \A c \in Call :
              AnswersIn(context'[t], c) # {} =>
                AnswersIn(rows', c) # {} \/ (pc'[t] = "persist" /\ Missing(t, c)')
        BY <1>2, <1>3, <2>2, <3>1, <3>3
      <3>5. \A u \in Thread \ {t} : \A d \in Call : Missing(u, d)' <=> Missing(u, d)
        BY <1>2 DEF Missing
      <3>6. QED
        BY <1>2, <3>1, <3>2, <3>4, <3>5 DEF ContextInv
    <2>3. QED
      BY <1>1, <2>1, <2>2
  <1>7. UnsavedInv'
    <2>1. \A d \in Call : Owed(d) => Owed(d)'
      BY DEF Owed
    <2>2. \A u \in Thread \ {t} : AnswersHeld(u) /\ unsaved'[u] = unsaved[u]
      BY <1>2 DEF UnsavedInv
    <2>3. \A u \in Thread \ {t} : AnswersHeld(u)'
      BY <2>1, <2>2, AnswersHeldKept
    <2>4. \A u \in Thread : unsaved'[u] # <<>> => pc'[u] \in {"persist", "heal"}
      BY <1>2 DEF UnsavedInv
    <2>5. QED
      BY <1>3, <2>3, <2>4 DEF UnsavedInv
  <1>8. ApprovalsInv'
    BY DEF ApprovalsInv
  <1>9. QED
    BY <1>4, <1>5, <1>6, <1>7, <1>8

(* One of the answers found missing is stored. *)
LEMMA PersistKeeps ==
  ASSUME IInv, NEW t \in Thread, PersistAnswer(t)
  PROVE  Answering'
  <1> DEFINE m == Head(unsaved[t])
  <1> USE DEF IInv, Answering
  <1>1. /\ rows \in Seq(Message) /\ unsaved \in [Thread -> Seq(Message)]
        /\ context \in [Thread -> Seq(Message)]
        /\ \A u \in Thread : pc[u] \in Section <=> busy = u
    BY DEF Typing, TypeOK
  <1>2. /\ pc[t] \in {"persist", "heal"} /\ unsaved[t] # <<>>
        /\ rows' = Append(rows, m)
        /\ unsaved' = [unsaved EXCEPT ![t] = Tail(@)]
        /\ UNCHANGED <<toolCalls, approvals, pc, context, work, waiting, job, asked>>
    BY DEF PersistAnswer, history
  <1>3. /\ unsaved[t] \in Seq(Message) /\ 1 \in DOMAIN unsaved[t] /\ m = unsaved[t][1]
        /\ m \in Message
        /\ unsaved'[t] = Tail(unsaved[t])
        /\ \A u \in Thread \ {t} : unsaved'[u] = unsaved[u]
    BY <1>1, <1>2
  <1>4. \A i \in DOMAIN unsaved'[t] :
          i + 1 \in DOMAIN unsaved[t] /\ i + 1 # 1 /\ unsaved'[t][i] = unsaved[t][i + 1]
    BY <1>1, <1>2, <1>3
  <1>5. \A i \in DOMAIN unsaved[t] : i # 1 => i - 1 \in DOMAIN unsaved'[t] /\ (i - 1) + 1 = i
    BY <1>1, <1>2, <1>3
  <1>6. PICK c \in Call : m.calls = {c} /\ Owed(c) /\ m.kind \in Answer
    BY <1>3 DEF UnsavedInv, AnswersHeld
  <1> HIDE DEF m
  <1>7. /\ PlaceholdersIn(rows, c) # {} /\ AnswersIn(rows, c) = {}
        /\ approvals[c] # "pending" /\ AsksIn(rows, c) # {}
    BY <1>6 DEF Owed, RowsInv, WellFormed
  <1>8. \A d \in Call :
          /\ d # c => AnswersIn(rows', d) = AnswersIn(rows, d)
          /\ AnswersIn(rows', c) # {}
          /\ AnswersIn(rows, d) # {} => AnswersIn(rows', d) # {}
          /\ PlaceholdersIn(rows', d) = PlaceholdersIn(rows, d)
          /\ AsksIn(rows', d) = AsksIn(rows, d)
    <2>1. rows' = Append(rows, m) /\ rows \in Seq(Message) /\ m \in Message
      BY <1>1, <1>2, <1>3
    <2>2. m.kind # "asks" /\ m.kind # "placeholder"
      BY <1>6 DEF Answer
    <2>3. ASSUME NEW d \in Call
          PROVE  /\ AnswersIn(rows', d) = IF d = c THEN AnswersIn(rows, d) \cup {Len(rows) + 1}
                                         ELSE AnswersIn(rows, d)
                 /\ PlaceholdersIn(rows', d) = PlaceholdersIn(rows, d)
                 /\ AsksIn(rows', d) = AsksIn(rows, d)
      BY <1>6, <2>1, <2>2, Appended
    <2>4. QED
      BY <1>6, <2>3
  <1>9. \A u \in Thread \ {t} : unsaved[u] = <<>>
    BY <1>1, <1>2, Labels DEF UnsavedInv
  <1>10. RowsInv'
    <2>1. WellFormed(rows')
      BY <1>1, <1>2, <1>3, <1>6, <1>7, WellFormedAppend DEF RowsInv, Answer
    <2>2. QED
      BY <1>2, <1>8, <2>1 DEF RowsInv
  <1>11. WorkInv'
    <2> SUFFICES ASSUME NEW u \in Thread, NEW d \in Call, d \in work'[u]
                 PROVE  /\ pc'[u] \in {"calls", "record", "tool", "fail"}
                        /\ d <= asked'
                        /\ AsksIn(rows', d) # {} /\ AsksIn(context'[u], d) # {}
                        /\ AnswersIn(rows', d) = {} /\ PlaceholdersIn(rows', d) = {}
                        /\ \A v \in Thread : d \in work'[v] => v = u
                        /\ \/ approvals'[d] = "none"
                           \/ /\ pc'[u] = "record" /\ d = NextCall(u)'
                              /\ approvals'[d] = "pending" /\ toolCalls'[d] = "approval_required"
      BY DEF WorkInv
    <2>1. d \in work[u] /\ NextCall(u)' = NextCall(u) /\ PlaceholdersIn(rows, d) = {}
      BY <1>2 DEF WorkInv, NextCall
    <2>2. d # c
      BY <1>7, <2>1
    <2>3. QED
      BY <1>2, <1>8, <2>1, <2>2 DEF WorkInv
  <1>12. ContextInv'
    <2>1. ASSUME NEW u \in Thread, NEW d \in Call, AnswersIn(context'[u], d) # {},
                 AnswersIn(rows', d) = {}
          PROVE  pc'[u] = "persist" /\ Missing(u, d)'
      <3>1. AnswersIn(rows, d) = {} /\ d # c
        BY <1>8, <2>1
      <3>2. pc[u] = "persist" /\ Missing(u, d)
        BY <1>2, <2>1, <3>1 DEF ContextInv
      <3>3. u = t
        BY <1>9, <3>2 DEF Missing
      <3>4. PICK i \in DOMAIN unsaved[t] : d \in unsaved[t][i].calls
        BY <3>2, <3>3 DEF Missing
      <3>5. i # 1
        BY <1>3, <1>6, <3>1, <3>4
      <3>6. i - 1 \in DOMAIN unsaved'[t] /\ d \in unsaved'[t][i - 1].calls
        BY <1>4, <1>5, <3>4, <3>5
      <3>7. QED
        BY <1>2, <3>2, <3>3, <3>6 DEF Missing
    <2>2. QED
      BY <1>2, <2>1 DEF ContextInv
  <1>13. UnsavedInv'
    <2>1. AnswersHeld(t)'
      <3>1. ASSUME NEW i \in DOMAIN unsaved'[t]
            PROVE  unsaved'[t][i].kind \in Answer
                   /\ \E d \in Call : unsaved'[t][i].calls = {d} /\ Owed(d)'
        <4>1. i + 1 \in DOMAIN unsaved[t] /\ i + 1 # 1 /\ unsaved'[t][i] = unsaved[t][i + 1]
          BY <1>4
        <4>2. PICK d \in Call : unsaved[t][i + 1].calls = {d} /\ Owed(d)
          BY <4>1 DEF UnsavedInv, AnswersHeld
        <4>3. d # c
          BY <1>3, <1>6, <4>1, <4>2 DEF UnsavedInv, AnswersHeld
        <4>4. Owed(d)'
          BY <1>2, <1>8, <4>2, <4>3 DEF Owed
        <4>5. unsaved[t][i + 1].kind \in Answer
          BY <4>1 DEF UnsavedInv, AnswersHeld
        <4>6. QED
          BY <4>1, <4>2, <4>4, <4>5
      <3>2. ASSUME NEW i \in DOMAIN unsaved'[t], NEW j \in DOMAIN unsaved'[t],
                   unsaved'[t][i].calls = unsaved'[t][j].calls
            PROVE  i = j
        <4>1. i + 1 = j + 1
          BY <1>4, <3>2 DEF UnsavedInv, AnswersHeld
        <4>2. i \in Nat /\ j \in Nat
          BY <1>3
        <4>3. QED
          BY <4>1, <4>2
      <3>3. QED
        BY <3>1, <3>2 DEF AnswersHeld
    <2>2. \A u \in Thread \ {t} : unsaved'[u] = <<>>
      BY <1>3, <1>9
    <2>3. \A u \in Thread \ {t} : AnswersHeld(u)'
      BY <2>2 DEF AnswersHeld
    <2>4. QED
      BY <1>2, <2>1, <2>2, <2>3 DEF UnsavedInv
  <1>14. ApprovalsInv'
    BY <1>2, <1>7, <1>8 DEF ApprovalsInv
  <1>15. QED
    BY <1>10, <1>11, <1>12, <1>13, <1>14

-----------------------------------------------------------------------------
(* Every step keeps the invariant                                          *)

(* A step that moves the label of one thread leaves the others alone. *)
LEMMA MovesOne ==
  ASSUME TypeOK, NEW t \in Thread, NEW label, pc' = [pc EXCEPT ![t] = label],
         UNCHANGED <<loop, job>>
  PROVE  OthersUnchanged(t)
  BY DEF TypeOK, OthersUnchanged, loop

(* A thread that is not inside a round has nothing to run and no placeholder;
   one that stores nothing has nothing to store. *)
LEMMA OutsideRound ==
  ASSUME IInv, NEW t \in Thread
  PROVE  /\ pc[t] \notin {"calls", "record", "tool", "fail"} => work[t] = {}
         /\ pc[t] \notin {"calls", "record", "tool"} \/ ~waiting[t] =>
              \A c \in Call : PlaceholdersIn(context[t], c) = {}
         /\ pc[t] \notin {"persist", "heal"} => unsaved[t] = <<>>
  <1>1. work[t] \subseteq Call
    BY DEF IInv, Typing, TypeOK
  <1>2. QED
    BY <1>1 DEF IInv, Answering, WorkInv, ContextInv, UnsavedInv

(* A step that moves no thread, or nothing at all. *)
LEMMA StutterKeeps ==
  ASSUME IInv, StoreUnchanged, pc' = pc, UNCHANGED <<loop, job>>
  PROVE  Answering'
  <1> USE DEF StoreUnchanged, loop
  <1>1. RowsInv /\ WorkInv /\ ContextInv /\ UnsavedInv /\ ApprovalsInv
    BY DEF IInv, Answering
  <1>2. RowsInv'
    BY <1>1 DEF RowsInv
  <1>3. WorkInv'
    BY <1>1 DEF WorkInv, NextCall
  <1>4. ContextInv'
    BY <1>1 DEF ContextInv, Missing
  <1>5. UnsavedInv'
    <2>1. \A c \in Call : Owed(c) => Owed(c)'
      BY DEF Owed
    <2>2. \A u \in Thread : AnswersHeld(u) /\ unsaved'[u] = unsaved[u]
      BY <1>1 DEF UnsavedInv
    <2>3. \A u \in Thread : AnswersHeld(u)'
      BY <2>1, <2>2, AnswersHeldKept
    <2>4. QED
      BY <1>1, <2>3 DEF UnsavedInv
  <1>6. ApprovalsInv'
    BY <1>1 DEF ApprovalsInv
  <1>7. QED
    BY <1>2, <1>3, <1>4, <1>5, <1>6 DEF Answering

(* A thread goes on from outside a round, or from the end of one. *)
LEMMA PassKeeps ==
  ASSUME IInv, NEW t \in Thread, NEW label, pc' = [pc EXCEPT ![t] = label],
         StoreUnchanged, UNCHANGED <<loop, job>>,
         \/ pc[t] \notin {"calls", "record", "tool", "fail", "persist", "heal"}
         \/ pc[t] = "calls" /\ work[t] = {} /\ ~waiting[t]
         \/ pc[t] = "persist" /\ unsaved[t] = <<>>
  PROVE  Answering'
  <1>1. OthersUnchanged(t)
    BY MovesOne DEF IInv, Typing
  <1>2. work'[t] = {} /\ unsaved'[t] = <<>> /\ job'[t] = job[t] /\ context'[t] = context[t]
    BY OutsideRound DEF loop
  <1>3. \A c \in Call : PlaceholdersIn(context'[t], c) = {}
    BY <1>2, OutsideRound
  <1>4. pc[t] = "persist" => unsaved[t] = <<>>
    OBVIOUS
  <1>5. QED
    BY <1>1, <1>2, <1>3, <1>4, MoveKeeps

(* A thread ends. *)
LEMMA LeaveKeeps ==
  ASSUME IInv, NEW t \in Thread, Leave(t), StoreUnchanged
  PROVE  Answering'
  <1>1. /\ work'[t] = {} /\ unsaved'[t] = <<>> /\ job'[t] = 0 /\ context'[t] = <<>>
        /\ OthersUnchanged(t)
    BY DEF IInv, Typing, TypeOK, Leave, Await, OthersUnchanged
  <1>2. \A c \in Call : PlaceholdersIn(context'[t], c) = {}
    BY <1>1, Nothing
  <1>3. QED
    BY <1>1, <1>2, MoveKeeps

(* The steps of continueRun. *)
LEMMA LoopKeeps ==
  ASSUME IInv, NEW t \in Thread, LoopStep(t)
  PROVE  Answering'
  <1>1. /\ TypeOK /\ Places /\ toolCalls \in [Call -> CallStatus]
        /\ approvals \in [Call -> {"none", "pending"} \cup Decision]
    BY DEF IInv, Typing, TypeOK
  <1>2. CASE RequestModel(t) \/ ModelFails(t) \/ NextRound(t)
    <2>1. StoreUnchanged /\ UNCHANGED <<loop, job>>
      BY <1>2 DEF RequestModel, ModelFails, NextRound, StoreUnchanged, durable, history
    <2>2. PICK label : pc' = [pc EXCEPT ![t] = label]
      BY <1>2 DEF RequestModel, ModelFails, NextRound, Goto, Await, Enter
    <2>3. \/ pc[t] \in {"request", "model"}
          \/ pc[t] = "calls" /\ work[t] = {} /\ ~waiting[t]
      BY <1>2 DEF RequestModel, ModelFails, NextRound
    <2>4. QED
      BY <2>1, <2>2, <2>3, PassKeeps
  <1>3. CASE Finish(t) \/ Fail(t) \/ Interrupt(t) \/ WaitForApproval(t)
    <2>1. Leave(t) /\ StoreUnchanged
      BY <1>3 DEF Finish, Fail, Interrupt, EndRun, WaitForApproval, StoreUnchanged, history
    <2>2. QED
      BY <2>1, LeaveKeeps
  <1>4. CASE RefuseToolCall(t) \/ AskForApproval(t) \/ StartTool(t) \/ ToolReturns(t)
    <2> DEFINE c == NextCall(t)
    <2>1. pc[t] \in {"calls", "tool"} /\ work[t] # {}
      BY <1>1, <1>4 DEF RefuseToolCall, AskForApproval, StartTool, ToolReturns, Places
    <2>2. c \in work[t] /\ c \in Call
      BY <1>1, <2>1, NextCallIsWork
    <2>3. approvals[c] = "none"
      BY <2>1, <2>2 DEF IInv, Answering, WorkInv
    <2>4. UNCHANGED <<rows, asked, context, work, waiting, unsaved, job>>
      BY <1>4 DEF RefuseToolCall, AskForApproval, StartTool, ToolReturns, loop, history
    <2>5. PICK label \in {"record", "tool"} : pc' = [pc EXCEPT ![t] = label]
                                              /\ (AskForApproval(t) => label = "record")
      BY <1>4 DEF RefuseToolCall, AskForApproval, StartTool, ToolReturns, Goto, Await, Enter
    <2>6. \/ approvals'[c] = "none"
          \/ AskForApproval(t) /\ approvals'[c] = "pending" /\ toolCalls'[c] = "approval_required"
      BY <1>1, <1>4, <2>2, <2>3 DEF RefuseToolCall, AskForApproval, StartTool, ToolReturns
    <2>7. \A d \in Call \ {c} : approvals'[d] = approvals[d] /\ toolCalls'[d] = toolCalls[d]
      BY <1>1, <1>4, <2>2 DEF RefuseToolCall, AskForApproval, StartTool, ToolReturns
    <2> HIDE DEF c
    <2>8. c = NextCall(t)
      BY DEF c
    <2>9. QED
      BY <2>1, <2>2, <2>4, <2>5, <2>6, <2>7, <2>8, QueueKeeps
  <1>5. CASE \E n \in 0..MaxParallel : ModelAnswers(t, n)
    BY <1>5, ModelKeeps
  <1>6. CASE RecordToolMessage(t)
    BY <1>6, RecordKeeps
  <1>7. QED
    BY <1>2, <1>3, <1>4, <1>5, <1>6 DEF LoopStep

(* The steps of a route or a command after its first. *)
LEMMA SurfaceKeeps ==
  ASSUME IInv, NEW t \in Thread, SurfaceStep(t)
  PROVE  Answering'
  <1>1. /\ TypeOK /\ Places /\ toolCalls \in [Call -> CallStatus]
        /\ approvals \in [Call -> {"none", "pending"} \cup Decision]
        /\ job \in [Thread -> Call \cup {0}]
        /\ \A u \in Thread : pc[u] \in Section <=> busy = u
    BY DEF IInv, Typing, TypeOK
  <1>2. CASE Leave(t) /\ UNCHANGED <<durable, history>>
    BY <1>2, LeaveKeeps DEF StoreUnchanged, durable, history
  <1>3. CASE RunApprovedThrows(t) \/ CommandEnds(t) \/ RefuseResume(t) \/ EndHeal(t)
    BY <1>2, <1>3 DEF RunApprovedThrows, CommandEnds, RefuseResume, EndHeal
  <1>4. CASE /\ pc[t] \in {"saving", "answered", "check"}
             /\ \E label : pc' = [pc EXCEPT ![t] = label]
             /\ UNCHANGED <<durable, loop, job, history>>
    <2>1. StoreUnchanged /\ UNCHANGED <<loop, job>>
      BY <1>4 DEF StoreUnchanged, durable, history
    <2>2. QED
      BY <1>4, <2>1, PassKeeps
  <1>5. CASE ConfigSaved(t) \/ NothingToRun(t)
    BY <1>4, <1>5 DEF ConfigSaved, NothingToRun, Enter, Goto
  <1>6. CASE CheckRemaining(t)
    BY <1>2, <1>4, <1>6 DEF CheckRemaining, Goto
  <1>7. CASE ResumeLoop(t)
    <2>1. StoreUnchanged /\ UNCHANGED <<loop, job>> /\ pc[t] = "persist" /\ unsaved[t] = <<>>
          /\ pc' = [pc EXCEPT ![t] = "request"]
      BY <1>7 DEF ResumeLoop, Goto, StoreUnchanged, history
    <2>2. QED
      BY <2>1, PassKeeps
  <1>8. CASE RunApproved(t) \/ ApprovedToolReturns(t)
    <2> DEFINE c == job[t]
    <2>1. pc[t] \in {"answered", "approved_tool"}
      BY <1>8 DEF RunApproved, ApprovedToolReturns
    <2>2. c # 0 /\ c \in Call
      BY <1>1, <2>1 DEF Places
    <2>3. approvals[c] \in Decision /\ approvals' = approvals
      BY <1>8, <2>2 DEF IInv, Answering, ApprovalsInv, RunApproved, ApprovedToolReturns
    <2>4. busy \in {NoThread, t}
      BY <1>1, <1>8, Labels DEF RunApproved, ApprovedToolReturns, Enter
    <2>5. PICK label : pc' = [pc EXCEPT ![t] = label]
      BY <1>8 DEF RunApproved, ApprovedToolReturns, Await, Enter
    <2>6. UNCHANGED <<rows, asked, context, work, waiting, unsaved>> /\ job' = job
      BY <1>8 DEF RunApproved, ApprovedToolReturns, loop, history
    <2>7. \A d \in Call \ {c} : approvals'[d] = approvals[d] /\ toolCalls'[d] = toolCalls[d]
      BY <1>1, <1>8, <2>2, <2>3 DEF RunApproved, ApprovedToolReturns
    <2>8. job'[t] = c /\ approvals'[c] \in Decision /\ approvals[c] # "none"
      BY <2>3, <2>6, Kinds
    <2> HIDE DEF c
    <2>9. \A u \in Thread \ {t} : job'[u] = job[u]
      BY <2>6
    <2>10. QED
      BY <2>1, <2>2, <2>4, <2>5, <2>6, <2>7, <2>8, <2>9, DecisionKeeps
  <1>9. CASE BeginResume(t)
    <2>1. /\ pc[t] = "resume" /\ Resumable
          /\ pc' = [pc EXCEPT ![t] = "persist"]
          /\ context' = [context EXCEPT ![t] = RebuiltMessages]
          /\ unsaved' = [unsaved EXCEPT ![t] = MessagesToPersist]
          /\ StoreUnchanged /\ UNCHANGED <<work, waiting, job>>
      BY <1>9 DEF BeginResume, Goto, StoreUnchanged, durable, history
    <2>2. ASSUME NEW c \in OpenCalls PROVE approvals[c] # "pending"
      <3>1. c \in Call /\ (toolCalls[c] \in TerminalCall \/ approvals[c] \in Allowing)
        BY <2>1 DEF Resumable, Unresolved, OpenCalls
      <3>2. approvals[c] = "pending" => toolCalls[c] = "approval_required"
        BY <3>1 DEF IInv, Answering, ApprovalsInv
      <3>3. QED
        BY <3>1, <3>2 DEF TerminalCall, Allowing
    <2>3. QED
      BY <2>1, <2>2, CollectKeeps
  <1>10. CASE PersistAnswer(t)
    BY <1>10, PersistKeeps
  <1>11. QED
    BY <1>3, <1>5, <1>6, <1>7, <1>8, <1>9, <1>10 DEF SurfaceStep

(* The first steps of a turn, a route or a command, and a cancellation. *)
LEMMA RequestKeeps ==
  ASSUME IInv, NEW t \in Thread,
         \/ \E c \in Call, d \in Offered : AnswerApproval(t, c, d)
         \/ ResumeRequest(t)
         \/ HealRequest(t)
         \/ CreateRun \/ BeginTurn \/ ModelAborted
         \/ CancelRun
  PROVE  Answering'
  <1>1. /\ TypeOK /\ toolCalls \in [Call -> CallStatus]
        /\ approvals \in [Call -> {"none", "pending"} \cup Decision]
        /\ job \in [Thread -> Call \cup {0}]
        /\ pc \in [Thread -> Awaiting \cup Section]
        /\ \A u \in Thread : pc[u] \in Section <=> busy = u
    BY DEF IInv, Typing, TypeOK
  <1>2. ASSUME NEW c \in Call, NEW d \in Offered, AnswerApproval(t, c, d) PROVE Answering'
    <2>1. d \in Decision
      BY <1>1, SettingTypes
    <2>2. /\ pc[t] = "idle" /\ busy = NoThread
          /\ UNCHANGED <<rows, asked, context, work, waiting, unsaved>>
          /\ job' = [job EXCEPT ![t] = c]
          /\ approvals' = [approvals EXCEPT ![c] = d]
          /\ approvals[c] \in {"pending", d}
          /\ toolCalls' = IF d \in Allowing THEN toolCalls ELSE [toolCalls EXCEPT ![c] = "denied"]
      BY <1>2 DEF AnswerApproval, loop, history
    <2>3. PICK label : pc' = [pc EXCEPT ![t] = label]
      BY <1>2 DEF AnswerApproval, Await, Enter
    <2>4. \A e \in Call \ {c} : approvals'[e] = approvals[e] /\ toolCalls'[e] = toolCalls[e]
      BY <1>1, <2>2
    <2>5. /\ job'[t] = c /\ \A u \in Thread \ {t} : job'[u] = job[u]
          /\ approvals'[c] \in Decision /\ approvals[c] # "none"
      BY <1>1, <2>1, <2>2, Kinds
    <2>6. QED
      BY <2>2, <2>3, <2>4, <2>5, DecisionKeeps
  <1>3. ASSUME NEW u \in Thread, pc[u] \in {"idle", "begin", "model"},
               \E label : pc' = [pc EXCEPT ![u] = label],
               StoreUnchanged /\ UNCHANGED <<loop, job>>
        PROVE  Answering'
    BY <1>3, PassKeeps
  <1>4. CASE ResumeRequest(t)
    <2>1. /\ pc[t] = "idle" /\ pc' = [pc EXCEPT ![t] = "resume"]
          /\ StoreUnchanged /\ UNCHANGED <<loop, job>>
      BY <1>4 DEF ResumeRequest, Enter, StoreUnchanged, durable, history
    <2>2. QED
      BY <1>3, <2>1
  <1>5. CASE HealRequest(t)
    <2>1. /\ pc[t] = "idle" /\ NoneRemain
          /\ pc' = [pc EXCEPT ![t] = "heal"]
          /\ context' = context
          /\ unsaved' = [unsaved EXCEPT ![t] = MessagesToPersist]
          /\ StoreUnchanged /\ UNCHANGED <<work, waiting, job>>
      BY <1>5 DEF HealRequest, Enter, StoreUnchanged, durable, history
    <2>2. \A c \in OpenCalls : approvals[c] # "pending"
      BY <2>1 DEF NoneRemain, OpenCalls
    <2>3. QED
      BY <2>1, <2>2, CollectKeeps
  <1>6. CASE BeginTurn
    <2>1. /\ Turn \in Thread /\ pc[Turn] = "begin" /\ pc' = [pc EXCEPT ![Turn] = "request"]
          /\ StoreUnchanged /\ UNCHANGED <<loop, job>>
      BY <1>6, Threads DEF BeginTurn, Goto, StoreUnchanged, history
    <2>2. QED
      BY <1>3, <2>1
  <1>7. CASE ModelAborted
    <2>1. /\ Turn \in Thread /\ pc[Turn] = "model" /\ pc' = [pc EXCEPT ![Turn] = "abort"]
          /\ StoreUnchanged /\ UNCHANGED <<loop, job>>
      BY <1>7, Threads DEF ModelAborted, Enter, StoreUnchanged, durable, history
    <2>2. QED
      BY <1>3, <2>1
  <1>8. CASE CancelRun
    <2>1. busy = NoThread /\ pc' = pc /\ StoreUnchanged /\ UNCHANGED <<loop, job>>
      BY <1>8 DEF CancelRun, StoreUnchanged, history
    <2>2. QED
      BY <2>1, StutterKeeps
  <1>9. CASE CreateRun
    <2>1. pc[Turn] = "idle"
      BY <1>9 DEF CreateRun, IInv, Unborn
    <2>2. QED
      <3>1. /\ Turn \in Thread /\ pc' = [pc EXCEPT ![Turn] = "begin"]
            /\ StoreUnchanged /\ UNCHANGED <<loop, job>>
        BY <1>9, Threads DEF CreateRun, Enter, StoreUnchanged, history
      <3>2. QED
        BY <1>3, <2>1, <3>1
  <1>10. QED
    BY <1>2, <1>4, <1>5, <1>6, <1>7, <1>8, <1>9

(* Every step keeps the invariant. *)
LEMMA StepAnswering == IInv /\ [Next]_vars => Answering'
  <1> SUFFICES ASSUME IInv, [Next]_vars PROVE Answering'
    OBVIOUS
  <1>1. CASE UNCHANGED vars
    BY <1>1, StutterKeeps DEF vars, durable, history, StoreUnchanged
  <1>2. CASE Next
    <2>1. ASSUME NEW t \in Thread, LoopStep(t) PROVE Answering'
      BY <2>1, LoopKeeps
    <2>2. ASSUME NEW t \in Surface,
                 \/ SurfaceStep(t)
                 \/ \E c \in Call, d \in Offered : AnswerApproval(t, c, d)
                 \/ ResumeRequest(t)
                 \/ HealRequest(t)
          PROVE  Answering'
      BY <2>2, SurfaceKeeps, RequestKeeps, Threads
    <2>3. CASE CreateRun \/ BeginTurn \/ ModelAborted \/ CancelRun
      BY <2>3, RequestKeeps, Threads
    <2>4. CASE CrashAndRestart
      BY <2>4, CrashKeeps
    <2>5. QED
      BY <1>2, <2>1, <2>2, <2>3, <2>4 DEF Next
  <1>3. QED
    BY <1>1, <1>2

(* Only CreateRun moves the turn of a run that does not exist yet. *)
LEMMA StepUnborn == IInv /\ [Next]_vars => Unborn'
  <1> SUFFICES ASSUME IInv, [Next]_vars, run' = "absent" PROVE pc'[Turn] = "idle"
    BY DEF Unborn
  <1>1. pc \in [Thread -> Awaiting \cup Section]
    BY DEF IInv, Typing, TypeOK
  <1>2. run = "absent" => pc[Turn] = "idle"
    BY DEF IInv, Unborn
  <1>3. CASE UNCHANGED vars
    BY <1>2, <1>3 DEF vars, durable
  <1>4. ASSUME NEW t \in Thread, LoopStep(t) PROVE pc'[Turn] = "idle"
    <2>1. CASE Finish(t) \/ Fail(t) \/ Interrupt(t) \/ WaitForApproval(t)
      BY <2>1 DEF Finish, Fail, Interrupt, EndRun, WaitForApproval
    <2>2. CASE \/ RequestModel(t) \/ ModelFails(t)
               \/ \E n \in 0..MaxParallel : ModelAnswers(t, n)
               \/ RefuseToolCall(t) \/ AskForApproval(t) \/ StartTool(t) \/ ToolReturns(t)
               \/ RecordToolMessage(t) \/ NextRound(t)
      <3>1. run' = run /\ pc[t] # "idle"
        BY <2>2 DEF RequestModel, ModelFails, ModelAnswers, RefuseToolCall, AskForApproval,
             StartTool, ToolReturns, RecordToolMessage, NextRound, durable
      <3>2. PICK label : pc' = [pc EXCEPT ![t] = label]
        BY <2>2 DEF RequestModel, ModelFails, ModelAnswers, RefuseToolCall, AskForApproval,
             StartTool, ToolReturns, RecordToolMessage, NextRound, Enter, Goto, Await
      <3>3. QED
        BY <1>1, <1>2, <3>1, <3>2, Threads
    <2>3. QED
      BY <1>4, <2>1, <2>2 DEF LoopStep
  <1>5. ASSUME NEW t \in Surface,
               \/ SurfaceStep(t)
               \/ \E c \in Call, d \in Offered : AnswerApproval(t, c, d)
               \/ ResumeRequest(t)
               \/ HealRequest(t)
        PROVE  pc'[Turn] = "idle"
    <2>1. run' = run \/ run' = "running"
      BY <1>5 DEF SurfaceStep, ConfigSaved, RunApproved, RunApprovedThrows, NothingToRun,
           ApprovedToolReturns, CheckRemaining, CommandEnds, RefuseResume, BeginResume,
           PersistAnswer, ResumeLoop, EndHeal, AnswerApproval, ResumeRequest, HealRequest, durable
    <2>2. pc' = pc \/ \E label : pc' = [pc EXCEPT ![t] = label]
      <3>1. CASE SurfaceStep(t)
        BY <3>1 DEF SurfaceStep, ConfigSaved, RunApproved, RunApprovedThrows, NothingToRun,
             ApprovedToolReturns, CheckRemaining, CommandEnds, RefuseResume, BeginResume,
             PersistAnswer, ResumeLoop, EndHeal, Enter, Goto, Leave, Await
      <3>2. CASE ~ SurfaceStep(t)
        BY <1>5, <3>2 DEF AnswerApproval, ResumeRequest, HealRequest, Enter, Await
      <3>3. QED
        BY <3>1, <3>2
    <2>3. t # Turn
      BY RunnerAssumption
    <2>4. QED
      BY <1>1, <1>2, <2>1, <2>2, <2>3, Threads
  <1>6. CASE CreateRun \/ BeginTurn \/ CancelRun
    BY <1>6 DEF CreateRun, BeginTurn, CancelRun
  <1>7. CASE ModelAborted
    BY <1>2, <1>7 DEF ModelAborted, durable
  <1>8. CASE CrashAndRestart
    BY <1>8, Threads DEF CrashAndRestart
  <1>9. QED
    BY <1>3, <1>4, <1>5, <1>6, <1>7, <1>8 DEF Next

(* A set whose members are all equal has at most one. *)
LEMMA AtMostOne ==
  ASSUME NEW S, \A i, j \in S : i = j
  PROVE  Cardinality(S) <= 1
  <1>1. CASE S = {}
    BY <1>1, FS_EmptySet
  <1>2. CASE S # {}
    <2>1. PICK x \in S : S = {x}
      BY <1>2
    <2>2. QED
      BY <2>1, FS_Singleton
  <1>3. QED
    BY <1>1, <1>2

(* The invariant counts no answer twice. *)
LEMMA OrderlyIsCoherent ==
  ASSUME NEW s, Orderly(s)
  PROVE  Coherent(s)
  BY AtMostOne DEF Orderly, Coherent

(* The inductive invariant holds in every reachable state. *)
LEMMA InvariantIsKept == Spec => []IInv
  <1>1. Init => IInv
    BY InitTyping, InitAnswering, Threads DEF IInv, Init, Unborn
  <1>2. IInv /\ [Next]_vars => IInv'
    BY StepTyping, StepUnborn, StepAnswering DEF IInv
  <1>3. QED
    BY <1>1, <1>2, PTL DEF Spec

(* No tool call of a run gets two answers, or one before it was asked for,
   in the rows or in a loop: for any number of surfaces that answer, resume
   and heal it side by side, and however many crashes. *)
THEOREM OneAnswer == Spec => []OneAnswerPerCall
  <1>1. IInv => OneAnswerPerCall
    <2> SUFFICES ASSUME IInv PROVE OneAnswerPerCall
      OBVIOUS
    <2>1. Orderly(rows)
      BY DEF IInv, Answering, RowsInv, WellFormed, Orderly
    <2>2. \A t \in Thread : Orderly(context[t])
      BY DEF IInv, Answering, ContextInv
    <2>3. QED
      BY <2>1, <2>2, OrderlyIsCoherent DEF OneAnswerPerCall
  <1>2. QED
    BY InvariantIsKept, <1>1, PTL

(* Nothing answers a call while a person is still asked about it, and no
   model is asked to go on from the placeholder of an approval. *)
THEOREM UndecidedWait == Spec => []UndecidedCallsWait
  <1>1. IInv => UndecidedCallsWait
    <2> SUFFICES ASSUME IInv PROVE UndecidedCallsWait
      OBVIOUS
    <2>1. ASSUME NEW c \in Call, approvals[c] = "pending"
          PROVE  AnswersIn(rows, c) = {} /\ \A t \in Thread : AnswersIn(context[t], c) = {}
      <3>1. AnswersIn(rows, c) = {}
        BY <2>1 DEF IInv, Answering, ApprovalsInv
      <3>2. ASSUME NEW t \in Thread PROVE ~ Missing(t, c)
        BY <2>1 DEF IInv, Answering, UnsavedInv, AnswersHeld, Missing, Owed
      <3>3. QED
        BY <3>1, <3>2 DEF IInv, Answering, ContextInv
    <2>2. ASSUME NEW t \in Thread, pc[t] = "model", NEW i \in DOMAIN context[t]
          PROVE  context[t][i].kind # "placeholder"
      <3>1. \A c \in Call : PlaceholdersIn(context[t], c) = {}
        BY <2>2, OutsideRound
      <3>2. context[t][i].kind = "placeholder" => \E c \in Call : c \in context[t][i].calls
        BY DEF IInv, Answering, ContextInv, Orderly
      <3>3. QED
        BY <3>1, <3>2 DEF PlaceholdersIn
    <2>3. QED
      BY <2>1, <2>2 DEF UndecidedCallsWait
  <1>2. QED
    BY InvariantIsKept, <1>1, PTL

-----------------------------------------------------------------------------
(* A run that nobody resumes by hand                                       *)

(* The model asks for one call at a time, and people only answer approvals,
   in the web console or by command, and cancel; the agent repairs its own
   memory; the process may die. *)
Serial ==
  /\ MaxParallel = 1
  /\ \A s \in Settings : s.requests \subseteq {"cancel", "command", "heal"}

(* One thread at most drives the run; while a person is asked, it is on its
   way to end the loop, and there is one call to decide on. *)
Pending(c) == approvals[c] = "pending"

InFrontOf(c, t) ==
  \/ pc[t] = "idle"
  \/ pc[t] = "record" /\ c \in work[t]
  \/ pc[t] = "calls" /\ work[t] = {} /\ waiting[t]

(* A surface that heals waits for nothing, and drives nothing. *)
UnderWay(t) == pc[t] \notin {"idle", "heal"}

Control ==
  /\ \A t, u \in Thread : UnderWay(t) /\ UnderWay(u) => t = u
  /\ \A t \in Thread : pc[t] = "heal" => "heal" \in Requests
  /\ \A t \in Thread : \A c, d \in work[t] : c = d
  /\ \A c, d \in Call : Pending(c) /\ Pending(d) => c = d
  /\ \A c \in Call : Pending(c) => \A t \in Thread : InFrontOf(c, t)
  /\ run = "absent" =>
       /\ rows = <<>>
       /\ \A t \in Thread : pc[t] = "idle"
       /\ \A c \in Call : ~Pending(c)
  /\ \A t \in Thread : pc[t] = "begin" => rows = <<>>

(* The steps such a run takes.  A thread goes on and changes nothing else ... *)
Goes(t, from, to) == pc[t] = from /\ pc' = [pc EXCEPT ![t] = to]

Passes(t) ==
  \/ Goes(t, "begin", "request")
  \/ Goes(t, "request", "fail")
  \/ Goes(t, "request", "model")
  \/ Goes(t, "model", "fail")
  \/ Goes(t, "model", "abort")
  \/ Goes(t, "calls", "request")
  \/ Goes(t, "saving", "answered")
  \/ Goes(t, "answered", "check")
  \/ Goes(t, "check", "resume")
  \/ Goes(t, "persist", "request")

Pass(t) ==
  /\ Passes(t)
  /\ pc[t] = "calls" => work[t] = {} /\ ~waiting[t]
  /\ pc[t] \in {"model", "saving"} => busy = NoThread
  /\ StoreUnchanged /\ UNCHANGED <<loop, job, started>>

(* ... or ends ... *)
End(t) ==
  /\ pc[t] \in Section \ {"record", "heal"}
  /\ pc[t] = "calls" => work[t] = {}
  /\ Leave(t)
  /\ StoreUnchanged /\ UNCHANGED started

(* ... or the turn begins, or the run is canceled or nothing happens ... *)
Begin ==
  /\ run = "absent" /\ run' # "absent"
  /\ pc' = [pc EXCEPT ![Turn] = "begin"]
  /\ StoreUnchanged /\ UNCHANGED <<loop, job, started>>

Still == StoreUnchanged /\ UNCHANGED <<pc, loop, job, started>>

(* ... or the process dies ... *)
Crash ==
  /\ pc' = [t \in Thread |-> "idle"]
  /\ context' = [t \in Thread |-> <<>>]
  /\ work' = [t \in Thread |-> {}]
  /\ unsaved' = [t \in Thread |-> <<>>]
  /\ StoreUnchanged /\ UNCHANGED started
  /\ crashes' # 0

(* ... or a surface begins to heal, stores an answer, or ends ... *)
Heals(t) ==
  /\ pc[t] \in {"idle", "heal"}
  /\ \E label \in {"idle", "heal"} : pc' = [pc EXCEPT ![t] = label]
  /\ pc[t] = "idle" => "heal" \in Requests /\ NoneRemain /\ rows # <<>>
  /\ \A u \in Thread : pc[u] # "begin"
  /\ \/ rows' = rows
     \/ \E m \in Message : m.kind \in Answer /\ rows' = Append(rows, m)
  /\ context' = context \/ context' = [context EXCEPT ![t] = <<>>]
  /\ pc'[t] = "idle" => context'[t] = <<>>
  /\ waiting' = waiting \/ waiting' = [waiting EXCEPT ![t] = FALSE]
  /\ UNCHANGED <<toolCalls, approvals, asked, work, started>>

(* ... or it is one of these. *)
Acts(t) ==
  \/ \E n \in 0..1 : ModelAnswers(t, n)
  \/ RefuseToolCall(t) \/ AskForApproval(t) \/ StartTool(t) \/ ToolReturns(t)
  \/ RecordToolMessage(t)
  \/ \E c \in Call, d \in Offered : AnswerApproval(t, c, d) /\ Pending(c)
  \/ RunApproved(t) \/ ApprovedToolReturns(t)
  \/ BeginResume(t)
  \/ PersistAnswer(t) /\ pc[t] = "persist"

SerialStep ==
  /\ run' = "absent" => run = "absent"
  /\ crashes' = 0 => crashes = 0
  /\ UNCHANGED setting
  /\ \/ Begin \/ Still \/ Crash
     \/ \E t \in Thread : Pass(t) \/ End(t) \/ Heals(t) \/ Acts(t)

(* What the setting of such a run allows. *)
LEMMA SerialRequests ==
  ASSUME Serial, TypeOK
  PROVE  Requests \subseteq {"cancel", "command", "heal"}
  BY DEF Serial, TypeOK, Requests

(* A step of a loop, sorted. *)
LEMMA LoopSerial ==
  ASSUME Serial, IInv, NEW t \in Thread, LoopStep(t)
  PROVE  Pass(t) \/ End(t) \/ Acts(t)
  <1>1. CASE RequestModel(t)
    <2>1. pc[t] = "request" /\ StoreUnchanged /\ UNCHANGED <<loop, job, started>>
      BY <1>1 DEF RequestModel, StoreUnchanged, durable, history
    <2>2. pc' = [pc EXCEPT ![t] = "fail"] \/ pc' = [pc EXCEPT ![t] = "model"]
      BY <1>1 DEF RequestModel, Goto, Await
    <2>3. Passes(t)
      BY <2>1, <2>2 DEF Passes, Goes
    <2>4. QED
      BY <2>1, <2>3 DEF Pass
  <1>2. CASE ModelFails(t)
    <2>1. pc[t] = "model" /\ StoreUnchanged /\ UNCHANGED <<loop, job, started>>
          /\ busy = NoThread /\ pc' = [pc EXCEPT ![t] = "fail"]
      BY <1>2 DEF ModelFails, Enter, StoreUnchanged, durable, history
    <2>2. Passes(t)
      BY <2>1 DEF Passes, Goes
    <2>3. QED
      BY <2>1, <2>2 DEF Pass
  <1>3. CASE NextRound(t)
    <2>1. pc[t] = "calls" /\ StoreUnchanged /\ UNCHANGED <<loop, job, started>>
          /\ pc' = [pc EXCEPT ![t] = "request"] /\ work[t] = {} /\ ~waiting[t]
      BY <1>3 DEF NextRound, Goto, StoreUnchanged, durable, history
    <2>2. Passes(t)
      BY <2>1 DEF Passes, Goes
    <2>3. QED
      BY <2>1, <2>2 DEF Pass
  <1>4. CASE Finish(t) \/ Fail(t) \/ Interrupt(t) \/ WaitForApproval(t)
    <2>1. /\ pc[t] \in {"finish", "fail", "abort", "calls"} /\ Leave(t) /\ StoreUnchanged
          /\ UNCHANGED started
          /\ pc[t] = "calls" => work[t] = {}
      BY <1>4 DEF Finish, Fail, Interrupt, EndRun, WaitForApproval, StoreUnchanged, history
    <2>2. QED
      BY <2>1, Labels DEF End
  <1>5. CASE \E n \in 0..MaxParallel : ModelAnswers(t, n)
    BY <1>5 DEF Acts, Serial
  <1>6. QED
    BY <1>1, <1>2, <1>3, <1>4, <1>5 DEF LoopStep, Acts

(* A step of a surface that heals. *)
LEMMA HealingSorted ==
  ASSUME IInv, NEW t \in Thread,
         HealRequest(t) \/ EndHeal(t) \/ (PersistAnswer(t) /\ pc[t] = "heal")
  PROVE  Heals(t)
  <1>1. /\ pc \in [Thread -> Awaiting \cup Section] /\ context \in [Thread -> Seq(Message)]
        /\ work \in [Thread -> SUBSET Call] /\ unsaved \in [Thread -> Seq(Message)]
        /\ rows \in Seq(Message)
        /\ \A u \in Thread : pc[u] \in Section <=> busy = u
    BY DEF IInv, Typing, TypeOK
  <1>2. pc[t] \in {"idle", "heal"} /\ busy \in {NoThread, t}
    BY <1>1 DEF HealRequest, Enter, EndHeal, PersistAnswer, Section
  <1>3. \A u \in Thread : pc[u] # "begin"
    BY <1>1, <1>2, Threads DEF Section
  <1>4. work[t] = {}
    BY <1>2, OutsideRound
  <1>5. CASE HealRequest(t)
    <2>1. /\ pc[t] = "idle" /\ "heal" \in Requests /\ NoneRemain /\ OpenCalls # {}
          /\ pc' = [pc EXCEPT ![t] = "heal"]
          /\ UNCHANGED <<rows, toolCalls, approvals, asked, context, work, waiting, started>>
      BY <1>5 DEF HealRequest, Enter, durable, history
    <2>2. rows # <<>> /\ pc'[t] = "heal"
      BY <1>1, <2>1 DEF OpenCalls
    <2>3. QED
      BY <1>3, <2>1, <2>2 DEF Heals
  <1>6. CASE EndHeal(t)
    <2>1. /\ pc[t] = "heal" /\ pc' = [pc EXCEPT ![t] = "idle"]
          /\ context' = [context EXCEPT ![t] = <<>>] /\ work' = work
          /\ waiting' = [waiting EXCEPT ![t] = FALSE]
          /\ UNCHANGED <<rows, toolCalls, approvals, asked, started>>
      BY <1>1, <1>4, <1>6 DEF EndHeal, Leave, Await, durable, history
    <2>2. context'[t] = <<>>
      BY <1>1, <2>1
    <2>3. QED
      BY <1>3, <2>1, <2>2 DEF Heals
  <1>7. CASE PersistAnswer(t) /\ pc[t] = "heal"
    <2>1. /\ pc[t] = "heal" /\ pc' = pc /\ unsaved[t] # <<>>
          /\ rows' = Append(rows, Head(unsaved[t]))
          /\ UNCHANGED <<toolCalls, approvals, asked, context, work, waiting, started>>
      BY <1>7 DEF PersistAnswer, history
    <2>2. Head(unsaved[t]) \in Message /\ Head(unsaved[t]).kind \in Answer
      <3>1. /\ unsaved[t] \in Seq(Message) /\ 1 \in DOMAIN unsaved[t]
            /\ Head(unsaved[t]) = unsaved[t][1]
        BY <1>1, <2>1
      <3>2. QED
        BY <3>1 DEF IInv, Answering, UnsavedInv, AnswersHeld
    <2>3. pc' = [pc EXCEPT ![t] = "heal"]
      BY <1>1, <2>1
    <2>4. QED
      BY <1>3, <2>1, <2>2, <2>3 DEF Heals
  <1>8. QED
    BY <1>5, <1>6, <1>7

(* A step of a surface, sorted. *)
LEMMA SurfaceSerial ==
  ASSUME Serial, IInv, NEW t \in Thread, SurfaceStep(t)
  PROVE  Pass(t) \/ End(t) \/ Heals(t) \/ Acts(t)
  <1>1. CASE /\ Passes(t) /\ pc[t] # "calls"
             /\ pc[t] \in {"model", "saving"} => busy = NoThread
             /\ StoreUnchanged /\ UNCHANGED <<loop, job, started>>
    BY <1>1 DEF Pass
  <1>2. CASE ConfigSaved(t)
    BY <1>1, <1>2 DEF Passes, Goes, ConfigSaved, Enter, StoreUnchanged, durable, history
  <1>3. CASE NothingToRun(t)
    BY <1>1, <1>3 DEF Passes, Goes, NothingToRun, Goto, StoreUnchanged, durable, history
  <1>4. CASE ResumeLoop(t)
    BY <1>1, <1>4 DEF Passes, Goes, ResumeLoop, Goto, StoreUnchanged, history
  <1>5. CASE /\ pc[t] \in {"answered", "check", "resume"}
             /\ Leave(t) /\ UNCHANGED <<durable, history>>
    BY <1>5, Labels DEF End, StoreUnchanged, durable, history
  <1>6. CASE RunApprovedThrows(t) \/ RefuseResume(t)
    BY <1>5, <1>6 DEF RunApprovedThrows, RefuseResume
  <1>7. CASE CheckRemaining(t)
    <2>1. CASE Goto(t, "resume") /\ UNCHANGED <<loop, job>>
      BY <1>1, <1>7, <2>1 DEF Passes, Goes, CheckRemaining, Goto, StoreUnchanged, durable, history
    <2>2. CASE Leave(t)
      BY <1>5, <1>7, <2>2 DEF CheckRemaining
    <2>3. QED
      BY <1>7, <2>1, <2>2 DEF CheckRemaining
  <1>8. CASE CommandEnds(t)
    BY <1>5, <1>8 DEF CommandEnds
  <1>9. CASE EndHeal(t) \/ (PersistAnswer(t) /\ pc[t] = "heal")
    BY <1>9, HealingSorted
  <1>10. CASE PersistAnswer(t) /\ pc[t] # "heal"
    BY <1>10 DEF PersistAnswer, Acts
  <1>11. QED
    BY <1>2, <1>3, <1>4, <1>6, <1>7, <1>8, <1>9, <1>10 DEF SurfaceStep, Acts

(* Every step of such a run is one of these. *)
LEMMA SerialSteps ==
  ASSUME Serial, IInv, [Next]_vars
  PROVE  SerialStep
  <1>0. Requests \subseteq {"cancel", "command", "heal"} /\ crashes \in Nat
    BY SerialRequests, SettingTypes DEF IInv, Typing, TypeOK
  <1>1. CASE UNCHANGED vars
    BY <1>1 DEF SerialStep, Still, StoreUnchanged, vars, durable, loop, history
  <1>2. ASSUME NEW t \in Thread, LoopStep(t) PROVE SerialStep
    <2>1. run' = run \/ run' # "absent"
      BY <1>2 DEF LoopStep, RequestModel, ModelAnswers, ModelFails, Finish, Fail, Interrupt, EndRun,
         RefuseToolCall, AskForApproval, StartTool, ToolReturns, RecordToolMessage, NextRound,
         WaitForApproval, durable
    <2>2. UNCHANGED <<crashes, setting>>
      BY <1>2 DEF LoopStep, RequestModel, ModelAnswers, ModelFails, Finish, Fail, Interrupt, EndRun,
         RefuseToolCall, AskForApproval, StartTool, ToolReturns, RecordToolMessage, NextRound,
         WaitForApproval, history
    <2>3. QED
      BY <1>2, <2>1, <2>2, LoopSerial DEF SerialStep
  <1>3. ASSUME NEW t \in Surface, SurfaceStep(t) PROVE SerialStep
    <2>1. run' = run \/ run' # "absent"
      BY <1>3 DEF SurfaceStep, ConfigSaved, RunApproved, RunApprovedThrows, NothingToRun,
           ApprovedToolReturns, CheckRemaining, CommandEnds, RefuseResume, BeginResume,
           PersistAnswer, ResumeLoop, EndHeal, durable
    <2>2. UNCHANGED <<crashes, setting>>
      BY <1>3 DEF SurfaceStep, ConfigSaved, RunApproved, RunApprovedThrows, NothingToRun,
           ApprovedToolReturns, CheckRemaining, CommandEnds, RefuseResume, BeginResume,
           PersistAnswer, ResumeLoop, EndHeal, history
    <2>3. QED
      BY <1>3, <2>1, <2>2, SurfaceSerial, Threads DEF SerialStep
  <1>4. ASSUME NEW t \in Surface, NEW c \in Call, NEW d \in Offered, AnswerApproval(t, c, d)
        PROVE  SerialStep
    <2>1. UNCHANGED <<run, crashes, setting>> /\ Pending(c)
      BY <1>0, <1>4 DEF AnswerApproval, Pending, history
    <2>2. Acts(t)
      BY <1>4, <2>1 DEF Acts
    <2>3. QED
      BY <2>1, <2>2, Threads DEF SerialStep
  <1>5. ASSUME NEW t \in Surface, ResumeRequest(t) \/ HealRequest(t)
        PROVE  SerialStep
    <2>1. HealRequest(t)
      BY <1>0, <1>5 DEF ResumeRequest
    <2>2. UNCHANGED <<run, crashes, setting>>
      BY <2>1 DEF HealRequest, durable, history
    <2>3. QED
      BY <2>1, <2>2, HealingSorted, Threads DEF SerialStep
  <1>6. CASE CreateRun
    BY <1>6 DEF CreateRun, Enter, SerialStep, Begin, StoreUnchanged, history
  <1>7. CASE BeginTurn
    <2>1. /\ pc[Turn] = "begin" /\ pc' = [pc EXCEPT ![Turn] = "request"] /\ run' = "running"
          /\ StoreUnchanged /\ UNCHANGED <<loop, job, started, crashes, setting>>
      BY <1>7 DEF BeginTurn, Goto, StoreUnchanged, history
    <2>2. Passes(Turn)
      BY <2>1 DEF Passes, Goes
    <2>3. Pass(Turn)
      BY <2>1, <2>2 DEF Pass
    <2>4. QED
      BY <2>1, <2>3, Threads DEF SerialStep
  <1>8. CASE ModelAborted
    <2>1. /\ pc[Turn] = "model" /\ busy = NoThread
          /\ pc' = [pc EXCEPT ![Turn] = "abort"] /\ run' = run
          /\ StoreUnchanged /\ UNCHANGED <<loop, job, started, crashes, setting>>
      BY <1>8 DEF ModelAborted, Enter, StoreUnchanged, durable, history
    <2>2. Passes(Turn)
      BY <2>1 DEF Passes, Goes
    <2>3. Pass(Turn)
      BY <2>1, <2>2 DEF Pass
    <2>4. QED
      BY <2>1, <2>3, Threads DEF SerialStep
  <1>9. CASE CancelRun
    BY <1>9 DEF CancelRun, SerialStep, Still, StoreUnchanged, history
  <1>10. CASE CrashAndRestart
    <2>1. crashes' # 0
      BY <1>0, <1>10 DEF CrashAndRestart
    <2>2. Crash /\ UNCHANGED <<run, setting>>
      BY <1>10, <2>1 DEF CrashAndRestart, Crash, StoreUnchanged, durable
    <2>3. QED
      BY <2>1, <2>2 DEF SerialStep
  <1>11. QED
    BY <1>1, <1>2, <1>3, <1>4, <1>5, <1>6, <1>7, <1>8, <1>9, <1>10 DEF Next

(* The types that the proofs below need. *)
LEMMA FunctionTypes ==
  ASSUME IInv
  PROVE  /\ rows \in Seq(Message)
         /\ toolCalls \in [Call -> CallStatus]
         /\ approvals \in [Call -> {"none", "pending"} \cup Decision]
         /\ pc \in [Thread -> Awaiting \cup Section]
         /\ context \in [Thread -> Seq(Message)]
         /\ work \in [Thread -> SUBSET Call]
         /\ waiting \in [Thread -> BOOLEAN]
         /\ unsaved \in [Thread -> Seq(Message)]
         /\ job \in [Thread -> Call \cup {0}]
         /\ asked \in Nat
         /\ \A u \in Thread : pc[u] \in Section <=> busy = u
  BY RunnerAssumption DEF IInv, Typing, TypeOK

(* A step of a thread leaves the other threads alone. *)
LEMMA ActsForItself ==
  ASSUME IInv, NEW t \in Thread, Pass(t) \/ End(t) \/ Acts(t)
  PROVE  OthersUnchanged(t)
  <1>1. CASE Pass(t)
    BY <1>1, FunctionTypes DEF Pass, Passes, Goes, loop, OthersUnchanged
  <1>2. CASE End(t)
    BY <1>2, FunctionTypes DEF End, Leave, Await, OthersUnchanged
  <1>3. ASSUME NEW n \in 0..1, ModelAnswers(t, n) PROVE OthersUnchanged(t)
    BY <1>3, FunctionTypes DEF ModelAnswers, AddMessage, Enter, OthersUnchanged
  <1>4. CASE RefuseToolCall(t) \/ AskForApproval(t) \/ StartTool(t) \/ ToolReturns(t)
    BY <1>4, FunctionTypes DEF RefuseToolCall, AskForApproval, StartTool, ToolReturns, Goto, Await,
       Enter, loop, OthersUnchanged
  <1>5. CASE RecordToolMessage(t)
    BY <1>5, FunctionTypes DEF RecordToolMessage, AddMessage, Goto, OthersUnchanged
  <1>6. ASSUME NEW c \in Call, NEW d \in Offered, AnswerApproval(t, c, d) PROVE OthersUnchanged(t)
    BY <1>6, FunctionTypes DEF AnswerApproval, Await, Enter, loop, OthersUnchanged
  <1>7. CASE RunApproved(t) \/ ApprovedToolReturns(t)
    BY <1>7, FunctionTypes DEF RunApproved, ApprovedToolReturns, Await, Enter, loop, OthersUnchanged
  <1>8. CASE BeginResume(t) \/ PersistAnswer(t)
    BY <1>8, FunctionTypes DEF BeginResume, PersistAnswer, Goto, OthersUnchanged
  <1>9. QED
    BY <1>1, <1>2, <1>3, <1>4, <1>5, <1>6, <1>7, <1>8 DEF Acts

(* A thread in the middle of something other than the end of a round that
   waits: nobody is asked anything. *)
LEMMA NobodyIsAsked ==
  ASSUME Control, NEW t \in Thread,
         \/ pc[t] \notin {"idle", "record", "calls"}
         \/ pc[t] = "calls" /\ (work[t] # {} \/ ~waiting[t])
  PROVE  \A c \in Call : ~Pending(c)
  BY DEF Control, InFrontOf

(* These steps are none of healing. *)
LEMMA NeverHeals ==
  ASSUME IInv, NEW t \in Thread, Pass(t) \/ End(t) \/ Acts(t)
  PROVE  pc[t] # "heal" /\ pc'[t] # "heal"
  <1>1. CASE Pass(t)
    BY <1>1, FunctionTypes DEF Pass, Passes, Goes
  <1>2. CASE End(t)
    BY <1>2, FunctionTypes DEF End, Leave, Await
  <1>3. ASSUME NEW n \in 0..1, ModelAnswers(t, n) PROVE pc[t] # "heal" /\ pc'[t] # "heal"
    BY <1>3, FunctionTypes DEF ModelAnswers, Enter
  <1>4. CASE \/ RefuseToolCall(t) \/ AskForApproval(t) \/ StartTool(t) \/ ToolReturns(t)
             \/ RecordToolMessage(t)
    BY <1>4, FunctionTypes DEF RefuseToolCall, AskForApproval, StartTool, ToolReturns,
       RecordToolMessage, Goto, Await, Enter
  <1>5. CASE \E c \in Call, d \in Offered : AnswerApproval(t, c, d)
    BY <1>5, FunctionTypes DEF AnswerApproval, Await, Enter
  <1>6. CASE \/ RunApproved(t) \/ ApprovedToolReturns(t) \/ BeginResume(t)
             \/ PersistAnswer(t) /\ pc[t] = "persist"
    BY <1>6, FunctionTypes DEF RunApproved, ApprovedToolReturns, BeginResume, PersistAnswer, Goto,
       Await, Enter
  <1>7. QED
    BY <1>1, <1>2, <1>3, <1>4, <1>5, <1>6 DEF Acts

(* Whoever takes a step keeps the others out, or they all wait. *)
LEMMA HasTheFloor ==
  ASSUME IInv, NEW t \in Thread, Pass(t) \/ End(t) \/ Acts(t), pc[t] # "idle"
  PROVE  busy \in {NoThread, t}
  <1>1. CASE pc[t] \in Section
    BY <1>1, FunctionTypes
  <1>2. CASE pc[t] \notin Section
    <2>1. pc[t] \in {"model", "tool", "saving", "approved_tool"}
      BY <1>2, FunctionTypes DEF Awaiting
    <2>2. CASE Pass(t)
      BY <2>1, <2>2 DEF Pass, Passes, Goes
    <2>3. CASE Acts(t)
      BY <2>1, <2>3 DEF Acts, ModelAnswers, RefuseToolCall, AskForApproval, StartTool, ToolReturns,
         RecordToolMessage, AnswerApproval, RunApproved, ApprovedToolReturns, BeginResume,
         PersistAnswer, Enter
    <2>4. QED
      BY <1>2, <2>2, <2>3 DEF End
  <1>3. QED
    BY <1>1, <1>2

(* Whoever takes a step is alone. *)
LEMMA ActsAlone ==
  ASSUME IInv, Control, NEW t \in Thread, Pass(t) \/ End(t) \/ Acts(t)
  PROVE  /\ \A u \in Thread \ {t} : pc[u] = "idle" /\ work[u] = {} /\ unsaved[u] = <<>>
         /\ run # "absent"
         /\ pc[t] # "idle" \/ \A u \in Thread : pc[u] = "idle"
         /\ pc[t] # "idle" \/ \E c \in Call : Pending(c)
         /\ pc[t] # "heal" /\ \A u \in Thread : pc'[u] # "heal"
  <1>0. pc[t] # "heal" /\ pc'[t] # "heal"
    BY NeverHeals
  <1>1. CASE pc[t] # "idle"
    <2>1. busy \in {NoThread, t}
      BY <1>1, HasTheFloor
    <2>2. \A u \in Thread \ {t} : pc[u] # "heal"
      BY <2>1, FunctionTypes, Threads, Labels
    <2>3. \A u \in Thread \ {t} : pc[u] = "idle"
      BY <1>0, <1>1, <2>2 DEF Control, UnderWay
    <2>4. \A u \in Thread \ {t} : pc'[u] = "idle"
      BY <2>3, ActsForItself DEF OthersUnchanged
    <2>5. \A u \in Thread \ {t} : work[u] = {} /\ unsaved[u] = <<>>
      BY <2>3, OutsideRound
    <2>6. QED
      BY <1>0, <1>1, <2>3, <2>4, <2>5 DEF Control
  <1>2. CASE pc[t] = "idle"
    <2>1. PICK c \in Call, d \in Offered : AnswerApproval(t, c, d) /\ Pending(c)
      BY <1>2, Labels DEF Pass, Passes, Goes, End, Acts, ModelAnswers, RefuseToolCall,
         AskForApproval, StartTool, ToolReturns, RecordToolMessage, RunApproved,
         ApprovedToolReturns, BeginResume, PersistAnswer, Section
    <2>2. busy = NoThread
      BY <2>1 DEF AnswerApproval
    <2>3. \A u \in Thread : pc[u] \notin {"record", "calls"}
      BY <2>2, FunctionTypes, Threads, Labels
    <2>4. \A u \in Thread : pc[u] = "idle"
      BY <2>1, <2>3 DEF Control, InFrontOf
    <2>5. \A u \in Thread \ {t} : pc'[u] = "idle"
      BY <2>4, ActsForItself DEF OthersUnchanged
    <2>6. QED
      BY <1>0, <2>1, <2>4, <2>5, OutsideRound DEF Control
  <1>3. QED
    BY <1>1, <1>2

(* Nothing is under way before the first step. *)
LEMMA ControlBegins == Init => Control
  BY DEF Init, Control, Pending, InFrontOf, UnderWay

(* The turn begins: no thread is under way and nobody is asked. *)
LEMMA BeginControl ==
  ASSUME IInv, Control, Begin
  PROVE  Control'
  <1>1. Turn \in Thread /\ pc' = [pc EXCEPT ![Turn] = "begin"] /\ run = "absent" /\ run' # "absent"
        /\ UNCHANGED <<rows, approvals, work, waiting>>
    BY Threads DEF Begin, StoreUnchanged, loop
  <1>2. rows = <<>> /\ (\A t \in Thread : pc[t] = "idle") /\ (\A c \in Call : ~Pending(c))
    BY <1>1 DEF Control
  <1>3. \A c \in Call : ~Pending(c)'
    BY <1>1, <1>2 DEF Pending
  <1>4. \A t \in Thread \ {Turn} : pc'[t] = "idle"
    BY <1>1, <1>2, FunctionTypes
  <1>5. QED
    BY <1>1, <1>2, <1>3, <1>4 DEF Control, UnderWay

(* The run is canceled, or nothing happens. *)
LEMMA StillControl ==
  ASSUME Control, Still, run' = "absent" => run = "absent", UNCHANGED setting
  PROVE  Control'
  BY DEF Control, Still, StoreUnchanged, loop, Pending, InFrontOf, UnderWay, Requests

(* The process dies: no thread is under way, and who was asked still is. *)
LEMMA CrashControl ==
  ASSUME Control, Crash, run' = "absent" => run = "absent"
  PROVE  Control'
  <1>1. /\ UNCHANGED <<rows, approvals>>
        /\ \A t \in Thread : pc'[t] = "idle" /\ work'[t] = {}
    BY DEF Crash, StoreUnchanged
  <1>2. QED
    BY <1>1 DEF Control, Pending, InFrontOf, UnderWay

(* A surface heals: nobody is asked anything, and there are rows. *)
LEMMA HealControl ==
  ASSUME IInv, Control, NEW t \in Thread, Heals(t), run' = "absent" => run = "absent",
         UNCHANGED setting
  PROVE  Control'
  <1>1. PICK label \in {"idle", "heal"} : pc' = [pc EXCEPT ![t] = label]
    BY DEF Heals
  <1>2. pc[t] \in {"idle", "heal"} /\ approvals' = approvals /\ work' = work
    BY DEF Heals
  <1>3. \A c \in Call : ~Pending(c)
    <2>1. CASE pc[t] = "idle"
      BY <2>1 DEF Heals, NoneRemain, Pending
    <2>2. CASE pc[t] = "heal"
      BY <2>2, NobodyIsAsked
    <2>3. QED
      BY <1>2, <2>1, <2>2
  <1>4. \A c \in Call : ~Pending(c)'
    BY <1>2, <1>3 DEF Pending
  <1>5. run # "absent"
    BY <1>2 DEF Control, Heals
  <1>6. "heal" \in Requests /\ Requests' = Requests
    BY <1>2 DEF Control, Heals, Requests
  <1>7. \A u \in Thread : pc'[u] # "begin" /\ (pc'[u] = pc[u] \/ u = t)
    BY <1>1, FunctionTypes DEF Heals
  <1>8. pc'[t] \in {"idle", "heal"}
    BY <1>1, FunctionTypes
  <1>9. \A u, v \in Thread : UnderWay(u)' /\ UnderWay(v)' => u = v
    BY <1>7, <1>8 DEF Control, UnderWay
  <1>10. QED
    BY <1>2, <1>4, <1>5, <1>6, <1>7, <1>9 DEF Control

(* What has to be checked of a step that a thread takes alone. *)
LEMMA AloneControl ==
  ASSUME IInv, Control, NEW t \in Thread, Pass(t) \/ End(t) \/ Acts(t),
         run' = "absent" => run = "absent",
         \A c, d \in work'[t] : c = d,
         \A c \in Call : Pending(c)' => InFrontOf(c, t)',
         \A c, d \in Call : Pending(c)' /\ Pending(d)' => c = d,
         pc'[t] # "begin" \/ (rows' = rows /\ pc[t] = "begin")
  PROVE  Control'
  <1>1. /\ \A u \in Thread \ {t} : pc[u] = "idle" /\ work[u] = {}
        /\ run' # "absent"
    BY ActsAlone
  <1>2. \A u \in Thread \ {t} : pc'[u] = "idle" /\ work'[u] = {}
    BY <1>1, ActsForItself DEF OthersUnchanged
  <1>3. \A c \in Call : Pending(c)' => \A u \in Thread : InFrontOf(c, u)'
    BY <1>2 DEF InFrontOf
  <1>4. \A u \in Thread : pc'[u] = "begin" => rows' = <<>>
    BY <1>2 DEF Control
  <1>5. \A u \in Thread : pc'[u] # "heal"
    BY ActsAlone
  <1>6. QED
    BY <1>1, <1>2, <1>3, <1>4, <1>5 DEF Control, UnderWay

(* A thread goes on. *)
LEMMA PassControl ==
  ASSUME IInv, Control, NEW t \in Thread, Pass(t), run' = "absent" => run = "absent"
  PROVE  Control'
  <1>1. UNCHANGED <<rows, approvals, work, waiting>>
    BY DEF Pass, StoreUnchanged, loop
  <1>2. /\ pc[t] \notin {"idle", "record"}
        /\ pc[t] = "calls" => work[t] = {} /\ ~waiting[t]
        /\ pc'[t] # "begin"
    BY FunctionTypes DEF Pass, Passes, Goes
  <1>3. \A c \in Call : ~Pending(c)'
    <2>1. \A c \in Call : ~Pending(c)
      BY <1>2, NobodyIsAsked
    <2>2. QED
      BY <1>1, <2>1 DEF Pending
  <1>4. \A c, d \in work'[t] : c = d
    BY <1>1 DEF Control
  <1>5. QED
    BY <1>2, <1>3, <1>4, AloneControl

(* A thread ends. *)
LEMMA EndControl ==
  ASSUME IInv, Control, NEW t \in Thread, End(t), run' = "absent" => run = "absent"
  PROVE  Control'
  <1>1. approvals' = approvals /\ pc'[t] = "idle" /\ work'[t] = {}
    BY FunctionTypes DEF End, Leave, Await, StoreUnchanged
  <1>2. \A c, d \in Call : Pending(c)' /\ Pending(d)' => c = d
    BY <1>1 DEF Control, Pending
  <1>3. \A c \in Call : InFrontOf(c, t)'
    BY <1>1 DEF InFrontOf
  <1>4. QED
    BY <1>1, <1>2, <1>3, AloneControl

(* The steps that change the store: a person is asked only by the loop, for the
   one call of its round, and it then waits. *)
LEMMA ActsControl ==
  ASSUME Serial, IInv, Control, NEW t \in Thread, Acts(t), run' = "absent" => run = "absent"
  PROVE  Control'
  <1>1. \A c, d \in work[t] : c = d
    BY DEF Control
  <1>2. ASSUME NEW n \in 0..1, ModelAnswers(t, n) PROVE Control'
    <2>1. pc[t] = "model" /\ approvals' = approvals /\ pc'[t] \in {"finish", "fail", "calls"}
          /\ work'[t] = (asked + 1)..(asked + n)
      BY <1>2, FunctionTypes DEF ModelAnswers, Enter
    <2>2. \A c \in Call : ~Pending(c)'
      BY <2>1, NobodyIsAsked DEF Pending
    <2>3. \A c, d \in work'[t] : c = d
      BY <2>1, FunctionTypes
    <2>4. QED
      BY <2>1, <2>2, <2>3, AloneControl
  <1>3. CASE RefuseToolCall(t) \/ StartTool(t) \/ ToolReturns(t)
    <2>1. /\ approvals' = approvals /\ work' = work /\ pc'[t] # "begin"
          /\ pc[t] = "tool" \/ (pc[t] = "calls" /\ work[t] # {})
      BY <1>3, FunctionTypes DEF RefuseToolCall, StartTool, ToolReturns, Goto, Await, Enter, loop
    <2>2. \A c \in Call : ~Pending(c)'
      BY <2>1, NobodyIsAsked DEF Pending
    <2>3. QED
      BY <1>1, <2>1, <2>2, AloneControl
  <1>4. CASE AskForApproval(t)
    <2>1. /\ approvals' = [approvals EXCEPT ![NextCall(t)] = "pending"] /\ work' = work
          /\ pc'[t] = "record" /\ pc[t] = "calls" /\ work[t] # {}
      BY <1>4, FunctionTypes DEF AskForApproval, Goto, loop
    <2>2. \A c \in Call : Pending(c)' => c = NextCall(t)
      BY <2>1, NobodyIsAsked, FunctionTypes DEF Pending
    <2>3. NextCall(t) \in work[t]
      BY <2>1, NextCallIsWork DEF IInv, Typing
    <2>4. \A c \in Call : Pending(c)' => InFrontOf(c, t)'
      BY <2>1, <2>2, <2>3 DEF InFrontOf
    <2>5. QED
      BY <1>1, <2>1, <2>2, <2>4, AloneControl
  <1>5. CASE RecordToolMessage(t)
    <2>1. /\ approvals' = approvals /\ pc[t] = "record" /\ pc'[t] = "calls"
          /\ work'[t] = work[t] \ {NextCall(t)}
          /\ waiting'[t] = (waiting[t] \/ toolCalls[NextCall(t)] = "approval_required")
      BY <1>5, FunctionTypes DEF RecordToolMessage, Goto
    <2>2. NextCall(t) \in work[t]
      BY <2>1, NextCallIsWork DEF IInv, Typing, Places
    <2>3. work'[t] = {}
      BY <1>1, <2>1, <2>2
    <2>4. ASSUME NEW c \in Call, Pending(c)' PROVE InFrontOf(c, t)'
      <3>1. Pending(c) /\ c \in work[t]
        BY <2>1, <2>4 DEF Pending, Control, InFrontOf
      <3>2. c = NextCall(t) /\ toolCalls[c] = "approval_required"
        BY <1>1, <2>2, <3>1 DEF IInv, Answering, ApprovalsInv, Pending
      <3>3. waiting'[t]
        BY <2>1, <3>2, Zenon
      <3>4. QED
        BY <2>1, <2>3, <3>3 DEF InFrontOf
    <2>5. \A c, d \in Call : Pending(c)' /\ Pending(d)' => c = d
      BY <2>1 DEF Control, Pending
    <2>6. QED
      BY <2>1, <2>3, <2>4, <2>5, AloneControl
  <1>6. ASSUME NEW c \in Call, NEW d \in Offered, AnswerApproval(t, c, d), Pending(c) PROVE Control'
    <2>1. /\ approvals' = [approvals EXCEPT ![c] = d] /\ work' = work
          /\ pc'[t] \in {"saving", "answered"}
      BY <1>6, FunctionTypes DEF AnswerApproval, Await, Enter, loop
    <2>2. d # "pending"
      BY SettingTypes, Kinds DEF IInv, Typing
    <2>3. \A e \in Call : ~Pending(e)'
      BY <1>6, <2>1, <2>2, FunctionTypes DEF Control, Pending
    <2>4. QED
      BY <1>1, <2>1, <2>3, AloneControl
  <1>7. CASE RunApproved(t) \/ ApprovedToolReturns(t)
    <2>1. /\ approvals' = approvals /\ work' = work /\ pc'[t] # "begin"
          /\ pc[t] \in {"answered", "approved_tool"}
      BY <1>7, FunctionTypes DEF RunApproved, ApprovedToolReturns, Await, Enter, loop
    <2>2. \A c \in Call : ~Pending(c)'
      BY <2>1, NobodyIsAsked DEF Pending
    <2>3. QED
      BY <1>1, <2>1, <2>2, AloneControl
  <1>8. CASE BeginResume(t)
    <2>1. approvals' = approvals /\ work' = work /\ pc'[t] = "persist" /\ pc[t] = "resume"
      BY <1>8, FunctionTypes DEF BeginResume, Goto, durable
    <2>2. \A c \in Call : ~Pending(c)'
      BY <2>1, NobodyIsAsked DEF Pending
    <2>3. QED
      BY <1>1, <2>1, <2>2, AloneControl
  <1>9. CASE PersistAnswer(t) /\ pc[t] = "persist"
    <2>1. approvals' = approvals /\ work' = work /\ pc' = pc /\ pc[t] = "persist"
      BY <1>9 DEF PersistAnswer
    <2>2. \A c \in Call : ~Pending(c)'
      BY <2>1, NobodyIsAsked DEF Pending
    <2>3. QED
      BY <1>1, <2>1, <2>2, AloneControl
  <1>10. QED
    BY <1>2, <1>3, <1>4, <1>5, <1>6, <1>7, <1>8, <1>9 DEF Acts

(* Every step keeps one thread under way and one call to decide. *)
LEMMA StepControl == Serial /\ IInv /\ Control /\ [Next]_vars => Control'
  <1> SUFFICES ASSUME Serial, IInv, Control, [Next]_vars PROVE Control'
    OBVIOUS
  <1>1. SerialStep
    BY SerialSteps
  <1>2. QED
    BY <1>1, BeginControl, StillControl, CrashControl, HealControl, PassControl, EndControl,
       ActsControl DEF SerialStep

(* Both invariants hold at first, and together they are kept. *)
LEMMA SerialStart ==
  ASSUME Serial
  PROVE  (Init => IInv /\ Control) /\ (IInv /\ Control /\ [Next]_vars => (IInv /\ Control)')
  <1>1. Init => IInv /\ Control
    BY InitTyping, InitAnswering, ControlBegins, Threads DEF IInv, Init, Unborn
  <1>2. IInv /\ Control /\ [Next]_vars => (IInv /\ Control)'
    BY StepTyping, StepUnborn, StepAnswering, StepControl DEF IInv
  <1>3. QED
    BY <1>1, <1>2

(* One call at a time: one loop at a time drives the run, for any number of
   surfaces that answer, cancel and heal, and wherever the process dies. *)
THEOREM SingleLoop ==
  ASSUME Serial
  PROVE  Spec => []OneLoop
  <1>1. Init => IInv /\ Control
    BY SerialStart
  <1>2. IInv /\ Control /\ [Next]_vars => (IInv /\ Control)'
    BY SerialStart
  <1>3. Control => OneLoop
    <2> SUFFICES ASSUME Control PROVE OneLoop
      OBVIOUS
    <2> DEFINE Driving == {t \in Thread : pc[t] \in {"model", "tool"}}
    <2>1. \A t, u \in Driving : t = u
      BY DEF Control, UnderWay
    <2> HIDE DEF Driving
    <2>2. Cardinality(Driving) <= 1
      BY <2>1, AtMostOne
    <2>3. QED
      BY <2>2 DEF OneLoop, Driving
  <1>4. QED
    BY <1>1, <1>2, <1>3, PTL DEF Spec

-----------------------------------------------------------------------------
(* Nothing the model asked for stays unanswered                            *)

(* Something may still happen to the run.  (A loop that is over its limit of
   rounds drops the calls of the last one: then nothing may.)              *)
Live == (\E t \in Thread : UnderWay(t)) \/ \E c \in Call : Pending(c)

(* A call that was asked for has an answer, or a placeholder ... *)
Met(messages, c) ==
  AsksIn(messages, c) # {} => AnswersIn(messages, c) # {} \/ PlaceholdersIn(messages, c) # {}

(* ... or is still to be run. *)
CallsMet ==
  /\ Live => \A c \in Call : Met(rows, c) \/ \E t \in Thread : c \in work[t]
  /\ \A t \in Thread, c \in Call : Met(context[t], c) \/ c \in work[t]

(* One more message: an ask is to be met, any other message meets its call. *)
LEMMA MetAppend ==
  ASSUME NEW s \in Seq(Message), NEW m \in Message, NEW c \in Call
  PROVE  /\ Met(s, c) /\ ~(m.kind = "asks" /\ c \in m.calls) => Met(Append(s, m), c)
         /\ m.kind # "asks" /\ c \in m.calls => Met(Append(s, m), c)
  <1>1. m.kind \in {"asks", "placeholder"} \cup Answer
    BY DEF Message
  <1>2. CASE m.kind # "asks" /\ c \in m.calls
    BY <1>1, <1>2, Appended DEF Met
  <1>3. CASE ~(m.kind = "asks" /\ c \in m.calls) /\ ~(m.kind # "asks" /\ c \in m.calls)
    BY <1>3, Appended DEF Met
  <1>4. QED
    BY <1>2, <1>3

(* What the model answers is a message. *)
LEMMA AskIsMessage ==
  ASSUME NEW n \in Nat, asked \in Nat, asked + n <= MaxCalls
  PROVE  /\ Asks((asked + 1)..(asked + n)) \in Message
         /\ Asks((asked + 1)..(asked + n)).kind = "asks"
         /\ Asks((asked + 1)..(asked + n)).calls = (asked + 1)..(asked + n)
  <1>1. (asked + 1)..(asked + n) \subseteq Call
    BY RunnerAssumption DEF Call
  <1>2. QED
    BY <1>1 DEF Asks, Message

(* What the rows meet, a rebuilt conversation meets. *)
LEMMA MetRebuilt ==
  ASSUME rows \in Seq(Message), WellFormed(rows), NEW c \in Call, Met(rows, c)
  PROVE  Met(RebuiltMessages, c)
  <1> DEFINE kept   == {i \in DOMAIN rows : rows[i].kind # "placeholder" \/ IsOpen(rows[i])}
             result == RebuiltMessages
  <1>1. kept \in SUBSET DOMAIN rows /\ result = Answered(Kept(rows, kept))
    BY DEF RebuiltMessages
  <1>2. PICK h : TracedTo(h, kept, result)
    BY <1>1, AnsweredRows
  <1> HIDE DEF result
  <1> SUFFICES ASSUME AsksIn(result, c) # {}
               PROVE  AnswersIn(result, c) # {}
    BY DEF Met, result
  <1>3. \A i \in DOMAIN result :
          /\ h[i] \in kept
          /\ result[i].calls = rows[h[i]].calls
          /\ IsOpen(rows[h[i]]) => result[i].kind \in Answer
          /\ ~IsOpen(rows[h[i]]) => result[i] = rows[h[i]]
    BY <1>2 DEF TracedTo
  <1>4. \A k \in kept : \E i \in DOMAIN result : h[i] = k
    BY <1>2 DEF TracedTo
  <1>5. AsksIn(rows, c) # {}
    <2>1. PICK i \in DOMAIN result : result[i].kind = "asks" /\ c \in result[i].calls
      BY DEF AsksIn
    <2>2. result[i] = rows[h[i]] /\ h[i] \in DOMAIN rows
      BY <1>3, <2>1 DEF Answer
    <2>3. QED
      BY <2>1, <2>2 DEF AsksIn
  <1>6. CASE AnswersIn(rows, c) # {}
    <2>1. PICK k \in DOMAIN rows : rows[k].kind \in Answer /\ c \in rows[k].calls
      BY <1>6 DEF AnswersIn
    <2>2. k \in kept /\ ~IsOpen(rows[k])
      BY <2>1 DEF IsOpen, Answer
    <2>3. PICK i \in DOMAIN result : h[i] = k
      BY <1>4, <2>2
    <2>4. result[i] = rows[k]
      BY <1>3, <2>2, <2>3
    <2>5. QED
      BY <2>1, <2>4 DEF AnswersIn
  <1>7. CASE AnswersIn(rows, c) = {} /\ PlaceholdersIn(rows, c) # {}
    <2>1. PICK k \in DOMAIN rows : rows[k].kind = "placeholder" /\ c \in rows[k].calls
      BY <1>7 DEF PlaceholdersIn
    <2>2. rows[k].calls = {c}
      BY <2>1 DEF WellFormed
    <2>3. c \notin Stored
      BY <1>7 DEF Stored, AnswersIn
    <2>4. IsOpen(rows[k]) /\ k \in kept
      BY <2>1, <2>2, <2>3 DEF IsOpen
    <2>5. PICK i \in DOMAIN result : h[i] = k
      BY <1>4, <2>4
    <2>6. result[i].kind \in Answer /\ c \in result[i].calls
      BY <1>3, <2>1, <2>4, <2>5
    <2>7. QED
      BY <2>6 DEF AnswersIn
  <1>8. QED
    BY <1>5, <1>6, <1>7 DEF Met

(* What has to be checked of a step that a thread takes alone ... *)
LEMMA AloneMet ==
  ASSUME IInv, Control, CallsMet, NEW t \in Thread, Pass(t) \/ End(t) \/ Acts(t),
         Live' => \A c \in Call : Met(rows', c) \/ c \in work'[t],
         \A c \in Call : Met(context'[t], c) \/ c \in work'[t]
  PROVE  CallsMet'
  <1>1. \A u \in Thread \ {t} : context'[u] = context[u] /\ work'[u] = work[u]
    BY ActsForItself DEF OthersUnchanged
  <1>2. \A u \in Thread, c \in Call : Met(context'[u], c) \/ c \in work'[u]
    BY <1>1 DEF CallsMet
  <1>3. QED
    BY <1>2 DEF CallsMet, Met, AsksIn, AnswersIn, PlaceholdersIn

(* ... and what is known before it. *)
LEMMA AloneWork ==
  ASSUME IInv, Control, CallsMet, NEW t \in Thread, Pass(t) \/ End(t) \/ Acts(t)
  PROVE  /\ \A c \in Call : Met(rows, c) \/ c \in work[t]
         /\ \A c \in Call : Met(context[t], c) \/ c \in work[t]
  <1>1. Live /\ \A u \in Thread \ {t} : work[u] = {}
    BY ActsAlone DEF Live, UnderWay
  <1>2. QED
    BY <1>1 DEF CallsMet

(* The thread that asks nobody anything ends: nothing may happen any more, or
   a person is asked, and then there was nothing left to run. *)
LEMMA EndMet ==
  ASSUME IInv, Control, CallsMet, NEW t \in Thread, End(t)
  PROVE  CallsMet'
  <1>1. /\ rows' = rows /\ approvals' = approvals
        /\ pc'[t] = "idle" /\ work'[t] = {} /\ context'[t] = <<>>
    BY FunctionTypes DEF End, Leave, Await, StoreUnchanged
  <1>2. \A u \in Thread : pc'[u] = "idle"
    BY <1>1, ActsAlone, ActsForItself DEF OthersUnchanged
  <1>3. ASSUME Live' PROVE \A c \in Call : Met(rows', c) \/ c \in work'[t]
    <2>1. PICK c \in Call : Pending(c)
      BY <1>1, <1>2, <1>3 DEF Live, Pending, UnderWay
    <2>2. InFrontOf(c, t)
      BY <2>1 DEF Control
    <2>3. work[t] = {}
      BY <2>2, Labels DEF End, InFrontOf, Section
    <2>4. QED
      BY <1>1, <2>3, AloneWork
  <1>4. \A c \in Call : Met(context'[t], c)
    BY <1>1, Nothing DEF Met
  <1>5. QED
    BY <1>3, <1>4, AloneMet

(* The other steps of a thread. *)
LEMMA ActsMet ==
  ASSUME IInv, Control, CallsMet, NEW t \in Thread, Pass(t) \/ Acts(t)
  PROVE  CallsMet'
  <1>0. /\ \A c \in Call : Met(rows, c) \/ c \in work[t]
        /\ \A c \in Call : Met(context[t], c) \/ c \in work[t]
    BY AloneWork
  <1>1. CASE UNCHANGED <<rows, context, work>>
    BY <1>0, <1>1, AloneMet DEF Met, AsksIn, AnswersIn, PlaceholdersIn
  <1>2. CASE \/ Pass(t)
             \/ RefuseToolCall(t) \/ AskForApproval(t) \/ StartTool(t) \/ ToolReturns(t)
             \/ \E c \in Call, d \in Offered : AnswerApproval(t, c, d)
             \/ RunApproved(t) \/ ApprovedToolReturns(t)
    BY <1>1, <1>2 DEF Pass, StoreUnchanged, loop, RefuseToolCall, AskForApproval, StartTool,
       ToolReturns, AnswerApproval, RunApproved, ApprovedToolReturns
  <1>3. ASSUME NEW n \in 0..1, ModelAnswers(t, n) PROVE CallsMet'
    <2> DEFINE m == Asks((asked + 1)..(asked + n))
    <2>1. /\ rows' = Append(rows, m) /\ context'[t] = Append(context[t], m)
          /\ work'[t] = m.calls /\ m \in Message /\ pc[t] = "model"
      BY <1>3, FunctionTypes, AskIsMessage DEF ModelAnswers, AddMessage, Asks
    <2> HIDE DEF m
    <2>2. work[t] = {}
      BY <2>1, OutsideRound
    <2>3. ASSUME NEW c \in Call, c \notin work'[t] PROVE Met(rows', c) /\ Met(context'[t], c)
      BY <1>0, <2>1, <2>2, <2>3, FunctionTypes, MetAppend
    <2>4. QED
      BY <2>3, AloneMet
  <1>4. CASE RecordToolMessage(t)
    <2> DEFINE e == NextCall(t)
               m == Tool(IF toolCalls[e] = "approval_required" THEN "placeholder" ELSE "outcome", e)
    <2>1. /\ rows' = Append(rows, m) /\ context'[t] = Append(context[t], m)
          /\ work'[t] = work[t] \ {e} /\ pc[t] = "record"
      BY <1>4, FunctionTypes DEF RecordToolMessage, AddMessage
    <2>2. e \in Call
      BY <2>1, NextCallIsWork DEF IInv, Typing, Places
    <2>3. m \in Message /\ m.kind # "asks" /\ m.calls = {e}
      BY <2>2 DEF Tool, Message, Answer
    <2> HIDE DEF m, e
    <2>4. ASSUME NEW c \in Call, c \notin work'[t] PROVE Met(rows', c) /\ Met(context'[t], c)
      <3>1. rows \in Seq(Message) /\ context[t] \in Seq(Message)
        BY FunctionTypes
      <3>2. CASE c = e
        BY <2>1, <2>3, <3>1, <3>2, MetAppend
      <3>3. CASE c # e
        <4>1. Met(rows, c) /\ Met(context[t], c)
          BY <1>0, <2>1, <2>4, <3>3
        <4>2. QED
          BY <2>1, <2>3, <3>1, <4>1, MetAppend
      <3>4. QED
        BY <3>2, <3>3
    <2>5. QED
      BY <2>4, AloneMet
  <1>5. CASE BeginResume(t)
    <2>1. rows' = rows /\ context'[t] = RebuiltMessages /\ pc[t] = "resume"
      BY <1>5, FunctionTypes DEF BeginResume, durable
    <2>2. \A c \in Call : Met(rows, c)
      BY <1>0, <2>1, OutsideRound
    <2>3. \A c \in Call : Met(context'[t], c)
      BY <2>1, <2>2, MetRebuilt, FunctionTypes DEF IInv, Answering, RowsInv
    <2>4. \A c \in Call : Met(rows', c)
      BY <2>1, <2>2
    <2>5. QED
      BY <2>3, <2>4, AloneMet
  <1>6. CASE PersistAnswer(t) /\ pc[t] = "persist"
    <2>1. /\ rows' = Append(rows, Head(unsaved[t])) /\ context' = context /\ work' = work
          /\ unsaved[t] # <<>>
      BY <1>6 DEF PersistAnswer
    <2>2. Head(unsaved[t]) \in Message /\ Head(unsaved[t]).kind # "asks"
      <3>1. /\ unsaved[t] \in Seq(Message) /\ 1 \in DOMAIN unsaved[t]
            /\ Head(unsaved[t]) = unsaved[t][1]
        BY <2>1, FunctionTypes
      <3>2. unsaved[t][1].kind \in Answer
        BY <3>1 DEF IInv, Answering, UnsavedInv, AnswersHeld
      <3>3. QED
        BY <3>1, <3>2 DEF Answer
    <2>3. \A c \in Call : Met(rows', c) \/ c \in work'[t]
      BY <1>0, <2>1, <2>2, FunctionTypes, MetAppend
    <2>4. \A c \in Call : Met(context'[t], c) \/ c \in work'[t]
      BY <1>0, <2>1 
    <2>5. QED
      BY <2>3, <2>4, AloneMet
  <1>7. QED
    BY <1>2, <1>3, <1>4, <1>5, <1>6 DEF Acts

(* A surface that heals adds answers, and wakes nobody. *)
LEMMA HealLive ==
  ASSUME IInv, NEW t \in Thread, Heals(t), Live'
  PROVE  Live
  <1>1. approvals' = approvals /\ pc[t] \in {"idle", "heal"}
    BY DEF Heals
  <1>2. pc'[t] \in {"idle", "heal"} /\ \A u \in Thread \ {t} : pc'[u] = pc[u]
    BY FunctionTypes DEF Heals
  <1>3. QED
    BY <1>1, <1>2 DEF Live, UnderWay, Pending

(* What the model asked for stays met. *)
LEMMA HealMet ==
  ASSUME IInv, CallsMet, NEW t \in Thread, Heals(t)
  PROVE  CallsMet'
  <1>1. /\ work' = work
        /\ context' = context \/ context' = [context EXCEPT ![t] = <<>>]
    BY DEF Heals
  <1>2. ASSUME NEW c \in Call, Met(rows, c) PROVE Met(rows', c)
    <2>1. CASE rows' = rows
      BY <1>2, <2>1
    <2>2. ASSUME NEW m \in Message, m.kind \in Answer, rows' = Append(rows, m)
          PROVE  Met(rows', c)
      BY <1>2, <2>2, FunctionTypes, MetAppend DEF Answer
    <2>3. QED
      BY <2>1, <2>2 DEF Heals
  <1>3. ASSUME Live' PROVE \A c \in Call : Met(rows', c) \/ \E u \in Thread : c \in work'[u]
    BY <1>1, <1>2, <1>3, HealLive DEF CallsMet
  <1>4. ASSUME NEW u \in Thread, NEW c \in Call PROVE Met(context'[u], c) \/ c \in work'[u]
    <2>1. context'[u] = context[u] \/ context'[u] = <<>>
      BY <1>1, FunctionTypes
    <2>2. Met(<<>>, c)
      BY Nothing DEF Met
    <2>3. QED
      BY <1>1, <2>1, <2>2 DEF CallsMet
  <1>5. QED
    BY <1>3, <1>4 DEF CallsMet, Met, AsksIn, AnswersIn, PlaceholdersIn

(* Every step keeps it: a turn begins with no row. *)
LEMMA StepMet ==
  Serial /\ IInv /\ Control /\ (crashes = 0 => CallsMet) /\ [Next]_vars
    => (crashes = 0 => CallsMet)'
  <1> SUFFICES ASSUME Serial, IInv, Control, crashes = 0 => CallsMet, [Next]_vars, crashes' = 0
               PROVE  CallsMet'
    OBVIOUS
  <1>0. SerialStep /\ CallsMet /\ ~Crash
    BY SerialSteps DEF SerialStep, Crash
  <1>1. CASE Begin
    <2>1. rows' = <<>> /\ context' = context /\ work' = work
      BY <1>1 DEF Begin, StoreUnchanged, loop, Control
    <2>2. \A c \in Call : Met(rows', c)
      BY <2>1, Nothing DEF Met
    <2>3. QED
      BY <1>0, <2>1, <2>2 DEF CallsMet, Met, AsksIn, AnswersIn, PlaceholdersIn
  <1>2. CASE Still
    BY <1>0, <1>2 DEF Still, StoreUnchanged, loop, CallsMet, Live, UnderWay, Pending, Met, AsksIn,
       AnswersIn, PlaceholdersIn
  <1>3. QED
    BY <1>0, <1>1, <1>2, EndMet, HealMet, ActsMet DEF SerialStep

(* Until the process dies, the model is never asked to go on from a
   conversation that leaves one of its tool calls without an answer, however
   often the run was resumed.  (A crash between the request for approval and
   the row that says so leaves a call that nothing answers.) *)
THEOREM AnsweredCalls ==
  ASSUME Serial
  PROVE  Spec => [](crashes = 0 => NoDanglingToolCalls)
  <1> DEFINE Clean == crashes = 0 => CallsMet
  <1>1. Init => IInv /\ Control /\ Clean
    <2>1. Init => IInv /\ Control
      BY SerialStart
    <2>2. Init => CallsMet
      BY Nothing DEF Init, CallsMet, Met
    <2>3. QED
      BY <2>1, <2>2
  <1>2. IInv /\ Control /\ Clean /\ [Next]_vars => (IInv /\ Control /\ Clean)'
    BY SerialStart, StepMet
  <1>3. IInv /\ Clean => (crashes = 0 => NoDanglingToolCalls)
    <2> SUFFICES ASSUME IInv, CallsMet, NEW t \in Thread, pc[t] = "model", NEW c \in Call,
                        AsksIn(context[t], c) # {}
                 PROVE  AnswersIn(context[t], c) # {}
      BY DEF NoDanglingToolCalls
    <2>1. work[t] = {} /\ PlaceholdersIn(context[t], c) = {}
      BY OutsideRound
    <2>2. QED
      BY <2>1 DEF CallsMet, Met
  <1>4. QED
    BY <1>1, <1>2, <1>3, PTL DEF Spec

-----------------------------------------------------------------------------
(* "Never executed" is true                                                *)

(* Thread t awaits the tool of the call. *)
RunBy(t, c) ==
  \/ pc[t] = "tool" /\ c \in work[t]
  \/ pc[t] = "approved_tool" /\ job[t] = c

NotRun(messages) ==
  \A i \in DOMAIN messages : messages[i].kind = "fallback" => messages[i].calls \cap started = {}

(* Whatever was started was asked for. *)
StartedAsked == \A c \in started : c <= asked

(* As long as something may happen, a tool that was started has ended or its
   thread awaits it (a crash may interrupt a tool, but then nobody is asked
   anything, and nothing takes the run up again); a loop and a surface start
   the tool of a call nothing answers; and no call is said not to have run
   that was started.                                                       *)
StartedInv ==
  /\ StartedAsked
  /\ Live \/ run = "absent" =>
       \A c \in started : toolCalls[c] \in TerminalCall \/ \E t \in Thread : RunBy(t, c)
  /\ \A t \in Thread : pc[t] = "calls" => work[t] \cap started = {}
  /\ \A t \in Thread : pc[t] \in {"saving", "answered"} => AnswersIn(rows, job[t]) = {}
  /\ NotRun(rows)
  /\ \A t \in Thread : NotRun(unsaved[t])

(* Every step keeps it: a loop and a surface start calls that were asked for. *)
LEMMA StepAsked == Serial /\ IInv /\ Control /\ StartedAsked /\ [Next]_vars => StartedAsked'
  <1> SUFFICES ASSUME Serial, IInv, Control, StartedAsked, [Next]_vars PROVE StartedAsked'
    OBVIOUS
  <1>0. started \subseteq Call /\ asked \in Nat
    BY FunctionTypes DEF IInv, Typing, TypeOK
  <1>1. CASE UNCHANGED <<asked, started>>
    BY <1>1 DEF StartedAsked
  <1>2. CASE Begin \/ Still \/ Crash \/ \E t \in Thread : Pass(t) \/ End(t) \/ Heals(t)
    BY <1>1, <1>2 DEF Begin, Still, Crash, Pass, End, Heals, StoreUnchanged
  <1>3. ASSUME NEW t \in Thread,
               \/ RefuseToolCall(t) \/ AskForApproval(t) \/ ToolReturns(t) \/ RecordToolMessage(t)
               \/ \E c \in Call, d \in Offered : AnswerApproval(t, c, d)
               \/ ApprovedToolReturns(t) \/ BeginResume(t) \/ PersistAnswer(t)
        PROVE  StartedAsked'
    <2>1. UNCHANGED <<asked, started>>
      BY <1>3 DEF RefuseToolCall, AskForApproval, ToolReturns, RecordToolMessage, AnswerApproval,
         ApprovedToolReturns, BeginResume, PersistAnswer, history
    <2>2. QED
      BY <1>1, <2>1
  <1>4. ASSUME NEW t \in Thread, NEW n \in 0..1, ModelAnswers(t, n) PROVE StartedAsked'
    <2>1. started' = started /\ asked' = asked + n
      BY <1>4 DEF ModelAnswers
    <2>2. QED
      BY <1>0, <2>1 DEF StartedAsked, Call
  <1>5. ASSUME NEW t \in Thread, StartTool(t) PROVE StartedAsked'
    <2>1. /\ asked' = asked /\ started' = started \cup {NextCall(t)}
          /\ pc[t] = "calls" /\ work[t] # {}
      BY <1>5 DEF StartTool
    <2>2. NextCall(t) \in work[t]
      BY <2>1, NextCallIsWork DEF IInv, Typing
    <2>3. NextCall(t) <= asked
      BY <2>2, FunctionTypes DEF IInv, Answering, WorkInv
    <2>4. QED
      BY <2>1, <2>3 DEF StartedAsked
  <1>6. ASSUME NEW t \in Thread, RunApproved(t) PROVE StartedAsked'
    <2>1. /\ asked' = asked /\ started' = started \cup {job[t]} /\ pc[t] = "answered"
          /\ approvals[job[t]] \in Allowing
      BY <1>6 DEF RunApproved
    <2>2. job[t] \in Call
      BY <2>1, FunctionTypes DEF IInv, Typing, Places
    <2>3. job[t] <= asked
      BY <2>1, <2>2, Kinds DEF IInv, Answering, ApprovalsInv, RowsInv
    <2>4. QED
      BY <2>1, <2>3 DEF StartedAsked
  <1>7. ASSUME NEW t \in Thread, Acts(t) PROVE StartedAsked'
    BY <1>3, <1>4, <1>5, <1>6, <1>7 DEF Acts
  <1>8. QED
    BY <1>2, <1>7, SerialSteps DEF SerialStep

(* A stored fallback is about a call that has not ended. *)
LEMMA FallbackIsOpen ==
  ASSUME rows \in Seq(Message), WellFormed(rows),
         NEW i \in DOMAIN MessagesToPersist, MessagesToPersist[i].kind = "fallback"
  PROVE  \E c \in Call : MessagesToPersist[i].calls = {c} /\ toolCalls[c] \notin TerminalCall
  <1> DEFINE kept   == {k \in DOMAIN rows : IsOpen(rows[k])}
             result == MessagesToPersist
  <1>1. kept \in SUBSET DOMAIN rows /\ result = Answered(Kept(rows, kept))
    BY DEF MessagesToPersist
  <1>2. PICK h : TracedTo(h, kept, result)
    BY <1>1, AnsweredRows
  <1>3. h[i] \in DOMAIN rows /\ IsOpen(rows[h[i]])
    BY <1>2 DEF TracedTo
  <1>4. /\ result[i].calls = rows[h[i]].calls
        /\ result[i] = AnswerTo(rows[h[i]])
    BY <1>2, <1>3 DEF TracedTo
  <1>5. rows[h[i]].kind = "placeholder" /\ rows[h[i]] \in Message
    BY <1>3 DEF IsOpen
  <1>6. PICK c \in Call : rows[h[i]].calls = {c}
    BY <1>3, <1>5 DEF WellFormed
  <1>7. ~ \A d \in rows[h[i]].calls : toolCalls[d] \in TerminalCall
    <2> SUFFICES ASSUME \A d \in rows[h[i]].calls : toolCalls[d] \in TerminalCall PROVE FALSE
      OBVIOUS
    <2>1. AnswerTo(rows[h[i]]).kind = "outcome"
      BY <1>5 DEF AnswerTo, Message
    <2>2. QED
      BY <1>4, <2>1
  <1>8. QED
    BY <1>4, <1>6, <1>7

(* Alone, nobody else awaits a tool. *)
LEMMA RunByNobodyElse ==
  ASSUME IInv, Control, StartedInv, NEW t \in Thread, Pass(t) \/ End(t) \/ Acts(t)
  PROVE  /\ \A c \in started : toolCalls[c] \in TerminalCall \/ RunBy(t, c)
         /\ \A u \in Thread \ {t} :
              ~(pc'[u] \in {"calls", "saving", "answered"}) /\ unsaved'[u] = <<>>
  <1>1. Live /\ \A u \in Thread \ {t} : pc[u] = "idle" /\ unsaved[u] = <<>>
    BY ActsAlone DEF Live, UnderWay
  <1>2. QED
    BY <1>1, ActsForItself DEF StartedInv, RunBy, OthersUnchanged

(* What has to be checked of a step that a thread takes alone. *)
LEMMA AloneStarted ==
  ASSUME IInv, Control, StartedInv, NEW t \in Thread, Pass(t) \/ End(t) \/ Acts(t),
         \A c \in started' : c <= asked' /\ (toolCalls'[c] \in TerminalCall \/ RunBy(t, c)'),
         pc'[t] = "calls" => work'[t] \cap started' = {},
         pc'[t] \in {"saving", "answered"} => AnswersIn(rows', job'[t]) = {},
         NotRun(rows)',
         NotRun(unsaved[t])'
  PROVE  StartedInv'
  <1>1. \A u \in Thread \ {t} :
          ~(pc'[u] \in {"calls", "saving", "answered"}) /\ unsaved'[u] = <<>>
    BY RunByNobodyElse
  <1>2. \A c \in started' : toolCalls'[c] \in TerminalCall \/ \E u \in Thread : RunBy(u, c)'
    OBVIOUS
  <1>3. \A u \in Thread : pc'[u] = "calls" => work'[u] \cap started' = {}
    BY <1>1
  <1>4. \A u \in Thread : pc'[u] \in {"saving", "answered"} => AnswersIn(rows', job'[u]) = {}
    BY <1>1
  <1>5. \A u \in Thread : NotRun(unsaved[u])'
    BY <1>1 DEF NotRun
  <1>6. QED
    BY <1>2, <1>3, <1>4, <1>5 DEF StartedInv, StartedAsked, AnswersIn

(* One more message that is no fallback, or one about calls not started. *)
LEMMA NotRunAppend ==
  ASSUME rows \in Seq(Message), StartedInv, NEW m \in Message, rows' = Append(rows, m),
         started' = started, m.kind = "fallback" => m.calls \cap started = {}
  PROVE  NotRun(rows)'
  <1>1. \A i \in DOMAIN rows' : (i \in DOMAIN rows /\ rows'[i] = rows[i]) \/ rows'[i] = m
    OBVIOUS
  <1>2. QED
    BY <1>1 DEF StartedInv, NotRun

(* Starting the tool of a call that no row answers. *)
LEMMA NotRunStarts ==
  ASSUME rows \in Seq(Message), StartedInv, NEW c \in Call, AnswersIn(rows, c) = {},
         rows' = rows, started' = started \cup {c}
  PROVE  NotRun(rows)'
  <1> SUFFICES ASSUME NEW i \in DOMAIN rows, rows[i].kind = "fallback"
               PROVE  rows[i].calls \cap started' = {}
    BY DEF NotRun
  <1>1. c \notin rows[i].calls
    BY DEF AnswersIn, Answer
  <1>2. rows[i].calls \cap started = {}
    BY DEF StartedInv, NotRun
  <1>3. QED
    BY <1>1, <1>2

(* The steps that start no tool and add no message. *)
LEMMA QuietStarted ==
  ASSUME IInv, Control, StartedInv, NEW t \in Thread, Pass(t) \/ End(t) \/ Acts(t),
         UNCHANGED <<rows, asked, started>>,
         \A c \in started : \/ toolCalls'[c] \in TerminalCall
                            \/ toolCalls'[c] = toolCalls[c] /\ ~RunBy(t, c),
         pc'[t] = "calls" => pc[t] = "calls" /\ work'[t] = work[t],
         pc'[t] \in {"saving", "answered"} =>
           \/ pc[t] \in {"saving", "answered"} /\ job'[t] = job[t]
           \/ AnswersIn(rows, job'[t]) = {},
         unsaved'[t] \in {<<>>, unsaved[t]}
  PROVE  StartedInv'
  <1>1. \A c \in started' : c <= asked' /\ (toolCalls'[c] \in TerminalCall \/ RunBy(t, c)')
    BY RunByNobodyElse DEF StartedInv, StartedAsked
  <1>2. NotRun(rows)' /\ NotRun(unsaved[t])'
    BY DEF StartedInv, NotRun
  <1>3. QED
    BY <1>1, <1>2, AloneStarted DEF StartedInv

(* A thread goes on. *)
LEMMA PassStarted ==
  ASSUME IInv, Control, StartedInv, NEW t \in Thread, Pass(t)
  PROVE  StartedInv'
  <1>1. /\ UNCHANGED <<rows, toolCalls, asked, started, work, unsaved, job>>
        /\ pc[t] \notin {"tool", "approved_tool"} /\ pc'[t] # "calls"
        /\ pc'[t] \in {"saving", "answered"} => pc[t] = "saving"
    BY FunctionTypes DEF Pass, Passes, Goes, StoreUnchanged, loop
  <1>2. \A c \in started : ~RunBy(t, c)
    BY <1>1 DEF RunBy
  <1>3. QED
    BY <1>1, <1>2, QuietStarted

(* A thread ends: it awaited no tool. *)
LEMMA EndStarted ==
  ASSUME IInv, Control, StartedInv, NEW t \in Thread, End(t)
  PROVE  StartedInv'
  <1>1. /\ UNCHANGED <<rows, toolCalls, asked, started>>
        /\ pc[t] \in Section /\ pc'[t] = "idle" /\ unsaved'[t] = <<>>
    BY FunctionTypes DEF End, Leave, Await, StoreUnchanged
  <1>2. \A c \in started : ~RunBy(t, c)
    BY <1>1 DEF RunBy, Section
  <1>3. QED
    BY <1>1, <1>2, QuietStarted

(* The queue acts on the next call of a round. *)
LEMMA QueueStarted ==
  ASSUME IInv, Control, StartedInv, NEW t \in Thread,
         RefuseToolCall(t) \/ AskForApproval(t) \/ StartTool(t) \/ ToolReturns(t)
  PROVE  StartedInv'
  <1> DEFINE e == NextCall(t)
  <1>0. Acts(t)
    BY DEF Acts
  <1>1. pc[t] \in {"calls", "tool"} /\ (pc[t] = "calls" => work[t] # {})
    BY DEF RefuseToolCall, AskForApproval, StartTool, ToolReturns
  <1>2. e \in work[t] /\ e \in Call
    BY <1>1, NextCallIsWork DEF IInv, Typing, Places
  <1>3. /\ AnswersIn(rows, e) = {} /\ e <= asked
        /\ \A c \in work[t] : c = e
    BY <1>2, FunctionTypes DEF IInv, Answering, WorkInv, Control
  <1> HIDE DEF e
  <1>4. UNCHANGED <<rows, asked, work, unsaved, job>>
    BY DEF RefuseToolCall, AskForApproval, StartTool, ToolReturns, loop, history
  <1>5. CASE RefuseToolCall(t) \/ AskForApproval(t)
    <2>1. /\ started' = started /\ pc[t] = "calls" /\ pc'[t] = "record"
          /\ \A c \in Call \ {e} : toolCalls'[c] = toolCalls[c]
      BY <1>5, FunctionTypes DEF e, RefuseToolCall, AskForApproval, Goto, history
    <2>2. e \notin started /\ started \subseteq Call
      BY <1>2, <2>1 DEF StartedInv, IInv, Typing, TypeOK
    <2>3. \A c \in started : toolCalls'[c] = toolCalls[c] /\ ~RunBy(t, c)
      BY <2>1, <2>2 DEF RunBy
    <2>4. QED
      BY <1>0, <1>4, <2>1, <2>3, QuietStarted
  <1>6. CASE StartTool(t)
    <2>1. /\ started' = started \cup {e} /\ pc[t] = "calls" /\ pc'[t] = "tool"
          /\ \A c \in Call \ {e} : toolCalls'[c] = toolCalls[c]
      BY <1>6, FunctionTypes DEF e, StartTool, Await
    <2>2. \A c \in started : toolCalls[c] \in TerminalCall
      BY <1>0, <2>1, RunByNobodyElse DEF RunBy
    <2>3. e \notin started /\ started \subseteq Call
      BY <1>2, <2>1 DEF StartedInv, IInv, Typing, TypeOK
    <2>4. \A c \in started' : c <= asked' /\ (toolCalls'[c] \in TerminalCall \/ RunBy(t, c)')
      BY <1>2, <1>3, <1>4, <2>1, <2>2, <2>3 DEF RunBy, StartedInv, StartedAsked
    <2>5. NotRun(rows)'
      BY <1>2, <1>3, <1>4, <2>1, FunctionTypes, NotRunStarts
    <2>6. unsaved'[t] = <<>>
      BY <1>4, <2>1, OutsideRound
    <2>7. QED
      BY <1>0, <2>1, <2>4, <2>5, <2>6, AloneStarted DEF NotRun
  <1>7. CASE ToolReturns(t)
    <2>1. /\ started' = started /\ pc[t] = "tool" /\ pc'[t] = "record"
          /\ \A c \in Call \ {e} : toolCalls'[c] = toolCalls[c]
          /\ toolCalls'[e] \in TerminalCall
      BY <1>2, <1>7, FunctionTypes DEF e, ToolReturns, Enter, history, TerminalCall
    <2>2. started \subseteq Call
      BY DEF IInv, Typing, TypeOK
    <2>3. \A c \in started \ {e} : toolCalls'[c] = toolCalls[c] /\ ~RunBy(t, c)
      BY <1>3, <2>1, <2>2 DEF RunBy
    <2>4. QED
      BY <1>0, <1>4, <2>1, <2>3, QuietStarted
  <1>8. QED
    BY <1>5, <1>6, <1>7

(* A surface acts on the call whose approval was just answered. *)
LEMMA AnswerStarted ==
  ASSUME IInv, Control, StartedInv, NEW t \in Thread,
         \/ \E c \in Call, d \in Offered : AnswerApproval(t, c, d) /\ Pending(c)
         \/ RunApproved(t) \/ ApprovedToolReturns(t)
  PROVE  StartedInv'
  <1>0. Acts(t)
    BY DEF Acts
  <1>1. started \subseteq Call
    BY DEF IInv, Typing, TypeOK
  <1>2. ASSUME NEW c \in Call, NEW d \in Offered, AnswerApproval(t, c, d), Pending(c)
        PROVE  StartedInv'
    <2>1. /\ UNCHANGED <<rows, asked, started, work, unsaved>>
          /\ pc[t] = "idle" /\ pc'[t] \in {"saving", "answered"} /\ job'[t] = c
          /\ \A e \in Call : toolCalls'[e] = toolCalls[e] \/ toolCalls'[e] = "denied"
      BY <1>2, FunctionTypes DEF AnswerApproval, Await, Enter, loop, history
    <2>2. AnswersIn(rows, c) = {}
      BY <1>2 DEF IInv, Answering, ApprovalsInv, Pending
    <2>3. \A e \in started : ~RunBy(t, e)
      BY <2>1 DEF RunBy
    <2>4. QED
      BY <1>0, <1>1, <2>1, <2>2, <2>3, QuietStarted DEF TerminalCall
  <1>3. CASE RunApproved(t)
    <2> DEFINE e == job[t]
    <2>1. /\ pc[t] = "answered" /\ pc'[t] = "approved_tool" /\ toolCalls[e] = "approval_required"
          /\ started' = started \cup {e}
          /\ \A c \in Call \ {e} : toolCalls'[c] = toolCalls[c]
          /\ UNCHANGED <<rows, asked, work, unsaved, job>>
      BY <1>3, FunctionTypes DEF RunApproved, Await, loop
    <2>2. e \in Call
      BY <2>1, FunctionTypes DEF IInv, Typing, Places
    <2>3. e <= asked /\ AnswersIn(rows, e) = {}
      BY <2>1, <2>2, Kinds DEF IInv, Typing, Places, Answering, ApprovalsInv, RowsInv, StartedInv
    <2>4. \A c \in started : toolCalls[c] \in TerminalCall
      BY <1>0, <2>1, RunByNobodyElse DEF RunBy
    <2>5. e \notin started
      BY <2>1, <2>4 DEF TerminalCall
    <2>6. \A c \in started' : c <= asked' /\ (toolCalls'[c] \in TerminalCall \/ RunBy(t, c)')
      BY <1>1, <2>1, <2>3, <2>4, <2>5 DEF RunBy, StartedInv, StartedAsked
    <2>7. NotRun(rows)'
      BY <2>1, <2>2, <2>3, FunctionTypes, NotRunStarts
    <2>8. unsaved'[t] = <<>>
      BY <2>1, OutsideRound
    <2> HIDE DEF e
    <2>9. QED
      BY <1>0, <2>1, <2>6, <2>7, <2>8, AloneStarted DEF NotRun
  <1>4. CASE ApprovedToolReturns(t)
    <2> DEFINE e == job[t]
    <2>1. e \in Call
      BY <1>4, FunctionTypes DEF ApprovedToolReturns, IInv, Typing, Places
    <2>2. /\ pc[t] = "approved_tool" /\ pc'[t] = "check"
          /\ UNCHANGED <<rows, asked, started, work, unsaved>>
          /\ \A c \in Call \ {e} : toolCalls'[c] = toolCalls[c]
          /\ toolCalls'[e] \in TerminalCall
      BY <1>4, <2>1, FunctionTypes DEF ApprovedToolReturns, Enter, loop, history, TerminalCall
    <2>3. \A c \in started \ {e} : toolCalls'[c] = toolCalls[c] /\ ~RunBy(t, c)
      BY <1>1, <2>2 DEF RunBy
    <2> HIDE DEF e
    <2>4. QED
      BY <1>0, <2>2, <2>3, QuietStarted
  <1>5. QED
    BY <1>2, <1>3, <1>4

(* The steps that store a message or collect the answers to store. *)
LEMMA StoreStarted ==
  ASSUME IInv, Control, StartedInv, NEW t \in Thread,
         \/ \E n \in 0..1 : ModelAnswers(t, n)
         \/ RecordToolMessage(t) \/ BeginResume(t)
         \/ PersistAnswer(t) /\ pc[t] = "persist"
  PROVE  StartedInv'
  <1>0. Acts(t) /\ started \subseteq Call
    BY DEF Acts, IInv, Typing, TypeOK
  <1>1. \A c \in started : toolCalls[c] \in TerminalCall /\ c <= asked
    <2>1. pc[t] \notin {"tool", "approved_tool"}
      BY DEF ModelAnswers, RecordToolMessage, BeginResume, PersistAnswer
    <2>2. QED
      BY <1>0, <2>1, RunByNobodyElse DEF RunBy, StartedInv, StartedAsked
  <1>2. ASSUME NEW n \in 0..1, ModelAnswers(t, n) PROVE StartedInv'
    <2> DEFINE m == Asks((asked + 1)..(asked + n))
    <2>1. /\ rows' = Append(rows, m) /\ work'[t] = (asked + 1)..(asked + n)
          /\ m \in Message /\ m.kind = "asks" /\ pc[t] = "model"
          /\ pc'[t] \in {"finish", "fail", "calls"} /\ asked' = asked + n
          /\ UNCHANGED <<toolCalls, unsaved, started>>
      BY <1>2, FunctionTypes, AskIsMessage DEF ModelAnswers, AddMessage, Enter
    <2> HIDE DEF m
    <2>2. unsaved'[t] = <<>>
      BY <2>1, OutsideRound
    <2>3. \A c \in started' : c <= asked' /\ toolCalls'[c] \in TerminalCall
      BY <1>0, <1>1, <2>1, FunctionTypes DEF Call
    <2>4. work'[t] \cap started' = {}
      BY <1>0, <1>1, <2>1, FunctionTypes DEF Call
    <2>5. NotRun(rows)'
      BY <2>1, FunctionTypes, NotRunAppend
    <2>6. NotRun(unsaved[t])' /\ pc'[t] \notin {"saving", "answered"}
      BY <2>1, <2>2 DEF NotRun
    <2>7. QED
      BY <1>0, <2>3, <2>4, <2>5, <2>6, AloneStarted
  <1>3. CASE RecordToolMessage(t)
    <2> DEFINE e == NextCall(t)
               m == Tool(IF toolCalls[e] = "approval_required" THEN "placeholder" ELSE "outcome", e)
    <2>1. /\ rows' = Append(rows, m) /\ pc'[t] = "calls"
          /\ work'[t] = work[t] \ {e} /\ pc[t] = "record"
          /\ UNCHANGED <<toolCalls, unsaved, asked, started>>
      BY <1>3, FunctionTypes DEF RecordToolMessage, AddMessage, Goto, history
    <2>2. e \in Call /\ e \in work[t]
      BY <2>1, NextCallIsWork DEF IInv, Typing, Places
    <2>3. m \in Message /\ m.kind # "fallback"
      BY <2>2 DEF Tool, Message, Answer
    <2>4. work'[t] = {}
      BY <2>1, <2>2 DEF Control
    <2> HIDE DEF m, e
    <2>5. NotRun(rows)'
      BY <2>1, <2>3, FunctionTypes, NotRunAppend
    <2>6. unsaved'[t] = <<>>
      BY <2>1, OutsideRound
    <2>7. QED
      BY <1>0, <1>1, <2>1, <2>4, <2>5, <2>6, AloneStarted DEF NotRun
  <1>4. CASE BeginResume(t)
    <2>1. /\ unsaved'[t] = MessagesToPersist /\ pc'[t] = "persist"
          /\ UNCHANGED <<rows, toolCalls, asked, started>>
      BY <1>4, FunctionTypes DEF BeginResume, Goto, durable, history
    <2>2. ASSUME NEW i \in DOMAIN MessagesToPersist, MessagesToPersist[i].kind = "fallback"
          PROVE  MessagesToPersist[i].calls \cap started = {}
      BY <1>1, <2>2, FunctionTypes, FallbackIsOpen DEF IInv, Answering, RowsInv
    <2>3. NotRun(unsaved[t])' /\ NotRun(rows)'
      BY <2>1, <2>2 DEF NotRun, StartedInv
    <2>4. QED
      BY <1>0, <1>1, <2>1, <2>3, AloneStarted
  <1>5. CASE PersistAnswer(t) /\ pc[t] = "persist"
    <2>1. /\ rows' = Append(rows, Head(unsaved[t])) /\ unsaved'[t] = Tail(unsaved[t])
          /\ unsaved[t] # <<>> /\ pc' = pc /\ pc[t] \in {"persist", "heal"}
          /\ UNCHANGED <<toolCalls, asked, started>>
      BY <1>5, FunctionTypes DEF PersistAnswer, history
    <2>2. /\ unsaved[t] \in Seq(Message) /\ 1 \in DOMAIN unsaved[t]
          /\ Head(unsaved[t]) = unsaved[t][1] /\ unsaved[t][1] \in Message
          /\ \A i \in DOMAIN Tail(unsaved[t]) :
               i + 1 \in DOMAIN unsaved[t] /\ Tail(unsaved[t])[i] = unsaved[t][i + 1]
      BY <2>1, FunctionTypes
    <2>3. NotRun(rows)'
      BY <2>1, <2>2, FunctionTypes, NotRunAppend DEF StartedInv, NotRun
    <2>4. NotRun(unsaved[t])'
      BY <2>1, <2>2 DEF StartedInv, NotRun
    <2>5. QED
      BY <1>0, <1>1, <2>1, <2>3, <2>4, AloneStarted
  <1>6. QED
    BY <1>2, <1>3, <1>4, <1>5

(* The process dies: if a person is asked after that, no tool was awaited. *)
LEMMA CrashStarted ==
  ASSUME IInv, Control, StartedInv, Crash, run' = "absent" => run = "absent"
  PROVE  StartedInv'
  <1>1. /\ UNCHANGED <<rows, toolCalls, approvals, asked, started>>
        /\ \A t \in Thread : pc'[t] = "idle" /\ unsaved'[t] = <<>>
    BY DEF Crash, StoreUnchanged
  <1>2. ASSUME Live' \/ run' = "absent" PROVE \A c \in started : toolCalls[c] \in TerminalCall
    <2>1. run = "absent" \/ \E c \in Call : Pending(c)
      BY <1>1, <1>2 DEF Live, UnderWay, Pending
    <2>2. \A t \in Thread : pc[t] \notin {"tool", "approved_tool"}
      BY <2>1 DEF Control, InFrontOf
    <2>3. QED
      BY <2>1, <2>2 DEF StartedInv, RunBy, Live
  <1>3. QED
    BY <1>1, <1>2 DEF StartedInv, StartedAsked, NotRun

(* The agent does not repair its memory. *)
Unhealed == \A s \in Settings : "heal" \notin s.requests

(* Every step keeps it. *)
LEMMA StepStarted ==
  Serial /\ Unhealed /\ IInv /\ Control /\ StartedInv /\ [Next]_vars => StartedInv'
  <1> SUFFICES ASSUME Serial, Unhealed, IInv, Control, StartedInv, [Next]_vars PROVE StartedInv'
    OBVIOUS
  <1>0. \A t \in Thread : ~Heals(t)
    <2>1. "heal" \notin Requests
      BY DEF Unhealed, IInv, Typing, TypeOK, Requests
    <2>2. QED
      BY <2>1 DEF Control, Heals
  <1>1. CASE Begin
    <2>1. /\ UNCHANGED <<rows, toolCalls, asked, started, work, unsaved, job>>
          /\ \A t \in Thread : pc'[t] = "begin" \/ pc'[t] = pc[t]
          /\ \A t \in Thread : pc[t] = "idle"
          /\ run = "absent"
      BY <1>1, FunctionTypes DEF Begin, StoreUnchanged, loop, Control
    <2>2. QED
      BY <2>1 DEF StartedInv, StartedAsked, NotRun, RunBy, AnswersIn
  <1>2. CASE Still
    <2>1. /\ UNCHANGED <<rows, toolCalls, approvals, asked, pc, work, unsaved, job, started>>
          /\ run' = "absent" => run = "absent"
      BY <1>2, SerialSteps DEF Still, StoreUnchanged, loop, SerialStep
    <2>2. QED
      BY <2>1 DEF StartedInv, StartedAsked, NotRun, RunBy, AnswersIn, Live, UnderWay, Pending
  <1>3. ASSUME NEW t \in Thread, Acts(t) PROVE StartedInv'
    BY <1>3, QueueStarted, AnswerStarted, StoreStarted DEF Acts
  <1>4. QED
    BY <1>0, <1>1, <1>2, <1>3, SerialSteps, CrashStarted, PassStarted, EndStarted DEF SerialStep

(* What a run stores of an approved call that never ran is true: its tool was
   not started before, and is not afterwards, wherever the process dies. *)
THEOREM TrueFallbacks ==
  ASSUME Serial, Unhealed
  PROVE  Spec => []FallbackIsTrue
  <1>1. Init => IInv /\ Control /\ StartedInv
    <2>1. Init => IInv /\ Control
      BY SerialStart
    <2>2. Init => StartedInv
      BY DEF Init, StartedInv, StartedAsked, NotRun
    <2>3. QED
      BY <2>1, <2>2
  <1>2. IInv /\ Control /\ StartedInv /\ [Next]_vars => (IInv /\ Control /\ StartedInv)'
    BY SerialStart, StepStarted
  <1>3. StartedInv => FallbackIsTrue
    BY DEF StartedInv, NotRun, FallbackIsTrue, Tool
  <1>4. QED
    BY <1>1, <1>2, <1>3, PTL DEF Spec

-----------------------------------------------------------------------------
(* The limit on tool rounds                                                *)

(* The answers of the model that ask for a call; those whose call was begun. *)
Rounds(messages) == {i \in DOMAIN messages : messages[i].kind = "asks" /\ messages[i].calls # {}}

StartedIn(messages, begun) ==
  {i \in DOMAIN messages : messages[i].kind = "asks" /\ messages[i].calls \cap begun # {}}

Looping == {"begin", "request", "model", "calls", "record", "tool", "persist"}

(* A loop counts the rounds of the whole run; and as long as something may
   happen they are within the limit, or the loop is about to fail.         *)
RoundsInv ==
  /\ \A t \in Thread : pc[t] = "idle" => context[t] = <<>>
  /\ \A t \in Thread : pc[t] \in Looping => ToolRounds(context[t]) = ToolRounds(rows)
  /\ MaxToolRounds > 0 /\ Live =>
       ToolRounds(rows) <= MaxToolRounds \/ \E t \in Thread : pc[t] = "fail"
  /\ RoundLimit

(* Rounds can be counted, and those begun are no more. *)
LEMMA RoundsAreFinite ==
  ASSUME NEW s \in Seq(Message)
  PROVE  /\ IsFiniteSet(Rounds(s))
         /\ ToolRounds(s) = Cardinality(Rounds(s)) /\ ToolRounds(s) \in Nat
         /\ \A begun : /\ Cardinality(StartedIn(s, begun)) \in Nat
                       /\ Cardinality(StartedIn(s, begun)) <= ToolRounds(s)
  <1>1. IsFiniteSet(DOMAIN s)
    BY FS_Interval
  <1>2. IsFiniteSet(Rounds(s))
    BY <1>1, FS_Subset DEF Rounds
  <1>3. ToolRounds(s) = Cardinality(Rounds(s))
    BY DEF ToolRounds, Rounds
  <1>4. \A begun : StartedIn(s, begun) \subseteq Rounds(s)
    BY DEF StartedIn, Rounds
  <1>5. QED
    BY <1>2, <1>3, <1>4, FS_CardinalityType, FS_Subset

(* A message that asks for calls is one round more. *)
LEMMA RoundsAppend ==
  ASSUME NEW s \in Seq(Message), NEW m \in Message
  PROVE  /\ m.kind = "asks" /\ m.calls # {} => ToolRounds(Append(s, m)) = ToolRounds(s) + 1
         /\ ~(m.kind = "asks" /\ m.calls # {}) => ToolRounds(Append(s, m)) = ToolRounds(s)
  <1> DEFINE r == Append(s, m)
  <1>1. /\ DOMAIN s = 1..Len(s) /\ DOMAIN r = 1..(Len(s) + 1) /\ Len(s) \in Nat
        /\ r[Len(s) + 1] = m
        /\ \A i \in DOMAIN s : r[i] = s[i]
        /\ r \in Seq(Message)
    OBVIOUS
  <1> HIDE DEF r
  <1>2. Len(s) + 1 \notin Rounds(s)
    BY <1>1 DEF Rounds
  <1>3. CASE m.kind = "asks" /\ m.calls # {}
    <2>1. Rounds(r) = Rounds(s) \cup {Len(s) + 1}
      BY <1>1, <1>3 DEF Rounds
    <2>2. Cardinality(Rounds(r)) = Cardinality(Rounds(s)) + 1
      BY <1>2, <2>1, RoundsAreFinite, FS_AddElement
    <2>3. ToolRounds(r) = ToolRounds(s) + 1
      BY <1>1, <2>2, RoundsAreFinite
    <2>4. QED
      BY <1>3, <2>3 DEF r
  <1>4. CASE ~(m.kind = "asks" /\ m.calls # {})
    <2>1. Rounds(r) = Rounds(s)
      BY <1>1, <1>4 DEF Rounds
    <2>2. QED
      BY <1>1, <1>4, <2>1, RoundsAreFinite DEF r
  <1>5. QED
    BY <1>3, <1>4

(* A rebuilt conversation has the rounds of the rows. *)
LEMMA RoundsRebuilt ==
  ASSUME rows \in Seq(Message)
  PROVE  ToolRounds(RebuiltMessages) = ToolRounds(rows)
  <1> DEFINE kept   == {i \in DOMAIN rows : rows[i].kind # "placeholder" \/ IsOpen(rows[i])}
             result == RebuiltMessages
  <1>1. kept \in SUBSET DOMAIN rows /\ result = Answered(Kept(rows, kept))
    BY DEF RebuiltMessages
  <1>2. PICK h : TracedTo(h, kept, result)
    BY <1>1, AnsweredRows
  <1>3. result \in Seq(Message)
    BY <1>1, AnsweredRows
  <1> HIDE DEF result
  <1>4. /\ \A i \in DOMAIN result :
             /\ h[i] \in kept
             /\ IsOpen(rows[h[i]]) => result[i].kind \in Answer
             /\ ~IsOpen(rows[h[i]]) => result[i] = rows[h[i]]
        /\ \A i, j \in DOMAIN result : h[i] = h[j] => i = j
        /\ \A k \in kept : \E i \in DOMAIN result : h[i] = k
    BY <1>2 DEF TracedTo
  <1>5. \A m : IsOpen(m) => m.kind = "placeholder"
    BY DEF IsOpen
  <1>6. \A i \in Rounds(result) : h[i] \in Rounds(rows)
    BY <1>4 DEF Rounds, Answer
  <1>7. \A k \in Rounds(rows) : \E i \in Rounds(result) : h[i] = k
    BY <1>4, <1>5 DEF Rounds
  <1>8. \A i \in Rounds(result) : i \in DOMAIN result
    BY DEF Rounds
  <1> DEFINE f == [i \in Rounds(result) |-> h[i]]
  <1>9. f \in Bijection(Rounds(result), Rounds(rows))
    BY <1>4, <1>6, <1>7, <1>8 DEF Bijection, Injection, Surjection, IsInjective
  <1> HIDE DEF f, kept
  <1>10. Cardinality(Rounds(result)) = Cardinality(Rounds(rows))
    BY <1>3, <1>9, RoundsAreFinite, FS_Bijection DEF ExistsBijection
  <1>11. QED
    BY <1>3, <1>10, RoundsAreFinite DEF result

(* While something may happen and no loop fails, the run is within the limit. *)
LEMMA WithinLimit ==
  ASSUME IInv, Control, RoundsInv, NEW t \in Thread, Pass(t) \/ End(t) \/ Acts(t),
         pc[t] # "fail", MaxToolRounds > 0
  PROVE  ToolRounds(rows) <= MaxToolRounds
  <1>1. \A u \in Thread : pc[u] # "fail"
    BY ActsAlone
  <1>2. Live
    BY ActsAlone DEF Live, UnderWay
  <1>3. QED
    BY <1>1, <1>2 DEF RoundsInv

(* What has to be checked of a step that a thread takes alone. *)
LEMMA AloneRounds ==
  ASSUME IInv, Control, RoundsInv, NEW t \in Thread, Pass(t) \/ End(t) \/ Acts(t),
         pc'[t] = "idle" => context'[t] = <<>>,
         pc'[t] \in Looping => ToolRounds(context'[t]) = ToolRounds(rows'),
         MaxToolRounds > 0 /\ Live' => ToolRounds(rows') <= MaxToolRounds \/ pc'[t] = "fail",
         RoundLimit'
  PROVE  RoundsInv'
  <1>1. \A u \in Thread \ {t} : pc'[u] = "idle" /\ context'[u] = <<>>
    BY ActsAlone, ActsForItself DEF OthersUnchanged, RoundsInv
  <1>2. \A u \in Thread : pc'[u] \in Looping => ToolRounds(context'[u]) = ToolRounds(rows')
    BY <1>1 DEF Looping
  <1>3. \A u \in Thread : pc'[u] = "idle" => context'[u] = <<>>
    BY <1>1
  <1>4. QED
    BY <1>2, <1>3 DEF RoundsInv, ToolRounds

(* A step that adds no round and ends no loop: it may start a tool. *)
LEMMA SameRounds ==
  ASSUME IInv, Control, RoundsInv, NEW t \in Thread, Pass(t) \/ Acts(t),
         pc[t] # "fail", pc'[t] # "idle",
         rows' \in Seq(Message), ToolRounds(rows') = ToolRounds(rows),
         pc'[t] \in Looping => ToolRounds(context'[t]) = ToolRounds(rows')
  PROVE  RoundsInv'
  <1>1. MaxToolRounds > 0 => ToolRounds(rows') <= MaxToolRounds
    BY WithinLimit
  <1>2. MaxToolRounds > 0 => Cardinality(StartedIn(rows', started')) <= MaxToolRounds
    <2>1. /\ Cardinality(StartedIn(rows', started')) <= ToolRounds(rows')
          /\ Cardinality(StartedIn(rows', started')) \in Nat
          /\ ToolRounds(rows') \in Nat /\ MaxToolRounds \in Nat
      BY RoundsAreFinite, RunnerAssumption
    <2>2. QED
      BY <1>1, <2>1
  <1>3. RoundLimit'
    BY <1>2 DEF RoundLimit, StartedIn
  <1>4. QED
    BY <1>1, <1>3, AloneRounds

(* The loop ends: if a person is asked, it was the end of a round. *)
LEMMA EndRounds ==
  ASSUME IInv, Control, RoundsInv, NEW t \in Thread, End(t)
  PROVE  RoundsInv'
  <1>1. /\ UNCHANGED <<rows, approvals, started>>
        /\ pc'[t] = "idle" /\ context'[t] = <<>>
    BY FunctionTypes DEF End, Leave, Await, StoreUnchanged
  <1>2. \A u \in Thread : pc'[u] = "idle"
    BY <1>1, ActsAlone, ActsForItself DEF OthersUnchanged
  <1>3. ASSUME MaxToolRounds > 0, Live' PROVE ToolRounds(rows') <= MaxToolRounds
    <2>1. PICK c \in Call : Pending(c)
      BY <1>1, <1>2, <1>3 DEF Live, UnderWay, Pending
    <2>2. pc[t] # "fail"
      BY <2>1 DEF Control, InFrontOf
    <2>3. QED
      BY <1>1, <1>3, <2>2, WithinLimit
  <1>4. RoundLimit'
    BY <1>1 DEF RoundsInv, RoundLimit
  <1>5. QED
    BY <1>1, <1>3, <1>4, AloneRounds DEF Looping

(* The model answers: one round more, or the loop is over its limit. *)
LEMMA ModelRounds ==
  ASSUME IInv, Control, StartedAsked, RoundsInv, NEW t \in Thread, NEW n \in 0..1,
         ModelAnswers(t, n)
  PROVE  RoundsInv'
  <1> DEFINE m == Asks((asked + 1)..(asked + n))
  <1>0. Acts(t)
    BY DEF Acts
  <1>1. /\ rows' = Append(rows, m) /\ context'[t] = Append(context[t], m)
        /\ m \in Message /\ m.kind = "asks" /\ m.calls = (asked + 1)..(asked + n)
        /\ pc[t] = "model" /\ started' = started
        /\ rows \in Seq(Message) /\ context[t] \in Seq(Message)
    BY FunctionTypes, AskIsMessage DEF ModelAnswers, AddMessage
  <1>2. pc'[t] = IF n = 0 THEN "finish"
                 ELSE IF MaxToolRounds > 0 /\ ToolRounds(context[t]) >= MaxToolRounds
                 THEN "fail" ELSE "calls"
    BY FunctionTypes DEF ModelAnswers, Enter
  <1>3. /\ n = 0 <=> m.calls = {}
        /\ m.calls \cap started = {}
    <2>1. asked \in Nat /\ \A c \in started : c \in Nat /\ c <= asked
      BY FunctionTypes, RunnerAssumption DEF StartedAsked, IInv, Typing, TypeOK, Call
    <2>2. m.calls = (asked + 1)..(asked + n)
      BY <1>1
    <2> HIDE DEF m
    <2>3. QED
      BY <2>1, <2>2
  <1> HIDE DEF m
  <1>4. /\ ToolRounds(context[t]) = ToolRounds(rows)
        /\ ToolRounds(rows) \in Nat /\ MaxToolRounds \in Nat
    BY <1>1, RoundsAreFinite, RunnerAssumption DEF RoundsInv, Looping
  <1>5. ToolRounds(context'[t]) = ToolRounds(rows')
    <2>1. CASE m.calls = {}
      BY <1>1, <1>4, <2>1, RoundsAppend
    <2>2. CASE m.calls # {}
      BY <1>1, <1>4, <2>2, RoundsAppend
    <2>3. QED
      BY <2>1, <2>2
  <1>6. ASSUME MaxToolRounds > 0, pc'[t] # "fail" PROVE ToolRounds(rows') <= MaxToolRounds
    <2>1. CASE n = 0
      BY <1>0, <1>1, <1>3, <1>6, <2>1, WithinLimit, RoundsAppend
    <2>2. CASE n # 0
      <3>1. ~(ToolRounds(context[t]) >= MaxToolRounds)
        BY <1>2, <1>6, <2>2
      <3>2. ToolRounds(rows') = ToolRounds(rows) + 1
        BY <1>1, <1>3, <2>2, RoundsAppend
      <3>3. QED
        BY <1>4, <3>1, <3>2
    <2>3. QED
      BY <2>1, <2>2
  <1>7. RoundLimit'
    <2>1. /\ \A i \in DOMAIN rows' : (i \in DOMAIN rows /\ rows'[i] = rows[i]) \/ rows'[i] = m
          /\ \A i \in DOMAIN rows : i \in DOMAIN rows' /\ rows'[i] = rows[i]
      BY <1>1
    <2>2. StartedIn(rows', started') = StartedIn(rows, started)
      BY <1>1, <1>3, <2>1 DEF StartedIn
    <2>3. QED
      BY <2>2 DEF RoundsInv, RoundLimit, StartedIn
  <1>8. pc'[t] # "idle"
    BY <1>2
  <1>9. QED
    BY <1>0, <1>5, <1>6, <1>7, <1>8, AloneRounds

(* The other steps of a thread add no round. *)
LEMMA ActsRounds ==
  ASSUME IInv, Control, StartedAsked, RoundsInv, NEW t \in Thread, Pass(t) \/ Acts(t)
  PROVE  RoundsInv'
  <1>0. rows \in Seq(Message) /\ context[t] \in Seq(Message)
    BY FunctionTypes
  <1>1. CASE /\ UNCHANGED <<rows, context>> /\ pc[t] # "fail" /\ pc'[t] # "idle"
             /\ pc'[t] \in Looping => pc[t] \in Looping
    BY <1>0, <1>1, SameRounds DEF RoundsInv
  <1>2. CASE Pass(t)
    <2>1. /\ UNCHANGED <<rows, context>> /\ pc[t] # "fail" /\ pc'[t] # "idle"
          /\ pc'[t] \in Looping => pc[t] \in Looping
      BY <1>2, FunctionTypes DEF Pass, Passes, Goes, StoreUnchanged, loop, Looping
    <2>2. QED
      BY <1>1, <2>1
  <1>3. CASE RefuseToolCall(t) \/ AskForApproval(t) \/ StartTool(t) \/ ToolReturns(t)
    <2>1. /\ UNCHANGED <<rows, context>> /\ pc[t] \in {"calls", "tool"}
          /\ pc'[t] \in {"record", "tool"}
      BY <1>3, FunctionTypes DEF RefuseToolCall, AskForApproval, StartTool, ToolReturns, Goto,
         Await, Enter, loop
    <2>2. QED
      BY <1>1, <2>1 DEF Looping
  <1>4. CASE \/ \E c \in Call, d \in Offered : AnswerApproval(t, c, d)
             \/ RunApproved(t) \/ ApprovedToolReturns(t)
    <2>1. /\ UNCHANGED <<rows, context>> /\ pc[t] \in {"idle", "answered", "approved_tool"}
          /\ pc'[t] \in {"saving", "answered", "approved_tool", "check"}
      BY <1>4, FunctionTypes DEF AnswerApproval, RunApproved, ApprovedToolReturns, Await, Enter,
         loop
    <2>2. QED
      BY <1>1, <2>1 DEF Looping
  <1>5. CASE RecordToolMessage(t)
    <2> DEFINE e == NextCall(t)
               m == Tool(IF toolCalls[e] = "approval_required" THEN "placeholder" ELSE "outcome", e)
    <2>1. /\ rows' = Append(rows, m) /\ context'[t] = Append(context[t], m)
          /\ pc[t] = "record" /\ pc'[t] = "calls"
      BY <1>5, FunctionTypes DEF RecordToolMessage, AddMessage, Goto
    <2>2. e \in Call
      BY <2>1, NextCallIsWork DEF IInv, Typing, Places
    <2>3. m \in Message /\ m.kind # "asks"
      BY <2>2 DEF Tool, Message, Answer
    <2> HIDE DEF m, e
    <2>4. /\ ToolRounds(rows') = ToolRounds(rows)
          /\ ToolRounds(context'[t]) = ToolRounds(context[t])
      BY <1>0, <2>1, <2>3, RoundsAppend
    <2>5. ToolRounds(context[t]) = ToolRounds(rows)
      BY <2>1 DEF RoundsInv, Looping
    <2>6. rows' \in Seq(Message)
      BY <1>0, <2>1, <2>3
    <2>7. Acts(t)
      BY <1>5 DEF Acts
    <2>8. QED
      BY <2>1, <2>4, <2>5, <2>6, <2>7, SameRounds
  <1>6. CASE BeginResume(t)
    <2>1. /\ rows' = rows /\ context'[t] = RebuiltMessages
          /\ pc[t] = "resume" /\ pc'[t] = "persist"
      BY <1>6, FunctionTypes DEF BeginResume, Goto, durable
    <2>2. ToolRounds(context'[t]) = ToolRounds(rows)
      BY <1>0, <2>1, RoundsRebuilt
    <2>3. Acts(t)
      BY <1>6 DEF Acts
    <2>4. QED
      BY <1>0, <2>1, <2>2, <2>3, SameRounds
  <1>7. CASE PersistAnswer(t) /\ pc[t] = "persist"
    <2>1. /\ rows' = Append(rows, Head(unsaved[t])) /\ context' = context /\ pc' = pc
          /\ unsaved[t] # <<>> /\ pc[t] \in {"persist", "heal"}
      BY <1>7 DEF PersistAnswer
    <2>2. Head(unsaved[t]) \in Message /\ Head(unsaved[t]).kind # "asks"
      <3>1. /\ unsaved[t] \in Seq(Message) /\ 1 \in DOMAIN unsaved[t]
            /\ Head(unsaved[t]) = unsaved[t][1]
        BY <2>1, FunctionTypes
      <3>2. unsaved[t][1].kind \in Answer
        BY <3>1 DEF IInv, Answering, UnsavedInv, AnswersHeld
      <3>3. QED
        BY <3>1, <3>2 DEF Answer
    <2>3. ToolRounds(rows') = ToolRounds(rows) /\ rows' \in Seq(Message)
      BY <1>0, <2>1, <2>2, RoundsAppend
    <2>4. pc'[t] \in Looping => ToolRounds(context'[t]) = ToolRounds(rows')
      BY <2>1, <2>3 DEF RoundsInv
    <2>5. Acts(t)
      BY <1>7 DEF Acts
    <2>6. QED
      BY <2>1, <2>3, <2>4, <2>5, SameRounds
  <1>8. QED
    BY <1>2, <1>3, <1>4, <1>5, <1>6, <1>7, ModelRounds DEF Acts

(* The process dies: if a person is asked after that, no loop was failing. *)
LEMMA CrashRounds ==
  ASSUME IInv, Control, RoundsInv, Crash
  PROVE  RoundsInv'
  <1>1. /\ UNCHANGED <<rows, approvals, started>>
        /\ \A t \in Thread : pc'[t] = "idle" /\ context'[t] = <<>>
    BY DEF Crash, StoreUnchanged
  <1>2. ASSUME MaxToolRounds > 0, Live' PROVE ToolRounds(rows) <= MaxToolRounds
    <2>1. PICK c \in Call : Pending(c)
      BY <1>1, <1>2 DEF Live, UnderWay, Pending
    <2>2. \A t \in Thread : pc[t] # "fail"
      BY <2>1 DEF Control, InFrontOf
    <2>3. QED
      BY <1>2, <2>1, <2>2 DEF RoundsInv, Live
  <1>3. RoundLimit'
    BY <1>1 DEF RoundsInv, RoundLimit
  <1>4. ToolRounds(rows') = ToolRounds(rows)
    BY <1>1
  <1>5. QED
    BY <1>1, <1>2, <1>3, <1>4 DEF RoundsInv, Looping

(* A surface that heals adds answers, which are no rounds. *)
LEMMA HealRounds ==
  ASSUME IInv, Control, RoundsInv, NEW t \in Thread, Heals(t)
  PROVE  RoundsInv'
  <1>1. PICK label \in {"idle", "heal"} : pc' = [pc EXCEPT ![t] = label]
    BY DEF Heals
  <1>2. /\ started' = started /\ pc[t] \in {"idle", "heal"}
        /\ context' = context \/ context' = [context EXCEPT ![t] = <<>>]
    BY DEF Heals
  <1>3. /\ ToolRounds(rows') = ToolRounds(rows)
        /\ StartedIn(rows', started') = StartedIn(rows, started)
    <2>1. CASE rows' = rows
      BY <1>2, <2>1
    <2>2. ASSUME NEW m \in Message, m.kind \in Answer, rows' = Append(rows, m)
          PROVE  /\ ToolRounds(rows') = ToolRounds(rows)
                 /\ StartedIn(rows', started') = StartedIn(rows, started)
      <3>1. m.kind # "asks" /\ rows \in Seq(Message)
        BY <2>2, FunctionTypes DEF Answer
      <3>2. ToolRounds(rows') = ToolRounds(rows)
        BY <2>2, <3>1, RoundsAppend
      <3>3. /\ \A i \in DOMAIN rows' : (i \in DOMAIN rows /\ rows'[i] = rows[i]) \/ rows'[i] = m
            /\ \A i \in DOMAIN rows : i \in DOMAIN rows' /\ rows'[i] = rows[i]
        BY <2>2, <3>1
      <3>4. StartedIn(rows', started') = StartedIn(rows, started)
        BY <1>2, <3>1, <3>3 DEF StartedIn
      <3>5. QED
        BY <3>2, <3>4
    <2>3. QED
      BY <2>1, <2>2 DEF Heals
  <1>4. RoundLimit'
    BY <1>3 DEF RoundsInv, RoundLimit, StartedIn
  <1>5. \A u \in Thread \ {t} : pc'[u] = pc[u] /\ context'[u] = context[u]
    BY <1>1, <1>2, FunctionTypes
  <1>6. pc'[t] \in {"idle", "heal"} /\ (pc'[t] = "idle" => context'[t] = <<>>)
    BY <1>1, FunctionTypes DEF Heals
  <1>7. \A u \in Thread : pc[u] = "fail" => pc'[u] = "fail"
    BY <1>2, <1>5
  <1>8. MaxToolRounds > 0 /\ Live' =>
          ToolRounds(rows') <= MaxToolRounds \/ \E u \in Thread : pc'[u] = "fail"
    BY <1>3, <1>7, HealLive DEF RoundsInv
  <1>9. QED
    BY <1>3, <1>4, <1>5, <1>6, <1>8 DEF RoundsInv, Looping

(* Every step keeps it. *)
LEMMA StepRounds ==
  Serial /\ IInv /\ Control /\ StartedAsked /\ RoundsInv /\ [Next]_vars => RoundsInv'
  <1> SUFFICES ASSUME Serial, IInv, Control, StartedAsked, RoundsInv, [Next]_vars PROVE RoundsInv'
    OBVIOUS
  <1>1. CASE Begin
    <2>1. /\ UNCHANGED <<rows, context, started>> /\ rows = <<>>
          /\ \A t \in Thread : pc[t] = "idle" /\ pc'[t] \in {"idle", "begin"}
      BY <1>1, FunctionTypes, Threads DEF Begin, StoreUnchanged, loop, Control
    <2>2. \A t \in Thread : context'[t] = <<>> /\ pc[t] # "fail"
      BY <2>1 DEF RoundsInv
    <2>3. ToolRounds(<<>>) = 0
      <3>1. Rounds(<<>>) = {}
        BY DEF Rounds
      <3>2. QED
        BY <3>1, FS_EmptySet DEF ToolRounds, Rounds
    <2>4. MaxToolRounds > 0 => ToolRounds(rows') <= MaxToolRounds
      BY <2>1, <2>3, RunnerAssumption
    <2>5. RoundLimit'
      BY <2>1 DEF RoundsInv, RoundLimit
    <2>6. QED
      BY <2>1, <2>2, <2>4, <2>5 DEF RoundsInv, Looping
  <1>2. CASE Still
    BY <1>2 DEF Still, StoreUnchanged, loop, RoundsInv, Live, UnderWay, Pending, ToolRounds,
       RoundLimit
  <1>3. QED
    BY <1>1, <1>2, SerialSteps, CrashRounds, HealRounds, EndRounds, ActsRounds DEF SerialStep

(* The limit on tool rounds holds for the whole run: a loop that takes the
   run up again counts the rounds of the loops before it, and a crash, after
   which only an approval takes the run up again, forgets none. *)
THEOREM BoundedRounds ==
  ASSUME Serial
  PROVE  Spec => []RoundLimit
  <1>1. Init => IInv /\ Control /\ StartedAsked /\ RoundsInv
    <2> SUFFICES ASSUME Init PROVE IInv /\ Control /\ StartedAsked /\ RoundsInv
      OBVIOUS
    <2>1. IInv /\ Control
      BY SerialStart
    <2>2. StartedAsked
      BY DEF Init, StartedAsked
    <2>3. ~Live /\ StartedIn(rows, started) = {}
      BY DEF Init, Live, UnderWay, Pending, StartedIn
    <2>4. RoundLimit
      BY <2>3, FS_EmptySet, RunnerAssumption DEF RoundLimit, StartedIn
    <2>5. RoundsInv
      BY <2>3, <2>4 DEF Init, RoundsInv, Looping
    <2>6. QED
      BY <2>1, <2>2, <2>5
  <1>2. IInv /\ Control /\ StartedAsked /\ RoundsInv /\ [Next]_vars
          => (IInv /\ Control /\ StartedAsked /\ RoundsInv)'
    BY SerialStart, StepAsked, StepRounds
  <1>3. RoundsInv => RoundLimit
    BY DEF RoundsInv
  <1>4. QED
    BY <1>1, <1>2, <1>3, PTL DEF Spec
=============================================================================
