------------------------------ MODULE CodexRun ------------------------------
(***************************************************************************)
(* A task given to the Codex CLI: dispatchCodexTask (codex/bridge.ts)      *)
(* inside SubagentManager.run, and runCodex (codex/driver.ts), which starts*)
(* the program, stores what it prints line by line, and settles once: when *)
(* the program has closed its output, when it cannot be started, when the  *)
(* timer rings or when the task is canceled.  In the last two the program  *)
(* is told to stop, but what it prints until then is still stored.         *)
(*                                                                         *)
(* A step goes from one await, event or timer to the next: what follows    *)
(* the settled promise runs before any other event.  Of the lines, items   *)
(* of work are counted and only the first error is told apart.  A store  *)
(* that fails, and the end of the process, which leaves the rows as they   *)
(* are, are left out.                                                      *)
(***************************************************************************)
EXTENDS Naturals

CONSTANT MaxItems  \* bound: items the program prints

ASSUME CodexAssumption == MaxItems \in Nat

VARIABLES
  dispatch,   \* where dispatchCodexTask is
  canceled,   \* whether the task's AbortController has fired
  (* the program *)
  child,      \* alive, ended with status 0 or another, all output read
  killed,     \* killProcessTree was called for it
  attached,   \* whether runCodex listens to it
  printed,    \* items printed
  complaint,  \* the first error printed: lastError, once it is read
  (* records *)
  stored,     \* items stored before the answer
  late,       \* items stored after it
  record,     \* status in SubagentManager.tasks
  taskRow,    \* status in subagent_tasks
  runRow      \* status in runs

recordVars == <<record, taskRow, runRow>>
outputVars == <<printed, complaint, stored, late>>
codexVars == <<dispatch, canceled, child, killed, attached, outputVars, recordVars>>

CodexStatus == {"none", "running", "succeeded", "failed", "canceled"}

CodexTypeOK ==
  /\ dispatch \in {"none", "refused", "preparing", "running", "ended", "gone"}
  /\ child \in {"none", "alive", "exited", "broken", "closed"}
  /\ canceled \in BOOLEAN /\ killed \in BOOLEAN /\ attached \in BOOLEAN
  /\ printed \in 0..MaxItems /\ stored \in 0..MaxItems /\ late \in 0..MaxItems
  /\ complaint \in {"none", "unread", "read"}
  /\ record \in CodexStatus /\ taskRow \in CodexStatus /\ runRow \in CodexStatus

CodexInit ==
  /\ dispatch = "none" /\ child = "none"
  /\ canceled = FALSE /\ killed = FALSE /\ attached = FALSE
  /\ printed = 0 /\ stored = 0 /\ late = 0 /\ complaint = "none"
  /\ record = "none" /\ taskRow = "none" /\ runRow = "none"

-----------------------------------------------------------------------------
(* What the bridge stores once runCodex has settled, for a task that is or *)
(* is not aborted by then, and the end of SubagentManager.run, which takes *)
(* an answer for a success whatever it says.                               *)
Stores(result, aborted) ==
  LET final == IF aborted THEN "canceled" ELSE result IN
  /\ taskRow' = final /\ runRow' = final
  /\ record' = IF aborted THEN "canceled" ELSE "succeeded"

Ends(result, aborted) == dispatch' = "ended" /\ Stores(result, aborted)

(* Codex was found: the task is refused by the limits, or recorded.        *)
DispatchCodex ==
  /\ dispatch = "none"
  /\ \/ /\ dispatch' = "refused"
        /\ UNCHANGED recordVars
     \/ /\ dispatch' = "preparing"
        /\ record' = "running" /\ taskRow' = "running" /\ runRow' = "running"
  /\ UNCHANGED <<canceled, child, killed, attached, outputVars>>

(* Codex was looked for again.  A task canceled meanwhile is not listened  *)
(* to, not even for the error of a program that could not be started:      *)
(* nobody handles that, and the process ends.                              *)
Spawn ==
  /\ dispatch = "preparing"
  /\ \/ /\ Ends("failed", canceled)
        /\ UNCHANGED <<child, killed, attached>>
     \/ /\ canceled
        /\ dispatch' = "gone" /\ Stores("failed", TRUE)
        /\ UNCHANGED <<child, killed, attached>>
     \/ /\ canceled
        /\ child' = "alive" /\ killed' = TRUE
        /\ Ends("failed", TRUE)
        /\ UNCHANGED attached
     \/ /\ ~canceled
        /\ child' = "alive" /\ attached' = TRUE
        /\ dispatch' = "running"
        /\ UNCHANGED <<killed, recordVars>>
  /\ UNCHANGED <<canceled, outputVars>>

(* SubagentManager.cancel and the update of the row by its callers.        *)
CancelCodex ==
  /\ record = "running"
  /\ canceled' = TRUE
  /\ \/ /\ dispatch = "running"
        /\ killed' = TRUE
        /\ Ends("failed", TRUE)
     \/ /\ dispatch = "preparing"
        /\ record' = "canceled" /\ taskRow' = "canceled"
        /\ UNCHANGED <<dispatch, runRow, killed>>
  /\ UNCHANGED <<child, attached, outputVars>>

(* The run is canceled on its own: its row says so, Codex goes on.         *)
CancelRunOfCodex ==
  /\ runRow = "running"
  /\ runRow' = "canceled"
  /\ UNCHANGED <<dispatch, canceled, child, killed, attached, outputVars, record, taskRow>>

(* The timer rings: the program is told to stop.                           *)
CodexTimesOut ==
  /\ dispatch = "running"
  /\ killed' = TRUE
  /\ Ends("failed", canceled)
  /\ UNCHANGED <<canceled, child, attached, outputVars>>

-----------------------------------------------------------------------------
(* The program prints an item or its first error, and ends.                *)
Prints ==
  /\ child = "alive" /\ dispatch # "gone"
  /\ \/ /\ printed < MaxItems
        /\ printed' = printed + 1
        /\ UNCHANGED complaint
     \/ /\ complaint = "none"
        /\ complaint' = "unread"
        /\ UNCHANGED printed
  /\ UNCHANGED <<dispatch, canceled, child, killed, attached, stored, late, recordVars>>

ChildExits ==
  /\ child = "alive"
  /\ child' \in {"exited", "broken"}
  /\ UNCHANGED <<dispatch, canceled, killed, attached, outputVars, recordVars>>

Unread == printed > stored + late \/ complaint = "unread"

(* A line is read: also after runCodex has settled.                        *)
ReadsLine ==
  /\ attached /\ Unread
  /\ \/ /\ printed > stored + late
        /\ IF dispatch = "running"
           THEN stored' = stored + 1 /\ UNCHANGED late
           ELSE late' = late + 1 /\ UNCHANGED stored
        /\ UNCHANGED complaint
     \/ /\ complaint = "unread"
        /\ complaint' = "read"
        /\ UNCHANGED <<stored, late>>
  /\ UNCHANGED <<dispatch, canceled, child, killed, attached, printed, recordVars>>

(* Mutant: the event "exit", which does not wait for the output.           *)
Closes_AtExit == attached /\ child \in {"exited", "broken"}

(* The event "close": the program has ended and its output was read.       *)
Closes == attached /\ child \in {"exited", "broken"} /\ ~Unread

ChildCloses ==
  /\ Closes
  /\ child' = "closed"
  /\ IF dispatch = "running"
     THEN Ends(IF child = "exited" /\ complaint # "read" THEN "succeeded" ELSE "failed",
               canceled)
     ELSE UNCHANGED <<dispatch, recordVars>>
  /\ UNCHANGED <<canceled, killed, attached, outputVars>>

CodexNext ==
  \/ DispatchCodex \/ Spawn \/ CancelCodex \/ CancelRunOfCodex \/ CodexTimesOut
  \/ Prints \/ ChildExits \/ ReadsLine \/ ChildCloses

CodexSpec == CodexInit /\ [][CodexNext]_codexVars

-----------------------------------------------------------------------------
(* Whichever of close, timer and cancellation comes first: the rows of the *)
(* task and of its run agree in the end, also when the run was canceled on *)
(* its own; a task is canceled everywhere or nowhere; it succeeded only if *)
(* the program complained of nothing and all it did was stored before the  *)
(* answer; and a program that outlives its task was told to stop           *)
(* (runCodex, dispatchCodexTask).                                          *)
CodexEndsAgree ==
  dispatch = "ended" =>
    /\ taskRow = runRow
    /\ canceled <=> runRow = "canceled"
    /\ canceled <=> record = "canceled"
    /\ runRow = "succeeded" => child = "closed" /\ complaint = "none" /\ stored = printed
    /\ child = "alive" => killed
=============================================================================
