--------------------------- MODULE ConversationView ---------------------------
(***************************************************************************)
(* The facts the app server keeps about one conversation in order to tell  *)
(* its clients what the conversation is doing, and the updates it applies  *)
(* to them (ConversationRuntimeViewManager).  Every operator is a function *)
(* from facts to facts: the manager applies one under its lock.            *)
(*                                                                         *)
(* Left out: message_count and updated_at_ms (data), active_turn (the      *)
(* transcript of the running turn), active_turn_status (written, never     *)
(* read) and waiting_on_user_input_count (its only writers are dead code). *)
(* pending_requests is kept as the set of the ids it lists.                *)
(***************************************************************************)
EXTENDS Integers

CONSTANTS Turns,        (* turn ids                                        *)
          Requests,     (* ids of server requests (approval prompts)       *)
          NoTurn        (* Option<TurnId>::None                            *)

Facts == [loaded : BOOLEAN, running : BOOLEAN, active_turn_id : Turns \cup {NoTurn},
          pending_requests : SUBSET Requests, interrupt_requested : BOOLEAN,
          compacting_context : BOOLEAN, system_error : BOOLEAN]

NewFacts == [loaded |-> FALSE, running |-> FALSE, active_turn_id |-> NoTurn,
             pending_requests |-> {}, interrupt_requested |-> FALSE,
             compacting_context |-> FALSE, system_error |-> FALSE]

MarkLoaded(f) == [f EXCEPT !.loaded = TRUE]

(* compacting_context is not reset: only a finished turn, a system error or *)
(* the end of the compaction clears it.                                     *)
TurnStarting(f) ==
  [f EXCEPT !.loaded = TRUE, !.running = TRUE, !.active_turn_id = NoTurn,
            !.pending_requests = {}, !.interrupt_requested = FALSE,
            !.system_error = FALSE]

(* Mutant: the late report of a start takes the prompts off the display.   *)
TurnStartedClearing(f, t) ==
  [f EXCEPT !.loaded = TRUE, !.running = TRUE, !.active_turn_id = t,
            !.pending_requests = {}, !.interrupt_requested = FALSE,
            !.system_error = FALSE]

TurnStarted(f, t) ==
  [f EXCEPT !.loaded = TRUE, !.running = TRUE, !.active_turn_id = t,
            !.interrupt_requested = FALSE, !.system_error = FALSE]

(* Mutant: the end of a turn leaves its prompts on display.                *)
TurnFinishedKeeping(f) ==
  [f EXCEPT !.loaded = TRUE, !.running = FALSE, !.active_turn_id = NoTurn,
            !.interrupt_requested = FALSE, !.compacting_context = FALSE]

(* system_error survives: it is cleared when the next turn starts.         *)
TurnFinished(f) ==
  [f EXCEPT !.loaded = TRUE, !.running = FALSE, !.active_turn_id = NoTurn,
            !.pending_requests = {}, !.interrupt_requested = FALSE,
            !.compacting_context = FALSE]

RequestPending(f, r) ==
  [f EXCEPT !.loaded = TRUE, !.running = TRUE,
            !.pending_requests = f.pending_requests \cup {r}]

RequestResolved(f, r) ==
  [f EXCEPT !.pending_requests = f.pending_requests \ {r}]

InterruptRequested(f) == [f EXCEPT !.loaded = TRUE, !.interrupt_requested = TRUE]

CompactionStarted(f) == [f EXCEPT !.loaded = TRUE, !.compacting_context = TRUE]

CompactionFinished(f) == [f EXCEPT !.compacting_context = FALSE]

SystemError(f) ==
  [f EXCEPT !.loaded = TRUE, !.running = FALSE, !.active_turn_id = NoTurn,
            !.pending_requests = {}, !.interrupt_requested = FALSE,
            !.compacting_context = FALSE, !.system_error = TRUE]

(* The status a snapshot reports: the error hides the activity, and the    *)
(* flags are shown only while a turn is running.                           *)
Status(f) ==
  IF ~f.loaded THEN "NotLoaded"
  ELSE IF f.system_error THEN "SystemError"
  ELSE IF f.running THEN "Active" ELSE "Idle"
===============================================================================
