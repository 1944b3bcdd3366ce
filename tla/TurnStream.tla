------------------------------ MODULE TurnStream ------------------------------
(***************************************************************************)
(* What a client is told of a turn.  The core's events go through the      *)
(* listener task and its projector; every event also spawns a detached     *)
(* task that asks the listener for a snapshot of the turn and puts it in   *)
(* the view; the view is changed under a lock and its snapshot sent after  *)
(* the unlock.  A snapshot of a turn is the number of events it covers, 0  *)
(* for none.  An item and its call are one; prompts and the other flags of *)
(* the view are TurnService's subject.                                     *)
(***************************************************************************)
EXTENDS Naturals, Sequences, FiniteSets

CONSTANTS
  MaxTurns,   \* bound: turns of the conversation
  MaxEvents,  \* bound: events of all turns
  MaxItems,   \* bound: items of one turn
  MaxTasks    \* bound: detached tasks under way

VARIABLES
  pc, spawned,
  open,        \* items the core has started and not completed
  emitted,     \* events so far, and with them tasks spawned
  queue,       \* the listener's commands
  listening,   \* the listener task runs
  projector,   \* active_items, deferred_terminal_notifications, events seen
  task, answer, \* the detached task of each event, and what it was answered
  facts,       \* the view
  unsent,      \* snapshots taken under the lock and not sent yet
  told,        \* notifications of the turn, without the views
  view,        \* the last view the client was sent
  overlap      \* history: the view changed while a snapshot was unsent
turnVars == <<pc, spawned, open, emitted>>
listenerVars == <<queue, listening, projector, told>>
taskVars == <<task, answer>>
viewVars == <<facts, unsent, view, overlap>>
vars == <<turnVars, listenerVars, taskVars, viewVars>>

Items == 1..MaxItems
Hows == {"completed", "failed", "cancelled"}
NewFacts == [status |-> "idle", turn |-> 0]
NewProjector == [active |-> {}, deferred |-> <<>>, seen |-> 0]
TurnTask == 0             \* who changes or reads the view: the turn task, the task of
Reader == MaxEvents + 1   \* an event, a reader
Writers == TurnTask..Reader
Busy == {"chat", "ending"}

TypeOK ==
  /\ pc \in {"idle", "starting", "ended", "finish", "ack", "settle"} \cup Busy \cup {"refused"}
  /\ spawned \in 0..MaxTurns /\ emitted \in 0..MaxEvents
  /\ open \subseteq Items /\ (pc = "starting" => open = {})
  /\ listening \in BOOLEAN /\ (pc = "ack" \/ listening = (pc \notin {"idle", "settle"}))
  /\ projector.active \subseteq Items /\ projector.seen \in 0..MaxEvents
  /\ DOMAIN task = 1..emitted /\ DOMAIN answer = 1..emitted
  /\ \A n \in 1..emitted : task[n] \in {"ask", "wait", "put", "done"} /\ answer[n] \in 0..MaxEvents
  /\ facts \in [status : {"idle", "active", "error"}, turn : 0..MaxEvents]
  /\ DOMAIN unsent \subseteq Writers

Init ==
  /\ pc = "idle" /\ spawned = 0 /\ open = {} /\ emitted = 0
  /\ queue = <<>> /\ listening = FALSE /\ projector = NewProjector /\ told = <<>>
  /\ task = <<>> /\ answer = <<>>
  /\ facts = NewFacts /\ unsent = <<>> /\ view = NewFacts /\ overlap = FALSE

-------------------------------------------------------------------------------
(* The view: apply_update under the lock, publish_if_changed after it *)
(* Mutant: a snapshot that only differs in its turn is not sent.             *)
ChangedByStatus(old, new) == old.status # new.status
Changed(old, new) == old # new

Sends(writer, snapshot) ==
  unsent' = [w \in DOMAIN unsent \cup {writer} |-> IF w = writer THEN snapshot ELSE unsent[w]]

Apply(writer, new) ==
  /\ writer \notin DOMAIN unsent
  /\ facts' = new
  /\ overlap' = (overlap \/ (Changed(facts, new) /\ unsent # <<>>))
  /\ IF Changed(facts, new) THEN Sends(writer, new) ELSE UNCHANGED unsent
  /\ UNCHANGED view

Publish(writer) ==
  /\ writer \in DOMAIN unsent
  /\ view' = unsent[writer]
  /\ unsent' = [w \in DOMAIN unsent \ {writer} |-> unsent[w]]
  /\ UNCHANGED <<turnVars, listenerVars, taskVars, facts, overlap>>

(* emit_current: a client asks for the view *)
ReadView ==
  /\ Reader \notin DOMAIN unsent
  /\ overlap' = (overlap \/ unsent # <<>>)
  /\ Sends(Reader, facts)
  /\ UNCHANGED <<turnVars, listenerVars, taskVars, facts, view>>

-------------------------------------------------------------------------------
(* The turn task *)
StartTurn ==
  /\ pc = "idle" /\ spawned < MaxTurns
  /\ spawned' = spawned + 1 /\ pc' = "starting" /\ open' = {}
  /\ listening' = TRUE /\ queue' = <<>> /\ projector' = NewProjector /\ told' = <<>>
  /\ Apply(TurnTask, [status |-> "active", turn |-> 0])
  /\ UNCHANGED <<emitted, taskVars>>

(* The event callback: project_event, and a task of its own *)
Emit(event) ==
  /\ TurnTask \notin DOMAIN unsent /\ emitted < MaxEvents
  /\ Cardinality({n \in 1..emitted : task[n] # "done"}) < MaxTasks
  /\ emitted' = emitted + 1
  /\ queue' = Append(queue, [op |-> "event", event |-> event, n |-> emitted'])
  /\ task' = Append(task, "ask") /\ answer' = Append(answer, 0)
  /\ UNCHANGED <<spawned, listening, projector, told, viewVars>>

EmitStarted == pc = "starting" /\ Emit([kind |-> "started"]) /\ pc' = "chat" /\ UNCHANGED open

EmitItem ==
  /\ pc = "chat"
  /\ \E i \in Items, kind \in {"item_started", "item_delta", "item_completed"} :
       /\ (i \in open) = (kind # "item_started")
       /\ open' = CASE kind = "item_started" -> open \cup {i}
                    [] kind = "item_completed" -> open \ {i}
                    [] OTHER -> open
       /\ Emit([kind |-> kind, item |-> i])
  /\ UNCHANGED pc

(* The terminal event; a cancelled turn may tell it twice *)
EmitEnd ==
  /\ \E how \in Hows :
       /\ \/ pc = "chat" /\ (how = "completed" => open = {})
          \/ pc = "ending" /\ how = "cancelled"
       /\ Emit([kind |-> "end", how |-> how])
       /\ pc' = IF how = "cancelled" THEN "ending" ELSE "ended"
  /\ UNCHANGED open

(* finish_turn of the core has run when the chat returns *)
ChatReturns ==
  /\ pc = "ending" /\ pc' = "ended"
  /\ UNCHANGED <<spawned, open, emitted, listenerVars, taskVars, viewVars>>

(* resolve_pending_for_finished_turn comes first; then listener.finish_turn *)
FinishTurn ==
  /\ pc \in {"ended", "finish"}
  /\ queue' = Append(queue, [op |-> "finish"])
  /\ pc' = "ack"
  /\ UNCHANGED <<spawned, open, emitted, listening, projector, told, taskVars, viewVars>>

(* The chat fails after the turn started: its failure does not go through
   the listener, which may still have events to tell                         *)
ChatFails ==
  /\ pc \in Busy
  /\ told' = Append(told, [kind |-> "end", how |-> "failed"])
  /\ pc' = "finish"
  /\ UNCHANGED <<spawned, open, emitted, queue, listening, projector, taskVars, viewVars>>

(* ... or before: a system error *)
RefuseTurn ==
  /\ pc = "starting" /\ TurnTask \notin DOMAIN unsent
  /\ Apply(TurnTask, [status |-> "error", turn |-> 0])
  /\ pc' = "refused"
  /\ UNCHANGED <<spawned, open, emitted, listenerVars, taskVars>>

TellError ==
  /\ pc = "refused" /\ TurnTask \notin DOMAIN unsent
  /\ queue' = Append(queue, [op |-> "error"])
  /\ pc' = "finish"
  /\ UNCHANGED <<spawned, open, emitted, listening, projector, told, taskVars, viewVars>>

(* note_turn_finished once the listener has acknowledged; a system error stays *)
NoteTurnFinished ==
  /\ pc = "ack" /\ ~listening
  /\ Apply(TurnTask, [status |-> IF facts.status = "error" THEN "error" ELSE "idle", turn |-> 0])
  /\ pc' = "settle"
  /\ UNCHANGED <<spawned, open, emitted, listenerVars, taskVars>>

TaskEnds ==
  /\ pc = "settle" /\ TurnTask \notin DOMAIN unsent
  /\ pc' = "idle"
  /\ UNCHANGED <<spawned, open, emitted, listenerVars, taskVars, viewVars>>

-------------------------------------------------------------------------------
(* The listener task *)
Tell(kinds) == told' = told \o kinds
Error == [kind |-> "lifecycle_error"]

(* Mutant: a turn's end is told as soon as the event is there.               *)
ProjectEndAtOnce(e) ==
  /\ Tell(<<[kind |-> "end", how |-> e.how]>>)
  /\ projector' = [projector EXCEPT !.seen = @ + 1]
ProjectEnd(e) ==
  /\ projector' =
       [projector EXCEPT
          !.seen = @ + 1,
          !.active = IF e.how = "completed" THEN {} ELSE @,
          !.deferred = @ \o (IF e.how = "completed" /\ projector.active # {} THEN <<Error>>
                             ELSE <<>>)
                         \o <<[kind |-> "end", how |-> e.how]>>]
  /\ UNCHANGED told

(* observe_item_*, validate_active_lifecycle *)
ProjectItem(e) ==
  LET unknown == e.kind # "item_started" /\ e.item \notin projector.active
      notification == [kind |-> e.kind, item |-> e.item]
  IN  /\ projector' =
           [projector EXCEPT
              !.seen = @ + 1,
              !.active = CASE e.kind = "item_started" -> @ \cup {e.item}
                           [] e.kind = "item_completed" -> @ \ {e.item}
                           [] OTHER -> @]
      /\ Tell(CASE ~unknown -> <<notification>>
                [] unknown /\ e.kind = "item_completed" -> <<Error, notification>>
                [] OTHER -> <<Error>>)

Receive(op) == listening /\ queue # <<>> /\ Head(queue).op = op /\ queue' = Tail(queue)

ProjectEvent ==
  /\ Receive("event")
  /\ LET e == Head(queue).event
     IN  CASE e.kind = "end" -> ProjectEnd(e)
           [] e.kind = "started" ->
                /\ Tell(<<[kind |-> "started"]>>)
                /\ projector' = [projector EXCEPT !.seen = @ + 1]
           [] OTHER -> ProjectItem(e)
  /\ UNCHANGED <<turnVars, listening, taskVars, viewVars>>

ProjectError ==
  /\ Receive("error")
  /\ Tell(<<[kind |-> "error"]>>)
  /\ UNCHANGED <<turnVars, listening, projector, taskVars, viewVars>>

(* The deferred notifications go out, and whoever waits for a snapshot
   behind this command is answered nothing                                   *)
ListenerFinishes ==
  /\ Receive("finish")
  /\ Tell(projector.deferred)
  /\ listening' = FALSE /\ projector' = NewProjector
  /\ task' = [n \in 1..emitted |-> IF task[n] = "wait" THEN "put" ELSE task[n]]
  /\ UNCHANGED <<turnVars, answer, viewVars>>

AnswerSnapshot ==
  /\ Receive("snapshot")
  /\ LET n == Head(queue).n
     IN  IF task[n] = "wait"
         THEN /\ answer' = [answer EXCEPT ![n] = projector.seen]
              /\ task' = [task EXCEPT ![n] = "put"]
         ELSE UNCHANGED taskVars
  /\ UNCHANGED <<turnVars, listening, projector, told, viewVars>>

-------------------------------------------------------------------------------
(* The task of event n *)
AskSnapshot(n) ==
  /\ n \in 1..emitted /\ task[n] = "ask"
  /\ IF listening THEN /\ queue' = Append(queue, [op |-> "snapshot", n |-> n])
                       /\ task' = [task EXCEPT ![n] = "wait"]
     ELSE UNCHANGED queue /\ task' = [task EXCEPT ![n] = "put"]
  /\ UNCHANGED <<turnVars, listening, projector, told, answer, viewVars>>

(* ACTIVE_TURN_SNAPSHOT_TIMEOUT *)
SnapshotTimesOut(n) ==
  /\ n \in 1..emitted /\ task[n] = "wait"
  /\ task' = [task EXCEPT ![n] = "put"]
  /\ UNCHANGED <<turnVars, listenerVars, answer, viewVars>>

PutSnapshot(n) ==
  /\ n \in 1..emitted /\ task[n] = "put"
  /\ Apply(n, [facts EXCEPT !.turn = answer[n]])
  /\ task' = [task EXCEPT ![n] = "done"] /\ answer' = [answer EXCEPT ![n] = 0]
  /\ UNCHANGED <<turnVars, listenerVars>>

Next ==
  \/ StartTurn \/ EmitStarted \/ EmitItem \/ EmitEnd \/ ChatReturns \/ FinishTurn
  \/ ChatFails \/ RefuseTurn \/ TellError \/ NoteTurnFinished \/ TaskEnds
  \/ ProjectEvent \/ ProjectError \/ ListenerFinishes \/ AnswerSnapshot
  \/ \E n \in 1..MaxEvents : AskSnapshot(n) \/ SnapshotTimesOut(n) \/ PutSnapshot(n)
  \/ ReadView \/ \E w \in Writers : Publish(w)

Spec == Init /\ [][Next]_vars

-------------------------------------------------------------------------------
(* A client that is told of the end of a turn may send the next one: the core
   has let go of the turn, and nothing of it is told any more -- but for a
   chat that failed half way, whose end overtakes the listener.              *)
EndIsToldLast ==
  \A i \in DOMAIN told :
    told[i].kind = "end" /\ told[i].how # "failed" =>
      /\ pc \notin {"starting"} \cup Busy
      /\ \A j \in (i + 1)..Len(told) : told[j].kind = "end"

(* When nothing is under way any more the client shows the view there is,
   unless the view changed between the unlock and the sending of a snapshot. *)
SettledViewIsShown ==
  unsent = <<>> /\ ~overlap => view = facts
===============================================================================
