---------------------------- MODULE NodeSessions -----------------------------
(***************************************************************************)
(* The connections of the node and what they keep: the handshake, the one  *)
(* subscription of each (NodeSessionState), and the registry of busy       *)
(* conversations they share (ConversationExecutionRegistry), written by    *)
(* whichever connection forwards a view or reads one.  One conversation,   *)
(* one scope; a worker is an incarnation.  How a worker is found, started  *)
(* and evicted is WorkerManager's subject: here each call of the manager   *)
(* is one step, and a worker may leave the map at any time.                *)
(***************************************************************************)
EXTENDS Naturals, Sequences, FiniteSets

CONSTANTS
  Sessions,   \* connections
  Workers,    \* incarnations; one that is over and forgotten is used again
  NoWorker,
  Room        \* places of a worker's broadcast channel (256 in the code)

VARIABLES
  pc, command,   \* what each connection is doing
  sub, inbox,    \* active_subscription: the worker, and what is not received
  reply,         \* the answer of a typed read, not yet applied
  worker,        \* the worker in the map
  todo, turn,    \* a worker has a submission to start, a turn that runs
  busy,          \* active_conversations
  lost           \* history: a status reached nobody, or may be overwritten by
                 \* one of another worker, and none came since
connVars == <<pc, command, reply>>
vars == <<connVars, sub, inbox, worker, todo, turn, busy, lost>>

Commands == {"submit", "switch", "other", "view"}
Statuses == {"active", "idle"}

TypeOK ==
  /\ pc \in [Sessions -> {"initialize", "initialized", "ready", "subscribe", "deliver",
                          "ask", "answer"}]
  /\ command \in [Sessions -> Commands \cup {"none"}]
  /\ sub \in [Sessions -> Workers \cup {NoWorker}]
  /\ inbox \in [Sessions -> Seq(Statuses \cup {"event"})]
  /\ reply \in [Sessions -> Statuses \cup {"none"}]
  /\ worker \in Workers \cup {NoWorker}
  /\ todo \in [Workers -> BOOLEAN] /\ turn \in [Workers -> BOOLEAN]
  /\ busy \in BOOLEAN /\ lost \in BOOLEAN
  /\ \A s \in Sessions :
       /\ Len(inbox[s]) <= Room
       /\ sub[s] # NoWorker => pc[s] \notin {"initialize", "initialized"}

Init ==
  /\ pc = [s \in Sessions |-> "initialize"] /\ command = [s \in Sessions |-> "none"]
  /\ sub = [s \in Sessions |-> NoWorker] /\ inbox = [s \in Sessions |-> <<>>]
  /\ reply = [s \in Sessions |-> "none"] /\ worker = NoWorker
  /\ todo = [w \in Workers |-> FALSE] /\ turn = [w \in Workers |-> FALSE]
  /\ busy = FALSE /\ lost = FALSE

-------------------------------------------------------------------------------
Status(w) == IF turn[w] THEN "active" ELSE "idle"
UnreadStatus(s) == \E i \in DOMAIN inbox[s] : inbox[s][i] \in Statuses

Goto(s, label) ==
  /\ pc' = [pc EXCEPT ![s] = label]
  /\ command' = [command EXCEPT ![s] = IF label = "ready" THEN "none" ELSE @]

(* Mutant: an idle view does not take the mark away.                         *)
UpdateConversationViewMarking(status) == busy' = (busy \/ status = "active")
UpdateConversationView(status) == busy' = (status = "active")

(* A status that another worker published, or answered, is still to come *)
Obsolete(w) ==
  \E s \in Sessions : sub[s] # w /\ (UnreadStatus(s) \/ reply[s] # "none")

(* A broadcast to every receiver of w; a full one loses its oldest event     *)
Push(w, event) ==
  LET full(s) == sub[s] = w /\ Len(inbox[s]) = Room
  IN  /\ inbox' = [s \in Sessions |->
                     IF sub[s] # w THEN inbox[s]
                     ELSE Append(IF full(s) THEN Tail(inbox[s]) ELSE inbox[s], event)]
      /\ lost' =
           IF event \in Statuses
           THEN IF w = worker /\ \E s \in Sessions : sub[s] = w THEN Obsolete(w) ELSE TRUE
           ELSE lost \/ \E s \in Sessions : full(s) /\ Head(inbox[s]) \in Statuses

(* Mutant: a full receiver refuses the new event instead.                    *)
PushDropping(w, event) ==
  LET full(s) == sub[s] = w /\ Len(inbox[s]) = Room + 1
  IN  /\ inbox' = [s \in Sessions |->
                     IF sub[s] # w \/ full(s) THEN inbox[s] ELSE Append(inbox[s], event)]
      /\ UNCHANGED lost
Broadcast(w, event) == Push(w, event)

-------------------------------------------------------------------------------
(* The client: initialize, initialized, then commands; whatever else it says
   before is refused.                                                        *)
Initialize(s) ==
  /\ pc[s] = "initialize" /\ Goto(s, "initialized")
  /\ UNCHANGED <<reply, sub, inbox, worker, todo, turn, busy, lost>>

Initialized(s) ==
  /\ pc[s] = "initialized" /\ Goto(s, "ready")
  /\ UNCHANGED <<reply, sub, inbox, worker, todo, turn, busy, lost>>

(* A command that needs a worker; a submission is refused when busy *)
Receive(s, c) ==
  /\ pc[s] = "ready"
  /\ c = "submit" => ~busy
  /\ pc' = [pc EXCEPT ![s] = "subscribe"]
  /\ command' = [command EXCEPT ![s] = c]
  /\ UNCHANGED <<reply, sub, inbox, worker, todo, turn, busy, lost>>

(* The client hangs up or exits, and comes again *)
Reconnect(s) ==
  /\ pc[s] = "ready"
  /\ Goto(s, "initialize")
  /\ sub' = [sub EXCEPT ![s] = NoWorker] /\ inbox' = [inbox EXCEPT ![s] = <<>>]
  /\ lost' = (lost \/ UnreadStatus(s))
  /\ UNCHANGED <<reply, worker, todo, turn, busy>>

-------------------------------------------------------------------------------
(* The connection's loop: an event is forwarded between two commands *)
ForwardEvent(s) ==
  /\ pc[s] = "ready" /\ inbox[s] # <<>>
  /\ inbox' = [inbox EXCEPT ![s] = Tail(@)]
  /\ IF Head(inbox[s]) \in Statuses
     THEN /\ UpdateConversationView(Head(inbox[s]))
          /\ lost' = (lost \/ sub[s] # worker)
     ELSE UNCHANGED <<busy, lost>>
  /\ UNCHANGED <<connVars, sub, worker, todo, turn>>

(* RecvError::Closed: the sender is gone from the map, and the task with it *)
LoseSubscription(s) ==
  /\ pc[s] = "ready" /\ sub[s] \notin {NoWorker, worker}
  /\ inbox[s] = <<>> /\ ~turn[sub[s]] /\ ~todo[sub[s]]
  /\ sub' = [sub EXCEPT ![s] = NoWorker]
  /\ UNCHANGED <<connVars, inbox, worker, todo, turn, busy, lost>>

(* The manager's answer to a call: the worker in the map, or a new one *)
Ensured(w) ==
  IF worker # NoWorker THEN w = worker
  ELSE ~turn[w] /\ ~todo[w] /\ \A s \in Sessions : sub[s] # w

CallFails(s) ==
  /\ pc[s] \in {"subscribe", "deliver", "ask"}
  /\ Goto(s, "ready")
  /\ UNCHANGED <<reply, sub, inbox, worker, todo, turn, busy, lost>>

(* ensure_session_subscription: a fresh receiver takes the place of the old
   one, read or not                                                          *)
Subscribe(s) ==
  /\ pc[s] = "subscribe"
  /\ \E w \in Workers : Ensured(w) /\ worker' = w /\ sub' = [sub EXCEPT ![s] = w]
  /\ inbox' = [inbox EXCEPT ![s] = <<>>]
  /\ lost' = (lost \/ UnreadStatus(s))
  /\ Goto(s, IF command[s] = "view" THEN "ask" ELSE "deliver")
  /\ UNCHANGED <<reply, todo, turn, busy>>

(* The command reaches the child.  Only a switch publishes the view at once;
   bound: one submission waits for the turn that runs                        *)
Deliver(s) ==
  /\ pc[s] = "deliver"
  /\ \E w \in Workers :
       /\ Ensured(w) /\ worker' = w
       /\ command[s] = "submit" => ~todo[w]
       /\ todo' = [todo EXCEPT ![w] = @ \/ command[s] = "submit"]
       /\ IF command[s] = "switch" /\ w = worker THEN Broadcast(w, Status(w))
          ELSE UNCHANGED <<inbox, lost>>
  /\ Goto(s, "ready")
  /\ UNCHANGED <<reply, sub, turn, busy>>

(* request_json; the answer is applied to the registry when it is back *)
Ask(s) ==
  /\ pc[s] = "ask"
  /\ \E w \in Workers :
       /\ Ensured(w) /\ worker' = w
       /\ reply' = [reply EXCEPT ![s] = Status(w)]
       /\ lost' = (lost \/ sub[s] # w)
  /\ Goto(s, "answer")
  /\ UNCHANGED <<sub, inbox, todo, turn, busy>>

Answer(s) ==
  /\ pc[s] = "answer"
  /\ UpdateConversationView(reply[s])
  /\ lost' = (lost \/ sub[s] # worker)
  /\ reply' = [reply EXCEPT ![s] = "none"]
  /\ Goto(s, "ready")
  /\ UNCHANGED <<sub, inbox, worker, todo, turn>>

-------------------------------------------------------------------------------
(* The worker *)
StartTurn(w) ==
  /\ todo[w] /\ ~turn[w]
  /\ todo' = [todo EXCEPT ![w] = FALSE] /\ turn' = [turn EXCEPT ![w] = TRUE]
  /\ Broadcast(w, "active")
  /\ UNCHANGED <<connVars, sub, worker, busy>>

FinishTurn(w) ==
  /\ turn[w]
  /\ turn' = [turn EXCEPT ![w] = FALSE]
  /\ Broadcast(w, "idle")
  /\ UNCHANGED <<connVars, sub, worker, todo, busy>>

EmitEvent(w) ==
  /\ turn[w]
  /\ Broadcast(w, "event")
  /\ UNCHANGED <<connVars, sub, worker, todo, turn, busy>>

(* Evicted, or displaced: its turn may go on for a while *)
Evict ==
  /\ worker # NoWorker
  /\ worker' = NoWorker
  /\ UNCHANGED <<connVars, sub, inbox, todo, turn, busy, lost>>

(* The child is gone.  Nobody publishes the end of its turn *)
Kill(w) ==
  /\ w = worker \/ turn[w] \/ todo[w]
  /\ worker' = IF w = worker THEN NoWorker ELSE worker
  /\ turn' = [turn EXCEPT ![w] = FALSE] /\ todo' = [todo EXCEPT ![w] = FALSE]
  /\ lost' = (lost \/ turn[w])
  /\ UNCHANGED <<connVars, sub, inbox, busy>>

Next ==
  \/ \E s \in Sessions :
       \/ Initialize(s) \/ Initialized(s) \/ Reconnect(s)
       \/ ForwardEvent(s) \/ LoseSubscription(s) \/ CallFails(s)
       \/ Subscribe(s) \/ Deliver(s) \/ Ask(s) \/ Answer(s)
       \/ \E c \in Commands : Receive(s, c)
  \/ \E w \in Workers : StartTurn(w) \/ FinishTurn(w) \/ EmitEvent(w) \/ Kill(w)
  \/ Evict

Spec == Init /\ [][Next]_vars

-------------------------------------------------------------------------------
(* The mark of the registry is the state of the conversation once everything
   was forwarded, whichever connections forward and read views in whatever
   order; a status that got lost (a replaced receiver, a full one, none at
   all, a dead worker) is made good by the next one of the worker in the map. *)
RegistryFollowsView ==
  \/ \E s \in Sessions : UnreadStatus(s) \/ reply[s] # "none"
  \/ lost
  \/ \E w \in Workers \ {worker} : turn[w]
  \/ busy = \E w \in Workers : turn[w]
===============================================================================
