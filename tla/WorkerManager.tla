---------------------------- MODULE WorkerManager ----------------------------
(***************************************************************************)
(* The node's worker manager: callers on behalf of the connections         *)
(* (subscribe, send_command, request_json, status_snapshot, shutdown), the *)
(* map of workers they share under one lock, and the task that serves each *)
(* worker (ensure_worker).  A worker is one incarnation, a child process   *)
(* with its task; what the link between the two does with events is        *)
(* WorkerLink's subject, what becomes of them in the node NodeSessions's.  *)
(***************************************************************************)
EXTENDS Naturals, Sequences, FiniteSets

CONSTANTS
  Callers,    \* connections of clients
  Scopes,     \* worker scope keys
  ScopeOf,    \* the scope of each caller's source and workspace
  Workers,    \* incarnations; one that is over and forgotten is used again
  NoWorker,
  MaxQueue    \* bound: commands queued for one worker

ASSUME WorkerManagerAssumption ==
  /\ ScopeOf \in [Callers -> Scopes]
  /\ NoWorker \notin Workers
  /\ MaxQueue \in Nat

VARIABLES
  workers,   \* WorkerManagerState.workers
  task,      \* the worker's tokio task, and the child with it
  turn,      \* the child has a turn to run
  cmds,      \* the command channel
  reqs,      \* the channel of typed requests, as the callers that wait
  pc, command,   \* what each caller is doing
  evicted,   \* handles a caller took out of the map and still has to join
  joining,   \* the one it joins
  target,    \* the worker whose request_tx it cloned
  reply      \* the oneshot of its typed request

taskVars == <<task, turn, cmds, reqs>>
callVars == <<pc, command, evicted, joining, target, reply>>
vars == <<workers, taskVars, callVars>>

Commands == {"send", "view", "status", "shutdown"}
Maybe(S) == S \cup {NoWorker}

TypeOK ==
  /\ workers \in [Scopes -> Maybe(Workers)]
  /\ task \in [Workers -> {"unborn", "up", "failing", "quitting", "closing", "ended", "broken"}]
  /\ turn \in [Workers -> BOOLEAN]
  /\ cmds \in [Workers -> Seq(Commands)] /\ reqs \in [Workers -> Seq(Callers)]
  /\ pc \in [Callers -> {"idle", "prune", "join", "subscribe", "prune2",
                         "join2", "send", "retry", "resend", "request", "post", "await"}]
  /\ command \in [Callers -> Commands \cup {"none"}]
  /\ evicted \in [Callers -> SUBSET Workers] /\ joining \in [Callers -> Maybe(Workers)]
  /\ target \in [Callers -> Maybe(Workers)]
  /\ reply \in [Callers -> {"none", "answered", "failed"}]
  /\ \A s \in Callers :
       /\ joining[s] # NoWorker <=> pc[s] \in {"join", "join2"}
       /\ joining[s] = NoWorker => evicted[s] = {}
       /\ target[s] # NoWorker <=> pc[s] \in {"post", "await"}
       /\ reply[s] # "none" => pc[s] = "await"

Init ==
  /\ workers = [k \in Scopes |-> NoWorker]
  /\ task = [w \in Workers |-> "unborn"]
  /\ turn = [w \in Workers |-> FALSE]
  /\ cmds = [w \in Workers |-> <<>>] /\ reqs = [w \in Workers |-> <<>>]
  /\ pc = [s \in Callers |-> "idle"] /\ command = [s \in Callers |-> "none"]
  /\ evicted = [s \in Callers |-> {}] /\ joining = [s \in Callers |-> NoWorker]
  /\ target = [s \in Callers |-> NoWorker] /\ reply = [s \in Callers |-> "none"]

-------------------------------------------------------------------------------
(* Helpers *)

Ended(w) == task[w] \in {"ended", "broken"}
Mapped(w) == \E k \in Scopes : workers[k] = w
Scope(s) == ScopeOf[s]

(* Back in the select loop of the connection the command is forgotten *)
Goto(s, label) ==
  /\ pc' = [pc EXCEPT ![s] = label]
  /\ command' = [command EXCEPT ![s] = IF label = "idle" THEN "none" ELSE @]

(* Each critical section of WorkerManager.state is one step, the start of a
   child in ensure_worker included; workers are joined outside of it.        *)
(* Mutant: workers are joined under the lock.                             *)
LockFreeUnlessJoining == \A s \in Callers : joining[s] = NoWorker
LockFree == TRUE

(* A command_tx is left: in the map, or with an eviction that has not come
   to it yet.  A worker being joined has lost its sender.                    *)
SenderOpen(w) == Mapped(w) \/ \E s \in Callers : w \in evicted[s]

Queued(s, w) == \E i \in DOMAIN reqs[w] : reqs[w][i] = s

(* Mutant: the waiting callers are not told.                               *)
EndTaskSilently(w, result) ==
  /\ task' = [task EXCEPT ![w] = result]
  /\ turn' = [turn EXCEPT ![w] = FALSE]
  /\ cmds' = [cmds EXCEPT ![w] = <<>>]
  /\ reqs' = [reqs EXCEPT ![w] = <<>>]
  /\ UNCHANGED reply

(* The task of w returns: its receivers are dropped, and with the client the
   child process and the turn in it.                                         *)
EndTask(w, result) ==
  /\ task' = [task EXCEPT ![w] = result]
  /\ turn' = [turn EXCEPT ![w] = FALSE]
  /\ cmds' = [cmds EXCEPT ![w] = <<>>]
  /\ reqs' = [reqs EXCEPT ![w] = <<>>]
  /\ reply' = [s \in Callers |-> IF Queued(s, w) THEN "failed" ELSE reply[s]]

-------------------------------------------------------------------------------
(* The caller *)

(* A command is accepted.  Those that need a worker subscribe first
   (ensure_session_subscription), a status and the node's shutdown do not.   *)
Receive(s, c) ==
  /\ pc[s] = "idle"
  /\ \A w \in Workers : Len(cmds[w]) < MaxQueue
  /\ command' = [command EXCEPT ![s] = c]
  /\ pc' = [pc EXCEPT ![s] = "prune"]
  /\ UNCHANGED <<workers, taskVars, evicted, joining, target, reply>>

(* Mutant: a failed join keeps its handles.                               *)
FailHolding(s) ==
  /\ Goto(s, "idle")
  /\ UNCHANGED <<evicted, joining>>

(* The command failed; the client is told. *)
Fail(s) ==
  /\ Goto(s, "idle")
  /\ evicted' = [evicted EXCEPT ![s] = {}]
  /\ joining' = [joining EXCEPT ![s] = NoWorker]

(* Where a caller goes when its pruning is over: a status asks
   is_worker_running and then for the snapshot                               *)
Pruned(s) ==
  IF pc[s] \in {"prune", "join"}
  THEN CASE command[s] = "status" -> "prune2"
         [] command[s] = "shutdown" -> "idle"
         [] OTHER -> "subscribe"
  ELSE CASE command[s] = "status" -> "idle"
         [] command[s] = "view" -> "request"
         [] OTHER -> "send"

(* Mutant: the handle being joined stays with the others.                 *)
JoinNextTwice(s, old) ==
  \E w \in old :
    /\ joining' = [joining EXCEPT ![s] = w]
    /\ evicted' = [evicted EXCEPT ![s] = old]

(* drop(handle.command_tx); handle.worker.await: for one handle at a time *)
JoinNext(s, old) ==
  \E w \in old :
    /\ joining' = [joining EXCEPT ![s] = w]
    /\ evicted' = [evicted EXCEPT ![s] = old \ {w}]

(* prune_workers_at: finished workers, and any whose last command is 300 s ago
   (time is not modelled: that may be so at every call), leave the map under
   the lock and are joined after it.  shutdown drains the map the same way.  *)
Prune(s) ==
  /\ pc[s] \in {"prune", "prune2"} /\ LockFree
  /\ \E old \in SUBSET {w \in Workers : Mapped(w)} :
       /\ \A w \in Workers : Mapped(w) /\ (Ended(w) \/ command[s] = "shutdown") => w \in old
       /\ workers' = [k \in Scopes |-> IF workers[k] \in old THEN NoWorker ELSE workers[k]]
       /\ IF old = {}
          THEN Goto(s, Pruned(s)) /\ UNCHANGED <<evicted, joining>>
          ELSE /\ JoinNext(s, old)
               /\ Goto(s, IF pc[s] = "prune" THEN "join" ELSE "join2")
  /\ UNCHANGED <<taskVars, target, reply>>

(* A join returns.  An error ends the pruning, the handles that are left are
   dropped, and with it the command; a status goes on (prune_workers().ok()) *)
Join(s) ==
  /\ pc[s] \in {"join", "join2"} /\ Ended(joining[s])
  /\ CASE task[joining[s]] = "broken" /\ command[s] # "status" -> Fail(s)
       [] task[joining[s]] = "ended" /\ evicted[s] # {} ->
            JoinNext(s, evicted[s]) /\ UNCHANGED <<pc, command>>
       [] OTHER -> /\ joining' = [joining EXCEPT ![s] = NoWorker]
                   /\ evicted' = [evicted EXCEPT ![s] = {}]
                   /\ Goto(s, Pruned(s))
  /\ UNCHANGED <<workers, taskVars, target, reply>>

(* ensure_worker, in the critical section of its caller: the scope's worker is
   w; a scope without one gets one, and its fault is forgotten               *)
Handle(s) == workers[Scope(s)]
EnsureWorker(s, w) ==
  \/ /\ w = Handle(s)
     /\ UNCHANGED <<workers, task>>
  \/ /\ Handle(s) = NoWorker /\ task[w] = "unborn"
     /\ workers' = [workers EXCEPT ![Scope(s)] = w]
     /\ task' = [task EXCEPT ![w] = "up"]

(* The child cannot be started *)
StartFails(s) ==
  /\ pc[s] \in {"subscribe", "send", "resend", "request"} /\ LockFree
  /\ Handle(s) = NoWorker
  /\ Fail(s)
  /\ UNCHANGED <<workers, taskVars, target, reply>>

Subscribe(s) ==
  /\ pc[s] = "subscribe" /\ LockFree
  /\ \E w \in Workers : EnsureWorker(s, w)
  /\ Goto(s, "prune2")
  /\ UNCHANGED <<turn, cmds, reqs, evicted, joining, target, reply>>

(* send_command_inner, a first time or again *)
SendCommand(s) ==
  /\ pc[s] \in {"send", "resend"} /\ LockFree
  /\ \E w \in Workers :
       /\ EnsureWorker(s, w)
       /\ IF Ended(w)
          THEN Goto(s, IF pc[s] = "send" THEN "retry" ELSE "idle") /\ UNCHANGED cmds
          ELSE Goto(s, "idle") /\ cmds' = [cmds EXCEPT ![w] = Append(@, command[s])]
  /\ UNCHANGED <<turn, reqs, evicted, joining, target, reply>>

(* The channel was closed: whatever handle the scope has now is dropped *)
RemoveHandle(s) ==
  /\ pc[s] = "retry" /\ LockFree
  /\ workers' = [workers EXCEPT ![Scope(s)] = NoWorker]
  /\ Goto(s, "resend")
  /\ UNCHANGED <<taskVars, evicted, joining, target, reply>>

(* request_json: clone the sender under the lock, send and wait outside *)
CloneRequestSender(s) ==
  /\ pc[s] = "request" /\ LockFree
  /\ \E w \in Workers : EnsureWorker(s, w) /\ target' = [target EXCEPT ![s] = w]
  /\ Goto(s, "post")
  /\ UNCHANGED <<turn, cmds, reqs, evicted, joining, reply>>

PostRequest(s) ==
  /\ pc[s] = "post"
  /\ IF Ended(target[s])
     THEN /\ Goto(s, "idle")
          /\ target' = [target EXCEPT ![s] = NoWorker]
          /\ UNCHANGED reqs
     ELSE /\ Goto(s, "await")
          /\ reqs' = [reqs EXCEPT ![target[s]] = Append(@, s)]
          /\ UNCHANGED target
  /\ UNCHANGED <<workers, task, turn, cmds, evicted, joining, reply>>

TakeReply(s) ==
  /\ pc[s] = "await" /\ reply[s] # "none"
  /\ reply' = [reply EXCEPT ![s] = "none"]
  /\ target' = [target EXCEPT ![s] = NoWorker]
  /\ Goto(s, "idle")
  /\ UNCHANGED <<workers, taskVars, evicted, joining>>

-------------------------------------------------------------------------------
(* The task of a worker and the child behind it *)

(* A typed request: the child answers, or the answer is an error or late *)
ServeRequest(w) ==
  /\ task[w] = "up" /\ reqs[w] # <<>>
  /\ reqs' = [reqs EXCEPT ![w] = Tail(@)]
  /\ \/ /\ reply' = [reply EXCEPT ![Head(reqs[w])] = "answered"]
        /\ UNCHANGED task
     \/ /\ reply' = [reply EXCEPT ![Head(reqs[w])] = "failed"]
        /\ task' = [task EXCEPT ![w] = "failing"]
  /\ UNCHANGED <<workers, turn, cmds, pc, command, evicted, joining, target>>

(* A command is written to the child, and may start a turn there; or it
   cannot be written and the task fails                                      *)
TakeCommand(w) ==
  /\ task[w] = "up" /\ cmds[w] # <<>>
  /\ cmds' = [cmds EXCEPT ![w] = Tail(@)]
  /\ turn' \in {turn, [turn EXCEPT ![w] = TRUE]}
  /\ UNCHANGED <<workers, task, reqs, callVars>>

CommandFails(w) ==
  /\ task[w] = "up" /\ cmds[w] # <<>>
  /\ EndTask(w, "broken")
  /\ UNCHANGED <<workers, pc, command, evicted, joining, target>>

(* Mutant: the task goes on without a sender.                             *)
CommandsClosedIgnored(w) ==
  /\ task[w] = "up" /\ cmds[w] = <<>> /\ ~SenderOpen(w)
  /\ UNCHANGED vars

(* command_rx.recv() = None: every sender is gone and the queue is empty *)
CommandsClosed(w) ==
  /\ task[w] = "up" /\ cmds[w] = <<>> /\ ~SenderOpen(w)
  /\ task' = [task EXCEPT ![w] = "closing"]
  /\ UNCHANGED <<workers, turn, cmds, reqs, callVars>>

(* The child is dead: the event stream ends *)
Disconnected(w) ==
  /\ task[w] = "up"
  /\ turn' = [turn EXCEPT ![w] = FALSE]
  /\ task' = [task EXCEPT ![w] = "failing"]
  /\ UNCHANGED <<workers, cmds, reqs, callVars>>

(* The fault itself only shows in a status listing *)
RecordWorkerFault(w) ==
  /\ task[w] = "failing" /\ LockFree
  /\ task' = [task EXCEPT ![w] = "quitting"]
  /\ UNCHANGED <<workers, turn, cmds, reqs, callVars>>

(* client.shutdown(): after a fault its result is ignored *)
ShutdownClient(w) ==
  /\ task[w] \in {"quitting", "closing"}
  /\ \E result \in {"ended", "broken"} :
       /\ task[w] = "quitting" => result = "ended"
       /\ EndTask(w, result)
  /\ UNCHANGED <<workers, pc, command, evicted, joining, target>>

(* A turn ends, by itself or interrupted *)
FinishTurn(w) ==
  /\ task[w] = "up" /\ turn[w]
  /\ turn' = [turn EXCEPT ![w] = FALSE]
  /\ UNCHANGED <<workers, task, cmds, reqs, callVars>>

(* Bound: nobody refers to an incarnation that is over; its name is free *)
Forget(w) ==
  /\ Ended(w) /\ ~SenderOpen(w)
  /\ \A s \in Callers : w \notin {joining[s], target[s]}
  /\ task' = [task EXCEPT ![w] = "unborn"]
  /\ UNCHANGED <<workers, turn, cmds, reqs, callVars>>

-------------------------------------------------------------------------------
(* A step that waits for the manager's lock, and one that does not *)
LockStep(s) ==
  \/ Prune(s) \/ StartFails(s) \/ Subscribe(s) \/ SendCommand(s)
  \/ RemoveHandle(s) \/ CloneRequestSender(s)
FreeStep(s) == Join(s) \/ PostRequest(s) \/ TakeReply(s)

TaskStep(w) ==
  \/ ServeRequest(w) \/ TakeCommand(w) \/ CommandFails(w) \/ CommandsClosed(w)
  \/ Disconnected(w) \/ RecordWorkerFault(w) \/ ShutdownClient(w)
  \/ FinishTurn(w) \/ Forget(w)

Next ==
  \/ \E s \in Callers : LockStep(s) \/ FreeStep(s) \/ \E c \in Commands : Receive(s, c)
  \/ \E w \in Workers : TaskStep(w)

Spec == Init /\ [][Next]_vars

(* tokio polls every task that can proceed, its mutex is first come first
   served, select! takes a ready branch at random.  Clients owe nothing, a
   child need not die and a turn need not end.                               *)
Fairness ==
  /\ \A s \in Callers : SF_vars(LockStep(s)) /\ WF_vars(FreeStep(s))
  /\ \A w \in Workers :
       /\ WF_vars(ServeRequest(w)) /\ WF_vars(TakeCommand(w) \/ CommandFails(w))
       /\ WF_vars(CommandsClosed(w)) /\ SF_vars(RecordWorkerFault(w))
       /\ WF_vars(ShutdownClient(w)) /\ WF_vars(Forget(w))

FairSpec == Spec /\ Fairness

-------------------------------------------------------------------------------
(* Properties *)

(* An incarnation belongs to one owner: the map, or one caller that evicted
   it and joins it.  A handle in two places would be joined twice, one in none
   could only be left by the retry of send_command.                          *)
HandleOwnedOnce ==
  \A w \in Workers :
    /\ \A k, l \in Scopes : workers[k] = w /\ workers[l] = w => k = l
    /\ \A s \in Callers :
         w \in evicted[s] \/ joining[s] = w =>
           /\ ~Mapped(w)
           /\ ~(w \in evicted[s] /\ joining[s] = w)
           /\ \A r \in Callers \ {s} : w \notin evicted[r] /\ joining[r] # w

(* A caller that waits for an answer is queued at a worker that still runs,
   once, or the answer is there: a worker that fails or is shut down with
   requests in its queue lets none of them wait for ever.                    *)
WaitingIsServed ==
  /\ \A s \in Callers : pc[s] = "await" /\ reply[s] = "none" => Queued(s, target[s])
  /\ \A w \in Workers :
       /\ Ended(w) => reqs[w] = <<>>
       /\ \A s \in Callers :
            Queued(s, w) => pc[s] = "await" /\ reply[s] = "none" /\ target[s] = w
       /\ \A i, j \in DOMAIN reqs[w] : reqs[w][i] = reqs[w][j] => i = j

(* Whatever a client asks, its connection gets back to its select loop: no
   handler waits for ever for the manager's lock, for a worker it evicted, or
   for an answer (prune_workers_at joins outside the lock that
   record_worker_fault needs, after it dropped the worker's sender).         *)
CallersReturn ==
  \A s \in Callers : pc[s] # "idle" ~> pc[s] = "idle"

(* A worker nobody can reach any more, evicted or displaced by the retry of
   send_command, ends.                                                       *)
OrphansEnd == \A w \in Workers : (task[w] = "up" /\ ~SenderOpen(w)) ~> Ended(w)

(* README: workers are recycled when idle.  Code: should_evict_worker asks
   when the last command came, not whether a turn runs.                      *)
RecycledWorkerIsIdle ==
  [][\A w \in Workers : Mapped(w) /\ ~Mapped(w)' => ~turn[w]]_vars
===============================================================================
