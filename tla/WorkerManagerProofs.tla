------------------------- MODULE WorkerManagerProofs -------------------------
(***************************************************************************)
(* What holds of the worker manager for any callers, scopes and number of  *)
(* workers: type correctness, that a worker's handle has one owner, and    *)
(* that a caller who waits for an answer is queued at a worker that runs.  *)
(***************************************************************************)
EXTENDS WorkerManagerInv, TLAPS

USE DEF vars, taskVars, callVars
USE WorkerManagerAssumption

Labels == {"idle", "prune", "join", "subscribe", "prune2", "join2", "send", "retry", "resend",
           "request", "post", "await"}

(* Where a caller holds no worker *)
Resting == Labels \ {"join", "join2", "post", "await"}

(* The two halves of TypeOK *)
TaskTypes ==
  /\ workers \in [Scopes -> Maybe(Workers)]
  /\ task \in [Workers -> {"unborn", "up", "failing", "quitting", "closing", "ended", "broken"}]
  /\ turn \in [Workers -> BOOLEAN]
  /\ cmds \in [Workers -> Seq(Commands)]
  /\ reqs \in [Workers -> Seq(Callers)]
CallTypes ==
  /\ pc \in [Callers -> Labels]
  /\ command \in [Callers -> Commands \cup {"none"}]
  /\ evicted \in [Callers -> SUBSET Workers]
  /\ joining \in [Callers -> Maybe(Workers)]
  /\ target \in [Callers -> Maybe(Workers)]
  /\ reply \in [Callers -> {"none", "answered", "failed"}]
  /\ \A s \in Callers :
       /\ joining[s] # NoWorker <=> pc[s] \in {"join", "join2"}
       /\ joining[s] = NoWorker => evicted[s] = {}
       /\ target[s] # NoWorker <=> pc[s] \in {"post", "await"}
       /\ reply[s] # "none" => pc[s] = "await"

-----------------------------------------------------------------------------
(* The invariant holds at the start. *)
LEMMA InitIInv == Init => IInv
  <1> SUFFICES ASSUME Init PROVE IInv
    OBVIOUS
  <1>1. TypeOK
    BY DEF Init, TypeOK, Maybe, Commands
  <1>2. BusyHasCommand /\ HandleOwnedOnce /\ UnbornIsFree
    BY DEF Init, BusyHasCommand, HandleOwnedOnce, UnbornIsFree, SenderOpen, Mapped
  <1>3. WaitingIsServed
    BY DEF Init, WaitingIsServed, Queued, Ended
  <1> QED BY <1>1, <1>2, <1>3 DEF IInv

(* The steps of a caller, and those of a task. *)
LEMMA NextCases ==
  ASSUME Next
  PROVE  \/ \E s \in Callers : LockStep(s)
         \/ \E s \in Callers : FreeStep(s)
         \/ \E s \in Callers, c \in Commands : Receive(s, c)
         \/ \E w \in Workers : TaskStep(w)
  BY DEF Next

(* Every step but Receive gives a caller that is busy no new command. *)
LEMMA CommandStep ==
  ASSUME TypeOK, BusyHasCommand, [Next]_vars
  PROVE  BusyHasCommand'
  <1>1. CASE UNCHANGED vars
    BY <1>1 DEF BusyHasCommand
  <1>2. ASSUME NEW s \in Callers, NEW c \in Commands, Receive(s, c) PROVE BusyHasCommand'
    BY <1>2 DEF Receive, BusyHasCommand, Commands, TypeOK
  <1>3. ASSUME NEW s \in Callers, NEW label, pc[s] # "idle", Goto(s, label) PROVE BusyHasCommand'
    BY <1>3 DEF Goto, BusyHasCommand, TypeOK
  <1>4. ASSUME UNCHANGED <<pc, command>> PROVE BusyHasCommand'
    BY <1>4 DEF BusyHasCommand
  <1>5. ASSUME NEW s \in Callers, LockStep(s) PROVE BusyHasCommand'
    BY <1>3, <1>5 DEF LockStep, Prune, StartFails, Fail, Subscribe, SendCommand, RemoveHandle,
       CloneRequestSender
  <1>6. ASSUME NEW s \in Callers, FreeStep(s) PROVE BusyHasCommand'
    BY <1>3, <1>4, <1>6 DEF FreeStep, Join, Fail, PostRequest, TakeReply
  <1>7. ASSUME NEW w \in Workers, TaskStep(w) PROVE BusyHasCommand'
    BY <1>4, <1>7 DEF TaskStep, ServeRequest, TakeCommand, CommandFails, CommandsClosed,
       Disconnected, RecordWorkerFault, ShutdownClient, FinishTurn, Forget
  <1> QED BY <1>1, <1>2, <1>5, <1>6, <1>7, NextCases

-----------------------------------------------------------------------------
(* Who holds which handle. *)

(* A join goes on with the next handle or ends the pruning. *)
LEMMA JoinCases ==
  ASSUME NEW s \in Callers, Join(s)
  PROVE  /\ UNCHANGED <<workers, taskVars, target, reply>>
         /\ \/ JoinNext(s, evicted[s]) /\ UNCHANGED <<pc, command>>
            \/ /\ evicted' = [evicted EXCEPT ![s] = {}]
               /\ joining' = [joining EXCEPT ![s] = NoWorker]
               /\ Goto(s, "idle") \/ Goto(s, Pruned(s))
  BY DEF Join, Fail

(* Handles move from the map to one evicting caller, and a new handle is that of
   a worker nobody holds.  *)
LEMMA OwnedStep ==
  ASSUME TypeOK, HandleOwnedOnce, UnbornIsFree, [Next]_vars
  PROVE  HandleOwnedOnce'
  <1> USE DEF HandleOwnedOnce
  <1>1. CASE UNCHANGED vars
    BY <1>1 DEF Mapped
  <1>2. ASSUME UNCHANGED <<workers, evicted, joining>> PROVE HandleOwnedOnce'
    BY <1>2 DEF Mapped
  <1>3. ASSUME NEW s \in Callers, PostRequest(s) \/ TakeReply(s)
        PROVE  HandleOwnedOnce'
    BY <1>2, <1>3 DEF PostRequest, TakeReply
  <1>4. ASSUME NEW s \in Callers, Prune(s) PROVE HandleOwnedOnce'
    <2>1. joining[s] = NoWorker /\ evicted[s] = {}
      BY <1>4 DEF Prune, TypeOK
    <2>2. PICK old \in SUBSET {w \in Workers : Mapped(w)} :
            /\ workers' = [k \in Scopes |-> IF workers[k] \in old THEN NoWorker ELSE workers[k]]
            /\ \/ old = {} /\ UNCHANGED <<evicted, joining>>
               \/ JoinNext(s, old)
      BY <1>4 DEF Prune
    <2>3. CASE old = {}
      BY <2>2, <2>3 DEF Mapped, JoinNext, TypeOK
    <2>4. CASE JoinNext(s, old)
      <3>1. \A w \in Workers : Mapped(w)' <=> Mapped(w) /\ w \notin old
        BY <2>2 DEF Mapped, TypeOK, Maybe
      <3>2. PICK v \in old : /\ joining' = [joining EXCEPT ![s] = v]
                             /\ evicted' = [evicted EXCEPT ![s] = old \ {v}]
        BY <2>4 DEF JoinNext
      <3>3. \A w \in old : Mapped(w) /\ \A r \in Callers : w \notin evicted[r] /\ joining[r] # w
        OBVIOUS
      <3>4. \A k, l \in Scopes, w \in Workers : workers'[k] = w /\ workers'[l] = w => k = l
        BY <2>2 DEF TypeOK, Maybe
      <3> QED BY <2>1, <3>1, <3>2, <3>3, <3>4 DEF TypeOK
    <2> QED BY <2>2, <2>3, <2>4
  <1>5. ASSUME NEW s \in Callers, workers' = workers, JoinNext(s, evicted[s])
        PROVE  HandleOwnedOnce'
    BY <1>5 DEF JoinNext, Mapped, TypeOK
  <1>6. ASSUME NEW s \in Callers, workers' = workers,
               joining' = [joining EXCEPT ![s] = NoWorker], evicted' = [evicted EXCEPT ![s] = {}]
        PROVE  HandleOwnedOnce'
    BY <1>6 DEF Mapped, TypeOK
  <1>7. ASSUME NEW s \in Callers, Join(s) \/ StartFails(s) PROVE HandleOwnedOnce'
    BY <1>5, <1>6, <1>7 DEF Join, StartFails, Fail
  <1>8. ASSUME NEW s \in Callers, NEW w \in Workers, EnsureWorker(s, w), UNCHANGED <<evicted, joining>>
        PROVE  HandleOwnedOnce'
    <2>1. CASE UNCHANGED workers
      BY <1>2, <1>8, <2>1
    <2>2. CASE task[w] = "unborn" /\ workers' = [workers EXCEPT ![Scope(s)] = w]
      <3>1. ~Mapped(w) /\ \A r \in Callers : w \notin evicted[r] /\ joining[r] # w
        BY <2>2 DEF UnbornIsFree, SenderOpen
      <3>2. \A v \in Workers : Mapped(v)' => Mapped(v) \/ v = w
        BY <2>2 DEF Mapped, TypeOK
      <3>3. \A k, l \in Scopes, v \in Workers : workers'[k] = v /\ workers'[l] = v => k = l
        BY <2>2, <3>1 DEF Mapped, TypeOK
      <3> QED BY <1>8, <3>1, <3>2, <3>3
    <2> QED BY <1>8, <2>1, <2>2 DEF EnsureWorker
  <1>9. ASSUME NEW s \in Callers, Subscribe(s) \/ SendCommand(s) \/ CloneRequestSender(s)
        PROVE  HandleOwnedOnce'
    BY <1>8, <1>9 DEF Subscribe, SendCommand, CloneRequestSender
  <1>10. ASSUME NEW s \in Callers, RemoveHandle(s) PROVE HandleOwnedOnce'
    BY <1>10 DEF RemoveHandle, Mapped, TypeOK
  <1>11. ASSUME NEW w \in Workers, TaskStep(w) PROVE HandleOwnedOnce'
    BY <1>2, <1>11 DEF TaskStep, ServeRequest, TakeCommand, CommandFails, CommandsClosed,
       Disconnected, RecordWorkerFault, ShutdownClient, FinishTurn, Forget
  <1>12. ASSUME NEW s \in Callers, NEW c \in Commands, Receive(s, c) PROVE HandleOwnedOnce'
    BY <1>2, <1>12 DEF Receive
  <1> QED BY <1>1, <1>3, <1>4, <1>7, <1>9, <1>10, <1>11, <1>12, NextCases DEF LockStep, FreeStep

(* A worker that was not started is in nobody's hands: to start it is the only
   way to get hold of it, and its name is free only when everyone let go.     *)
LEMMA UnbornStep ==
  ASSUME TypeOK, UnbornIsFree, [Next]_vars
  PROVE  UnbornIsFree'
  <1> USE DEF UnbornIsFree, SenderOpen
  <1>1. CASE UNCHANGED vars
    BY <1>1 DEF Mapped
  <1>2. ASSUME UNCHANGED <<workers, evicted, joining, target>>,
               \A w \in Workers : task'[w] = "unborn" => task[w] = "unborn"
        PROVE  UnbornIsFree'
    BY <1>2 DEF Mapped
  <1>3. ASSUME NEW s \in Callers, NEW c \in Commands, Receive(s, c) PROVE UnbornIsFree'
    BY <1>2, <1>3 DEF Receive
  <1>4. ASSUME NEW s \in Callers, UNCHANGED <<workers, task, target>>,
               \/ JoinNext(s, evicted[s])
               \/ evicted' = [evicted EXCEPT ![s] = {}] /\ joining' = [joining EXCEPT ![s] = NoWorker]
        PROVE  UnbornIsFree'
    <2> USE DEF Mapped
    <2>1. evicted \in [Callers -> SUBSET Workers] /\ joining \in [Callers -> Maybe(Workers)]
      BY DEF TypeOK
    <2>2. CASE JoinNext(s, evicted[s])
      <3>1. PICK v \in evicted[s] : /\ joining' = [joining EXCEPT ![s] = v]
                                   /\ evicted' = [evicted EXCEPT ![s] = @ \ {v}]
        BY <2>2 DEF JoinNext
      <3>2. \A w \in Workers : SenderOpen(w)' => SenderOpen(w)
        BY <1>4, <2>1, <3>1
      <3>3. \A w \in Workers, r \in Callers : joining'[r] = w => joining[r] = w \/ SenderOpen(w)
        BY <2>1, <3>1
      <3> QED BY <1>4, <3>2, <3>3
    <2>3. CASE evicted' = [evicted EXCEPT ![s] = {}] /\ joining' = [joining EXCEPT ![s] = NoWorker]
      BY <1>4, <2>1, <2>3
    <2> QED BY <1>4, <2>2, <2>3
  <1>5. ASSUME NEW s \in Callers, Join(s) \/ StartFails(s) PROVE UnbornIsFree'
    <2>1. CASE Join(s)
      BY <1>4, <2>1, JoinCases
    <2>2. CASE StartFails(s)
      BY <1>4, <2>2 DEF StartFails, Fail
    <2> QED BY <1>5, <2>1, <2>2
  <1>6. ASSUME NEW s \in Callers, Prune(s) PROVE UnbornIsFree'
    <2>1. PICK old \in SUBSET {w \in Workers : Mapped(w)} :
            /\ workers' = [k \in Scopes |-> IF workers[k] \in old THEN NoWorker ELSE workers[k]]
            /\ \/ UNCHANGED <<evicted, joining>>
               \/ JoinNext(s, old)
      BY <1>6 DEF Prune
    <2>2. UNCHANGED <<task, target>>
      BY <1>6 DEF Prune
    <2>3. \A w \in Workers : Mapped(w)' => Mapped(w)
      BY <2>1 DEF Mapped, TypeOK, Maybe
    <2>4. \A w \in old : task[w] # "unborn"
      OBVIOUS
    <2>5. evicted \in [Callers -> SUBSET Workers] /\ joining \in [Callers -> Maybe(Workers)]
      BY DEF TypeOK
    <2>6. CASE UNCHANGED <<evicted, joining>>
      BY <2>2, <2>3, <2>6
    <2>7. CASE JoinNext(s, old)
      <3>1. PICK v \in old : /\ joining' = [joining EXCEPT ![s] = v]
                            /\ evicted' = [evicted EXCEPT ![s] = old \ {v}]
        BY <2>7 DEF JoinNext
      <3>2. \A w \in Workers, r \in Callers :
              /\ w \in evicted'[r] => w \in evicted[r] \/ w \in old
              /\ joining'[r] = w => joining[r] = w \/ w \in old
        BY <2>5, <3>1
      <3> QED BY <2>2, <2>3, <2>4, <3>2
    <2> QED BY <2>1, <2>6, <2>7
  <1>7. ASSUME NEW s \in Callers, NEW w \in Workers, EnsureWorker(s, w),
               UNCHANGED <<evicted, joining>>,
               UNCHANGED target \/ target' = [target EXCEPT ![s] = w]
        PROVE  UnbornIsFree'
    <2>1. task'[w] # "unborn" /\ \A v \in Workers : v # w => task'[v] = task[v]
      BY <1>7 DEF EnsureWorker, Handle, Scope, Mapped, TypeOK
    <2>2. \A v \in Workers : Mapped(v)' => Mapped(v) \/ v = w
      BY <1>7 DEF EnsureWorker, Mapped, TypeOK
    <2> QED BY ZenonT(60), <1>7, <2>1, <2>2 DEF TypeOK
  <1>8. ASSUME NEW s \in Callers, Subscribe(s) \/ SendCommand(s) \/ CloneRequestSender(s)
        PROVE  UnbornIsFree'
    BY <1>7, <1>8 DEF Subscribe, SendCommand, CloneRequestSender
  <1>9. ASSUME NEW s \in Callers, RemoveHandle(s) PROVE UnbornIsFree'
    BY <1>9 DEF RemoveHandle, Mapped, TypeOK
  <1>10. ASSUME NEW s \in Callers, PostRequest(s) \/ TakeReply(s) PROVE UnbornIsFree'
    BY <1>10 DEF PostRequest, TakeReply, Mapped, TypeOK
  <1>11. ASSUME NEW w \in Workers, TaskStep(w) PROVE UnbornIsFree'
    <2>1. CASE Forget(w)
      BY <2>1 DEF Forget, Mapped, TypeOK
    <2>2. CASE ~Forget(w)
      BY <1>2, <1>11, <2>2 DEF TaskStep, ServeRequest, TakeCommand, CommandFails, CommandsClosed,
         Disconnected, RecordWorkerFault, ShutdownClient, FinishTurn, EndTask, TypeOK
    <2> QED BY <2>1, <2>2
  <1> QED BY <1>1, <1>3, <1>5, <1>6, <1>8, <1>9, <1>10, <1>11, NextCases DEF LockStep, FreeStep

-----------------------------------------------------------------------------
(* Who waits for an answer. *)

(* Nothing that concerns a waiting caller happened. *)
LEMMA ServedUntouched ==
  ASSUME WaitingIsServed, UNCHANGED reqs,
         \A s \in Callers : pc'[s] = "await" <=> pc[s] = "await",
         \A s \in Callers : pc[s] = "await" => target'[s] = target[s] /\ reply'[s] = reply[s],
         \A w \in Workers : Ended(w)' => Ended(w)
  PROVE  WaitingIsServed'
  BY DEF WaitingIsServed, Queued

(* A waiting caller keeps its one place in the queue of a running worker until
   it is served, or the worker's task returns and tells everyone in its queue.  *)
LEMMA ServedStep ==
  ASSUME TypeOK, WaitingIsServed, [Next]_vars
  PROVE  WaitingIsServed'
  <1> reqs \in [Workers -> Seq(Callers)] /\ target \in [Callers -> Maybe(Workers)]
    BY DEF TypeOK
  <1>1. CASE UNCHANGED vars
    BY <1>1, ServedUntouched DEF Ended
  <1>2. ASSUME NEW s \in Callers, pc[s] # "await", pc'[s] # "await",
               \A r \in Callers \ {s} : pc'[r] = pc[r] /\ target'[r] = target[r],
               UNCHANGED <<reqs, reply>>, \A w \in Workers : Ended(w)' => Ended(w)
        PROVE  WaitingIsServed'
    BY <1>2, ServedUntouched
  <1>3. ASSUME NEW s \in Callers, NEW c \in Commands, Receive(s, c) PROVE WaitingIsServed'
    BY <1>2, <1>3 DEF Receive, Ended, TypeOK
  <1>4. ASSUME NEW s \in Callers, NEW w \in Workers, EnsureWorker(s, w)
        PROVE  \A v \in Workers : Ended(v)' => Ended(v)
    BY <1>4 DEF EnsureWorker, Ended, TypeOK
  <1>5. ASSUME NEW s \in Callers, NEW label, Goto(s, label), label # "await"
        PROVE  pc'[s] # "await" /\ \A r \in Callers \ {s} : pc'[r] = pc[r]
    BY <1>5 DEF Goto, TypeOK
  <1>6. \A s \in Callers : Pruned(s) # "await"
    BY DEF Pruned
  <1>7. ASSUME NEW s \in Callers, Prune(s) PROVE WaitingIsServed'
    <2>1. \E label : Goto(s, label) /\ label # "await"
      BY <1>6, <1>7 DEF Prune
    <2> QED BY <1>2, <1>5, <1>7, <2>1 DEF Prune, Ended
  <1>8. ASSUME NEW s \in Callers, Join(s) PROVE WaitingIsServed'
    <2>1. UNCHANGED <<workers, taskVars, target, reply>>
      BY <1>8, JoinCases
    <2>2. pc[s] # "await"
      BY <1>8 DEF Join
    <2>3. CASE UNCHANGED pc
      BY <2>1, <2>3, ServedUntouched DEF Ended
    <2>4. CASE Goto(s, "idle") \/ Goto(s, Pruned(s))
      BY <1>2, <1>5, <1>6, <2>1, <2>2, <2>4 DEF Ended
    <2> QED BY <1>8, <2>3, <2>4, JoinCases
  <1>9. ASSUME NEW s \in Callers, StartFails(s) \/ RemoveHandle(s) PROVE WaitingIsServed'
    BY <1>2, <1>5, <1>9 DEF StartFails, RemoveHandle, Fail, Ended
  <1>10. ASSUME NEW s \in Callers, Subscribe(s) \/ SendCommand(s) PROVE WaitingIsServed'
    BY <1>2, <1>4, <1>5, <1>10 DEF Subscribe, SendCommand
  <1>11. ASSUME NEW s \in Callers, CloneRequestSender(s) PROVE WaitingIsServed'
    BY <1>2, <1>4, <1>5, <1>11 DEF CloneRequestSender
  <1>12. ASSUME NEW s \in Callers, PostRequest(s) PROVE WaitingIsServed'
    <2>1. CASE Ended(target[s])
      BY <1>2, <1>5, <1>12, <2>1 DEF PostRequest, Ended
    <2>2. CASE ~Ended(target[s])
      <3> DEFINE v == target[s]
      <3>1. v \in Workers
        BY <1>12 DEF PostRequest, TypeOK, Maybe
      <3>2. /\ reqs' = [reqs EXCEPT ![v] = Append(@, s)]
            /\ Goto(s, "await") /\ UNCHANGED <<task, target, reply>>
        BY <1>12, <2>2 DEF PostRequest
      <3>3. reply[s] = "none"
        BY <1>12 DEF PostRequest, TypeOK
      <3>4. \A w \in Workers, r \in Callers :
              Queued(r, w)' <=> Queued(r, w) \/ (w = v /\ r = s)
        <4>1. \A w \in Workers \ {v} : reqs'[w] = reqs[w]
          BY <3>1, <3>2
        <4>2. /\ Len(reqs'[v]) = Len(reqs[v]) + 1
              /\ \A i \in 1..Len(reqs[v]) : reqs'[v][i] = reqs[v][i]
              /\ reqs'[v][Len(reqs[v]) + 1] = s
              /\ reqs[v] \in Seq(Callers) /\ reqs'[v] \in Seq(Callers)
          BY <3>1, <3>2
        <4> QED BY SMTT(30), <3>1, <4>1, <4>2 DEF Queued
      <3>5. \A w \in Workers : ~Queued(s, w)
        BY <1>12 DEF PostRequest, WaitingIsServed
      <3>6. \A w \in Workers : \A i, j \in DOMAIN reqs'[w] :
              reqs'[w][i] = reqs'[w][j] => i = j
        BY <3>1, <3>2, <3>5 DEF Queued, WaitingIsServed
      <3>7. pc'[s] = "await" /\ \A r \in Callers \ {s} : pc'[r] = pc[r]
        BY <3>2 DEF Goto, TypeOK
      <3>8. \A w \in Workers : Ended(w)' => reqs'[w] = <<>>
        BY <2>2, <3>1, <3>2 DEF Ended, WaitingIsServed
      <3>9. \A r \in Callers : pc'[r] = "await" /\ reply'[r] = "none" => Queued(r, target[r])'
        <4>1. TAKE r \in Callers
        <4>2. CASE r = s
          BY <3>1, <3>2, <3>4, <4>2
        <4>3. CASE r # s
          <5>1. HAVE pc'[r] = "await" /\ reply'[r] = "none"
          <5>2. Queued(r, target[r])
            BY <3>2, <3>7, <4>3, <5>1 DEF WaitingIsServed
          <5>3. target[r] \in Workers
            BY <3>7, <4>3, <5>1 DEF TypeOK, Maybe
          <5> QED BY <3>2, <3>4, <5>2, <5>3 DEF Queued
        <4> QED BY <4>2, <4>3
      <3>10. \A w \in Workers, r \in Callers :
               Queued(r, w)' => pc'[r] = "await" /\ reply'[r] = "none" /\ target'[r] = w
        BY <3>2, <3>3, <3>4, <3>7 DEF WaitingIsServed
      <3> QED BY <3>6, <3>8, <3>9, <3>10 DEF WaitingIsServed
    <2> QED BY <2>1, <2>2
  <1>13. ASSUME NEW s \in Callers, TakeReply(s) PROVE WaitingIsServed'
    <2>1. pc'[s] # "await" /\ \A r \in Callers \ {s} : pc'[r] = pc[r]
      BY <1>5, <1>13 DEF TakeReply
    <2>2. /\ UNCHANGED <<task, reqs>>
          /\ \A r \in Callers \ {s} : reply'[r] = reply[r] /\ target'[r] = target[r]
      BY <1>13 DEF TakeReply
    <2>3. \A w \in Workers : ~Queued(s, w)
      BY <1>13 DEF TakeReply, WaitingIsServed
    <2>4. \A w \in Workers, r \in Callers : Queued(r, w)' <=> Queued(r, w)
      BY <2>2 DEF Queued
    <2>5. \A r \in Callers : pc'[r] = "await" /\ reply'[r] = "none" => Queued(r, target[r])'
      <3>1. SUFFICES ASSUME NEW r \in Callers, pc'[r] = "await", reply'[r] = "none"
                     PROVE  Queued(r, target[r])'
        OBVIOUS
      <3>2. r # s /\ Queued(r, target[r])
        BY <2>1, <2>2, <3>1 DEF WaitingIsServed
      <3> QED BY <2>2, <3>2 DEF Queued
    <2>6. \A w \in Workers, r \in Callers :
            Queued(r, w)' => pc'[r] = "await" /\ reply'[r] = "none" /\ target'[r] = w
      BY <2>1, <2>2, <2>3, <2>4 DEF WaitingIsServed
    <2> QED BY <2>2, <2>5, <2>6 DEF WaitingIsServed, Ended
  <1>14. ASSUME NEW w \in Workers, ServeRequest(w) PROVE WaitingIsServed'
    <2>1. PICK s \in Callers :
            /\ 1 \in DOMAIN reqs[w] /\ s = reqs[w][1] /\ s = Head(reqs[w])
            /\ reqs'[w] = Tail(reqs[w]) /\ reqs[w] \in Seq(Callers) /\ reqs[w] # <<>>
      BY <1>14 DEF ServeRequest
    <2>2. \A v \in Workers \ {w} : reqs'[v] = reqs[v]
      BY <1>14 DEF ServeRequest
    <2>3. /\ UNCHANGED <<pc, target>> /\ \A v \in Workers : Ended(v)' => Ended(v)
          /\ reply'[s] # "none" /\ \A r \in Callers \ {s} : reply'[r] = reply[r]
      BY <1>14, <2>1 DEF ServeRequest, Ended, TypeOK
    <2>4. /\ Len(reqs'[w]) = Len(reqs[w]) - 1 /\ reqs'[w] \in Seq(Callers)
          /\ \A i \in 1..Len(reqs'[w]) : reqs'[w][i] = reqs[w][i + 1]
      BY <2>1
    <2>5. Queued(s, w)
      BY <2>1 DEF Queued
    <2>6. \A v \in Workers \ {w} : ~Queued(s, v)
      BY <2>1, <2>5 DEF WaitingIsServed
    <2>7. ~Queued(s, w)'
      <3>1. ASSUME NEW i \in 1..Len(reqs'[w]), reqs'[w][i] = s PROVE FALSE
        <4>1. i + 1 \in DOMAIN reqs[w] /\ reqs[w][i + 1] = reqs[w][1] /\ i + 1 # 1
          BY <2>1, <2>4, <3>1
        <4> QED BY <2>1, <4>1 DEF WaitingIsServed
      <3> QED BY <2>4, <3>1 DEF Queued
    <2>8. \A r \in Callers \ {s}, v \in Workers : Queued(r, v)' <=> Queued(r, v)
      <3>1. TAKE r \in Callers \ {s}, v \in Workers
      <3>2. CASE v # w
        BY <2>2, <3>2 DEF Queued
      <3>3. ASSUME NEW i \in 1..Len(reqs[w]), reqs[w][i] = r PROVE \E j \in 1..Len(reqs'[w]) : reqs'[w][j] = r
        <4>1. i # 1 /\ i - 1 \in 1..Len(reqs'[w])
          BY <2>1, <2>4, <3>3
        <4>2. reqs'[w][i - 1] = reqs[w][(i - 1) + 1] /\ (i - 1) + 1 = i
          BY <2>4, <3>3, <4>1
        <4> QED BY <3>3, <4>1, <4>2
      <3>4. ASSUME NEW i \in 1..Len(reqs'[w]), reqs'[w][i] = r PROVE \E j \in 1..Len(reqs[w]) : reqs[w][j] = r
        BY <2>1, <2>4, <3>4
      <3>5. CASE v = w
        <4>1. DOMAIN reqs[w] = 1..Len(reqs[w]) /\ DOMAIN reqs'[w] = 1..Len(reqs'[w])
          BY <2>1, <2>4
        <4> QED BY <3>3, <3>4, <3>5, <4>1 DEF Queued
      <3> QED BY <3>2, <3>5
    <2>9. \A v \in Workers : \A i, j \in DOMAIN reqs'[v] : reqs'[v][i] = reqs'[v][j] => i = j
      <3>1. ASSUME NEW i \in 1..Len(reqs'[w]), NEW j \in 1..Len(reqs'[w]), reqs'[w][i] = reqs'[w][j]
            PROVE  i = j
        <4>1. /\ i + 1 \in DOMAIN reqs[w] /\ j + 1 \in DOMAIN reqs[w]
              /\ reqs[w][i + 1] = reqs[w][j + 1]
          BY <2>1, <2>4, <3>1
        <4>2. i + 1 = j + 1
          BY <4>1 DEF WaitingIsServed
        <4> QED BY <4>2
      <3>2. DOMAIN reqs'[w] = 1..Len(reqs'[w])
        BY <2>4
      <3>3. \A v \in Workers \ {w} : \A i, j \in DOMAIN reqs'[v] : reqs'[v][i] = reqs'[v][j] => i = j
        BY <2>2 DEF WaitingIsServed
      <3> QED BY <3>1, <3>2, <3>3
    <2>10. \A v \in Workers : Ended(v)' => reqs'[v] = <<>>
      BY <1>14, <2>2, <2>3 DEF ServeRequest, WaitingIsServed, Ended
    <2>11. \A r \in Callers : pc'[r] = "await" /\ reply'[r] = "none" => Queued(r, target[r])'
      <3>1. SUFFICES ASSUME NEW r \in Callers, pc'[r] = "await", reply'[r] = "none"
                     PROVE  Queued(r, target[r])'
        OBVIOUS
      <3>2. r # s /\ target[r] \in Workers /\ Queued(r, target[r])
        BY <2>3, <3>1 DEF WaitingIsServed, TypeOK, Maybe
      <3> QED BY <2>3, <2>8, <3>2 DEF Queued
    <2>12. \A v \in Workers, r \in Callers :
             Queued(r, v)' => pc'[r] = "await" /\ reply'[r] = "none" /\ target'[r] = v
      <3>1. SUFFICES ASSUME NEW v \in Workers, NEW r \in Callers, Queued(r, v)'
                     PROVE  pc'[r] = "await" /\ reply'[r] = "none" /\ target'[r] = v
        OBVIOUS
      <3>2. r # s
        BY <2>2, <2>6, <2>7, <3>1 DEF Queued
      <3> QED BY <2>3, <2>8, <3>1, <3>2 DEF WaitingIsServed
    <2> QED BY <2>9, <2>10, <2>11, <2>12 DEF WaitingIsServed
  <1>15. ASSUME NEW w \in Workers, NEW result, EndTask(w, result), UNCHANGED <<pc, target>>
         PROVE  WaitingIsServed'
    <2>1. reqs'[w] = <<>> /\ \A v \in Workers \ {w} : reqs'[v] = reqs[v] /\ task'[v] = task[v]
      BY <1>15 DEF EndTask, TypeOK
    <2>2. \A s \in Callers : ~Queued(s, w)'
      BY <2>1 DEF Queued
    <2>3. \A s \in Callers, v \in Workers \ {w} : Queued(s, v)' <=> Queued(s, v)
      BY <2>1 DEF Queued
    <2>4. \A s \in Callers : reply'[s] = IF Queued(s, w) THEN "failed" ELSE reply[s]
      BY <1>15 DEF EndTask
    <2>5. \A s \in Callers : pc'[s] = "await" /\ reply'[s] = "none" => Queued(s, target[s])'
      <3>1. SUFFICES ASSUME NEW s \in Callers, pc'[s] = "await", reply'[s] = "none"
                     PROVE  Queued(s, target[s])'
        OBVIOUS
      <3>2. ~Queued(s, w) /\ target[s] \in Workers /\ Queued(s, target[s])
        BY <1>15, <2>4, <3>1 DEF WaitingIsServed, TypeOK, Maybe
      <3>3. reqs'[target[s]] = reqs[target[s]]
        BY <2>1, <3>2
      <3> QED BY <1>15, <3>2, <3>3 DEF Queued
    <2>6. \A v \in Workers : Ended(v)' => reqs'[v] = <<>>
      BY <2>1 DEF WaitingIsServed, Ended
    <2>7. \A v \in Workers, s \in Callers :
            Queued(s, v)' => pc'[s] = "await" /\ reply'[s] = "none" /\ target'[s] = v
      <3>1. SUFFICES ASSUME NEW v \in Workers, NEW s \in Callers, Queued(s, v)'
                     PROVE  pc'[s] = "await" /\ reply'[s] = "none" /\ target'[s] = v
        OBVIOUS
      <3>2. v # w /\ Queued(s, v)
        BY <2>2, <2>3, <3>1
      <3>3. ~Queued(s, w)
        BY <3>2 DEF WaitingIsServed
      <3> QED BY <1>15, <2>4, <3>2, <3>3 DEF WaitingIsServed
    <2>8. \A v \in Workers : \A i, j \in DOMAIN reqs'[v] : reqs'[v][i] = reqs'[v][j] => i = j
      BY <2>1 DEF WaitingIsServed
    <2> QED BY <2>5, <2>6, <2>7, <2>8 DEF WaitingIsServed
  <1>16. ASSUME NEW w \in Workers, UNCHANGED <<reqs, pc, target, reply>>,
                \A v \in Workers : Ended(v)' => Ended(v)
         PROVE  WaitingIsServed'
    BY <1>16, ServedUntouched
  <1>17. ASSUME NEW w \in Workers, CommandFails(w) \/ ShutdownClient(w) PROVE WaitingIsServed'
    BY <1>15, <1>17 DEF CommandFails, ShutdownClient
  <1>18. ASSUME NEW w \in Workers,
                \/ TakeCommand(w) \/ CommandsClosed(w) \/ Disconnected(w)
                \/ RecordWorkerFault(w) \/ FinishTurn(w) \/ Forget(w)
         PROVE  WaitingIsServed'
    BY <1>16, <1>18 DEF TakeCommand, CommandsClosed, Disconnected, RecordWorkerFault, FinishTurn,
       Forget, Ended, TypeOK
  <1> QED BY <1>1, <1>3, <1>7, <1>8, <1>9, <1>10, <1>11, <1>12, <1>13, <1>14, <1>17, <1>18, NextCases
          DEF LockStep, FreeStep, TaskStep

-----------------------------------------------------------------------------
(* Type correctness: the steps of a caller, then those of a task. *)

(* Type correctness falls into two halves, proved one after the other. *)
LEMMA TypeHalves == TypeOK <=> TaskTypes /\ CallTypes
  BY DEF TypeOK, TaskTypes, CallTypes, Labels

(* A caller moves on to another label; the others stay. *)
LEMMA GotoTypes ==
  ASSUME CallTypes, NEW s \in Callers, NEW label \in Labels, Goto(s, label)
  PROVE  /\ pc' \in [Callers -> Labels] /\ command' \in [Callers -> Commands \cup {"none"}]
         /\ pc'[s] = label /\ \A r \in Callers \ {s} : pc'[r] = pc[r]
  <1>1. pc' = [pc EXCEPT ![s] = label]
    BY DEF Goto
  <1>2. command' \in [Callers -> Commands \cup {"none"}]
    BY DEF Goto, CallTypes
  <1> QED BY <1>1, <1>2 DEF CallTypes

(* After pruning a caller holds nothing. *)
LEMMA PrunedLabels ==
  ASSUME NEW s \in Callers
  PROVE  Pruned(s) \in Resting
  <1>1. \/ Pruned(s) = "prune2" \/ Pruned(s) = "idle" \/ Pruned(s) = "subscribe"
        \/ Pruned(s) = "request" \/ Pruned(s) = "send"
    BY DEF Pruned
  <1> QED BY <1>1 DEF Resting, Labels

(* A scope gets a worker of its own. *)
LEMMA WorkerTypes ==
  ASSUME TaskTypes, NEW s \in Callers, NEW w \in Workers, EnsureWorker(s, w)
  PROVE  /\ workers' \in [Scopes -> Maybe(Workers)]
         /\ task' \in [Workers -> {"unborn", "up", "failing", "quitting", "closing", "ended", "broken"}]
  BY ZenonT(60) DEF EnsureWorker, TaskTypes, Maybe, Scope

(* A caller that lets go of what it held. *)
LEMMA RestTypes ==
  ASSUME CallTypes, NEW s \in Callers, NEW label \in Resting, Goto(s, label),
         UNCHANGED reply \/ reply' = [reply EXCEPT ![s] = "none"], reply'[s] = "none",
         \/ UNCHANGED <<evicted, joining>> /\ joining[s] = NoWorker
         \/ evicted' = [evicted EXCEPT ![s] = {}] /\ joining' = [joining EXCEPT ![s] = NoWorker],
         \/ UNCHANGED target /\ target[s] = NoWorker
         \/ target' = [target EXCEPT ![s] = NoWorker]
  PROVE  CallTypes'
  <1>1. label \in Labels /\ label \notin {"join", "join2", "post", "await"}
    BY DEF Resting
  <1>2. /\ pc' \in [Callers -> Labels] /\ command' \in [Callers -> Commands \cup {"none"}]
        /\ pc'[s] = label /\ \A r \in Callers \ {s} : pc'[r] = pc[r]
    BY <1>1, GotoTypes
  <1>3. /\ evicted' \in [Callers -> SUBSET Workers] /\ joining' \in [Callers -> Maybe(Workers)]
        /\ joining'[s] = NoWorker /\ evicted'[s] = {}
        /\ \A r \in Callers \ {s} : joining'[r] = joining[r] /\ evicted'[r] = evicted[r]
    BY DEF CallTypes, Maybe
  <1>4. /\ target' \in [Callers -> Maybe(Workers)] /\ target'[s] = NoWorker
        /\ \A r \in Callers \ {s} : target'[r] = target[r]
    BY DEF CallTypes, Maybe
  <1>5. /\ reply' \in [Callers -> {"none", "answered", "failed"}]
        /\ \A r \in Callers \ {s} : reply'[r] = reply[r]
    BY DEF CallTypes
  <1> QED BY <1>1, <1>2, <1>3, <1>4, <1>5 DEF CallTypes

(* A caller that takes a handle out and joins it. *)
LEMMA JoinTypes ==
  ASSUME CallTypes, NEW s \in Callers, NEW old \in SUBSET Workers, JoinNext(s, old),
         UNCHANGED <<target, reply>>, reply[s] = "none", target[s] = NoWorker,
         \/ UNCHANGED <<pc, command>> /\ pc[s] \in {"join", "join2"}
         \/ \E label \in {"join", "join2"} : Goto(s, label)
  PROVE  CallTypes'
  <1>1. /\ pc' \in [Callers -> Labels] /\ command' \in [Callers -> Commands \cup {"none"}]
        /\ pc'[s] \in {"join", "join2"} /\ \A r \in Callers \ {s} : pc'[r] = pc[r]
    <2>1. CASE UNCHANGED <<pc, command>> /\ pc[s] \in {"join", "join2"}
      BY <2>1 DEF CallTypes
    <2>2. ASSUME NEW label \in {"join", "join2"}, Goto(s, label)
          PROVE  /\ pc' \in [Callers -> Labels] /\ command' \in [Callers -> Commands \cup {"none"}]
                 /\ pc'[s] \in {"join", "join2"} /\ \A r \in Callers \ {s} : pc'[r] = pc[r]
      <3>1. label \in Labels
        BY DEF Labels
      <3> QED BY <2>2, <3>1, GotoTypes
    <2> QED BY <2>1, <2>2
  <1>2. PICK v \in old : /\ joining' = [joining EXCEPT ![s] = v]
                         /\ evicted' = [evicted EXCEPT ![s] = old \ {v}]
    BY DEF JoinNext
  <1>3. /\ evicted' \in [Callers -> SUBSET Workers] /\ joining' \in [Callers -> Maybe(Workers)]
        /\ joining'[s] # NoWorker
        /\ \A r \in Callers \ {s} : joining'[r] = joining[r] /\ evicted'[r] = evicted[r]
    BY <1>2 DEF CallTypes, Maybe
  <1> QED BY <1>1, <1>3 DEF CallTypes

(* The half of the tasks. *)
LEMMA TaskTypesStep ==
  ASSUME TaskTypes, CallTypes, BusyHasCommand, [Next]_vars
  PROVE  TaskTypes'
  <1>1. CASE UNCHANGED vars
    BY <1>1 DEF TaskTypes
  <1>2. ASSUME NEW s \in Callers,
               StartFails(s) \/ RemoveHandle(s) \/ PostRequest(s) \/ TakeReply(s)
        PROVE  TaskTypes'
    <2>1. CASE StartFails(s) \/ TakeReply(s)
      BY <2>1 DEF StartFails, TakeReply, TaskTypes
    <2>2. CASE RemoveHandle(s)
      BY <2>2 DEF RemoveHandle, TaskTypes, Maybe
    <2>3. CASE PostRequest(s)
      <3>1. UNCHANGED <<workers, task, turn, cmds>>
        BY <2>3 DEF PostRequest
      <3>2. CASE UNCHANGED reqs
        BY <3>1, <3>2 DEF TaskTypes
      <3>3. CASE reqs' = [reqs EXCEPT ![target[s]] = Append(@, s)]
        <4>1. target[s] \in Workers
          BY <2>3 DEF PostRequest, CallTypes, Maybe
        <4>2. Append(reqs[target[s]], s) \in Seq(Callers)
          BY <4>1 DEF TaskTypes
        <4>3. reqs' \in [Workers -> Seq(Callers)]
          BY <3>3, <4>1, <4>2 DEF TaskTypes
        <4> QED BY <3>1, <4>3 DEF TaskTypes
      <3> QED BY <2>3, <3>2, <3>3 DEF PostRequest
    <2> QED BY <1>2, <2>1, <2>2, <2>3
  <1>3. ASSUME NEW s \in Callers, Prune(s) PROVE TaskTypes'
    BY <1>3 DEF Prune, TaskTypes, Maybe
  <1>4. ASSUME NEW s \in Callers, Join(s) PROVE TaskTypes'
    BY <1>4, JoinCases DEF TaskTypes
  <1>5. ASSUME NEW s \in Callers, Subscribe(s) \/ CloneRequestSender(s) PROVE TaskTypes'
    <2>1. UNCHANGED <<turn, cmds, reqs>> /\ \E w \in Workers : EnsureWorker(s, w)
      BY <1>5 DEF Subscribe, CloneRequestSender
    <2> QED BY <2>1, WorkerTypes DEF TaskTypes
  <1>6. ASSUME NEW s \in Callers, SendCommand(s) PROVE TaskTypes'
    <2>1. PICK w \in Workers :
            /\ EnsureWorker(s, w)
            /\ UNCHANGED cmds \/ cmds' = [cmds EXCEPT ![w] = Append(@, command[s])]
      BY <1>6 DEF SendCommand
    <2>2. UNCHANGED <<turn, reqs>> /\ command[s] \in Commands
      BY <1>6 DEF SendCommand, BusyHasCommand, CallTypes
    <2>3. cmds' \in [Workers -> Seq(Commands)]
      <3>1. Append(cmds[w], command[s]) \in Seq(Commands)
        BY <2>2 DEF TaskTypes
      <3> QED BY <2>1, <3>1 DEF TaskTypes
    <2> QED BY <2>1, <2>2, <2>3, WorkerTypes DEF TaskTypes
  <1>7. ASSUME NEW w \in Workers, NEW result \in {"ended", "broken"}, EndTask(w, result),
               UNCHANGED workers
        PROVE  TaskTypes'
    BY <1>7 DEF EndTask, TaskTypes
  <1>8. ASSUME NEW w \in Workers, CommandFails(w) \/ ShutdownClient(w) PROVE TaskTypes'
    BY <1>7, <1>8 DEF CommandFails, ShutdownClient
  <1>9. ASSUME NEW w \in Workers, TakeCommand(w) \/ ServeRequest(w) PROVE TaskTypes'
    <2>1. CASE TakeCommand(w)
      <3>1. Tail(cmds[w]) \in Seq(Commands)
        BY <2>1 DEF TakeCommand, TaskTypes
      <3>2. cmds' \in [Workers -> Seq(Commands)]
        BY <2>1, <3>1 DEF TakeCommand, TaskTypes
      <3>3. turn' \in [Workers -> BOOLEAN]
        BY <2>1 DEF TakeCommand, TaskTypes
      <3> QED BY <2>1, <3>2, <3>3 DEF TakeCommand, TaskTypes
    <2>2. CASE ServeRequest(w)
      <3>1. Tail(reqs[w]) \in Seq(Callers)
        BY <2>2 DEF ServeRequest, TaskTypes
      <3>2. reqs' \in [Workers -> Seq(Callers)]
        BY <2>2, <3>1 DEF ServeRequest, TaskTypes
      <3> QED BY <2>2, <3>2 DEF ServeRequest, TaskTypes
    <2> QED BY <1>9, <2>1, <2>2
  <1>10. ASSUME NEW w \in Workers,
                \/ CommandsClosed(w) \/ Disconnected(w)
                \/ RecordWorkerFault(w) \/ FinishTurn(w) \/ Forget(w)
         PROVE  TaskTypes'
    BY <1>10 DEF CommandsClosed, Disconnected, RecordWorkerFault, FinishTurn, Forget, TaskTypes
  <1>11. ASSUME NEW s \in Callers, NEW c \in Commands, Receive(s, c) PROVE TaskTypes'
    BY <1>11 DEF Receive, TaskTypes
  <1> QED BY <1>1, <1>2, <1>3, <1>4, <1>5, <1>6, <1>8, <1>9, <1>10, <1>11, NextCases
          DEF LockStep, FreeStep, TaskStep

(* The half of the callers: what one holds goes with where it is. *)
LEMMA CallTypesStep ==
  ASSUME TaskTypes, CallTypes, WaitingIsServed, [Next]_vars
  PROVE  CallTypes'
  <1>1. CASE UNCHANGED callVars
    BY <1>1 DEF CallTypes
  <1>2. ASSUME NEW s \in Callers, NEW c \in Commands, Receive(s, c) PROVE CallTypes'
    BY <1>2 DEF Receive, CallTypes, Labels
  <1> DEFINE AtRest(s) == joining[s] = NoWorker /\ target[s] = NoWorker /\ reply[s] = "none"
  <1>3. \A s \in Callers : pc[s] \in Resting => AtRest(s)
    BY DEF CallTypes, Resting
  <1>4. {"idle", "subscribe", "prune2", "send", "retry", "resend", "request"} \subseteq Resting
    BY DEF Resting, Labels
  <1>5. ASSUME NEW s \in Callers, pc[s] \in Resting, NEW label \in Resting, Goto(s, label),
               UNCHANGED <<evicted, joining, target, reply>>
        PROVE  CallTypes'
    BY <1>3, <1>5, RestTypes
  <1>6. ASSUME NEW s \in Callers, Prune(s) PROVE CallTypes'
    <2>1. pc[s] \in Resting /\ UNCHANGED <<target, reply>>
      BY <1>6 DEF Prune, Resting, Labels
    <2>2. PICK old \in SUBSET {w \in Workers : Mapped(w)} :
            \/ Goto(s, Pruned(s)) /\ UNCHANGED <<evicted, joining>>
            \/ JoinNext(s, old) /\ Goto(s, IF pc[s] = "prune" THEN "join" ELSE "join2")
      BY <1>6 DEF Prune
    <2>3. CASE Goto(s, Pruned(s)) /\ UNCHANGED <<evicted, joining>>
      BY <1>5, <2>1, <2>3, PrunedLabels
    <2>4. CASE JoinNext(s, old) /\ Goto(s, IF pc[s] = "prune" THEN "join" ELSE "join2")
      BY <1>3, <2>1, <2>4, JoinTypes
    <2> QED BY <2>2, <2>3, <2>4
  <1>7. ASSUME NEW s \in Callers, Join(s) PROVE CallTypes'
    <2>1. /\ UNCHANGED <<target, reply>> /\ pc[s] \in {"join", "join2"}
          /\ target[s] = NoWorker /\ reply[s] = "none" /\ evicted[s] \in SUBSET Workers
      <3>1. UNCHANGED <<target, reply>> /\ pc[s] \in {"join", "join2"}
        BY <1>7, JoinCases DEF Join
      <3> QED BY <3>1 DEF CallTypes
    <2>2. CASE JoinNext(s, evicted[s]) /\ UNCHANGED <<pc, command>>
      BY <2>1, <2>2, JoinTypes
    <2>3. CASE /\ evicted' = [evicted EXCEPT ![s] = {}]
               /\ joining' = [joining EXCEPT ![s] = NoWorker]
               /\ Goto(s, "idle") \/ Goto(s, Pruned(s))
      BY <1>4, <2>1, <2>3, RestTypes, PrunedLabels
    <2> QED BY <1>7, <2>2, <2>3, JoinCases
  <1>8. ASSUME NEW s \in Callers, StartFails(s) PROVE CallTypes'
    <2>1. pc[s] \in Resting
      BY <1>4, <1>8 DEF StartFails
    <2> QED BY <1>3, <1>4, <1>8, <2>1, RestTypes DEF StartFails, Fail
  <1>9. ASSUME NEW s \in Callers, Subscribe(s) \/ SendCommand(s) \/ RemoveHandle(s) PROVE CallTypes'
    <2>1. pc[s] \in Resting
      BY <1>4, <1>9 DEF Subscribe, SendCommand, RemoveHandle
    <2>2. \E label \in Resting : Goto(s, label)
      BY <1>4, <1>9 DEF Subscribe, SendCommand, RemoveHandle
    <2>3. UNCHANGED <<evicted, joining, target, reply>>
      BY <1>9 DEF Subscribe, SendCommand, RemoveHandle
    <2> QED BY <1>5, <2>1, <2>2, <2>3
  <1>10. ASSUME NEW s \in Callers, CloneRequestSender(s) PROVE CallTypes'
    <2>1. PICK w \in Workers : target' = [target EXCEPT ![s] = w]
      BY <1>10 DEF CloneRequestSender
    <2>2. /\ Goto(s, "post") /\ UNCHANGED <<evicted, joining, reply>>
          /\ pc[s] \in Resting
      BY <1>4, <1>10 DEF CloneRequestSender
    <2>3. "post" \in Labels
      BY DEF Labels
    <2>4. /\ pc' \in [Callers -> Labels] /\ command' \in [Callers -> Commands \cup {"none"}]
          /\ pc'[s] = "post" /\ \A r \in Callers \ {s} : pc'[r] = pc[r]
      BY <2>2, <2>3, GotoTypes
    <2>5. /\ target' \in [Callers -> Maybe(Workers)] /\ target'[s] # NoWorker
          /\ \A r \in Callers \ {s} : target'[r] = target[r]
      BY <2>1 DEF CallTypes, Maybe
    <2> QED BY <1>3, <2>2, <2>4, <2>5 DEF CallTypes
  <1>11. ASSUME NEW s \in Callers, PostRequest(s) PROVE CallTypes'
    <2>1. CASE Ended(target[s])
      <3>1. joining[s] = NoWorker /\ reply[s] = "none"
        BY <1>11 DEF PostRequest, CallTypes
      <3> QED BY <1>4, <1>11, <2>1, <3>1, RestTypes DEF PostRequest
    <2>2. CASE ~Ended(target[s])
      <3>1. "await" \in Labels /\ Goto(s, "await") /\ UNCHANGED <<evicted, joining, target, reply>>
        BY <1>11, <2>2 DEF PostRequest, Labels
      <3>2. /\ pc' \in [Callers -> Labels] /\ command' \in [Callers -> Commands \cup {"none"}]
            /\ pc'[s] = "await" /\ \A r \in Callers \ {s} : pc'[r] = pc[r]
        BY <3>1, GotoTypes
      <3>3. pc[s] = "post"
        BY <1>11 DEF PostRequest
      <3> QED BY <3>1, <3>2, <3>3 DEF CallTypes
    <2> QED BY <2>1, <2>2
  <1>12. ASSUME NEW s \in Callers, TakeReply(s) PROVE CallTypes'
    <2>1. joining[s] = NoWorker
      BY <1>12 DEF TakeReply, CallTypes
    <2>2. reply'[s] = "none"
      BY <1>12 DEF TakeReply, CallTypes
    <2> QED BY <1>4, <1>12, <2>1, <2>2, RestTypes DEF TakeReply
  <1>13. ASSUME UNCHANGED <<pc, command, evicted, joining, target>>,
                reply' \in [Callers -> {"none", "answered", "failed"}],
                \A r \in Callers : reply'[r] # reply[r] => pc[r] = "await"
         PROVE  CallTypes'
    BY <1>13 DEF CallTypes
  <1>14. ASSUME NEW w \in Workers, ServeRequest(w) PROVE CallTypes'
    <2>1. Head(reqs[w]) \in Callers /\ Queued(Head(reqs[w]), w)
      BY <1>14 DEF ServeRequest, TaskTypes, Queued
    <2>2. pc[Head(reqs[w])] = "await"
      BY <2>1 DEF WaitingIsServed
    <2> QED BY <1>13, <1>14, <2>1, <2>2 DEF ServeRequest, CallTypes
  <1>15. ASSUME NEW w \in Workers, NEW result, EndTask(w, result),
                UNCHANGED <<pc, command, evicted, joining, target>>
         PROVE  CallTypes'
    BY <1>13, <1>15 DEF EndTask, CallTypes, WaitingIsServed
  <1>16. ASSUME NEW w \in Workers, CommandFails(w) \/ ShutdownClient(w) PROVE CallTypes'
    BY <1>15, <1>16 DEF CommandFails, ShutdownClient
  <1>17. ASSUME NEW w \in Workers,
                \/ TakeCommand(w) \/ CommandsClosed(w) \/ Disconnected(w)
                \/ RecordWorkerFault(w) \/ FinishTurn(w) \/ Forget(w)
         PROVE  CallTypes'
    BY <1>1, <1>17 DEF TakeCommand, CommandsClosed, Disconnected, RecordWorkerFault, FinishTurn, Forget
  <1>18. CASE UNCHANGED vars
    BY <1>1, <1>18
  <1> QED BY <1>2, <1>6, <1>7, <1>8, <1>9, <1>10, <1>11, <1>12, <1>14, <1>16, <1>17, <1>18, NextCases
          DEF LockStep, FreeStep, TaskStep

-----------------------------------------------------------------------------
(* The invariant holds in every reachable state. *)
LEMMA Invariance == Spec => []IInv
  <1>1. Init => IInv
    BY InitIInv
  <1>2. IInv /\ [Next]_vars => IInv'
    <2> SUFFICES ASSUME IInv, [Next]_vars PROVE IInv'
      OBVIOUS
    <2>1. TypeOK /\ BusyHasCommand /\ HandleOwnedOnce /\ UnbornIsFree /\ WaitingIsServed
      BY DEF IInv
    <2>2. TypeOK'
      BY <2>1, TypeHalves, TaskTypesStep, CallTypesStep DEF TypeOK, TaskTypes, CallTypes, Labels
    <2> QED BY <2>1, <2>2, CommandStep, OwnedStep, UnbornStep, ServedStep DEF IInv
  <1> QED BY <1>1, <1>2, PTL DEF Spec

(* Type correctness: in particular a caller holds a handle to join exactly
   while it joins, and a worker to ask exactly while it asks
   (prune_workers_at, request_json).                                        *)
THEOREM TypeCorrect == Spec => []TypeOK
  <1>1. IInv => TypeOK
    BY DEF IInv
  <1> QED BY <1>1, Invariance, PTL

(* A worker incarnation is owned once, by the map or by the one caller that
   evicted it and joins it, whatever pruning, retries, shutdowns and failed
   starts interleave (WorkerManager: prune_workers_at, shutdown,
   send_command, ensure_worker).                                            *)
THEOREM HandlesOwnedOnce == Spec => []HandleOwnedOnce
  <1>1. IInv => HandleOwnedOnce
    BY DEF IInv
  <1> QED BY <1>1, Invariance, PTL

(* A caller of request_json that waits is queued once, at a worker whose task
   has not returned, or its answer is there: no fault, exit or eviction
   leaves it waiting for a sender that is gone.                             *)
THEOREM WaitersServed == Spec => []WaitingIsServed
  <1>1. IInv => WaitingIsServed
    BY DEF IInv
  <1> QED BY <1>1, Invariance, PTL
=============================================================================
