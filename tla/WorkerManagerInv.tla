--------------------------- MODULE WorkerManagerInv ---------------------------
(***************************************************************************)
(* The inductive invariant of WorkerManager.  Handles are owned once only  *)
(* because a worker that is started anew is in nobody's hands; callers are *)
(* served only because a queue names each of them once, and only them.     *)
(***************************************************************************)
EXTENDS WorkerManager

(* A caller away from its select loop is there for a command. *)
BusyHasCommand == \A s \in Callers : pc[s] # "idle" => command[s] # "none"

(* Nobody holds a worker that was not started. *)
UnbornIsFree ==
  \A w \in Workers : task[w] = "unborn" =>
    /\ ~SenderOpen(w)
    /\ \A s \in Callers : joining[s] # w /\ target[s] # w

IInv ==
  /\ TypeOK
  /\ BusyHasCommand
  /\ HandleOwnedOnce
  /\ UnbornIsFree
  /\ WaitingIsServed
===============================================================================
