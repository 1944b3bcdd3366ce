---------------------------- MODULE TurnServiceInv ----------------------------
(***************************************************************************)
(* The inductive invariant of TurnService: what has to be remembered about *)
(* tasks, requests and prompts for its safety properties to carry over     *)
(* from one step to the next.                                              *)
(***************************************************************************)
EXTENDS TurnService

AskingPcs == {"register", "show", "shown", "await"}

(* The approval closure of a turn holds a request of that turn from its    *)
(* insertion to its decision or to the cancellation of the turn.           *)
AskingTurns ==
  \A t \in Turns :
    IF pc[t] \in AskingPcs
    THEN cur[t] \in Requests /\ reqTurn[cur[t]] = t
    ELSE cur[t] = NoRequest

(* Every running task is tracked, or the loop took its handle to join it;  *)
(* while the loop joins, nothing new is tracked where it joins.            *)
TasksTracked ==
  /\ \A t \in Turns : Live(t) =>
       t \in tracked[Conv(t)] \/ (loopPc = "await" /\ t \in awaited)
  /\ loopPc = "await" => \/ /\ current.op \in {"SubmitTurn", "CompactConversation"}
                            /\ current.conv \in Conversations
                            /\ tracked[current.conv] = {}
                         \/ /\ current.op = "Shutdown"
                            /\ \A c \in Conversations : tracked[c] = {}

(* A request is pending from its insertion to its decision, and its turn   *)
(* then waits for it or is on its way to drain it.                         *)
RequestsAccounted ==
  \A r \in Requests :
    /\ reqTurn[r] = NoTurn => r \notin pending /\ reply[r] = "none"
    /\ reqTurn[r] # NoTurn => (r \in pending <=> reply[r] = "none")
    /\ r \in pending => LET t == reqTurn[r] IN
         \/ pc[t] \in AskingPcs /\ cur[t] = r
         \/ pc[t] \in {"finish", "post", "close"}

Decided(r) == reqTurn[r] # NoTurn /\ r \notin pending

(* Whoever is about to take a prompt off the display, other than a dropped *)
(* guard, does it for a request that is decided.                           *)
WithdrawnDecided ==
  /\ \A r \in loopDrained : Decided(r)
  /\ \A t \in Turns : \A r \in drained[t] : Decided(r)
  /\ loopPc \in {"resolveCore", "resolveView"} =>
       current.request \in Requests /\ Decided(current.request)

(* Nobody waits any more for a request that was let through or whose guard *)
(* was dropped.                                                            *)
LeftBehind ==
  \A r \in releases \cup approved :
    reqTurn[r] # NoTurn /\ \A t \in Turns : cur[t] # r

(* An undecided request is on display from the moment it was shown.        *)
PromptsShown ==
  \A t \in Turns : pc[t] \in {"shown", "await"} /\ cur[t] \in pending =>
    cur[t] \in view[Conv(t)].pending_requests

IInv ==
  /\ TypeOK /\ AskingTurns
  /\ TasksTracked /\ OneTaskPerConversation
  /\ RequestsAccounted /\ WithdrawnDecided /\ LeftBehind
  /\ PromptsShown /\ NoStalePrompt

-----------------------------------------------------------------------------
(* The active turn, where no command that waits for turns or discards a    *)
(* conversation is sent while a turn runs, and no reader asks for a status. *)

IsWaiting(i) == commands[i].op \in WaitingOps

(* One such command at most is under way, and no turn runs meanwhile.      *)
QuietLoop ==
  /\ \A i, j \in DOMAIN commands : IsWaiting(i) /\ IsWaiting(j) => i = j
  /\ (\E i \in DOMAIN commands : IsWaiting(i)) \/ loopPc \in {"await", "compact", "stopped"}
       => \A t \in Turns : ~Live(t)
  /\ loopPc \in {"await", "compact", "stopped"} =>
       \A i \in DOMAIN commands : ~IsWaiting(i)

Unstarted == {"idle", "start", "core"}

(* A turn is active from its start; one that left through `?` stays so.    *)
ActiveHasStarted ==
  /\ \A c \in Conversations : active[c] # NoTurn =>
       Conv(active[c]) = c /\ pc[active[c]] \notin Unstarted
  /\ \A t \in Turns : pc[t] = "finish" => active[Conv(t)] \in {t, NoTurn}
  /\ \A t \in recorded : pc[t] \in {"close", "settle", "viewfinish", "done"}

(* The core holds requests of the active turn, which has entered its chat. *)
CoreHoldsOwn ==
  \A c \in Conversations : \A r \in corePending[c] :
    /\ reqTurn[r] \in Turns /\ active[c] = reqTurn[r]
    /\ pc[reqTurn[r]] \in CorePcs \ {"load", "check"}

(* Between the two steps of a status, its turn is not followed by another. *)
StatusIsCurrent ==
  loopPc = "status" =>
    /\ current \in StatusRead
    /\ current.turn # NoTurn =>
         /\ Conv(current.turn) = current.conv /\ pc[current.turn] \notin Unstarted
         /\ \/ active[current.conv] = current.turn
            \/ /\ active[current.conv] = NoTurn
               /\ \A t \in Turns \ {current.turn} : Conv(t) = current.conv => ~Live(t)

QuietInv ==
  /\ QuietLoop /\ ActiveHasStarted /\ CoreHoldsOwn /\ StatusIsCurrent
  /\ RunningTurnIsActive
===============================================================================
