----------------------------- MODULE TurnService -----------------------------
(***************************************************************************)
(* One app server (crates/agent-app-server): the serial command loop, the  *)
(* turn task each submitted turn runs in, the approval round trip between  *)
(* a turn and the clients, interrupts, and the three places that remember  *)
(* a pending request: the server-request coordinator, the conversation     *)
(* state of agent-core and the facts of the conversation view.             *)
(*                                                                         *)
(* Every critical section of the code is one action, so that the loop, the *)
(* turn tasks and the detached tasks interleave between any two of them.   *)
(***************************************************************************)
EXTENDS ConversationView, Sequences, FiniteSets

CONSTANTS Conversations,
          ConversationOf,  (* the conversation each turn is submitted to   *)
          Readers,         (* handlers of typed requests, beside the loop  *)
          NoRequest,       (* no approval in progress                      *)
          MaxQueue,        (* bound on the command queue, unbounded in code *)
          AnswerRoom,      (* places beyond MaxQueue only answers may take *)
          Gate             (* which commands clients hold back, see Admits *)

ASSUME TurnServiceAssumption ==
  /\ NoTurn \notin Turns
  /\ NoRequest \notin Requests
  /\ ConversationOf \in [Turns -> Conversations]
  /\ MaxQueue \in Nat /\ AnswerRoom \in Nat
  /\ Gate \in {"open", "view", "quiet"}

Decisions == {"accept", "decline", "cancel"}

VARIABLES
  commands,     (* mpsc queue of client commands                           *)
  loopPc,       (* where the command loop is                               *)
  current,      (* the command the loop is handling                        *)
  awaited,      (* turn tasks the loop is joining                          *)
  loopDrained,  (* requests an interrupt drained, view not yet told        *)
  tracked,      (* turn tasks of each conversation (SessionTurnRegistry)   *)
  pc,           (* where each turn task is                                 *)
  cur,          (* the request a turn task is deciding                     *)
  drained,      (* requests a finished turn drained, view not yet told     *)
  active,       (* AgentState: the active turn (and token) of each entry   *)
  corePending,  (* AgentState: pending_requests of each entry              *)
  cancelled,    (* turns whose cancellation token was cancelled            *)
  recorded,     (* turns whose rollout may hold a terminal event           *)
  pending,      (* ServerRequestCoordinator.pending                        *)
  reqTurn,      (* turn_id of each request ever inserted                   *)
  reply,        (* what the oneshot channel of a request holds             *)
  approved,     (* requests whose tool call was let through                *)
  view,         (* ConversationRuntimeFacts of each conversation           *)
  startNotes,   (* detached tasks about to note TurnStarted                *)
  releases,     (* detached tasks of dropped request guards                *)
  reads         (* what each reader is doing                               *)

loopVars == <<commands, loopPc, current, awaited, loopDrained, tracked>>
turnVars == <<pc, cur, drained>>
coreVars == <<active, corePending, cancelled, recorded>>
requestVars == <<pending, reqTurn, reply, approved>>
viewVars == <<view, startNotes, releases, reads>>
vars == <<loopVars, turnVars, coreVars, requestVars, viewVars>>

Command ==
  [op : {"SubmitTurn", "InterruptTurn", "CompactConversation", "ResetConversation",
         "RequestConversationView"},
   conv : Conversations]
  \cup [op : {"ResolveServerRequest"}, request : Requests, decision : Decisions]
  \cup [op : {"Shutdown"}]

Idle == [op |-> "none"]

(* conversation_status, once it has read which turn is active.             *)
StatusRead == [op : {"conversation_status"}, conv : Conversations, turn : Turns \cup {NoTurn}]

(* What a reader has left to do once the core answered.                    *)
NoteRead == [op : {"note_loaded"}, conv : Conversations]

LoopPcs == {"recv", "await", "compact", "note", "drain", "publish",
            "resolveCore", "resolveView", "status", "loaded", "stopped"}

(* "idle" is a turn nobody submitted yet; "start" to "viewfinish" are the  *)
(* steps of a running task, in the order of spawn_turn.                    *)
CorePcs == {"load", "check", "run", "insert", "register", "show", "shown", "await", "finish"}
LivePcs == CorePcs \cup {"start", "core", "post", "close", "busy", "syserr", "settle", "viewfinish"}
TurnPcs == LivePcs \cup {"idle", "done"}

Live(t) == pc[t] \in LivePcs

TypeOK ==
  /\ commands \in Seq(Command)
  /\ loopPc \in LoopPcs
  /\ current \in Command \cup StatusRead \cup {Idle}
  /\ awaited \in SUBSET Turns
  /\ loopDrained \in SUBSET Requests
  /\ tracked \in [Conversations -> SUBSET Turns]
  /\ pc \in [Turns -> TurnPcs]
  /\ cur \in [Turns -> Requests \cup {NoRequest}]
  /\ drained \in [Turns -> SUBSET Requests]
  /\ active \in [Conversations -> Turns \cup {NoTurn}]
  /\ corePending \in [Conversations -> SUBSET Requests]
  /\ cancelled \in SUBSET Turns
  /\ recorded \in SUBSET Turns
  /\ pending \in SUBSET Requests
  /\ reqTurn \in [Requests -> Turns \cup {NoTurn}]
  /\ reply \in [Requests -> Decisions \cup {"none"}]
  /\ approved \in SUBSET Requests
  /\ view \in [Conversations -> Facts]
  /\ startNotes \in SUBSET Turns
  /\ releases \in SUBSET Requests
  /\ reads \in [Readers -> StatusRead \cup NoteRead \cup {Idle}]

Init ==
  /\ commands = <<>> /\ loopPc = "recv" /\ current = Idle
  /\ awaited = {} /\ loopDrained = {}
  /\ tracked = [c \in Conversations |-> {}]
  /\ pc = [t \in Turns |-> "idle"]
  /\ cur = [t \in Turns |-> NoRequest]
  /\ drained = [t \in Turns |-> {}]
  /\ active = [c \in Conversations |-> NoTurn]
  /\ corePending = [c \in Conversations |-> {}]
  /\ cancelled = {} /\ recorded = {}
  /\ pending = {}
  /\ reqTurn = [r \in Requests |-> NoTurn]
  /\ reply = [r \in Requests |-> "none"]
  /\ approved = {}
  /\ view = [c \in Conversations |-> NewFacts]
  /\ startNotes = {} /\ releases = {}
  /\ reads = [rd \in Readers |-> Idle]

-----------------------------------------------------------------------------
(* Clients.                                                                 *)

(* Commands whose handler waits for turn tasks, or that discard the state  *)
(* of a conversation.                                                      *)
WaitingOps == {"SubmitTurn", "CompactConversation", "ResetConversation", "Shutdown"}

Quiet ==
  /\ \A t \in Turns : ~Live(t)
  /\ \A i \in DOMAIN commands : commands[i].op \notin WaitingOps
  /\ loopPc \notin {"await", "compact", "stopped"}

(* Bounds the number of submissions by the number of turns of the model.   *)
TurnLeft(c) ==
  LET queued == {i \in DOMAIN commands : commands[i] = [op |-> "SubmitTurn", conv |-> c]}
      inLoop == IF loopPc = "await" /\ current = [op |-> "SubmitTurn", conv |-> c] THEN 1 ELSE 0
  IN  Cardinality({t \in Turns : pc[t] = "idle" /\ ConversationOf[t] = c})
        > Cardinality(queued) + inLoop

(* "open": clients send anything at any time.  "view": a turn is submitted *)
(* only while the view shows the conversation idle, as the node and the    *)
(* CLI do.  "quiet": nothing that waits for turns is sent while one runs.  *)
Admits(cmd) ==
  /\ cmd.op = "SubmitTurn" => TurnLeft(cmd.conv)
  /\ Gate = "view" /\ cmd.op = "SubmitTurn" => Status(view[cmd.conv]) # "Active"
  /\ Gate = "quiet" /\ cmd.op \in WaitingOps => Quiet
  /\ cmd.op = "ResolveServerRequest" => reqTurn[cmd.request] # NoTurn

(* No answer is held back only because other commands fill the bound.      *)
Room(cmd) == IF cmd.op = "ResolveServerRequest" THEN MaxQueue + AnswerRoom ELSE MaxQueue

Send(cmd) ==
  /\ loopPc # "stopped"
  /\ Len(commands) < Room(cmd)
  /\ Admits(cmd)
  /\ commands' = Append(commands, cmd)
  /\ UNCHANGED <<loopPc, current, awaited, loopDrained, tracked>>
  /\ UNCHANGED <<turnVars, coreVars, requestVars, viewVars>>

-----------------------------------------------------------------------------
(* The command loop.  Receive pops the next command and performs the first *)
(* critical section of its handler.                                        *)

Handle(op) ==
  /\ loopPc = "recv"
  /\ commands # <<>>
  /\ Head(commands).op = op
  /\ commands' = Tail(commands)

Enter(where) == loopPc' = where /\ current' = Head(commands)

Return == loopPc' = "recv" /\ current' = Idle

(* submit_turn and compact_conversation take the handles of the tracked    *)
(* tasks of the conversation and join them before anything else.           *)
ReceiveTurnWait ==
  /\ Handle("SubmitTurn") \/ Handle("CompactConversation")
  /\ LET c == Head(commands).conv IN
       /\ awaited' = tracked[c]
       /\ tracked' = [tracked EXCEPT ![c] = {}]
  /\ Enter("await")
  /\ UNCHANGED <<loopDrained, turnVars, coreVars, requestVars, viewVars>>

(* Exit and Shutdown join every tracked task.                              *)
ReceiveShutdown ==
  /\ Handle("Shutdown")
  /\ awaited' = UNION {tracked[c] : c \in Conversations}
  /\ tracked' = [c \in Conversations |-> {}]
  /\ Enter("await")
  /\ UNCHANGED <<loopDrained, turnVars, coreVars, requestVars, viewVars>>

TasksJoined == loopPc = "await" /\ \A t \in awaited : pc[t] = "done"

(* Mutant: submit_turn does not wait for the tasks it took.                *)
SpawnTurnAtOnce(t) ==
  /\ loopPc = "await"
  /\ current.op = "SubmitTurn"
  /\ ConversationOf[t] = current.conv
  /\ pc[t] = "idle"
  /\ pc' = [pc EXCEPT ![t] = "start"]
  /\ tracked' = [tracked EXCEPT ![current.conv] = {u \in @ : pc[u] # "done"} \cup {t}]
  /\ Return /\ awaited' = {}
  /\ UNCHANGED <<commands, loopDrained>>
  /\ UNCHANGED <<cur, drained, coreVars, requestVars, viewVars>>

SpawnTurn(t) ==
  /\ TasksJoined
  /\ current.op = "SubmitTurn"
  /\ ConversationOf[t] = current.conv
  /\ pc[t] = "idle"
  /\ pc' = [pc EXCEPT ![t] = "start"]
  /\ tracked' = [tracked EXCEPT ![current.conv] = {u \in @ : pc[u] # "done"} \cup {t}]
  /\ Return /\ awaited' = {}
  /\ UNCHANGED <<commands, loopDrained>>
  /\ UNCHANGED <<cur, drained, coreVars, requestVars, viewVars>>

StartCompaction ==
  /\ TasksJoined
  /\ current.op = "CompactConversation"
  /\ view' = [view EXCEPT ![current.conv] = CompactionStarted(@)]
  /\ loopPc' = "compact" /\ awaited' = {}
  /\ UNCHANGED <<commands, current, loopDrained, tracked>>
  /\ UNCHANGED <<turnVars, coreVars, requestVars, startNotes, releases, reads>>

(* A compaction that fails returns through `?` and leaves the flag set.    *)
EndCompaction ==
  /\ loopPc = "compact"
  /\ \/ view' = [view EXCEPT ![current.conv] = CompactionFinished(@)]
     \/ UNCHANGED view
  /\ Return
  /\ UNCHANGED <<commands, awaited, loopDrained, tracked>>
  /\ UNCHANGED <<turnVars, coreVars, requestVars, startNotes, releases, reads>>

StopLoop ==
  /\ TasksJoined
  /\ current.op = "Shutdown"
  /\ loopPc' = "stopped" /\ current' = Idle /\ awaited' = {}
  /\ UNCHANGED <<commands, loopDrained, tracked>>
  /\ UNCHANGED <<turnVars, coreVars, requestVars, viewVars>>

(* interrupt_turn: cancel the token of the active turn, if any; without    *)
(* one the handler only replays the view and answers NoActiveTurn.         *)
ReceiveInterrupt ==
  /\ Handle("InterruptTurn")
  /\ LET t == active[Head(commands).conv] IN
       IF t = NoTurn
       THEN Return /\ UNCHANGED cancelled
       ELSE Enter("note") /\ cancelled' = cancelled \cup {t}
  /\ UNCHANGED <<awaited, loopDrained, tracked, active, corePending, recorded>>
  /\ UNCHANGED <<turnVars, requestVars, viewVars>>

NoteInterrupt ==
  /\ loopPc = "note"
  /\ view' = [view EXCEPT ![current.conv] = InterruptRequested(@)]
  /\ loopPc' = "drain"
  /\ UNCHANGED <<commands, current, awaited, loopDrained, tracked>>
  /\ UNCHANGED <<turnVars, coreVars, requestVars, startNotes, releases, reads>>

ConversationRequests(c) ==
  {r \in pending : reqTurn[r] # NoTurn /\ ConversationOf[reqTurn[r]] = c}

(* drain_turn and drain_conversation: each request drained is answered     *)
(* with a cancel decision.                                                 *)
Drain(R) ==
  /\ pending' = pending \ R
  /\ reply' = [r \in Requests |-> IF r \in R THEN "cancel" ELSE reply[r]]
  /\ UNCHANGED <<reqTurn, approved>>

DrainConversation ==
  /\ loopPc = "drain"
  /\ loopDrained' = ConversationRequests(current.conv)
  /\ Drain(ConversationRequests(current.conv))
  /\ loopPc' = "publish"
  /\ UNCHANGED <<commands, current, awaited, tracked>>
  /\ UNCHANGED <<turnVars, coreVars, viewVars>>

(* Mutant: a drained prompt is taken off the display once it is there.     *)
PublishDrainedOnceShown ==
  /\ loopPc = "publish"
  /\ IF loopDrained = {}
     THEN Return /\ UNCHANGED <<loopDrained, view>>
     ELSE \E r \in loopDrained \cap view[current.conv].pending_requests :
            /\ loopDrained' = loopDrained \ {r}
            /\ view' = [view EXCEPT ![current.conv] = RequestResolved(@, r)]
            /\ UNCHANGED <<loopPc, current>>
  /\ UNCHANGED <<commands, awaited, tracked>>
  /\ UNCHANGED <<turnVars, coreVars, requestVars, startNotes, releases, reads>>

PublishDrained ==
  /\ loopPc = "publish"
  /\ IF loopDrained = {}
     THEN Return /\ UNCHANGED <<loopDrained, view>>
     ELSE \E r \in loopDrained :
            /\ loopDrained' = loopDrained \ {r}
            /\ view' = [view EXCEPT ![current.conv] = RequestResolved(@, r)]
            /\ UNCHANGED <<loopPc, current>>
  /\ UNCHANGED <<commands, awaited, tracked>>
  /\ UNCHANGED <<turnVars, coreVars, requestVars, startNotes, releases, reads>>

(* Mutant: the decision is not sent to the turn that waits for it.         *)
ReceiveResolveSilently ==
  /\ Handle("ResolveServerRequest")
  /\ LET r == Head(commands).request IN
       IF r \in pending
       THEN pending' = pending \ {r} /\ Enter("resolveCore")
       ELSE Return /\ UNCHANGED pending
  /\ UNCHANGED <<awaited, loopDrained, tracked, reqTurn, reply, approved>>
  /\ UNCHANGED <<turnVars, coreVars, viewVars>>

(* resolve_command: a request that is not pending is ignored.              *)
ReceiveResolve ==
  /\ Handle("ResolveServerRequest")
  /\ LET r == Head(commands).request
         d == Head(commands).decision IN
       IF r \in pending
       THEN /\ pending' = pending \ {r}
            /\ reply' = [reply EXCEPT ![r] = d]
            /\ Enter("resolveCore")
       ELSE Return /\ UNCHANGED <<pending, reply>>
  /\ UNCHANGED <<awaited, loopDrained, tracked, reqTurn, approved>>
  /\ UNCHANGED <<turnVars, coreVars, viewVars>>

ResolvedConversation == ConversationOf[reqTurn[current.request]]

ResolveCore ==
  /\ loopPc = "resolveCore"
  /\ corePending' = [corePending EXCEPT ![ResolvedConversation] = @ \ {current.request}]
  /\ loopPc' = "resolveView"
  /\ UNCHANGED <<commands, current, awaited, loopDrained, tracked>>
  /\ UNCHANGED <<turnVars, active, cancelled, recorded, requestVars, viewVars>>

ResolveView ==
  /\ loopPc = "resolveView"
  /\ view' = [view EXCEPT ![ResolvedConversation] = RequestResolved(@, current.request)]
  /\ Return
  /\ UNCHANGED <<commands, awaited, loopDrained, tracked>>
  /\ UNCHANGED <<turnVars, coreVars, requestVars, startNotes, releases, reads>>

(* reset, delete and archive drop the whole entry of AgentState, and the   *)
(* rollout, whether or not a turn is running in the conversation.          *)
ReceiveReset ==
  /\ Handle("ResetConversation")
  /\ active' = [active EXCEPT ![Head(commands).conv] = NoTurn]
  /\ corePending' = [corePending EXCEPT ![Head(commands).conv] = {}]
  /\ recorded' = {t \in recorded : ConversationOf[t] # Head(commands).conv}
  /\ Return
  /\ UNCHANGED <<awaited, loopDrained, tracked, cancelled>>
  /\ UNCHANGED <<turnVars, requestVars, viewVars>>

(* conversation_status first reads which turn is active.                   *)
StatusOf(c) == [op |-> "conversation_status", conv |-> c, turn |-> active[c]]

(* The commands that hydrate the view of a conversation (view, history,    *)
(* subscribe, switch) ask the core for its status first.                   *)
ReceiveRequestView ==
  /\ Handle("RequestConversationView")
  /\ current' = StatusOf(Head(commands).conv)
  /\ loopPc' = "status"
  /\ UNCHANGED <<awaited, loopDrained, tracked>>
  /\ UNCHANGED <<turnVars, coreVars, requestVars, viewVars>>

ClearActiveTurn(c) ==
  /\ active' = [active EXCEPT ![c] = NoTurn]
  /\ corePending' = [corePending EXCEPT ![c] =
                       {r \in @ : active[c] = NoTurn \/ reqTurn[r] # active[c]}]
  /\ UNCHANGED <<cancelled, recorded>>

(* A turn emits its terminal event before or after finish_turn clears it;   *)
(* a turn that left through `?` in between has none.                       *)
OnRecord(t) == t \in recorded \/ pc[t] \in {"finish", "post"}

(* Mutant: the rollout is not asked whether the turn has ended.            *)
StatusAnsweredBlindly(read) ==
  \/ UNCHANGED coreVars
  \/ read.turn # NoTurn /\ ClearActiveTurn(read.conv)

(* When the turn that was read has ended, whatever turn is active by now   *)
(* is cleared.                                                              *)
StatusAnswered(read) ==
  \/ UNCHANGED coreVars
  \/ read.turn # NoTurn /\ OnRecord(read.turn) /\ ClearActiveTurn(read.conv)

ReadStatus ==
  /\ loopPc = "status"
  /\ StatusAnswered(current)
  /\ loopPc' = "loaded"
  /\ UNCHANGED <<commands, current, awaited, loopDrained, tracked>>
  /\ UNCHANGED <<turnVars, requestVars, viewVars>>

NoteLoaded ==
  /\ loopPc = "loaded"
  /\ view' = [view EXCEPT ![current.conv] = MarkLoaded(@)]
  /\ Return
  /\ UNCHANGED <<commands, awaited, loopDrained, tracked>>
  /\ UNCHANGED <<turnVars, coreVars, requestVars, startNotes, releases, reads>>

LoopStep ==
  \/ ReceiveTurnWait \/ ReceiveShutdown \/ ReceiveInterrupt \/ ReceiveResolve
  \/ ReceiveRequestView \/ ReadStatus \/ NoteLoaded
  \/ ReceiveReset \/ StartCompaction \/ EndCompaction \/ StopLoop
  \/ NoteInterrupt \/ DrainConversation \/ PublishDrained
  \/ ResolveCore \/ ResolveView
  \/ \E t \in Turns : SpawnTurn(t)

-----------------------------------------------------------------------------
(* The turn task (spawn_turn), with the parts of run_turn_with_approval    *)
(* and authorize_tool_call that touch shared state.                        *)

Goto(t, from, to) == pc[t] = from /\ pc' = [pc EXCEPT ![t] = to]

Conv(t) == ConversationOf[t]

NoteTurnStarting(t) ==
  /\ Goto(t, "start", "core")
  /\ view' = [view EXCEPT ![Conv(t)] = TurnStarting(@)]
  /\ UNCHANGED <<cur, drained>>
  /\ UNCHANGED <<loopVars, coreVars, requestVars, startNotes, releases, reads>>

StartTurn(t) ==
  /\ active[Conv(t)] = NoTurn
  /\ Goto(t, "core", "load")
  /\ active' = [active EXCEPT ![Conv(t)] = t]
  /\ UNCHANGED <<cur, drained, corePending, cancelled, recorded>>
  /\ UNCHANGED <<loopVars, requestVars, viewVars>>

RefuseBusy(t) ==
  /\ active[Conv(t)] # NoTurn
  /\ Goto(t, "core", "busy")
  /\ UNCHANGED <<cur, drained, loopVars, coreVars, requestVars, viewVars>>

(* load_history, save_history or persist_rollout_items fails: `?` leaves   *)
(* run_turn_with_approval without finish_turn.                             *)
LoadFails(t) ==
  /\ Goto(t, "load", "syserr")
  /\ UNCHANGED <<cur, drained, loopVars, coreVars, requestVars, viewVars>>

(* The event callback detaches a task that will note the start.            *)
EmitTurnStarted(t) ==
  /\ Goto(t, "load", "check")
  /\ startNotes' = startNotes \cup {t}
  /\ UNCHANGED <<cur, drained, view, releases, reads>>
  /\ UNCHANGED <<loopVars, coreVars, requestVars>>

(* A turn interrupted before it ran is aborted; when the abort marker      *)
(* cannot be saved, `?` skips finish_turn once more.                       *)
EnterChat(t) ==
  /\ t \notin cancelled
  /\ Goto(t, "check", "run")
  /\ UNCHANGED <<cur, drained>>
  /\ UNCHANGED <<loopVars, coreVars, requestVars, viewVars>>

AbortTurn(t) ==
  /\ t \in cancelled
  /\ Goto(t, "check", "finish") \/ Goto(t, "check", "close")
  /\ UNCHANGED <<cur, drained, loopVars, coreVars, requestVars, viewVars>>

(* The turn ends in the chat loop: the model is done, or failed.           *)
EndChat(t) ==
  /\ Goto(t, "run", "finish")
  /\ UNCHANGED <<cur, drained, loopVars, coreVars, requestVars, viewVars>>

(* A tool call needs an approval; the batch checked the token before it.   *)
RequestApproval(t) ==
  /\ t \notin cancelled
  /\ \E r \in Requests : reqTurn[r] = NoTurn   \* bound on the requests of a run
  /\ Goto(t, "run", "insert")
  /\ UNCHANGED <<cur, drained>>
  /\ UNCHANGED <<loopVars, coreVars, requestVars, viewVars>>

InsertPending(t, r) ==
  /\ Goto(t, "insert", "register")
  /\ reqTurn[r] = NoTurn
  /\ pending' = pending \cup {r}
  /\ reqTurn' = [reqTurn EXCEPT ![r] = t]
  /\ cur' = [cur EXCEPT ![t] = r]
  /\ UNCHANGED <<reply, approved, drained>>
  /\ UNCHANGED <<loopVars, coreVars, viewVars>>

RegisterPending(t) ==
  /\ Goto(t, "register", "show")
  /\ corePending' = [corePending EXCEPT ![Conv(t)] = @ \cup {cur[t]}]
  /\ UNCHANGED <<cur, drained, active, cancelled, recorded>>
  /\ UNCHANGED <<loopVars, requestVars, viewVars>>

ShowPending(t) ==
  /\ Goto(t, "show", "shown")
  /\ view' = [view EXCEPT ![Conv(t)] = RequestPending(@, cur[t])]
  /\ UNCHANGED <<cur, drained>>
  /\ UNCHANGED <<loopVars, coreVars, requestVars, startNotes, releases, reads>>

(* The view change is published, the guard exists and the request is sent. *)
SendRequest(t) ==
  /\ Goto(t, "shown", "await")
  /\ UNCHANGED <<cur, drained>>
  /\ UNCHANGED <<loopVars, coreVars, requestVars, viewVars>>

(* Mutant: the request is forgotten before its tool call is let through.   *)
TakeDecisionForgetting(t) ==
  /\ pc[t] = "await"
  /\ reply[cur[t]] # "none"
  /\ pc' = [pc EXCEPT ![t] = IF reply[cur[t]] = "cancel" THEN "finish" ELSE "run"]
  /\ cur' = [cur EXCEPT ![t] = NoRequest]
  /\ approved' = IF reply[cur[t]] = "accept" THEN approved \cup {cur'[t]} ELSE approved
  /\ releases' = releases \cup {cur[t]}
  /\ UNCHANGED <<drained, pending, reqTurn, reply, view, startNotes, reads>>
  /\ UNCHANGED <<loopVars, coreVars>>

(* The decision arrives first; dropping the guard detaches its release.    *)
TakeDecision(t) ==
  /\ pc[t] = "await"
  /\ reply[cur[t]] # "none"
  /\ pc' = [pc EXCEPT ![t] = IF reply[cur[t]] = "cancel" THEN "finish" ELSE "run"]
  /\ approved' = IF reply[cur[t]] = "accept" THEN approved \cup {cur[t]} ELSE approved
  /\ releases' = releases \cup {cur[t]}
  /\ cur' = [cur EXCEPT ![t] = NoRequest]
  /\ UNCHANGED <<drained, pending, reqTurn, reply, view, startNotes, reads>>
  /\ UNCHANGED <<loopVars, coreVars>>

(* Mutant: the wait for a decision does not look at the token.             *)
ObserveCancelNotWaiting(t) ==
  /\ t \in cancelled
  /\ pc[t] \in {"run", "insert", "show", "shown"}
  /\ pc' = [pc EXCEPT ![t] = "finish"]
  /\ cur' = [cur EXCEPT ![t] = NoRequest]
  /\ UNCHANGED <<drained, viewVars>>
  /\ UNCHANGED <<loopVars, coreVars, requestVars>>

(* The cancellation token wins the select: the approval future is dropped  *)
(* where it stands, with its guard if it already had one, and the chat     *)
(* loop ends with an interruption.                                         *)
ObserveCancel(t) ==
  /\ t \in cancelled
  /\ pc[t] \in {"run", "insert", "show", "shown", "await"}
  /\ pc' = [pc EXCEPT ![t] = "finish"]
  /\ releases' = IF pc[t] = "await" THEN releases \cup {cur[t]} ELSE releases
  /\ cur' = [cur EXCEPT ![t] = NoRequest]
  /\ UNCHANGED <<drained, view, startNotes, reads>>
  /\ UNCHANGED <<loopVars, coreVars, requestVars>>

(* Mutant: finish_turn forgets the pending requests of the turn.           *)
FinishTurnKeeping(t) ==
  /\ Goto(t, "finish", "post")
  /\ active' = [active EXCEPT ![Conv(t)] = NoTurn]
  /\ UNCHANGED <<cur, drained, corePending, cancelled, recorded>>
  /\ UNCHANGED <<loopVars, requestVars, viewVars>>

(* finish_turn clears whatever turn is active in the conversation, with    *)
(* the pending requests of that turn.                                      *)
FinishTurn(t) ==
  /\ Goto(t, "finish", "post")
  /\ ClearActiveTurn(Conv(t))
  /\ UNCHANGED <<cur, drained>>
  /\ UNCHANGED <<loopVars, requestVars, viewVars>>

(* The history is saved and the rollout flushed; whether or not that fails, *)
(* the task goes on to drain the requests of the turn.                     *)
SaveOutcome(t) ==
  /\ Goto(t, "post", "close")
  /\ recorded' = recorded \cup {t}
  /\ UNCHANGED <<cur, drained, active, corePending, cancelled>>
  /\ UNCHANGED <<loopVars, requestVars, viewVars>>

TurnRequests(t) == {r \in pending : reqTurn[r] = t}

(* Mutant: a turn that ends leaves its requests pending.                   *)
DrainTurnNot(t) ==
  /\ Goto(t, "close", "settle")
  /\ UNCHANGED <<cur, drained, loopVars, coreVars, requestVars, viewVars>>

DrainTurn(t) ==
  /\ Goto(t, "close", "settle")
  /\ drained' = [drained EXCEPT ![t] = TurnRequests(t)]
  /\ Drain(TurnRequests(t))
  /\ UNCHANGED <<cur, loopVars, coreVars, viewVars>>

NoteSystemError(t) ==
  /\ Goto(t, "busy", "viewfinish") \/ Goto(t, "syserr", "viewfinish")
  /\ view' = [view EXCEPT ![Conv(t)] = SystemError(@)]
  /\ UNCHANGED <<cur, drained>>
  /\ UNCHANGED <<loopVars, coreVars, requestVars, startNotes, releases, reads>>

SettleDrained(t) ==
  /\ pc[t] = "settle"
  /\ IF drained[t] = {}
     THEN pc' = [pc EXCEPT ![t] = "viewfinish"] /\ UNCHANGED <<drained, view>>
     ELSE \E r \in drained[t] :
            /\ drained' = [drained EXCEPT ![t] = @ \ {r}]
            /\ view' = [view EXCEPT ![Conv(t)] = RequestResolved(@, r)]
            /\ UNCHANGED pc
  /\ UNCHANGED <<cur>>
  /\ UNCHANGED <<loopVars, coreVars, requestVars, startNotes, releases, reads>>

NoteTurnFinished(t) ==
  /\ Goto(t, "viewfinish", "done")
  /\ view' = [view EXCEPT ![Conv(t)] = TurnFinished(@)]
  /\ UNCHANGED <<cur, drained>>
  /\ UNCHANGED <<loopVars, coreVars, requestVars, startNotes, releases, reads>>

TurnStep(t) ==
  \/ NoteTurnStarting(t) \/ StartTurn(t) \/ RefuseBusy(t) \/ LoadFails(t)
  \/ EmitTurnStarted(t) \/ EnterChat(t) \/ EndChat(t) \/ RequestApproval(t)
  \/ \E r \in Requests : InsertPending(t, r)
  \/ RegisterPending(t) \/ ShowPending(t) \/ SendRequest(t) \/ TakeDecision(t)
  \/ ObserveCancel(t) \/ FinishTurn(t) \/ SaveOutcome(t) \/ AbortTurn(t)
  \/ DrainTurn(t) \/ NoteSystemError(t) \/ SettleDrained(t) \/ NoteTurnFinished(t)

-----------------------------------------------------------------------------
(* Typed requests for a view: the task that reads the pipe answers them by *)
(* itself, while the loop goes on with the commands it was handed.         *)

BeginRead(rd, c) ==
  /\ reads[rd] = Idle
  /\ reads' = [reads EXCEPT ![rd] = StatusOf(c)]
  /\ UNCHANGED <<view, startNotes, releases>>
  /\ UNCHANGED <<loopVars, turnVars, coreVars, requestVars>>

FinishRead(rd) ==
  /\ reads[rd].op = "conversation_status"
  /\ StatusAnswered(reads[rd])
  /\ reads' = [reads EXCEPT ![rd] = [op |-> "note_loaded", conv |-> @.conv]]
  /\ UNCHANGED <<view, startNotes, releases>>
  /\ UNCHANGED <<loopVars, turnVars, requestVars>>

LoadRead(rd) ==
  /\ reads[rd].op = "note_loaded"
  /\ view' = [view EXCEPT ![reads[rd].conv] = MarkLoaded(@)]
  /\ reads' = [reads EXCEPT ![rd] = Idle]
  /\ UNCHANGED <<startNotes, releases>>
  /\ UNCHANGED <<loopVars, turnVars, coreVars, requestVars>>

ReadStep(rd) ==
  \/ \E c \in Conversations : BeginRead(rd, c)
  \/ FinishRead(rd) \/ LoadRead(rd)

-----------------------------------------------------------------------------
(* Detached tasks.                                                          *)

NoteTurnStarted(t) ==
  /\ t \in startNotes
  /\ startNotes' = startNotes \ {t}
  /\ view' = [view EXCEPT ![Conv(t)] = TurnStarted(@, t)]
  /\ UNCHANGED <<releases, reads, loopVars, turnVars, coreVars, requestVars>>

ReleaseGuard(r) ==
  /\ r \in releases
  /\ releases' = releases \ {r}
  /\ view' = [view EXCEPT ![Conv(reqTurn[r])] = RequestResolved(@, r)]
  /\ UNCHANGED <<startNotes, reads, loopVars, turnVars, coreVars, requestVars>>

DetachedStep ==
  \/ \E t \in Turns : NoteTurnStarted(t)
  \/ \E r \in Requests : ReleaseGuard(r)

Next ==
  \/ \E cmd \in Command : Send(cmd)
  \/ LoopStep
  \/ \E t \in Turns : TurnStep(t)
  \/ DetachedStep
  \/ \E rd \in Readers : ReadStep(rd)

Spec == Init /\ [][Next]_vars

(* The runtime polls every task that can proceed, and a model call returns  *)
(* or fails in the end.  Nothing obliges a client to send anything.        *)
Fairness ==
  /\ WF_vars(LoopStep)
  /\ \A t \in Turns : WF_vars(TurnStep(t))
  /\ WF_vars(DetachedStep)

FairSpec == Spec /\ Fairness

(* A user who answers every prompt: strong fairness, because the bound on   *)
(* the queue may close and reopen it to the answer.                        *)
Answer(r) ==
  /\ r \in pending
  /\ \E d \in Decisions :
       Send([op |-> "ResolveServerRequest", request |-> r, decision |-> d])

AnsweringSpec == FairSpec /\ \A r \in Requests : SF_vars(Answer(r))

-----------------------------------------------------------------------------
(* Properties.                                                              *)

(* Two turns of one conversation never run at the same time, even when the *)
(* conversation is reset under a running turn: start_turn would then let a *)
(* second one in, and the first one's finish_turn would clear it.  Only    *)
(* the join in submit_turn prevents it.                                    *)
OneTaskPerConversation ==
  \A t, u \in Turns : t # u /\ Conv(t) = Conv(u) => ~(Live(t) /\ Live(u))

(* A turn that is blocked on an undecided request can still be unblocked:  *)
(* the coordinator holds the sender of its reply, and the view every       *)
(* client renders lists the prompt.                                        *)
NoHiddenPrompt ==
  \A t \in Turns : pc[t] = "await" /\ reply[cur[t]] = "none" =>
    /\ cur[t] \in pending
    /\ cur[t] \in view[Conv(t)].pending_requests

(* No prompt is left on display once the turns of its conversation are     *)
(* over, not even one answered before it was shown and then abandoned.     *)
NoStalePrompt ==
  \A c \in Conversations :
    (\A t \in Turns : Conv(t) = c => ~Live(t)) => view[c].pending_requests = {}

(* The core's record of a pending request belongs to the turn that runs.   *)
(* It holds as long as nobody resets a conversation under a running turn.  *)
CorePendingIsOfRunningTurn ==
  \A c \in Conversations : \A r \in corePending[c] :
    /\ pc[reqTurn[r]] \in CorePcs
    /\ active[c] = reqTurn[r]

(* While the chat of a turn runs, an interrupt finds it: the core has it   *)
(* as the active turn of its conversation.  It holds as long as nobody     *)
(* resets a conversation under a running turn and only the command loop    *)
(* asks for a status.                                                      *)
RunningTurnIsActive ==
  \A t \in Turns : pc[t] \in CorePcs \ {"finish"} => active[Conv(t)] = t

(* Server requests keep the contract of ApprovalContract.                  *)
RequestStatus ==
  [r \in Requests |-> IF reqTurn[r] = NoTurn THEN "unborn"
                      ELSE IF r \in pending THEN "open" ELSE reply[r]]

EndedTurns == {t \in Turns : pc[t] = "done"}

Contract ==
  INSTANCE ApprovalContract WITH
    status <- RequestStatus, owner <- reqTurn, ended <- EndedTurns

KeepsContract == Contract!Spec

(* Once its token is cancelled a turn comes to an end, wherever it stands  *)
(* in its approval round trip and whatever else clients send.              *)
InterruptedTurnEnds ==
  \A t \in Turns : t \in cancelled /\ Live(t) ~> pc[t] = "done"

(* When the user answers every prompt and no command waits for a running   *)
(* turn, every turn comes to an end.                                       *)
EveryTurnEnds == \A t \in Turns : Live(t) ~> pc[t] = "done"

(* What the CLI tells a user whose turn waits for an approval: "wait,      *)
(* answer the pending request, or interrupt first".  An answer and an      *)
(* interrupt are commands, so the loop must get back to receiving them.    *)
LoopReturns == loopPc # "recv" ~> loopPc \in {"recv", "stopped"}

(* Once the turns of a conversation are over and no task is left to report *)
(* on them, its view is not Active.                                        *)
TerminalTurnClearsActive ==
  \A c \in Conversations :
    (\A t \in Turns : Conv(t) = c => ~Live(t)) /\ startNotes = {} /\ releases = {}
      => Status(view[c]) # "Active"
==============================================================================
