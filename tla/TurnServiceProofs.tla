-------------------------- MODULE TurnServiceProofs --------------------------
(***************************************************************************)
(* What holds of the app server for every set of turns, requests and       *)
(* conversations, every bound and every gate: type correctness, that one   *)
(* conversation never runs two turns at a time, what an interrupt finds,   *)
(* and that the app server implements ApprovalContract.                    *)
(***************************************************************************)
EXTENDS TurnServiceInv, TLAPS

(* Every update of the view manager yields facts.                          *)
LEMMA FactsUpdates ==
  ASSUME NEW f \in Facts
  PROVE  /\ MarkLoaded(f) \in Facts /\ TurnStarting(f) \in Facts
         /\ TurnFinished(f) \in Facts /\ InterruptRequested(f) \in Facts
         /\ CompactionStarted(f) \in Facts /\ CompactionFinished(f) \in Facts
         /\ SystemError(f) \in Facts
         /\ \A t \in Turns : TurnStarted(f, t) \in Facts
         /\ \A r \in Requests : RequestPending(f, r) \in Facts
         /\ \A r : RequestResolved(f, r) \in Facts
  BY DEF Facts, MarkLoaded, TurnStarting, TurnStarted, TurnFinished, RequestPending,
         RequestResolved, InterruptRequested, CompactionStarted, CompactionFinished,
         SystemError

(* The command a handler works on is one that was sent.                    *)
LEMMA HandledCommand ==
  ASSUME TypeOK, NEW op, Handle(op)
  PROVE  /\ Head(commands) \in Command
         /\ Head(commands).op = op
         /\ commands' \in Seq(Command)
  <1>1. commands \in Seq(Command) /\ commands # <<>>
    BY DEF TypeOK, Handle
  <1>2. Head(commands) \in Command /\ Tail(commands) \in Seq(Command)
    BY <1>1
  <1> QED BY <1>2 DEF Handle

(* A command about a conversation names one; an answer names a request.    *)
LEMMA CommandFields ==
  ASSUME NEW cmd \in Command
  PROVE  /\ cmd.op \notin {"ResolveServerRequest", "Shutdown"} => cmd.conv \in Conversations
         /\ cmd.op = "ResolveServerRequest" => cmd.request \in Requests /\ cmd.decision \in Decisions
         /\ cmd.op # "conversation_status"
  BY DEF Command

LEMMA TypeInit == Init => TypeOK
  <1> SUFFICES ASSUME Init PROVE TypeOK
    OBVIOUS
  <1>1. NewFacts \in Facts
    BY DEF NewFacts, Facts
  <1>2. commands \in Seq(Command) /\ current \in Command \cup StatusRead \cup {Idle}
    BY DEF Init
  <1> QED BY <1>1, <1>2 DEF Init, TypeOK, LoopPcs, TurnPcs

LEMMA TypeSend ==
  ASSUME TypeOK, NEW cmd \in Command, Send(cmd)
  PROVE  TypeOK'
  <1>1. commands' \in Seq(Command)
    BY DEF TypeOK, Send
  <1> QED BY <1>1 DEF TypeOK, Send, turnVars, coreVars, requestVars, viewVars

LEMMA TypeLoop ==
  ASSUME TypeOK, LoopStep
  PROVE  TypeOK'
  <1> USE DEF turnVars, coreVars, requestVars, viewVars
  <1>1. ASSUME ReceiveTurnWait \/ ReceiveShutdown PROVE TypeOK'
    <2>1. Head(commands) \in Command /\ commands' \in Seq(Command)
      BY <1>1, HandledCommand DEF ReceiveTurnWait, ReceiveShutdown
    <2>2. CASE ReceiveTurnWait
      <3>1. Head(commands).conv \in Conversations
        BY <2>1, <2>2, HandledCommand, CommandFields DEF ReceiveTurnWait
      <3> QED BY <2>1, <2>2, <3>1 DEF TypeOK, ReceiveTurnWait, Enter, LoopPcs
    <2>3. CASE ReceiveShutdown
      BY <2>1, <2>3 DEF TypeOK, ReceiveShutdown, Enter, LoopPcs
    <2> QED BY <1>1, <2>2, <2>3
  <1>2. ASSUME ReceiveInterrupt PROVE TypeOK'
    <2>1. Head(commands) \in Command /\ commands' \in Seq(Command)
          /\ Head(commands).conv \in Conversations
      BY <1>2, HandledCommand, CommandFields DEF ReceiveInterrupt
    <2>2. active[Head(commands).conv] \in Turns \cup {NoTurn}
      BY <2>1 DEF TypeOK
    <2> QED BY <1>2, <2>1, <2>2 DEF TypeOK, ReceiveInterrupt, Enter, Return, LoopPcs
  <1>3. ASSUME ReceiveResolve PROVE TypeOK'
    <2>1. Head(commands) \in Command /\ commands' \in Seq(Command)
          /\ Head(commands).decision \in Decisions
      BY <1>3, HandledCommand, CommandFields DEF ReceiveResolve
    <2> QED BY <1>3, <2>1 DEF TypeOK, ReceiveResolve, Enter, Return, LoopPcs
  <1>4. ASSUME ReceiveReset PROVE TypeOK'
    <2>1. commands' \in Seq(Command)
      BY <1>4, HandledCommand DEF ReceiveReset
    <2> QED BY <1>4, <2>1 DEF TypeOK, ReceiveReset, Return, LoopPcs
  <1>5. ASSUME ReceiveRequestView PROVE TypeOK'
    <2>1. commands' \in Seq(Command) /\ Head(commands).conv \in Conversations
      BY <1>5, HandledCommand, CommandFields DEF ReceiveRequestView
    <2>2. active[Head(commands).conv] \in Turns \cup {NoTurn}
      BY <2>1 DEF TypeOK
    <2>3. current' \in StatusRead
      BY <1>5, <2>1, <2>2 DEF ReceiveRequestView, StatusOf, StatusRead
    <2> QED BY <1>5, <2>1, <2>3 DEF TypeOK, ReceiveRequestView, LoopPcs
  <1>6. ASSUME ReadStatus PROVE TypeOK'
    BY <1>6 DEF TypeOK, ReadStatus, StatusAnswered, ClearActiveTurn, LoopPcs
  <1>7. ASSUME NoteLoaded PROVE TypeOK'
    <2>1. view' \in [Conversations -> Facts]
      BY <1>7, FactsUpdates DEF TypeOK, NoteLoaded
    <2> QED BY <1>7, <2>1 DEF TypeOK, NoteLoaded, Return, LoopPcs
  <1>8. ASSUME NEW t \in Turns, SpawnTurn(t) PROVE TypeOK'
    BY <1>8 DEF TypeOK, SpawnTurn, Return, LoopPcs, TurnPcs, LivePcs
  <1>9. ASSUME StartCompaction PROVE TypeOK'
    <2>1. view' \in [Conversations -> Facts]
      BY <1>9, FactsUpdates DEF TypeOK, StartCompaction
    <2> QED BY <1>9, <2>1 DEF TypeOK, StartCompaction, LoopPcs
  <1>10. ASSUME EndCompaction PROVE TypeOK'
    <2>1. view' \in [Conversations -> Facts]
      BY <1>10, FactsUpdates DEF TypeOK, EndCompaction
    <2> QED BY <1>10, <2>1 DEF TypeOK, EndCompaction, Return, LoopPcs
  <1>11. ASSUME StopLoop PROVE TypeOK'
    BY <1>11 DEF TypeOK, StopLoop, LoopPcs
  <1>12. ASSUME NoteInterrupt PROVE TypeOK'
    <2>1. view' \in [Conversations -> Facts]
      BY <1>12, FactsUpdates DEF TypeOK, NoteInterrupt
    <2> QED BY <1>12, <2>1 DEF TypeOK, NoteInterrupt, LoopPcs
  <1>13. ASSUME DrainConversation PROVE TypeOK'
    BY <1>13 DEF TypeOK, DrainConversation, Drain, ConversationRequests, LoopPcs, Decisions
  <1>14. ASSUME PublishDrained PROVE TypeOK'
    <2>1. CASE loopDrained = {}
      BY <1>14, <2>1 DEF TypeOK, PublishDrained, Return, LoopPcs
    <2>2. CASE loopDrained # {}
      <3>1. PICK r \in loopDrained :
              view' = [view EXCEPT ![current.conv] = RequestResolved(@, r)]
              /\ loopDrained' = loopDrained \ {r}
              /\ UNCHANGED <<loopPc, current>>
        BY <1>14, <2>2 DEF PublishDrained
      <3>2. view' \in [Conversations -> Facts]
        BY <3>1, FactsUpdates DEF TypeOK
      <3> QED BY <1>14, <3>1, <3>2 DEF TypeOK, PublishDrained
    <2> QED BY <2>1, <2>2
  <1>15. ASSUME ResolveCore PROVE TypeOK'
    BY <1>15 DEF TypeOK, ResolveCore, LoopPcs
  <1>16. ASSUME ResolveView PROVE TypeOK'
    <2>1. view' \in [Conversations -> Facts]
      BY <1>16, FactsUpdates DEF TypeOK, ResolveView
    <2> QED BY <1>16, <2>1 DEF TypeOK, ResolveView, Return, LoopPcs
  <1> QED
    BY <1>1, <1>2, <1>3, <1>4, <1>5, <1>6, <1>7, <1>8, <1>9, <1>10, <1>11, <1>12,
       <1>13, <1>14, <1>15, <1>16 DEF LoopStep

LEMMA TypeTurn ==
  ASSUME TypeOK, AskingTurns, NEW t \in Turns, TurnStep(t)
  PROVE  TypeOK'
  <1> USE DEF loopVars, coreVars, requestVars, viewVars, Goto, TurnPcs, LivePcs, CorePcs
  <1>1. Conv(t) \in Conversations
    BY TurnServiceAssumption DEF Conv
  <1>2. ASSUME NoteTurnStarting(t) PROVE TypeOK'
    <2>1. view' \in [Conversations -> Facts]
      BY <1>2, FactsUpdates DEF TypeOK, NoteTurnStarting
    <2> QED BY <1>2, <2>1 DEF TypeOK, NoteTurnStarting
  <1>3. ASSUME StartTurn(t) PROVE TypeOK'
    BY <1>3 DEF TypeOK, StartTurn
  <1>4. ASSUME RefuseBusy(t) \/ LoadFails(t) \/ EnterChat(t) \/ AbortTurn(t)
               \/ EndChat(t) \/ RequestApproval(t) \/ SendRequest(t) \/ SaveOutcome(t)
        PROVE  TypeOK'
    BY <1>4 DEF TypeOK, RefuseBusy, LoadFails, EnterChat, AbortTurn, EndChat,
                RequestApproval, SendRequest, SaveOutcome
  <1>5. ASSUME EmitTurnStarted(t) PROVE TypeOK'
    BY <1>5 DEF TypeOK, EmitTurnStarted
  <1>6. ASSUME NEW r \in Requests, InsertPending(t, r) PROVE TypeOK'
    BY <1>6 DEF TypeOK, InsertPending
  <1>7. ASSUME RegisterPending(t) PROVE TypeOK'
    <2>1. cur[t] \in Requests
      BY <1>7 DEF RegisterPending, AskingTurns, AskingPcs
    <2> QED BY <1>7, <2>1 DEF TypeOK, RegisterPending
  <1>8. ASSUME ShowPending(t) PROVE TypeOK'
    <2>1. cur[t] \in Requests
      BY <1>8 DEF ShowPending, AskingTurns, AskingPcs
    <2>2. view' \in [Conversations -> Facts]
      BY <1>8, <2>1, FactsUpdates DEF TypeOK, ShowPending
    <2> QED BY <1>8, <2>2 DEF TypeOK, ShowPending
  <1>9. ASSUME TakeDecision(t) PROVE TypeOK'
    <2>1. cur[t] \in Requests
      BY <1>9 DEF TakeDecision, AskingTurns, AskingPcs
    <2> QED BY <1>9, <2>1 DEF TypeOK, TakeDecision
  <1>10. ASSUME ObserveCancel(t) PROVE TypeOK'
    <2>1. pc[t] = "await" => cur[t] \in Requests
      BY DEF AskingTurns, AskingPcs
    <2> QED BY <1>10, <2>1 DEF TypeOK, ObserveCancel
  <1>11. ASSUME FinishTurn(t) PROVE TypeOK'
    BY <1>1, <1>11 DEF TypeOK, FinishTurn, ClearActiveTurn
  <1>12. ASSUME DrainTurn(t) PROVE TypeOK'
    BY <1>12 DEF TypeOK, DrainTurn, Drain, TurnRequests, Decisions
  <1>13. ASSUME NoteSystemError(t) PROVE TypeOK'
    <2>1. view' \in [Conversations -> Facts]
      BY <1>13, FactsUpdates DEF TypeOK, NoteSystemError
    <2> QED BY <1>13, <2>1 DEF TypeOK, NoteSystemError
  <1>14. ASSUME SettleDrained(t) PROVE TypeOK'
    <2>1. CASE drained[t] = {}
      BY <1>14, <2>1 DEF TypeOK, SettleDrained
    <2>2. CASE drained[t] # {}
      <3>1. PICK r \in drained[t] :
              /\ drained' = [drained EXCEPT ![t] = @ \ {r}]
              /\ view' = [view EXCEPT ![Conv(t)] = RequestResolved(@, r)]
              /\ UNCHANGED pc
        BY <1>14, <2>2 DEF SettleDrained
      <3>2. view' \in [Conversations -> Facts]
        BY <3>1, FactsUpdates DEF TypeOK
      <3> QED BY <1>14, <3>1, <3>2 DEF TypeOK, SettleDrained
    <2> QED BY <2>1, <2>2
  <1>15. ASSUME NoteTurnFinished(t) PROVE TypeOK'
    <2>1. view' \in [Conversations -> Facts]
      BY <1>15, FactsUpdates DEF TypeOK, NoteTurnFinished
    <2> QED BY <1>15, <2>1 DEF TypeOK, NoteTurnFinished
  <1> QED
    BY <1>2, <1>3, <1>4, <1>5, <1>6, <1>7, <1>8, <1>9, <1>10, <1>11, <1>12, <1>13,
       <1>14, <1>15 DEF TurnStep

LEMMA TypeDetached ==
  ASSUME TypeOK, DetachedStep
  PROVE  TypeOK'
  <1> USE DEF loopVars, turnVars, coreVars, requestVars
  <1>1. ASSUME NEW t \in Turns, NoteTurnStarted(t) PROVE TypeOK'
    <2>1. view' \in [Conversations -> Facts]
      BY <1>1, FactsUpdates DEF TypeOK, NoteTurnStarted
    <2> QED BY <1>1, <2>1 DEF TypeOK, NoteTurnStarted
  <1>2. ASSUME NEW r \in Requests, ReleaseGuard(r) PROVE TypeOK'
    <2>1. view' \in [Conversations -> Facts]
      BY <1>2, FactsUpdates DEF TypeOK, ReleaseGuard
    <2> QED BY <1>2, <2>1 DEF TypeOK, ReleaseGuard
  <1> QED BY <1>1, <1>2 DEF DetachedStep

LEMMA TypeRead ==
  ASSUME TypeOK, NEW rd \in Readers, ReadStep(rd)
  PROVE  TypeOK'
  <1> USE DEF loopVars, turnVars, coreVars, requestVars
  <1>1. ASSUME NEW c \in Conversations, BeginRead(rd, c) PROVE TypeOK'
    <2>1. StatusOf(c) \in StatusRead
      BY DEF TypeOK, StatusOf, StatusRead
    <2> QED BY <1>1, <2>1 DEF TypeOK, BeginRead
  <1>2. ASSUME FinishRead(rd) PROVE TypeOK'
    <2>1. reads[rd].conv \in Conversations
      BY <1>2 DEF TypeOK, FinishRead, StatusRead, NoteRead, Idle
    <2>2. [op |-> "note_loaded", conv |-> reads[rd].conv] \in NoteRead
      BY <2>1 DEF NoteRead
    <2> QED BY ZenonT(60), <1>2, <2>1, <2>2 DEF TypeOK, FinishRead, StatusAnswered, ClearActiveTurn
  <1>3. ASSUME LoadRead(rd) PROVE TypeOK'
    <2>1. view' \in [Conversations -> Facts]
      BY <1>3, FactsUpdates DEF TypeOK, LoadRead
    <2> QED BY <1>3, <2>1 DEF TypeOK, LoadRead
  <1> QED BY <1>1, <1>2, <1>3 DEF ReadStep

(* No step of a client, the loop, a turn, a detached task or a reader leaves  *)
(* the types.                                                              *)
LEMMA TypeStep ==
  ASSUME TypeOK, AskingTurns, [Next]_vars
  PROVE  TypeOK'
  <1>1. CASE UNCHANGED vars
    BY <1>1 DEF TypeOK, vars, loopVars, turnVars, coreVars, requestVars, viewVars
  <1> QED BY <1>1, TypeSend, TypeLoop, TypeTurn, TypeDetached, TypeRead DEF Next

-----------------------------------------------------------------------------
(* What each kind of step leaves alone.                                     *)

(* The loop moves no task, except that it spawns one.                      *)
LEMMA LoopFrame ==
  ASSUME LoopStep
  PROVE  /\ UNCHANGED <<cur, drained, reqTurn, approved, startNotes, releases>>
         /\ UNCHANGED pc \/ \E t \in Turns : SpawnTurn(t)
  BY DEF LoopStep, ReceiveTurnWait, ReceiveShutdown, ReceiveInterrupt, ReceiveResolve,
         ReceiveRequestView, ReadStatus, NoteLoaded, ReceiveReset, StartCompaction,
         EndCompaction, StopLoop, NoteInterrupt, DrainConversation, PublishDrained,
         ResolveCore, ResolveView, SpawnTurn, Drain, StatusAnswered,
         ClearActiveTurn,         turnVars, coreVars, requestVars, viewVars

(* A task moves no other task, and gives nothing to the loop.              *)
LEMMA TurnFrame ==
  ASSUME TypeOK, NEW t \in Turns, TurnStep(t), NEW u \in Turns, u # t
  PROVE  /\ UNCHANGED loopVars
         /\ pc'[u] = pc[u] /\ cur'[u] = cur[u] /\ drained'[u] = drained[u]
  BY DEF TypeOK, TurnStep, NoteTurnStarting, StartTurn, RefuseBusy, LoadFails, EmitTurnStarted,
         EnterChat, EndChat, RequestApproval, InsertPending, RegisterPending, ShowPending,
         SendRequest, TakeDecision, ObserveCancel, FinishTurn, SaveOutcome, AbortTurn,
         DrainTurn, NoteSystemError, SettleDrained, NoteTurnFinished, Goto,
         loopVars, turnVars

LEMMA SendFrame ==
  ASSUME NEW cmd, Send(cmd)
  PROVE  UNCHANGED <<loopPc, current, awaited, loopDrained, tracked,
                     turnVars, coreVars, requestVars, viewVars>>
  BY DEF Send

(* Detached tasks and readers only report to the view, except that a       *)
(* reader may clear the active turn.                                       *)
SideStep == DetachedStep \/ \E rd \in Readers : ReadStep(rd)

LEMMA SideFrame ==
  ASSUME SideStep
  PROVE  UNCHANGED <<loopVars, turnVars, requestVars>>
  BY DEF SideStep, DetachedStep, NoteTurnStarted, ReleaseGuard, ReadStep, BeginRead,
         FinishRead, LoadRead

-----------------------------------------------------------------------------
(* The approval closure and the request it holds.                           *)

LEMMA AskingTurn ==
  ASSUME TypeOK, AskingTurns, RequestsAccounted, NEW t \in Turns, TurnStep(t)
  PROVE  AskingTurns'
  <1> USE DEF AskingPcs, Goto, requestVars
  <1>1. \A u \in Turns \ {t} : pc'[u] = pc[u] /\ cur'[u] = cur[u]
    BY TurnFrame
  <1>2. ASSUME NEW r \in Requests, InsertPending(t, r) PROVE AskingTurns'
    <2>1. \A u \in Turns : reqTurn[r] # u
      BY <1>2, TurnServiceAssumption DEF InsertPending
    <2>2. pc'[t] = "register" /\ cur'[t] = r /\ reqTurn' = [reqTurn EXCEPT ![r] = t]
      BY <1>2 DEF InsertPending, TypeOK
    <2> QED BY <1>1, <2>1, <2>2 DEF AskingTurns, TypeOK
  <1>3. ASSUME TakeDecision(t) \/ ObserveCancel(t) PROVE AskingTurns'
    <2>1. pc'[t] \in {"run", "finish"} /\ cur'[t] = NoRequest /\ reqTurn' = reqTurn
      BY <1>3 DEF TakeDecision, ObserveCancel, TypeOK
    <2> QED BY <1>1, <2>1 DEF AskingTurns
  <1>4. ASSUME RegisterPending(t) \/ ShowPending(t) \/ SendRequest(t) PROVE AskingTurns'
    <2>1. pc[t] \in AskingPcs /\ pc'[t] \in AskingPcs /\ UNCHANGED <<cur, reqTurn>>
      BY <1>4 DEF RegisterPending, ShowPending, SendRequest, TypeOK
    <2> QED BY <1>1, <2>1 DEF AskingTurns
  <1>5. ASSUME NoteTurnStarting(t) \/ StartTurn(t) \/ RefuseBusy(t) \/ LoadFails(t)
               \/ EmitTurnStarted(t) \/ EnterChat(t) \/ EndChat(t) \/ RequestApproval(t)
               \/ FinishTurn(t) \/ SaveOutcome(t) \/ AbortTurn(t) \/ DrainTurn(t)
               \/ NoteSystemError(t) \/ SettleDrained(t) \/ NoteTurnFinished(t)
        PROVE  AskingTurns'
    <2>1. pc[t] \notin AskingPcs /\ pc'[t] \notin AskingPcs /\ UNCHANGED <<cur, reqTurn>>
      BY <1>5 DEF NoteTurnStarting, StartTurn, RefuseBusy, LoadFails, EmitTurnStarted,
                  EnterChat, EndChat, RequestApproval, FinishTurn, SaveOutcome, AbortTurn,
                  DrainTurn, Drain, NoteSystemError, SettleDrained, NoteTurnFinished, TypeOK
    <2> QED BY <1>1, <2>1 DEF AskingTurns
  <1> QED BY <1>2, <1>3, <1>4, <1>5 DEF TurnStep

LEMMA AskingStep ==
  ASSUME TypeOK, AskingTurns, RequestsAccounted, [Next]_vars
  PROVE  AskingTurns'
  <1>1. ASSUME UNCHANGED <<pc, cur, reqTurn>> PROVE AskingTurns'
    BY <1>1 DEF AskingTurns
  <1>2. CASE UNCHANGED vars
    BY <1>1, <1>2 DEF vars, turnVars, requestVars
  <1>3. ASSUME NEW cmd \in Command, Send(cmd) PROVE AskingTurns'
    BY <1>1, <1>3, SendFrame DEF turnVars, requestVars
  <1>4. CASE SideStep
    BY <1>1, <1>4, SideFrame DEF turnVars, requestVars
  <1>5. CASE LoopStep
    <2>1. ASSUME NEW t \in Turns, SpawnTurn(t) PROVE AskingTurns'
      <3>1. pc[t] = "idle" /\ pc' = [pc EXCEPT ![t] = "start"] /\ UNCHANGED <<cur, reqTurn>>
        BY <2>1 DEF SpawnTurn, requestVars
      <3> QED BY <3>1 DEF AskingTurns, AskingPcs, TypeOK
    <2> QED BY <1>1, <1>5, <2>1, LoopFrame
  <1> QED BY <1>2, <1>3, <1>4, <1>5, AskingTurn DEF Next, SideStep

-----------------------------------------------------------------------------
(* One task per conversation.                                               *)

(* A step of a task starts no task and untracks none.                      *)
LEMMA TasksTurn ==
  ASSUME TypeOK, TasksTracked, OneTaskPerConversation, NEW t \in Turns, TurnStep(t)
  PROVE  TasksTracked' /\ OneTaskPerConversation'
  <1>1. \A u \in Turns : Live(u)' => Live(u)
    <2>1. Live(t)
      BY DEF TurnStep, NoteTurnStarting, StartTurn, RefuseBusy, LoadFails, EmitTurnStarted,
             EnterChat, EndChat, RequestApproval, InsertPending, RegisterPending, ShowPending,
             SendRequest, TakeDecision, ObserveCancel, FinishTurn, SaveOutcome, AbortTurn,
             DrainTurn, NoteSystemError, SettleDrained, NoteTurnFinished, Goto,
             Live, LivePcs, CorePcs
    <2> QED BY <2>1, TurnFrame DEF Live
  <1>2. UNCHANGED loopVars
    BY DEF TurnStep, NoteTurnStarting, StartTurn, RefuseBusy, LoadFails, EmitTurnStarted,
           EnterChat, EndChat, RequestApproval, InsertPending, RegisterPending, ShowPending,
           SendRequest, TakeDecision, ObserveCancel, FinishTurn, SaveOutcome, AbortTurn,
           DrainTurn, NoteSystemError, SettleDrained, NoteTurnFinished
  <1> QED BY <1>1, <1>2 DEF TasksTracked, OneTaskPerConversation, loopVars, Conv

(* submit_turn joined every task of the conversation before it spawns the  *)
(* next one.                                                               *)
LEMMA TasksSpawn ==
  ASSUME TypeOK, TasksTracked, OneTaskPerConversation, NEW t \in Turns, SpawnTurn(t)
  PROVE  TasksTracked' /\ OneTaskPerConversation'
  <1>1. Conv(t) = current.conv /\ current.op = "SubmitTurn" /\ loopPc = "await"
    BY DEF SpawnTurn, TasksJoined, Conv
  <1>2. tracked[current.conv] = {} /\ current.conv \in Conversations
    BY <1>1 DEF TasksTracked
  <1>3. ASSUME NEW u \in Turns, Live(u) PROVE Conv(u) # Conv(t) /\ u \in tracked[Conv(u)]
    <2>1. u \notin awaited
      BY <1>3 DEF SpawnTurn, TasksJoined, Live, LivePcs, CorePcs
    <2> QED BY <1>1, <1>2, <1>3, <2>1 DEF TasksTracked
  <1>4. /\ pc' = [pc EXCEPT ![t] = "start"]
        /\ tracked' = [tracked EXCEPT ![current.conv] = {u \in @ : pc[u] # "done"} \cup {t}]
        /\ loopPc' = "recv"
    BY DEF SpawnTurn, Return
  <1>5. \A u \in Turns : Live(u)' => u = t \/ Live(u)
    BY <1>4 DEF Live, TypeOK
  <1>6. OneTaskPerConversation'
    BY <1>3, <1>5 DEF OneTaskPerConversation, Conv
  <1>7. \A u \in Turns : Conv(u) \in Conversations
    BY TurnServiceAssumption DEF Conv
  <1>8. ASSUME NEW u \in Turns, Live(u)' PROVE u \in tracked'[Conv(u)]
    BY <1>1, <1>2, <1>3, <1>4, <1>5, <1>7, <1>8 DEF TypeOK
  <1> QED BY <1>4, <1>6, <1>8 DEF TasksTracked, Conv

LEMMA TasksLoop ==
  ASSUME TypeOK, TasksTracked, OneTaskPerConversation, LoopStep
  PROVE  TasksTracked' /\ OneTaskPerConversation'
  <1>1. ASSUME UNCHANGED pc PROVE OneTaskPerConversation'
    BY <1>1 DEF OneTaskPerConversation, Live, Conv
  <1>2. ASSUME ReceiveTurnWait PROVE TasksTracked'
    <2>1. /\ Head(commands).conv \in Conversations
          /\ Head(commands).op \in {"SubmitTurn", "CompactConversation"}
      BY <1>2, HandledCommand, CommandFields DEF ReceiveTurnWait
    <2>2. /\ awaited' = tracked[Head(commands).conv]
          /\ tracked' = [tracked EXCEPT ![Head(commands).conv] = {}]
          /\ loopPc' = "await" /\ current' = Head(commands) /\ UNCHANGED pc
          /\ loopPc = "recv"
      BY <1>2 DEF ReceiveTurnWait, Enter, Handle, turnVars
    <2>3. \A u \in Turns : Conv(u) \in Conversations
      BY TurnServiceAssumption DEF Conv
    <2>4. ASSUME NEW u \in Turns, Live(u)' PROVE u \in tracked'[Conv(u)] \/ u \in awaited'
      BY <2>1, <2>2, <2>3, <2>4 DEF TasksTracked, Live, TypeOK
    <2> QED BY <2>1, <2>2, <2>4 DEF TasksTracked, TypeOK, Conv
  <1>3. ASSUME ReceiveShutdown PROVE TasksTracked'
    <2>1. /\ awaited' = UNION {tracked[c] : c \in Conversations}
          /\ tracked' = [c \in Conversations |-> {}]
          /\ loopPc' = "await" /\ current' = Head(commands) /\ UNCHANGED pc
          /\ Head(commands).op = "Shutdown" /\ loopPc = "recv"
      BY <1>3 DEF ReceiveShutdown, Enter, Handle, turnVars
    <2>2. \A u \in Turns : Conv(u) \in Conversations
      BY TurnServiceAssumption DEF Conv
    <2>3. ASSUME NEW u \in Turns, Live(u)' PROVE u \in awaited'
      BY <2>1, <2>2, <2>3 DEF TasksTracked, Live
    <2> QED BY <2>1, <2>3 DEF TasksTracked, Conv
  <1>4. ASSUME StartCompaction \/ StopLoop PROVE TasksTracked'
    <2>1. TasksJoined /\ loopPc' # "await" /\ UNCHANGED <<tracked, pc>>
      BY <1>4 DEF StartCompaction, StopLoop, turnVars
    <2>2. \A u \in Turns : Live(u) => u \notin awaited
      BY <2>1 DEF TasksJoined, Live, LivePcs, CorePcs
    <2> QED BY <2>1, <2>2 DEF TasksTracked, Live, Conv
  <1>5. ASSUME ReceiveInterrupt \/ ReceiveResolve \/ ReceiveRequestView \/ ReadStatus
               \/ NoteLoaded \/ ReceiveReset \/ EndCompaction \/ NoteInterrupt
               \/ DrainConversation \/ PublishDrained \/ ResolveCore \/ ResolveView
        PROVE  TasksTracked'
    <2>1. loopPc # "await" /\ loopPc' # "await" /\ UNCHANGED <<tracked, pc>>
      BY <1>5 DEF ReceiveInterrupt, ReceiveResolve, ReceiveRequestView, ReadStatus, NoteLoaded,
                  ReceiveReset, EndCompaction, NoteInterrupt, DrainConversation, PublishDrained,
                  ResolveCore, ResolveView, Handle, Enter, Return, turnVars
    <2> QED BY <2>1 DEF TasksTracked, Live, Conv
  <1>6. CASE UNCHANGED pc
    <2>1. \A t \in Turns : ~SpawnTurn(t)
      BY <1>6 DEF SpawnTurn, TypeOK
    <2> QED BY <1>1, <1>2, <1>3, <1>4, <1>5, <1>6, <2>1 DEF LoopStep
  <1> QED BY <1>6, TasksSpawn, LoopFrame

LEMMA TasksStep ==
  ASSUME TypeOK, TasksTracked, OneTaskPerConversation, [Next]_vars
  PROVE  TasksTracked' /\ OneTaskPerConversation'
  <1>1. ASSUME UNCHANGED <<pc, loopPc, current, awaited, tracked>>
        PROVE  TasksTracked' /\ OneTaskPerConversation'
    BY <1>1 DEF TasksTracked, OneTaskPerConversation, Live, Conv
  <1>2. CASE UNCHANGED vars
    BY <1>1, <1>2 DEF vars, loopVars, turnVars
  <1>3. ASSUME NEW cmd \in Command, Send(cmd) PROVE TasksTracked' /\ OneTaskPerConversation'
    BY <1>1, <1>3, SendFrame DEF turnVars
  <1>4. CASE SideStep
    BY <1>1, <1>4, SideFrame DEF loopVars, turnVars
  <1> QED BY <1>2, <1>3, <1>4, TasksTurn, TasksLoop DEF Next, SideStep

-----------------------------------------------------------------------------
(* Requests, their replies and the turns they belong to.                    *)

(* A turn that holds a request holds its only one.                         *)
LEMMA RequestsTurn ==
  ASSUME TypeOK, AskingTurns, RequestsAccounted, NEW t \in Turns, TurnStep(t)
  PROVE  RequestsAccounted'
  <1> USE DEF Goto
  <1>1. \A u \in Turns \ {t} : pc'[u] = pc[u] /\ cur'[u] = cur[u]
    BY TurnFrame
  <1>2. ASSUME NEW r \in Requests, r \in pending
        PROVE  reqTurn[r] \in Turns
    BY <1>2 DEF RequestsAccounted, TypeOK
  <1>3. ASSUME NEW x \in Requests, InsertPending(t, x) PROVE RequestsAccounted'
    <2>1. /\ pc[t] = "insert" /\ pc'[t] = "register" /\ cur'[t] = x
          /\ pending' = pending \cup {x} /\ reqTurn' = [reqTurn EXCEPT ![x] = t]
          /\ reqTurn[x] = NoTurn /\ UNCHANGED reply
      BY <1>3 DEF InsertPending, TypeOK
    <2>2. t # NoTurn
      BY TurnServiceAssumption
    <2>3. reply[x] = "none" /\ x \notin pending
      BY <2>1 DEF RequestsAccounted
    <2>4. ASSUME NEW r \in pending PROVE reqTurn[r] # t
      BY <2>1 DEF RequestsAccounted, AskingPcs, TypeOK
    <2> QED BY <1>1, <1>2, <2>1, <2>2, <2>3, <2>4 DEF RequestsAccounted, AskingPcs, TypeOK
  <1>4. ASSUME TakeDecision(t) PROVE RequestsAccounted'
    <2>1. /\ pc[t] = "await" /\ reply[cur[t]] # "none"
          /\ UNCHANGED <<pending, reqTurn, reply>>
      BY <1>4 DEF TakeDecision
    <2>2. cur[t] \in Requests /\ reqTurn[cur[t]] = t
      BY <2>1 DEF AskingTurns, AskingPcs
    <2>3. cur[t] \notin pending
      BY <2>1, <2>2, TurnServiceAssumption DEF RequestsAccounted
    <2>4. ASSUME NEW r \in pending PROVE reqTurn[r] # t
      BY <2>1, <2>3 DEF RequestsAccounted, AskingPcs, TypeOK
    <2> QED BY <1>1, <1>2, <2>1, <2>4 DEF RequestsAccounted
  <1>5. ASSUME DrainTurn(t) PROVE RequestsAccounted'
    <2>1. /\ pending' = pending \ TurnRequests(t) /\ reqTurn' = reqTurn
          /\ reply' = [r \in Requests |-> IF r \in TurnRequests(t) THEN "cancel" ELSE reply[r]]
          /\ cur' = cur
      BY <1>5 DEF DrainTurn, Drain
    <2>2. \A r \in pending : r \in TurnRequests(t) <=> reqTurn[r] = t
      BY DEF TurnRequests
    <2>3. TurnRequests(t) \subseteq pending /\ t # NoTurn
      BY TurnServiceAssumption DEF TurnRequests
    <2> QED BY <1>1, <1>2, <2>1, <2>2, <2>3 DEF RequestsAccounted
  <1>6. ASSUME ObserveCancel(t) \/ FinishTurn(t) \/ SaveOutcome(t) \/ AbortTurn(t)
               \/ EndChat(t)
        PROVE  RequestsAccounted'
    <2>1. pc'[t] \in {"finish", "post", "close"} /\ UNCHANGED <<pending, reqTurn, reply>>
      BY <1>6 DEF ObserveCancel, FinishTurn, SaveOutcome, AbortTurn, EndChat, requestVars, TypeOK
    <2> QED BY <1>1, <1>2, <2>1 DEF RequestsAccounted
  <1>7. ASSUME RegisterPending(t) \/ ShowPending(t) \/ SendRequest(t)
        PROVE  RequestsAccounted'
    <2>1. /\ pc[t] \in AskingPcs /\ pc'[t] \in AskingPcs
          /\ UNCHANGED <<cur, pending, reqTurn, reply>>
      BY <1>7 DEF RegisterPending, ShowPending, SendRequest, AskingPcs, requestVars, TypeOK
    <2>2. pc[t] \notin {"finish", "post", "close"}
      BY <2>1 DEF AskingPcs
    <2> QED BY <1>1, <1>2, <2>1, <2>2 DEF RequestsAccounted
  <1>8. ASSUME NoteTurnStarting(t) \/ StartTurn(t) \/ RefuseBusy(t) \/ LoadFails(t)
               \/ EmitTurnStarted(t) \/ EnterChat(t) \/ RequestApproval(t)
               \/ NoteSystemError(t) \/ SettleDrained(t) \/ NoteTurnFinished(t)
        PROVE  RequestsAccounted'
    <2>1. /\ pc[t] \notin AskingPcs \cup {"finish", "post", "close"}
          /\ UNCHANGED <<pending, reqTurn, reply>>
      BY <1>8 DEF NoteTurnStarting, StartTurn, RefuseBusy, LoadFails, EmitTurnStarted,
                  EnterChat, RequestApproval, NoteSystemError, SettleDrained,
                  NoteTurnFinished, AskingPcs, requestVars
    <2>2. ASSUME NEW r \in pending PROVE reqTurn[r] # t
      BY <2>1 DEF RequestsAccounted, TypeOK
    <2> QED BY <1>1, <1>2, <2>1, <2>2 DEF RequestsAccounted
  <1> QED BY <1>3, <1>4, <1>5, <1>6, <1>7, <1>8 DEF TurnStep

LEMMA RequestsStep ==
  ASSUME TypeOK, AskingTurns, RequestsAccounted, [Next]_vars
  PROVE  RequestsAccounted'
  <1>1. ASSUME UNCHANGED <<pc, cur, pending, reqTurn, reply>> PROVE RequestsAccounted'
    BY <1>1 DEF RequestsAccounted
  <1>2. CASE UNCHANGED vars
    BY <1>1, <1>2 DEF vars, turnVars, requestVars
  <1>3. ASSUME NEW cmd \in Command, Send(cmd) PROVE RequestsAccounted'
    BY <1>1, <1>3, SendFrame DEF turnVars, requestVars
  <1>4. CASE SideStep
    BY <1>1, <1>4, SideFrame DEF turnVars, requestVars
  <1>5. ASSUME NEW R \in SUBSET pending, Drain(R), UNCHANGED <<pc, cur>>
        PROVE  RequestsAccounted'
    BY <1>5 DEF RequestsAccounted, Drain
  <1>6. ASSUME LoopStep PROVE RequestsAccounted'
    <2>1. ASSUME NEW t \in Turns, SpawnTurn(t) PROVE RequestsAccounted'
      <3>1. pc[t] = "idle" /\ pc' = [pc EXCEPT ![t] = "start"]
            /\ UNCHANGED <<cur, pending, reqTurn, reply>>
        BY <2>1 DEF SpawnTurn, requestVars
      <3> QED BY <3>1 DEF RequestsAccounted, AskingPcs, TypeOK
    <2>2. ASSUME DrainConversation PROVE RequestsAccounted'
      <3>1. ConversationRequests(current.conv) \in SUBSET pending
        BY DEF ConversationRequests
      <3> QED BY <1>5, <2>2, <3>1 DEF DrainConversation, turnVars
    <2>3. ASSUME ReceiveResolve PROVE RequestsAccounted'
      <3> DEFINE r == Head(commands).request
                 d == Head(commands).decision
      <3>1. d \in Decisions
        BY <2>3, HandledCommand, CommandFields DEF ReceiveResolve
      <3>2. d # "none"
        BY <3>1 DEF Decisions
      <3>3. UNCHANGED <<pc, cur, reqTurn>>
        BY <2>3 DEF ReceiveResolve, turnVars
      <3>4. CASE r \in pending
        <4>1. pending' = pending \ {r} /\ reply' = [reply EXCEPT ![r] = d]
          BY <2>3, <3>4 DEF ReceiveResolve
        <4> HIDE DEF r, d
        <4> QED BY <3>2, <3>3, <3>4, <4>1 DEF RequestsAccounted, TypeOK
      <3>5. CASE r \notin pending
        BY <1>1, <2>3, <3>3, <3>5 DEF ReceiveResolve
      <3> QED BY <3>4, <3>5
    <2>4. ASSUME ReceiveTurnWait \/ ReceiveShutdown \/ ReceiveInterrupt \/ ReceiveRequestView
                 \/ ReadStatus \/ NoteLoaded \/ ReceiveReset \/ StartCompaction
                 \/ EndCompaction \/ StopLoop \/ NoteInterrupt \/ PublishDrained
                 \/ ResolveCore \/ ResolveView
          PROVE  RequestsAccounted'
      <3>1. UNCHANGED <<turnVars, requestVars>>
        BY <2>4 DEF ReceiveTurnWait, ReceiveShutdown, ReceiveInterrupt, ReceiveRequestView,
                    ReadStatus, NoteLoaded, ReceiveReset, StartCompaction, EndCompaction,
                    StopLoop, NoteInterrupt, PublishDrained, ResolveCore, ResolveView
      <3> QED BY <1>1, <3>1 DEF turnVars, requestVars
    <2> QED BY <1>6, <2>1, <2>2, <2>3, <2>4 DEF LoopStep
  <1> QED BY <1>2, <1>3, <1>4, <1>6, RequestsTurn DEF Next, SideStep

(* A request keeps its turn and, once decided, stays decided.              *)
LEMMA RequestsGrow ==
  ASSUME TypeOK, [Next]_vars, NEW r \in Requests, reqTurn[r] # NoTurn
  PROVE  reqTurn'[r] = reqTurn[r] /\ (r \in pending' => r \in pending)
  <1> DEFINE Grows == reqTurn'[r] = reqTurn[r] /\ (r \in pending' => r \in pending)
  <1>1. ASSUME UNCHANGED requestVars PROVE Grows
    BY <1>1 DEF requestVars
  <1>2. ASSUME NEW t \in Turns, TurnStep(t) PROVE Grows
    <2>1. ASSUME NEW x \in Requests, InsertPending(t, x) PROVE Grows
      BY <2>1 DEF InsertPending, TypeOK
    <2>2. ASSUME TakeDecision(t) \/ DrainTurn(t) PROVE Grows
      BY <2>2 DEF TakeDecision, DrainTurn, Drain
    <2>3. ASSUME NoteTurnStarting(t) \/ StartTurn(t) \/ RefuseBusy(t) \/ LoadFails(t)
                 \/ EmitTurnStarted(t) \/ EnterChat(t) \/ EndChat(t) \/ RequestApproval(t)
                 \/ RegisterPending(t) \/ ShowPending(t) \/ SendRequest(t)
                 \/ ObserveCancel(t) \/ FinishTurn(t) \/ SaveOutcome(t) \/ AbortTurn(t)
                 \/ NoteSystemError(t) \/ SettleDrained(t) \/ NoteTurnFinished(t)
          PROVE  Grows
      <3>1. UNCHANGED requestVars
        BY <2>3 DEF NoteTurnStarting, StartTurn, RefuseBusy, LoadFails, EmitTurnStarted,
             EnterChat, EndChat, RequestApproval, RegisterPending, ShowPending, SendRequest,
             ObserveCancel, FinishTurn, SaveOutcome, AbortTurn, NoteSystemError,
             SettleDrained, NoteTurnFinished
      <3> QED BY <1>1, <3>1
    <2> QED BY <1>2, <2>1, <2>2, <2>3 DEF TurnStep
  <1>3. ASSUME LoopStep PROVE Grows
    <2>1. pending' \subseteq pending /\ reqTurn' = reqTurn
      BY <1>3 DEF LoopStep, ReceiveTurnWait, ReceiveShutdown, ReceiveInterrupt, ReceiveResolve,
           ReceiveRequestView, ReadStatus, NoteLoaded, ReceiveReset, StartCompaction,
           EndCompaction, StopLoop, NoteInterrupt, DrainConversation, PublishDrained,
           ResolveCore, ResolveView, SpawnTurn, Drain, requestVars
    <2> QED BY <2>1
  <1>4. CASE UNCHANGED vars
    BY <1>1, <1>4 DEF vars
  <1>5. CASE SideStep
    BY <1>1, <1>5, SideFrame
  <1>6. ASSUME NEW cmd \in Command, Send(cmd) PROVE Grows
    BY <1>1, <1>6, SendFrame
  <1> QED BY <1>2, <1>3, <1>4, <1>5, <1>6 DEF Next, SideStep

LEMMA WithdrawnStep ==
  ASSUME TypeOK, RequestsAccounted, WithdrawnDecided, [Next]_vars
  PROVE  WithdrawnDecided'
  <1> DEFINE Stays(r) == reqTurn'[r] # NoTurn /\ r \notin pending'
             Resolving(where) == where \in {"resolveCore", "resolveView"}
  <1>1. ASSUME NEW r \in Requests, Decided(r) PROVE Stays(r)
    BY <1>1, RequestsGrow DEF Decided
  <1>2. ASSUME NEW r \in pending, r \notin pending' PROVE Stays(r)
    BY <1>2, RequestsGrow DEF RequestsAccounted, TypeOK
  <1>3. \A r \in loopDrained : Stays(r)
    BY <1>1 DEF WithdrawnDecided, TypeOK
  <1>4. \A t \in Turns : \A r \in drained[t] : Stays(r)
    BY <1>1 DEF WithdrawnDecided, TypeOK
  <1>5. Resolving(loopPc) => current.request \in Requests /\ Stays(current.request)
    BY <1>1 DEF WithdrawnDecided
  <1> HIDE DEF Stays
  <1>6. ASSUME /\ \A r \in loopDrained' : Stays(r)
               /\ \A t \in Turns : \A r \in drained'[t] : Stays(r)
               /\ Resolving(loopPc') => current'.request \in Requests /\ Stays(current'.request)
        PROVE  WithdrawnDecided'
    BY <1>6 DEF WithdrawnDecided, Decided, Stays
  <1>7. ASSUME UNCHANGED <<loopPc, current, loopDrained, drained>> PROVE WithdrawnDecided'
    BY <1>3, <1>4, <1>5, <1>6, <1>7
  <1>8. CASE UNCHANGED vars
    BY <1>7, <1>8 DEF vars, loopVars, turnVars
  <1>9. CASE SideStep
    BY <1>7, <1>9, SideFrame DEF loopVars, turnVars
  <1>10. ASSUME NEW cmd \in Command, Send(cmd) PROVE WithdrawnDecided'
    BY <1>7, <1>10, SendFrame DEF turnVars
  <1>11. ASSUME NEW t \in Turns, TurnStep(t) PROVE WithdrawnDecided'
    <2>1. UNCHANGED loopVars
      BY <1>11 DEF TurnStep, NoteTurnStarting, StartTurn, RefuseBusy, LoadFails,
           EmitTurnStarted, EnterChat, EndChat, RequestApproval, InsertPending,
           RegisterPending, ShowPending, SendRequest, TakeDecision, ObserveCancel,
           FinishTurn, SaveOutcome, AbortTurn, DrainTurn, NoteSystemError, SettleDrained,
           NoteTurnFinished
    <2>2. ASSUME NEW u \in Turns, u # t PROVE drained'[u] = drained[u]
      BY <1>11, <2>2, TurnFrame
    <2>3. \A r \in drained'[t] : Stays(r)
      <3>1. CASE DrainTurn(t)
        <4>1. drained'[t] = TurnRequests(t) /\ pending' = pending \ TurnRequests(t)
          BY <3>1 DEF DrainTurn, Drain, TypeOK
        <4>2. TurnRequests(t) \subseteq pending
          BY DEF TurnRequests
        <4> QED BY <1>2, <4>1, <4>2
      <3>2. CASE SettleDrained(t)
        <4>1. drained'[t] \subseteq drained[t]
          BY <3>2 DEF SettleDrained, TypeOK
        <4> QED BY <1>4, <4>1
      <3>3. CASE UNCHANGED drained
        BY <1>4, <3>3
      <3> QED BY <1>11, <3>1, <3>2, <3>3 DEF TurnStep, NoteTurnStarting, StartTurn,
             RefuseBusy, LoadFails, EmitTurnStarted, EnterChat, EndChat, RequestApproval,
             InsertPending, RegisterPending, ShowPending, SendRequest, TakeDecision,
             ObserveCancel, FinishTurn, SaveOutcome, AbortTurn, NoteSystemError,
             NoteTurnFinished
    <2>4. \A u \in Turns : \A r \in drained'[u] : Stays(r)
      BY <1>4, <2>2, <2>3
    <2> QED BY <1>3, <1>5, <1>6, <2>1, <2>4 DEF loopVars
  <1>12. ASSUME LoopStep PROVE WithdrawnDecided'
    <2>1. \A t \in Turns : \A r \in drained'[t] : Stays(r)
      BY <1>4, <1>12, LoopFrame
    <2>2. ASSUME DrainConversation PROVE WithdrawnDecided'
      <3>1. /\ loopDrained' = ConversationRequests(current.conv)
            /\ pending' = pending \ ConversationRequests(current.conv)
            /\ ~Resolving(loopPc')
        BY <2>2 DEF DrainConversation, Drain
      <3>2. ConversationRequests(current.conv) \subseteq pending
        BY DEF ConversationRequests
      <3>3. \A r \in loopDrained' : Stays(r)
        BY <1>2, <3>1, <3>2
      <3> QED BY <1>6, <2>1, <3>1, <3>3
    <2>3. ASSUME ReceiveResolve PROVE WithdrawnDecided'
      <3>1. CASE Head(commands).request \in pending
        <4>1. /\ pending' = pending \ {Head(commands).request}
              /\ current' = Head(commands) /\ loopDrained' = loopDrained
          BY <2>3, <3>1 DEF ReceiveResolve, Enter
        <4>2. Stays(current'.request) /\ current'.request \in Requests
          BY <1>2, <3>1, <4>1 DEF TypeOK
        <4> QED BY <1>3, <1>6, <2>1, <4>1, <4>2
      <3>2. CASE Head(commands).request \notin pending
        <4>1. loopPc' = "recv" /\ loopDrained' = loopDrained
          BY <2>3, <3>2 DEF ReceiveResolve, Return
        <4> QED BY <1>3, <1>6, <2>1, <4>1
      <3> QED BY <3>1, <3>2
    <2>4. ASSUME ResolveCore PROVE WithdrawnDecided'
      <3>1. Resolving(loopPc) /\ UNCHANGED <<current, loopDrained>>
        BY <2>4 DEF ResolveCore
      <3> QED BY <1>3, <1>5, <1>6, <2>1, <3>1
    <2>5. ASSUME \/ ReceiveTurnWait \/ ReceiveShutdown \/ ReceiveInterrupt \/ ReceiveReset
                 \/ ReceiveRequestView \/ ReadStatus \/ NoteLoaded \/ StartCompaction
                 \/ EndCompaction \/ StopLoop \/ NoteInterrupt \/ PublishDrained
                 \/ ResolveView \/ \E t \in Turns : SpawnTurn(t)
          PROVE  WithdrawnDecided'
      <3>1. loopDrained' \subseteq loopDrained /\ ~Resolving(loopPc')
        BY <2>5 DEF ReceiveTurnWait, ReceiveShutdown, ReceiveInterrupt, ReceiveReset,
             ReceiveRequestView, ReadStatus, NoteLoaded, StartCompaction, EndCompaction,
             StopLoop, NoteInterrupt, PublishDrained, ResolveView, SpawnTurn, Enter, Return
      <3> QED BY <1>3, <1>6, <2>1, <3>1
    <2> QED BY <1>12, <2>2, <2>3, <2>4, <2>5 DEF LoopStep
  <1> QED BY <1>8, <1>9, <1>10, <1>11, <1>12 DEF Next, SideStep

(* Two turns never hold the same request.                                  *)
LEMMA OwnRequest ==
  ASSUME TypeOK, AskingTurns, NEW t \in Turns, NEW u \in Turns, t # u, cur[t] \in Requests
  PROVE  cur[u] # cur[t] /\ reqTurn[cur[t]] = t
  BY TurnServiceAssumption DEF AskingTurns

LEMMA LeftStep ==
  ASSUME TypeOK, AskingTurns, LeftBehind, [Next]_vars
  PROVE  LeftBehind'
  <1>1. ASSUME NEW r \in releases \cup approved, \A t \in Turns : cur'[t] \in {cur[t], NoRequest}
        PROVE  reqTurn'[r] # NoTurn /\ \A t \in Turns : cur'[t] # r
    BY <1>1, RequestsGrow, TurnServiceAssumption DEF LeftBehind, TypeOK
  <1>2. ASSUME releases' \cup approved' \subseteq releases \cup approved, UNCHANGED cur
        PROVE  LeftBehind'
    BY <1>1, <1>2 DEF LeftBehind, TypeOK
  <1>3. CASE UNCHANGED vars
    BY <1>2, <1>3 DEF vars, turnVars, requestVars, viewVars
  <1>4. CASE SideStep
    <2>1. releases' \subseteq releases
      BY <1>4 DEF SideStep, DetachedStep, NoteTurnStarted, ReleaseGuard, ReadStep,
           BeginRead, FinishRead, LoadRead
    <2> QED BY <1>2, <1>4, <2>1, SideFrame DEF turnVars, requestVars
  <1>5. ASSUME NEW cmd \in Command, Send(cmd) PROVE LeftBehind'
    BY <1>2, <1>5, SendFrame DEF turnVars, requestVars, viewVars
  <1>6. CASE LoopStep
    BY <1>2, <1>6, LoopFrame
  <1>7. ASSUME NEW t \in Turns, TurnStep(t) PROVE LeftBehind'
    <2>1. ASSUME NEW x \in Requests, InsertPending(t, x) PROVE LeftBehind'
      <3>1. /\ reqTurn[x] = NoTurn /\ reqTurn' = [reqTurn EXCEPT ![x] = t]
            /\ cur' = [cur EXCEPT ![t] = x] /\ UNCHANGED <<releases, approved>>
        BY <2>1 DEF InsertPending, viewVars
      <3> QED BY <3>1 DEF LeftBehind, TypeOK
    <2>2. ASSUME TakeDecision(t) \/ ObserveCancel(t) PROVE LeftBehind'
      <3>1. /\ releases' \cup approved' \subseteq
                  releases \cup approved \cup (IF pc[t] = "await" THEN {cur[t]} ELSE {})
            /\ cur' = [cur EXCEPT ![t] = NoRequest] /\ UNCHANGED reqTurn
        BY <2>2 DEF TakeDecision, ObserveCancel, requestVars
      <3>2. \A u \in Turns : cur'[u] \in {cur[u], NoRequest}
        BY <3>1 DEF TypeOK
      <3>3. ASSUME pc[t] = "await"
            PROVE  reqTurn'[cur[t]] # NoTurn /\ \A u \in Turns : cur'[u] # cur[t]
        <4>1. cur[t] \in Requests
          BY <3>3 DEF AskingTurns, AskingPcs
        <4>2. reqTurn[cur[t]] = t
          BY <3>3 DEF AskingTurns, AskingPcs
        <4> QED BY <3>1, <4>1, <4>2, OwnRequest, TurnServiceAssumption DEF TypeOK
      <3> QED BY <1>1, <3>1, <3>2, <3>3 DEF LeftBehind
    <2>3. ASSUME NoteTurnStarting(t) \/ StartTurn(t) \/ RefuseBusy(t) \/ LoadFails(t)
                 \/ EmitTurnStarted(t) \/ EnterChat(t) \/ EndChat(t) \/ RequestApproval(t)
                 \/ RegisterPending(t) \/ ShowPending(t) \/ SendRequest(t)
                 \/ FinishTurn(t) \/ SaveOutcome(t) \/ AbortTurn(t) \/ DrainTurn(t)
                 \/ NoteSystemError(t) \/ SettleDrained(t) \/ NoteTurnFinished(t)
          PROVE  LeftBehind'
      <3>1. UNCHANGED <<cur, releases, approved>>
        BY <2>3 DEF NoteTurnStarting, StartTurn, RefuseBusy, LoadFails, EmitTurnStarted,
             EnterChat, EndChat, RequestApproval, RegisterPending, ShowPending, SendRequest,
             FinishTurn, SaveOutcome, AbortTurn, DrainTurn, Drain, NoteSystemError,
             SettleDrained, NoteTurnFinished, requestVars, viewVars
      <3> QED BY <1>2, <3>1
    <2> QED BY <1>7, <2>1, <2>2, <2>3 DEF TurnStep
  <1> QED BY <1>3, <1>4, <1>5, <1>6, <1>7 DEF Next, SideStep

-----------------------------------------------------------------------------
(* Prompts on display.                                                      *)

(* What each update of the view does to the prompts it lists.              *)
LEMMA PromptUpdates ==
  ASSUME NEW f \in Facts
  PROVE  /\ MarkLoaded(f).pending_requests = f.pending_requests
         /\ InterruptRequested(f).pending_requests = f.pending_requests
         /\ CompactionStarted(f).pending_requests = f.pending_requests
         /\ CompactionFinished(f).pending_requests = f.pending_requests
         /\ \A t : TurnStarted(f, t).pending_requests = f.pending_requests
         /\ \A r : RequestPending(f, r).pending_requests = f.pending_requests \cup {r}
         /\ \A r : RequestResolved(f, r).pending_requests = f.pending_requests \ {r}
         /\ TurnFinished(f).pending_requests = {}
  BY DEF Facts, MarkLoaded, InterruptRequested, CompactionStarted, CompactionFinished,
         TurnStarted, RequestPending, RequestResolved, TurnFinished

(* The loop only takes prompts off the display, and only decided ones.     *)
LEMMA LoopPrompts ==
  ASSUME TypeOK, WithdrawnDecided, LoopStep, NEW c \in Conversations,
         NEW r \in view[c].pending_requests, r \notin view'[c].pending_requests
  PROVE  r \notin pending
  <1>1. \A d \in Conversations : view[d] \in Facts
    BY DEF TypeOK
  <1>2. ASSUME ResolveView PROVE r \notin pending
    <2>1. view' = [view EXCEPT ![ResolvedConversation] = RequestResolved(@, current.request)]
          /\ Decided(current.request)
      BY <1>2 DEF ResolveView, WithdrawnDecided
    <2>2. r = current.request
      BY <1>1, <2>1, PromptUpdates DEF TypeOK
    <2> QED BY <2>1, <2>2 DEF Decided
  <1>3. ASSUME PublishDrained PROVE r \notin pending
    <2>1. PICK x \in loopDrained : view' = [view EXCEPT ![current.conv] = RequestResolved(@, x)]
      BY <1>3 DEF PublishDrained
    <2>2. r = x
      BY <1>1, <2>1, PromptUpdates DEF TypeOK
    <2> QED BY <2>1, <2>2 DEF Decided, WithdrawnDecided
  <1>4. ASSUME NoteLoaded \/ StartCompaction \/ EndCompaction \/ NoteInterrupt
        PROVE  FALSE
    BY <1>1, <1>4, PromptUpdates
       DEF NoteLoaded, StartCompaction, EndCompaction, NoteInterrupt, TypeOK
  <1>5. ASSUME \/ ReceiveTurnWait \/ ReceiveShutdown \/ ReceiveInterrupt \/ ReceiveResolve
               \/ ReceiveReset \/ ReceiveRequestView \/ ReadStatus \/ StopLoop
               \/ DrainConversation \/ ResolveCore \/ \E t \in Turns : SpawnTurn(t)
        PROVE  FALSE
    BY <1>5 DEF ReceiveTurnWait, ReceiveShutdown, ReceiveInterrupt, ReceiveResolve,
         ReceiveReset, ReceiveRequestView, ReadStatus, StopLoop, DrainConversation,
         ResolveCore, SpawnTurn, viewVars
  <1> QED BY <1>2, <1>3, <1>4, <1>5 DEF LoopStep

(* Neither the loop nor a task beside it puts a prompt on display.          *)
LEMMA NoNewPrompt ==
  ASSUME TypeOK, LoopStep \/ SideStep, NEW c \in Conversations
  PROVE  view'[c].pending_requests \subseteq view[c].pending_requests
  <1>1. \A d \in Conversations : view[d] \in Facts
    BY DEF TypeOK
  <1>2. ASSUME ResolveView \/ NoteLoaded \/ StartCompaction \/ EndCompaction \/ NoteInterrupt
        PROVE  view'[c].pending_requests \subseteq view[c].pending_requests
    BY <1>1, <1>2, PromptUpdates
       DEF ResolveView, NoteLoaded, StartCompaction, EndCompaction, NoteInterrupt, TypeOK
  <1>3. ASSUME PublishDrained PROVE view'[c].pending_requests \subseteq view[c].pending_requests
    <2>1. CASE UNCHANGED view
      BY <2>1
    <2>2. ASSUME NEW r \in loopDrained,
                 view' = [view EXCEPT ![current.conv] = RequestResolved(@, r)]
          PROVE  view'[c].pending_requests \subseteq view[c].pending_requests
      BY <1>1, <2>2, PromptUpdates DEF TypeOK
    <2> QED BY <1>3, <2>1, <2>2 DEF PublishDrained
  <1>4. ASSUME \/ ReceiveTurnWait \/ ReceiveShutdown \/ ReceiveInterrupt \/ ReceiveResolve
               \/ ReceiveReset \/ ReceiveRequestView \/ ReadStatus \/ StopLoop
               \/ DrainConversation \/ ResolveCore \/ \E t \in Turns : SpawnTurn(t)
        PROVE  view' = view
    BY <1>4 DEF ReceiveTurnWait, ReceiveShutdown, ReceiveInterrupt, ReceiveResolve,
         ReceiveReset, ReceiveRequestView, ReadStatus, StopLoop, DrainConversation,
         ResolveCore, SpawnTurn, viewVars
  <1>5. ASSUME SideStep PROVE view'[c].pending_requests \subseteq view[c].pending_requests
    <2>1. ASSUME NEW t \in Turns, NoteTurnStarted(t)
          PROVE  view'[c].pending_requests \subseteq view[c].pending_requests
      BY <1>1, <2>1, PromptUpdates DEF NoteTurnStarted, TypeOK
    <2>2. ASSUME NEW r \in Requests, ReleaseGuard(r)
          PROVE  view'[c].pending_requests \subseteq view[c].pending_requests
      BY <1>1, <2>2, PromptUpdates DEF ReleaseGuard, TypeOK
    <2>3. ASSUME NEW rd \in Readers, ReadStep(rd)
          PROVE  view'[c].pending_requests \subseteq view[c].pending_requests
      BY SMTT(30), <1>1, <2>3, PromptUpdates
         DEF ReadStep, BeginRead, FinishRead, LoadRead, TypeOK
    <2> QED BY <1>5, <2>1, <2>2, <2>3 DEF SideStep, DetachedStep
  <1> QED BY <1>2, <1>3, <1>4, <1>5 DEF LoopStep

(* A task touches the view of its own conversation only.                   *)
LEMMA TurnPrompts ==
  ASSUME TypeOK, NEW t \in Turns, TurnStep(t), NEW c \in Conversations, c # Conv(t)
  PROVE  view'[c] = view[c]
  BY DEF TypeOK, TurnStep, NoteTurnStarting, StartTurn, RefuseBusy, LoadFails, EmitTurnStarted,
         EnterChat, EndChat, RequestApproval, InsertPending, RegisterPending, ShowPending,
         SendRequest, TakeDecision, ObserveCancel, FinishTurn, SaveOutcome, AbortTurn,
         DrainTurn, NoteSystemError, SettleDrained, NoteTurnFinished, viewVars

LEMMA PromptsStep ==
  ASSUME IInv, [Next]_vars
  PROVE  PromptsShown'
  <1> USE DEF IInv
  <1>1. SUFFICES ASSUME NEW u \in Turns, pc'[u] \in {"shown", "await"}, cur'[u] \in pending'
                 PROVE  cur'[u] \in view'[Conv(u)].pending_requests
    BY DEF PromptsShown, Conv
  <1>2. Conv(u) \in Conversations
    BY TurnServiceAssumption DEF Conv
  <1>3. ASSUME pc'[u] = pc[u], cur'[u] = cur[u]
        PROVE  /\ cur[u] \in Requests /\ reqTurn[cur[u]] = u /\ cur[u] \in pending
               /\ cur[u] \in view[Conv(u)].pending_requests
    <2>1. cur[u] \in Requests /\ reqTurn[cur[u]] = u
      BY <1>1, <1>3 DEF AskingTurns, AskingPcs
    <2>2. cur[u] \in pending
      BY <1>1, <1>3, <2>1, RequestsGrow, TurnServiceAssumption
    <2> QED BY <1>1, <1>3, <2>1, <2>2 DEF PromptsShown
  <1>4. CASE view' = view /\ UNCHANGED <<pc, cur>>
    BY <1>3, <1>4
  <1>5. CASE UNCHANGED vars
    BY <1>4, <1>5 DEF vars, turnVars, viewVars
  <1>6. ASSUME NEW cmd \in Command, Send(cmd)
        PROVE  cur'[u] \in view'[Conv(u)].pending_requests
    BY <1>4, <1>6, SendFrame DEF turnVars, viewVars
  <1>7. CASE LoopStep
    <2>1. pc'[u] = pc[u] /\ cur'[u] = cur[u]
      BY <1>1, <1>7, LoopFrame DEF SpawnTurn, TypeOK
    <2> QED BY <1>2, <1>3, <1>7, <2>1, LoopPrompts
  <1>8. CASE SideStep
    <2>1. UNCHANGED <<pc, cur>>
      BY <1>8, SideFrame DEF turnVars
    <2>2. ASSUME NEW t \in Turns, NoteTurnStarted(t)
          PROVE  cur[u] \in view'[Conv(u)].pending_requests
      <3>1. view' = [view EXCEPT ![Conv(t)] = TurnStarted(@, t)]
        BY <2>2 DEF NoteTurnStarted
      <3>2. view[Conv(u)] \in Facts
        BY <1>2 DEF TypeOK
      <3> QED BY <1>2, <1>3, <2>1, <3>1, <3>2, PromptUpdates DEF TypeOK
    <2>3. ASSUME NEW r \in Requests, ReleaseGuard(r)
          PROVE  cur[u] \in view'[Conv(u)].pending_requests
      <3>1. view' = [view EXCEPT ![Conv(reqTurn[r])] = RequestResolved(@, r)]
            /\ r \in releases
        BY <2>3 DEF ReleaseGuard
      <3>2. r # cur[u]
        BY <3>1 DEF LeftBehind
      <3>3. view[Conv(u)] \in Facts
        BY <1>2 DEF TypeOK
      <3> QED BY <1>2, <1>3, <2>1, <3>1, <3>2, <3>3, PromptUpdates DEF TypeOK
    <2>4. ASSUME NEW rd \in Readers, ReadStep(rd)
          PROVE  cur[u] \in view'[Conv(u)].pending_requests
      <3>1. cur[u] \in view[Conv(u)].pending_requests /\ view[Conv(u)] \in Facts
        BY <1>2, <1>3, <2>1 DEF TypeOK
      <3>2. CASE LoadRead(rd)
        <4>1. view' = [view EXCEPT ![reads[rd].conv] = MarkLoaded(@)]
          BY <3>2 DEF LoadRead
        <4> QED BY <1>2, <3>1, <4>1, PromptUpdates DEF TypeOK
      <3>3. CASE view' = view
        BY <3>1, <3>3
      <3> QED BY <2>4, <3>2, <3>3 DEF ReadStep, BeginRead, FinishRead
    <2> QED BY <1>8, <2>1, <2>2, <2>3, <2>4 DEF SideStep, DetachedStep
  <1>9. ASSUME NEW t \in Turns, TurnStep(t)
        PROVE  cur'[u] \in view'[Conv(u)].pending_requests
    <2>1. CASE u # t
      <3>1. pc'[u] = pc[u] /\ cur'[u] = cur[u]
        BY <1>9, <2>1, TurnFrame
      <3>2. Live(u)
        BY <1>1, <3>1 DEF Live, LivePcs, CorePcs
      <3>3. Live(t)
        BY <1>9 DEF TurnStep, NoteTurnStarting, StartTurn, RefuseBusy, LoadFails,
             EmitTurnStarted, EnterChat, EndChat, RequestApproval, InsertPending,
             RegisterPending, ShowPending, SendRequest, TakeDecision, ObserveCancel,
             FinishTurn, SaveOutcome, AbortTurn, DrainTurn, NoteSystemError, SettleDrained,
             NoteTurnFinished, Goto, Live, LivePcs, CorePcs
      <3>4. Conv(u) # Conv(t)
        BY <2>1, <3>2, <3>3 DEF OneTaskPerConversation
      <3> QED BY <1>2, <1>3, <1>9, <3>1, <3>4, TurnPrompts
    <2>2. CASE u = t
      <3>1. CASE ShowPending(t)
        <4>1. view' = [view EXCEPT ![Conv(t)] = RequestPending(@, cur[t])] /\ cur' = cur
          BY <3>1 DEF ShowPending
        <4>2. view[Conv(u)] \in Facts
          BY <1>2 DEF TypeOK
        <4> QED BY <1>2, <2>2, <4>1, <4>2, PromptUpdates DEF TypeOK
      <3>2. CASE SendRequest(t)
        <4>1. pc[t] = "shown" /\ UNCHANGED <<cur, pending, view>>
          BY <3>2 DEF SendRequest, Goto, requestVars, viewVars
        <4> QED BY <1>1, <2>2, <4>1 DEF PromptsShown
      <3>3. CASE SettleDrained(t)
        BY <1>1, <2>2, <3>3 DEF SettleDrained, TypeOK
      <3> QED BY <1>1, <1>9, <2>2, <3>1, <3>2, <3>3 DEF TurnStep, NoteTurnStarting, StartTurn,
            RefuseBusy, LoadFails, EmitTurnStarted, EnterChat, EndChat, RequestApproval,
            InsertPending, RegisterPending, TakeDecision, ObserveCancel, FinishTurn,
            SaveOutcome, AbortTurn, DrainTurn, NoteSystemError, NoteTurnFinished, Goto, TypeOK
    <2> QED BY <2>1, <2>2
  <1> QED BY <1>5, <1>6, <1>7, <1>8, <1>9 DEF Next, SideStep

(* The last thing a turn does to the view is to clear its prompts.         *)
LEMMA StaleStep ==
  ASSUME TypeOK, NoStalePrompt, [Next]_vars
  PROVE  NoStalePrompt'
  <1> SUFFICES ASSUME NEW c \in Conversations, \A t \in Turns : Conv(t) = c => ~Live(t)'
               PROVE  view'[c].pending_requests = {}
    BY DEF NoStalePrompt, Conv
  <1>1. ASSUME \A t \in Turns : pc[t] # pc'[t] => pc[t] = "idle",
               view'[c].pending_requests \subseteq view[c].pending_requests
        PROVE  view'[c].pending_requests = {}
    <2>1. \A t \in Turns : Conv(t) = c => ~Live(t)
      BY <1>1 DEF Live, LivePcs, CorePcs
    <2> QED BY <1>1, <2>1 DEF NoStalePrompt
  <1>2. CASE UNCHANGED vars
    BY <1>1, <1>2 DEF vars, turnVars, viewVars
  <1>3. ASSUME NEW cmd \in Command, Send(cmd) PROVE view'[c].pending_requests = {}
    BY <1>1, <1>3, SendFrame DEF turnVars, viewVars
  <1>4. CASE SideStep
    BY <1>1, <1>4, NoNewPrompt, SideFrame DEF turnVars
  <1>5. CASE LoopStep
    <2>1. \A t \in Turns : pc[t] # pc'[t] => pc[t] = "idle"
      BY <1>5, LoopFrame DEF SpawnTurn, TypeOK
    <2> QED BY <1>1, <1>5, <2>1, NoNewPrompt
  <1>6. ASSUME NEW t \in Turns, TurnStep(t) PROVE view'[c].pending_requests = {}
    <2>1. CASE c # Conv(t)
      <3>1. ASSUME NEW u \in Turns, Conv(u) = c PROVE ~Live(u)
        BY <1>6, <2>1, <3>1, TurnFrame DEF Live
      <3>2. view'[c] = view[c]
        BY <1>6, <2>1, TurnPrompts
      <3> QED BY <3>1, <3>2 DEF NoStalePrompt
    <2>2. CASE c = Conv(t)
      <3>1. pc'[t] \notin LivePcs
        BY <2>2 DEF Live
      <3>2. NoteTurnFinished(t)
        <4>1. ASSUME SettleDrained(t) PROVE FALSE
          BY <3>1, <4>1 DEF SettleDrained, TypeOK, LivePcs
        <4> QED BY <1>6, <3>1, <4>1 DEF TurnStep, NoteTurnStarting, StartTurn, RefuseBusy,
              LoadFails, EmitTurnStarted, EnterChat, EndChat, RequestApproval, InsertPending,
              RegisterPending, ShowPending, SendRequest, TakeDecision, ObserveCancel,
              FinishTurn, SaveOutcome, AbortTurn, DrainTurn, NoteSystemError, Goto, TypeOK,
              LivePcs, CorePcs
      <3>3. view[c] \in Facts /\ view' = [view EXCEPT ![c] = TurnFinished(@)]
        BY <2>2, <3>2 DEF NoteTurnFinished, TypeOK
      <3> QED BY <3>3, PromptUpdates DEF TypeOK
    <2> QED BY <2>1, <2>2
  <1> QED BY <1>2, <1>3, <1>4, <1>5, <1>6 DEF Next, SideStep

-----------------------------------------------------------------------------
(* The theorems.                                                            *)

LEMMA InvInit == Init => IInv
  <1> SUFFICES ASSUME Init PROVE IInv
    OBVIOUS
  <1>1. TypeOK
    BY TypeInit
  <1>2. \A t \in Turns : ~Live(t)
    BY DEF Init, Live, LivePcs, CorePcs
  <1>3. AskingTurns
    BY DEF Init, AskingTurns, AskingPcs
  <1>4. TasksTracked /\ OneTaskPerConversation
    BY <1>2 DEF Init, TasksTracked, OneTaskPerConversation
  <1>5. RequestsAccounted /\ WithdrawnDecided /\ LeftBehind
    BY DEF Init, RequestsAccounted, WithdrawnDecided, LeftBehind
  <1>6. PromptsShown /\ NoStalePrompt
    BY DEF Init, PromptsShown, NoStalePrompt, NewFacts
  <1> QED BY <1>1, <1>3, <1>4, <1>5, <1>6 DEF IInv

LEMMA InvStep == IInv /\ [Next]_vars => IInv'
  <1> SUFFICES ASSUME IInv, [Next]_vars PROVE IInv'
    OBVIOUS
  <1>1. TypeOK' /\ AskingTurns'
    BY TypeStep, AskingStep DEF IInv
  <1>2. TasksTracked' /\ OneTaskPerConversation'
    BY TasksStep DEF IInv
  <1>3. RequestsAccounted' /\ WithdrawnDecided' /\ LeftBehind'
    BY RequestsStep, WithdrawnStep, LeftStep DEF IInv
  <1>4. PromptsShown' /\ NoStalePrompt'
    BY PromptsStep, StaleStep DEF IInv
  <1> QED BY <1>1, <1>2, <1>3, <1>4 DEF IInv

(* The inductive invariant of TurnServiceInv holds in every reachable state. *)
THEOREM Invariance == Spec => []IInv
  BY InvInit, InvStep, PTL DEF Spec

(* Every variable of the app server keeps its type.                        *)
THEOREM TypeCorrect == Spec => []TypeOK
  <1>1. IInv => TypeOK
    BY DEF IInv
  <1> QED BY <1>1, Invariance, PTL

(* submit_turn joins the running tasks of a conversation before it spawns  *)
(* another: two turns of one conversation never run at the same time.      *)
THEOREM OneTask == Spec => []OneTaskPerConversation
  <1>1. IInv => OneTaskPerConversation
    BY DEF IInv
  <1> QED BY <1>1, Invariance, PTL

(* A turn blocked on an undecided request is one the coordinator can still *)
(* answer, and its prompt is on display.                                   *)
THEOREM PromptVisible == Spec => []NoHiddenPrompt
  <1>1. IInv => NoHiddenPrompt
    <2> SUFFICES ASSUME IInv, NEW t \in Turns, pc[t] = "await", reply[cur[t]] = "none"
                 PROVE  /\ cur[t] \in pending
                        /\ cur[t] \in view[Conv(t)].pending_requests
      BY DEF NoHiddenPrompt
    <2>1. cur[t] \in Requests /\ reqTurn[cur[t]] = t
      BY DEF IInv, AskingTurns, AskingPcs
    <2>2. cur[t] \in pending
      BY <2>1, TurnServiceAssumption DEF IInv, RequestsAccounted
    <2> QED BY <2>2 DEF IInv, PromptsShown
  <1> QED BY <1>1, Invariance, PTL

(* Once the turns of a conversation are over, its view lists no prompt.    *)
THEOREM PromptWithdrawn == Spec => []NoStalePrompt
  <1>1. IInv => NoStalePrompt
    BY DEF IInv
  <1> QED BY <1>1, Invariance, PTL
-----------------------------------------------------------------------------
(* The active turn, under clients that send nothing that waits for turns   *)
(* while one runs, and without readers beside the loop.                    *)

WaitingPcs == {"await", "compact", "stopped"}

(* What a task may do to the active turn and the core's requests: start,   *)
(* finish, be recorded, register a request; the rest only moves on.        *)
MovesOn(t, p) ==
  /\ pc' = [pc EXCEPT ![t] = p] /\ UNCHANGED coreVars
  /\ pc[t] # "core" /\ (p \in Unstarted => pc[t] = "start")
  /\ p \in CorePcs => pc[t] \in CorePcs \ {"finish"}
  /\ pc[t] \in CorePcs \ {"load", "check"} => p \in CorePcs \ {"load", "check"}
  /\ pc[t] \in {"close", "settle", "viewfinish", "done"} =>
       p \in {"close", "settle", "viewfinish", "done"}
LEMMA TurnMoves ==
  ASSUME TypeOK, NEW t \in Turns, TurnStep(t)
  PROVE  /\ Live(t) /\ UNCHANGED loopVars
         /\ \/ StartTurn(t) \/ FinishTurn(t) \/ SaveOutcome(t) \/ RegisterPending(t)
            \/ RefuseBusy(t) \/ \E p \in TurnPcs : MovesOn(t, p)
  <1>1. Live(t)
    BY DEF TurnStep, NoteTurnStarting, StartTurn, RefuseBusy, LoadFails, EmitTurnStarted,
           EnterChat, EndChat, RequestApproval, InsertPending, RegisterPending, ShowPending,
           SendRequest, TakeDecision, ObserveCancel, FinishTurn, SaveOutcome, AbortTurn,
           DrainTurn, NoteSystemError, SettleDrained, NoteTurnFinished, Goto,
           Live, LivePcs, CorePcs
  <1>2. UNCHANGED loopVars
    BY DEF TurnStep, NoteTurnStarting, StartTurn, RefuseBusy, LoadFails, EmitTurnStarted,
           EnterChat, EndChat, RequestApproval, InsertPending, RegisterPending, ShowPending,
           SendRequest, TakeDecision, ObserveCancel, FinishTurn, SaveOutcome, AbortTurn,
           DrainTurn, NoteSystemError, SettleDrained, NoteTurnFinished
  <1>3. pc \in [Turns -> TurnPcs] /\ pc = [pc EXCEPT ![t] = pc[t]] /\ pc[t] \in TurnPcs
    BY DEF TypeOK
  <1> USE DEF MovesOn, Goto, CorePcs, LivePcs, TurnPcs, Unstarted
  <1>4. ASSUME NoteTurnStarting(t) PROVE MovesOn(t, "core")
    BY <1>4 DEF NoteTurnStarting
  <1>5. ASSUME EmitTurnStarted(t) PROVE MovesOn(t, "check")
    BY <1>5 DEF EmitTurnStarted
  <1>6. ASSUME EnterChat(t) PROVE MovesOn(t, "run")
    BY <1>6 DEF EnterChat
  <1>7. ASSUME EndChat(t) \/ RequestApproval(t) \/ \E r \in Requests : InsertPending(t, r)
        PROVE  \E p \in TurnPcs : MovesOn(t, p)
    BY <1>7 DEF EndChat, RequestApproval, InsertPending
  <1>8. ASSUME ShowPending(t) \/ SendRequest(t) PROVE \E p \in TurnPcs : MovesOn(t, p)
    BY <1>8 DEF ShowPending, SendRequest
  <1>9. ASSUME TakeDecision(t) PROVE \E p \in TurnPcs : MovesOn(t, p)
    <2>1. MovesOn(t, "run") \/ MovesOn(t, "finish")
      BY <1>9 DEF TakeDecision
    <2> QED BY <2>1
  <1>10. ASSUME ObserveCancel(t) PROVE MovesOn(t, "finish")
    BY <1>10 DEF ObserveCancel
  <1>11. ASSUME LoadFails(t) PROVE MovesOn(t, "syserr")
    BY <1>11 DEF LoadFails
  <1>12. ASSUME AbortTurn(t) PROVE MovesOn(t, "finish") \/ MovesOn(t, "close")
    BY <1>12 DEF AbortTurn
  <1>13. ASSUME DrainTurn(t) PROVE MovesOn(t, "settle")
    BY <1>13 DEF DrainTurn
  <1>14. ASSUME NoteSystemError(t) \/ NoteTurnFinished(t)
         PROVE  MovesOn(t, "viewfinish") \/ MovesOn(t, "done")
    BY <1>14 DEF NoteSystemError, NoteTurnFinished
  <1>15. ASSUME SettleDrained(t) PROVE MovesOn(t, pc[t]) \/ MovesOn(t, "viewfinish")
    BY <1>3, <1>15 DEF SettleDrained
  <1> HIDE DEF MovesOn
  <1> QED BY <1>1, <1>2, <1>3, <1>4, <1>5, <1>6, <1>7, <1>8, <1>9, <1>10, <1>11, <1>12, <1>13,
             <1>14, <1>15 DEF TurnStep

(* What the loop may do: take a command, go on with one, start a turn.     *)
Takes == commands # <<>> /\ loopPc = "recv" /\ commands' = Tail(commands) /\ UNCHANGED pc
LEMMA LoopMoves ==
  ASSUME TypeOK, LoopStep
  PROVE  \/ Takes /\ (loopPc' \in WaitingPcs => Head(commands).op \in WaitingOps)
         \/ UNCHANGED <<commands, pc>> /\ (loopPc' \in WaitingPcs => loopPc \in WaitingPcs)
         \/ \E t \in Turns : SpawnTurn(t)
  <1>1. ASSUME ReceiveTurnWait \/ ReceiveShutdown \/ ReceiveInterrupt \/ ReceiveResolve
               \/ ReceiveRequestView \/ ReceiveReset
        PROVE  Takes /\ (loopPc' \in WaitingPcs => Head(commands).op \in WaitingOps)
    BY <1>1 DEF ReceiveTurnWait, ReceiveShutdown, ReceiveInterrupt, ReceiveResolve,
      ReceiveRequestView, ReceiveReset, Handle, Enter, Return, Takes, WaitingPcs, WaitingOps,
      turnVars
  <1>2. ASSUME ReadStatus \/ NoteLoaded \/ StartCompaction \/ EndCompaction \/ StopLoop
               \/ NoteInterrupt \/ DrainConversation \/ PublishDrained \/ ResolveCore
               \/ ResolveView
        PROVE  UNCHANGED <<commands, pc>> /\ (loopPc' \in WaitingPcs => loopPc \in WaitingPcs)
    BY <1>2 DEF ReadStatus, NoteLoaded, StartCompaction, EndCompaction, StopLoop,
      NoteInterrupt, DrainConversation, PublishDrained, ResolveCore, ResolveView, TasksJoined,
      Return, WaitingPcs, turnVars
  <1> QED BY <1>1, <1>2 DEF LoopStep

(* One command that waits for turns is under way, or turns run, never both. *)
LEMMA QuietLoopStep ==
  ASSUME TypeOK, Gate = "quiet", QuietLoop, [Next]_vars
  PROVE  QuietLoop'
  <1>0. commands \in Seq(Command) /\ pc \in [Turns -> TurnPcs]
    BY DEF TypeOK
  <1>1. ASSUME UNCHANGED <<commands, loopPc>>, \A u \in Turns : Live(u)' => Live(u)
        PROVE  QuietLoop'
    BY <1>1 DEF QuietLoop, IsWaiting
  <1>2. ASSUME NEW t \in Turns, TurnStep(t) PROVE QuietLoop'
    <2>1. Live(t) /\ UNCHANGED loopVars /\ \A u \in Turns \ {t} : pc'[u] = pc[u]
      BY <1>2, TurnMoves, TurnFrame
    <2> QED BY <1>1, <2>1 DEF loopVars, Live
  <1>3. ASSUME NEW cmd \in Command, Send(cmd) PROVE QuietLoop'
    <2>1. /\ UNCHANGED <<pc, loopPc>> /\ commands' = Append(commands, cmd)
          /\ cmd.op \in WaitingOps => Quiet
      BY <1>3 DEF Send, Admits, turnVars
    <2>2. /\ DOMAIN commands = 1..Len(commands) /\ Len(commands) \in Nat
          /\ DOMAIN commands' = 1..(Len(commands) + 1)
          /\ \A i \in DOMAIN commands : commands'[i] = commands[i]
          /\ commands'[Len(commands) + 1] = cmd
      BY <1>0, <2>1
    <2>3. \A u \in Turns : Live(u)' = Live(u)
      BY <2>1 DEF Live
    <2>4. ASSUME NEW i \in DOMAIN commands', IsWaiting(i)'
          PROVE  IF i \in DOMAIN commands THEN IsWaiting(i)
                 ELSE i = Len(commands) + 1 /\ cmd.op \in WaitingOps
      BY <2>2, <2>4 DEF IsWaiting
    <2>5. CASE cmd.op \in WaitingOps
      <3>1. /\ \A u \in Turns : ~Live(u)
            /\ \A i \in DOMAIN commands : ~IsWaiting(i)
            /\ loopPc \notin {"await", "compact", "stopped"}
        BY <2>1, <2>5 DEF Quiet, IsWaiting
      <3> QED BY <2>1, <2>3, <2>4, <3>1 DEF QuietLoop
    <2>6. CASE cmd.op \notin WaitingOps
      BY <2>1, <2>3, <2>4, <2>6 DEF QuietLoop
    <2> QED BY <2>5, <2>6
  <1>4. ASSUME Takes, loopPc' \in WaitingPcs => Head(commands).op \in WaitingOps
        PROVE  QuietLoop'
    <2>1. /\ 1 \in DOMAIN commands /\ Head(commands) = commands[1]
          /\ \A i \in DOMAIN commands' :
               i \in Nat /\ i + 1 \in DOMAIN commands /\ i + 1 # 1
               /\ commands'[i] = commands[i + 1]
      BY <1>0, <1>4 DEF Takes
    <2>2. \A i \in DOMAIN commands' : IsWaiting(i)' = IsWaiting(i + 1)
      BY <2>1 DEF IsWaiting
    <2>3. \A u \in Turns : Live(u)' = Live(u)
      BY <1>4 DEF Live, Takes
    <2>4. ASSUME NEW i \in DOMAIN commands', NEW j \in DOMAIN commands',
                 IsWaiting(i)', IsWaiting(j)'
          PROVE  i = j
      BY <2>1, <2>2, <2>4 DEF QuietLoop
    <2>5. ASSUME Head(commands).op \in WaitingOps
          PROVE  (\A u \in Turns : ~Live(u)) /\ \A i \in DOMAIN commands' : ~IsWaiting(i)'
      BY <2>1, <2>2, <2>5 DEF QuietLoop, IsWaiting
    <2>6. (\E i \in DOMAIN commands' : IsWaiting(i)') => \A u \in Turns : ~Live(u)
      BY <2>1, <2>2 DEF QuietLoop
    <2> QED BY <1>4, <2>3, <2>4, <2>5, <2>6 DEF QuietLoop, WaitingPcs
  <1>5. ASSUME UNCHANGED <<commands, pc>>, loopPc' \in WaitingPcs => loopPc \in WaitingPcs
        PROVE  QuietLoop'
    <2>1. /\ \A u \in Turns : Live(u)' = Live(u)
          /\ \A i \in DOMAIN commands : IsWaiting(i)' = IsWaiting(i)
      BY <1>5 DEF Live, IsWaiting
    <2> QED BY <1>5, <2>1 DEF QuietLoop, WaitingPcs
  <1>6. ASSUME NEW t \in Turns, SpawnTurn(t) PROVE QuietLoop'
    <2>1. loopPc = "await" /\ loopPc' = "recv" /\ commands' = commands
      BY <1>6 DEF SpawnTurn, TasksJoined, Return
    <2>2. \A i \in DOMAIN commands' : ~IsWaiting(i)'
      BY <2>1 DEF QuietLoop, IsWaiting
    <2> QED BY <2>1, <2>2 DEF QuietLoop
  <1>7. CASE UNCHANGED vars
    BY <1>1, <1>7 DEF vars, loopVars, turnVars, Live
  <1>8. CASE SideStep
    BY <1>1, <1>8, SideFrame DEF loopVars, turnVars, Live
  <1> QED BY <1>2, <1>3, <1>4, <1>5, <1>6, <1>7, <1>8, LoopMoves DEF Next, SideStep

(* What the active turn and the core's requests have to keep, together.    *)
ActiveInv == ActiveHasStarted /\ CoreHoldsOwn /\ StatusIsCurrent /\ RunningTurnIsActive

(* Clearing the active turn of a conversation leaves no request behind.    *)
LEMMA ClearMeans ==
  ASSUME TypeOK, CoreHoldsOwn, NEW c \in Conversations, ClearActiveTurn(c)
  PROVE  /\ active' = [active EXCEPT ![c] = NoTurn]
         /\ corePending'[c] = {} /\ recorded' = recorded
         /\ \A d \in Conversations : d # c =>
              active'[d] = active[d] /\ corePending'[d] = corePending[d]
  <1>1. \A r \in corePending[c] : active[c] # NoTurn /\ reqTurn[r] = active[c]
    BY TurnServiceAssumption DEF CoreHoldsOwn
  <1> QED BY <1>1 DEF ClearActiveTurn, TypeOK

(* A step of a turn, where no other turn of its conversation is live.      *)
LEMMA ActiveTurnStep ==
  ASSUME IInv, ActiveInv, NEW t \in Turns, TurnStep(t)
  PROVE  ActiveInv'
  <1>0. /\ TypeOK /\ pc \in [Turns -> TurnPcs] /\ NoTurn \notin Turns
        /\ Live(t) /\ UNCHANGED loopVars
        /\ \A u \in Turns \ {t} : pc'[u] = pc[u] /\ (Conv(u) = Conv(t) => ~Live(u))
        /\ \A u \in Turns : Conv(u) \in Conversations
        /\ active \in [Conversations -> Turns \cup {NoTurn}]
        /\ DOMAIN corePending = Conversations
        /\ \A u \in Turns : pc[u] \in CorePcs => Live(u)
    BY TurnServiceAssumption, TurnMoves, TurnFrame
      DEF IInv, OneTaskPerConversation, TypeOK, Conv, Live, LivePcs
  <1>1. ActiveHasStarted /\ CoreHoldsOwn /\ StatusIsCurrent /\ RunningTurnIsActive
    BY DEF ActiveInv
  <1> USE DEF Unstarted
  <1>2. \A u \in Turns : Live(u)' => Live(u)
    BY <1>0 DEF Live
  (* Requests keep their turns. *)
  <1>3. \A r \in Requests : reqTurn[r] \in Turns => reqTurn'[r] = reqTurn[r]
    <2>1. CASE \E r \in Requests : InsertPending(t, r)
      BY <1>0, <2>1 DEF InsertPending, TypeOK
    <2>2. CASE UNCHANGED reqTurn
      BY <2>2
    <2>3. UNCHANGED reqTurn \/ \E r \in Requests : InsertPending(t, r)
      BY DEF TurnStep, NoteTurnStarting, StartTurn, RefuseBusy, LoadFails, EmitTurnStarted,
           EnterChat, EndChat, RequestApproval, RegisterPending, ShowPending,
           SendRequest, TakeDecision, ObserveCancel, FinishTurn, SaveOutcome, AbortTurn,
           DrainTurn, Drain, NoteSystemError, SettleDrained, NoteTurnFinished, requestVars
    <2> QED BY <2>1, <2>2, <2>3
  <1>4. \A c \in Conversations : corePending[c] \subseteq Requests
    BY <1>0 DEF TypeOK
  (* A status under way keeps to its turn, as long as that stays active or no
     other turn is about to become so. *)
  <1>5. ASSUME pc'[t] \in Unstarted => pc[t] \in Unstarted,
               \A c \in Conversations : active'[c] # active[c] =>
                 /\ c = Conv(t)
                 /\ \/ active[c] = NoTurn /\ active'[c] = t /\ pc[t] \in Unstarted
                    \/ active[c] \in {t, NoTurn} /\ active'[c] = NoTurn
        PROVE  StatusIsCurrent'
    <2>1. SUFFICES ASSUME loopPc = "status", current.turn # NoTurn
                   PROVE  /\ Conv(current.turn) = current.conv
                          /\ pc'[current.turn] \notin Unstarted
                          /\ \/ active'[current.conv] = current.turn
                             \/ /\ active'[current.conv] = NoTurn
                                /\ \A u \in Turns \ {current.turn} :
                                     Conv(u) = current.conv => ~Live(u)'
      BY <1>0, <1>1 DEF StatusIsCurrent, loopVars, Conv
    <2>2. /\ current.turn \in Turns /\ current.conv \in Conversations
          /\ Conv(current.turn) = current.conv /\ pc[current.turn] \notin Unstarted
          /\ \/ active[current.conv] = current.turn
             \/ /\ active[current.conv] = NoTurn
                /\ \A u \in Turns \ {current.turn} : Conv(u) = current.conv => ~Live(u)
      BY <1>1, <2>1 DEF StatusIsCurrent, StatusRead
    <2>3. pc'[current.turn] \notin Unstarted
      BY <1>0, <1>5, <2>2
    <2>4. CASE active'[current.conv] = active[current.conv]
      BY <1>2, <2>2, <2>3, <2>4
    <2>5. CASE active'[current.conv] # active[current.conv]
      <3>1. /\ current.conv = Conv(t)
            /\ \/ active[current.conv] = NoTurn /\ pc[t] \in Unstarted
               \/ active[current.conv] \in {t, NoTurn} /\ active'[current.conv] = NoTurn
        BY <1>5, <2>2, <2>5
      <3>2. active[current.conv] = t /\ active'[current.conv] = NoTurn /\ current.turn = t
        BY <1>0, <2>2, <2>5, <3>1
      <3> QED BY <1>0, <1>2, <2>2, <2>3, <3>2
    <2> QED BY <2>4, <2>5
  <1>6. ASSUME StartTurn(t) PROVE ActiveInv'
    <2>1. /\ active[Conv(t)] = NoTurn /\ pc[t] = "core" /\ pc' = [pc EXCEPT ![t] = "load"]
          /\ active' = [active EXCEPT ![Conv(t)] = t] /\ UNCHANGED <<corePending, recorded>>
      BY <1>6 DEF StartTurn, Goto
    <2>2. /\ pc'[t] = "load" /\ active'[Conv(t)] = t
          /\ \A c \in Conversations : c # Conv(t) => active'[c] = active[c]
      BY <1>0, <2>1
    <2>3. corePending[Conv(t)] = {}
      BY <1>0, <1>1, <2>1 DEF CoreHoldsOwn
    <2>4. ActiveHasStarted'
      BY <1>0, <1>1, <2>1, <2>2 DEF ActiveHasStarted, Conv, CorePcs
    <2>5. CoreHoldsOwn'
      <3>1. SUFFICES ASSUME NEW c \in Conversations, NEW r \in corePending'[c]
                     PROVE  /\ reqTurn'[r] \in Turns /\ active'[c] = reqTurn'[r]
                            /\ pc'[reqTurn'[r]] \in CorePcs \ {"load", "check"}
        BY DEF CoreHoldsOwn
      <3>2. c # Conv(t) /\ r \in corePending[c] /\ r \in Requests /\ active'[c] = active[c]
        BY <1>4, <2>1, <2>2, <2>3, <3>1
      <3>3. /\ reqTurn[r] \in Turns /\ active[c] = reqTurn[r] /\ reqTurn'[r] = reqTurn[r]
            /\ pc[reqTurn[r]] \in CorePcs \ {"load", "check"}
        BY <1>1, <1>3, <3>2 DEF CoreHoldsOwn
      <3>4. pc'[reqTurn[r]] = pc[reqTurn[r]]
        BY <1>0, <2>1, <3>3 DEF CorePcs
      <3> QED BY <3>2, <3>3, <3>4
    <2>6. RunningTurnIsActive'
      BY <1>0, <1>1, <2>1, <2>2 DEF RunningTurnIsActive, Conv
    <2>7. StatusIsCurrent'
      BY <1>5, <2>1, <2>2
    <2> QED BY <2>4, <2>5, <2>6, <2>7 DEF ActiveInv
  <1>7. ASSUME FinishTurn(t) PROVE ActiveInv'
    <2>1. /\ pc[t] = "finish" /\ pc' = [pc EXCEPT ![t] = "post"]
          /\ ClearActiveTurn(Conv(t))
      BY <1>7 DEF FinishTurn, Goto
    <2>2. /\ pc'[t] = "post" /\ active'[Conv(t)] = NoTurn /\ corePending'[Conv(t)] = {}
          /\ recorded' = recorded
          /\ \A c \in Conversations : c # Conv(t) =>
               active'[c] = active[c] /\ corePending'[c] = corePending[c]
      BY <1>0, <1>1, <2>1, ClearMeans
    <2>3. active[Conv(t)] \in {t, NoTurn}
      BY <1>1, <2>1 DEF ActiveHasStarted
    <2>4. ActiveHasStarted'
      BY <1>0, <1>1, <2>1, <2>2 DEF ActiveHasStarted, Conv, CorePcs
    <2>5. CoreHoldsOwn'
      <3>1. SUFFICES ASSUME NEW c \in Conversations, NEW r \in corePending'[c]
                     PROVE  /\ reqTurn'[r] \in Turns /\ active'[c] = reqTurn'[r]
                            /\ pc'[reqTurn'[r]] \in CorePcs \ {"load", "check"}
        BY DEF CoreHoldsOwn
      <3>2. c # Conv(t) /\ r \in corePending[c] /\ r \in Requests /\ active'[c] = active[c]
        BY <1>4, <2>2, <3>1
      <3>3. /\ reqTurn[r] \in Turns /\ active[c] = reqTurn[r] /\ reqTurn'[r] = reqTurn[r]
            /\ pc[reqTurn[r]] \in CorePcs \ {"load", "check"} /\ Conv(reqTurn[r]) = c
        BY <1>0, <1>1, <1>3, <3>2 DEF CoreHoldsOwn, ActiveHasStarted
      <3> QED BY <1>0, <3>2, <3>3
    <2>6. RunningTurnIsActive'
      <3>1. SUFFICES ASSUME NEW u \in Turns, pc'[u] \in CorePcs \ {"finish"}
                     PROVE  active'[Conv(u)] = u
        BY DEF RunningTurnIsActive, Conv
      <3>2. u # t
        BY <2>2, <3>1 DEF CorePcs
      <3>3. pc[u] \in CorePcs \ {"finish"} /\ Conv(u) # Conv(t) /\ Conv(u) \in Conversations
        BY <1>0, <3>1, <3>2
      <3> QED BY <1>1, <2>2, <3>3 DEF RunningTurnIsActive
    <2>7. StatusIsCurrent'
      BY <1>5, <2>1, <2>2, <2>3
    <2> QED BY <2>4, <2>5, <2>6, <2>7 DEF ActiveInv
  (* Where the active turns stay what they are. *)
  <1>8. ASSUME UNCHANGED active, pc'[t] \in Unstarted => pc[t] \in Unstarted,
               active[Conv(t)] = t => pc'[t] \notin Unstarted,
               pc'[t] \in CorePcs => pc[t] \in CorePcs \ {"finish"},
               pc[t] \in CorePcs \ {"load", "check"} => pc'[t] \in CorePcs \ {"load", "check"},
               \A u \in recorded' : pc'[u] \in {"close", "settle", "viewfinish", "done"},
               \A c \in Conversations : \A r \in corePending'[c] :
                 r \in corePending[c]
                 \/ /\ r \in Requests /\ reqTurn[r] = t /\ c = Conv(t) /\ active[c] = t
                    /\ pc'[t] \in CorePcs \ {"load", "check"}
        PROVE  ActiveInv'
    <2>1. ActiveHasStarted'
      <3>1. ASSUME NEW c \in Conversations, active[c] # NoTurn
            PROVE  Conv(active[c]) = c /\ pc'[active[c]] \notin Unstarted
        BY <1>0, <1>1, <1>8, <3>1 DEF ActiveHasStarted
      <3>2. ASSUME NEW u \in Turns, pc'[u] = "finish"
            PROVE  active[Conv(u)] \in {u, NoTurn}
        <4>1. CASE u = t
          <5>1. pc[t] \in CorePcs \ {"finish"}
            BY <1>8, <3>2, <4>1 DEF CorePcs
          <5> QED BY <1>1, <4>1, <5>1 DEF RunningTurnIsActive
        <4>2. CASE u # t
          BY <1>0, <1>1, <3>2, <4>2 DEF ActiveHasStarted
        <4> QED BY <4>1, <4>2
      <3> QED BY <1>8, <3>1, <3>2 DEF ActiveHasStarted, Conv
    <2>2. CoreHoldsOwn'
      <3>1. SUFFICES ASSUME NEW c \in Conversations, NEW r \in corePending'[c]
                     PROVE  /\ reqTurn'[r] \in Turns /\ active[c] = reqTurn'[r]
                            /\ pc'[reqTurn'[r]] \in CorePcs \ {"load", "check"}
        BY <1>8 DEF CoreHoldsOwn
      <3>2. CASE r \in corePending[c]
        <4>1. /\ reqTurn[r] \in Turns /\ active[c] = reqTurn[r] /\ reqTurn'[r] = reqTurn[r]
              /\ pc[reqTurn[r]] \in CorePcs \ {"load", "check"}
          BY <1>1, <1>3, <1>4, <3>2 DEF CoreHoldsOwn
        <4> QED BY <1>0, <1>8, <4>1
      <3>3. CASE r \notin corePending[c]
        BY <1>3, <1>8, <3>1, <3>3
      <3> QED BY <3>2, <3>3
    <2>3. RunningTurnIsActive'
      BY <1>0, <1>1, <1>8 DEF RunningTurnIsActive, Conv
    <2>4. StatusIsCurrent'
      BY <1>5, <1>8
    <2> QED BY <2>1, <2>2, <2>3, <2>4 DEF ActiveInv
  <1>9. \A u \in recorded : pc[u] \in {"close", "settle", "viewfinish", "done"} /\ u \in Turns
    BY <1>0, <1>1 DEF ActiveHasStarted, TypeOK
  <1>10. ASSUME SaveOutcome(t) PROVE ActiveInv'
    <2>1. /\ pc[t] = "post" /\ pc'[t] = "close" /\ UNCHANGED <<active, corePending>>
          /\ recorded' = recorded \cup {t}
      BY <1>0, <1>10 DEF SaveOutcome, Goto
    <2> QED BY <1>0, <1>8, <1>9, <2>1 DEF CorePcs
  <1>11. ASSUME RegisterPending(t) PROVE ActiveInv'
    <2>1. /\ pc[t] = "register" /\ pc'[t] = "show" /\ UNCHANGED <<active, recorded>>
          /\ corePending' = [corePending EXCEPT ![Conv(t)] = @ \cup {cur[t]}]
      BY <1>0, <1>11 DEF RegisterPending, Goto
    <2>2. cur[t] \in Requests /\ reqTurn[cur[t]] = t /\ active[Conv(t)] = t
      BY <1>1, <2>1 DEF IInv, AskingTurns, AskingPcs, RunningTurnIsActive, CorePcs
    <2>3. \A c \in Conversations : \A r \in corePending'[c] :
            r \in corePending[c] \/ (r = cur[t] /\ c = Conv(t))
      BY <1>0, <2>1
    <2> QED BY <1>0, <1>8, <1>9, <2>1, <2>2, <2>3 DEF CorePcs
  <1>12. ASSUME RefuseBusy(t) PROVE ActiveInv'
    <2>1. /\ pc[t] = "core" /\ pc'[t] = "busy" /\ UNCHANGED coreVars
      BY <1>0, <1>12 DEF RefuseBusy, Goto
    <2> QED BY <1>0, <1>8, <1>9, <2>1 DEF CorePcs, coreVars
  <1>13. ASSUME NEW p \in TurnPcs, MovesOn(t, p) PROVE ActiveInv'
    <2>1. pc'[t] = p /\ UNCHANGED <<active, corePending, recorded>>
      BY <1>0, <1>13 DEF MovesOn, coreVars
    <2>2. active[Conv(t)] = t => p \notin Unstarted
      BY <1>0, <1>1, <1>13 DEF ActiveHasStarted, MovesOn
    <2>3. \A u \in recorded' : pc'[u] \in {"close", "settle", "viewfinish", "done"}
      BY <1>0, <1>9, <1>13, <2>1 DEF MovesOn
    <2> QED BY <1>8, <1>13, <2>1, <2>2, <2>3 DEF MovesOn
  <1> QED BY <1>0, <1>6, <1>7, <1>10, <1>11, <1>12, <1>13, TurnMoves

(* Where no conversation gets another active turn and no task moves, what  *)
(* is active and what the core holds is only ever taken away.              *)
LEMMA ActiveTakenAway ==
  ASSUME TypeOK, ActiveHasStarted, CoreHoldsOwn, RunningTurnIsActive,
         UNCHANGED <<pc, reqTurn>>, recorded' \subseteq recorded,
         \A c \in Conversations :
           \/ /\ active'[c] = active[c]
              /\ corePending'[c] \subseteq corePending[c]
           \/ /\ active'[c] = NoTurn /\ corePending'[c] = {}
              /\ \A t \in Turns : Conv(t) = c => pc[t] \notin CorePcs \ {"finish"}
  PROVE  ActiveHasStarted' /\ CoreHoldsOwn' /\ RunningTurnIsActive'
  <1>1. \A t \in Turns : Conv(t) \in Conversations
    BY TurnServiceAssumption DEF Conv
  <1>2. ActiveHasStarted'
    <2>1. \A c \in Conversations : active'[c] # NoTurn =>
            Conv(active[c])= c /\ pc'[active[c]] \notin Unstarted /\ active'[c] = active[c]
      BY DEF ActiveHasStarted
    <2>2. \A t \in Turns : pc'[t] = "finish" => active'[Conv(t)] \in {t, NoTurn}
      BY <1>1 DEF ActiveHasStarted
    <2>3. \A t \in recorded' : pc'[t] \in {"close", "settle", "viewfinish", "done"}
      BY DEF ActiveHasStarted
    <2> QED BY <2>1, <2>2, <2>3 DEF ActiveHasStarted, Conv
  <1>3. CoreHoldsOwn'
    BY DEF CoreHoldsOwn
  <1>4. RunningTurnIsActive'
    BY <1>1 DEF RunningTurnIsActive, Conv
  <1> QED BY <1>2, <1>3, <1>4

(* The loop asks for a status, discards a conversation that runs no turn,  *)
(* takes an answered request off the core's list, clears a turn that is    *)
(* over, or leaves what the core holds alone.                              *)
LEMMA LoopOnCore ==
  ASSUME LoopStep
  PROVE  \/ ReceiveRequestView \/ ReceiveReset \/ ResolveCore \/ ReadStatus
         \/ (\E t \in Turns : SpawnTurn(t))
         \/ UNCHANGED <<pc, active, corePending, recorded>> /\ loopPc' # "status"
  <1>1. ASSUME ReceiveTurnWait \/ ReceiveShutdown \/ ReceiveInterrupt \/ ReceiveResolve
        PROVE  UNCHANGED <<pc, active, corePending, recorded>> /\ loopPc' # "status"
    BY <1>1 DEF ReceiveTurnWait, ReceiveShutdown, ReceiveInterrupt, ReceiveResolve, Enter,
      Return, turnVars, coreVars
  <1>2. ASSUME NoteLoaded \/ StartCompaction \/ EndCompaction \/ StopLoop
               \/ NoteInterrupt \/ DrainConversation \/ PublishDrained \/ ResolveView
        PROVE  UNCHANGED <<pc, active, corePending, recorded>> /\ loopPc' # "status"
    BY <1>2 DEF NoteLoaded, StartCompaction, EndCompaction, StopLoop, NoteInterrupt,
      DrainConversation, PublishDrained, ResolveView, Return, turnVars, coreVars
  <1> QED BY <1>1, <1>2 DEF LoopStep

LEMMA ActiveLoopStep ==
  ASSUME IInv, QuietLoop, ActiveInv, LoopStep
  PROVE  ActiveInv'
  <1>0. /\ TypeOK /\ pc \in [Turns -> TurnPcs] /\ NoTurn \notin Turns
        /\ \A t \in Turns : Conv(t) \in Conversations
        /\ active \in [Conversations -> Turns \cup {NoTurn}]
        /\ corePending \in [Conversations -> SUBSET Requests]
        /\ UNCHANGED reqTurn
        /\ \A t \in Turns : pc[t] \in CorePcs => Live(t)
    BY TurnServiceAssumption, LoopFrame DEF IInv, TypeOK, Conv, Live, LivePcs
  <1>1. ActiveHasStarted /\ CoreHoldsOwn /\ StatusIsCurrent /\ RunningTurnIsActive
    BY DEF ActiveInv
  <1>2. ASSUME UNCHANGED <<pc, active, corePending, recorded>>, loopPc' # "status"
        PROVE  ActiveInv'
    BY <1>0, <1>1, <1>2, ActiveTakenAway DEF ActiveInv, StatusIsCurrent
  <1>3. ASSUME ReceiveRequestView PROVE ActiveInv'
    <2>1. /\ UNCHANGED <<pc, active, corePending, recorded>>
          /\ current' = StatusOf(Head(commands).conv)
          /\ Head(commands).conv \in Conversations
      BY <1>0, <1>3, HandledCommand, CommandFields DEF ReceiveRequestView, turnVars, coreVars
    <2>2. /\ current' \in StatusRead /\ current'.conv \in Conversations
          /\ current'.turn = active[current'.conv]
      BY <1>0, <2>1 DEF StatusOf, StatusRead
    <2>3. StatusIsCurrent'
      BY <1>0, <1>1, <2>1, <2>2 DEF StatusIsCurrent, ActiveHasStarted, Conv
    <2> QED BY <1>0, <1>1, <2>1, <2>3, ActiveTakenAway DEF ActiveInv
  <1>4. ASSUME ReceiveReset PROVE ActiveInv'
    <2> DEFINE c0 == Head(commands).conv
    <2>2. /\ c0 \in Conversations /\ commands # <<>>
          /\ 1 \in DOMAIN commands /\ commands[1].op = "ResetConversation"
      BY <1>0, <1>4, HandledCommand, CommandFields DEF ReceiveReset, Handle, TypeOK
    <2>3. \A t \in Turns : ~Live(t)
      BY <2>2 DEF QuietLoop, IsWaiting, WaitingOps
    <2>4. /\ UNCHANGED pc /\ recorded' \subseteq recorded /\ loopPc' # "status"
          /\ active' = [active EXCEPT ![c0] = NoTurn]
          /\ corePending' = [corePending EXCEPT ![c0] = {}]
      BY <1>4 DEF ReceiveReset, Return, turnVars
    <2>5. \A c \in Conversations :
            \/ active'[c] = active[c] /\ corePending'[c] = corePending[c]
            \/ active'[c] = NoTurn /\ corePending'[c] = {}
      BY <1>0, <2>4
    <2>6. ActiveHasStarted' /\ CoreHoldsOwn' /\ RunningTurnIsActive'
      BY <1>0, <1>1, <2>3, <2>4, <2>5, ActiveTakenAway
    <2> QED BY <2>4, <2>6 DEF ActiveInv, StatusIsCurrent
  <1>5. ASSUME ResolveCore PROVE ActiveInv'
    <2>1. /\ UNCHANGED <<pc, active, recorded>> /\ loopPc' # "status"
          /\ corePending' = [corePending EXCEPT ![ResolvedConversation] = @ \ {current.request}]
      BY <1>5 DEF ResolveCore, turnVars
    <2>2. \A c \in Conversations : corePending'[c] \subseteq corePending[c]
      BY <1>0, <2>1
    <2> QED BY <1>0, <1>1, <2>1, <2>2, ActiveTakenAway DEF ActiveInv, StatusIsCurrent
  <1>6. ASSUME ReadStatus PROVE ActiveInv'
    <2>1. /\ loopPc = "status" /\ loopPc' # "status" /\ UNCHANGED pc
          /\ current \in StatusRead /\ current.conv \in Conversations
          /\ \/ UNCHANGED coreVars
             \/ /\ current.turn # NoTurn /\ current.turn \in Turns
                /\ OnRecord(current.turn) /\ ClearActiveTurn(current.conv)
      BY <1>1, <1>6 DEF ReadStatus, StatusAnswered, StatusIsCurrent, StatusRead, turnVars
    <2>2. CASE UNCHANGED coreVars
      BY <1>2, <2>1, <2>2 DEF coreVars
    <2>3. CASE current.turn \in Turns /\ OnRecord(current.turn) /\ ClearActiveTurn(current.conv)
      <3>1. /\ active' = [active EXCEPT ![current.conv] = NoTurn]
            /\ corePending'[current.conv] = {} /\ recorded' = recorded
            /\ \A d \in Conversations : d # current.conv =>
                 active'[d] = active[d] /\ corePending'[d] = corePending[d]
        BY <1>0, <1>1, <2>1, <2>3, ClearMeans
      <3>2. pc[current.turn] \notin CorePcs \ {"finish"}
        BY <1>1, <2>3 DEF OnRecord, ActiveHasStarted, CorePcs
      <3>3. active[current.conv] \in {current.turn, NoTurn}
        BY <1>0, <1>1, <2>1, <2>3 DEF StatusIsCurrent
      <3>4. \A t \in Turns : Conv(t) = current.conv => pc[t] \notin CorePcs \ {"finish"}
        BY <1>0, <1>1, <3>2, <3>3 DEF RunningTurnIsActive
      <3>5. active'[current.conv] = NoTurn
        BY <1>0, <2>1, <3>1
      <3>6. ActiveHasStarted' /\ CoreHoldsOwn' /\ RunningTurnIsActive'
        BY <1>0, <1>1, <2>1, <3>1, <3>4, <3>5, ActiveTakenAway
      <3> QED BY <2>1, <3>6 DEF ActiveInv, StatusIsCurrent
    <2> QED BY <2>1, <2>2, <2>3
  <1>7. ASSUME NEW t \in Turns, SpawnTurn(t) PROVE ActiveInv'
    <2>1. /\ pc[t] = "idle" /\ pc' = [pc EXCEPT ![t] = "start"] /\ loopPc' # "status"
          /\ UNCHANGED <<active, corePending, recorded>>
      BY <1>7 DEF SpawnTurn, Return, coreVars
    <2>2. /\ pc'[t] = "start" /\ \A u \in Turns : u # t => pc'[u] = pc[u]
          /\ \A c \in Conversations : active[c] # t
          /\ recorded \subseteq Turns /\ t \notin recorded
      BY <1>0, <1>1, <2>1 DEF ActiveHasStarted, Unstarted, TypeOK
    <2>3. ActiveHasStarted'
      BY <1>0, <1>1, <2>1, <2>2 DEF ActiveHasStarted, Conv
    <2>4. CoreHoldsOwn'
      BY <1>0, <1>1, <2>1, <2>2 DEF CoreHoldsOwn
    <2>5. RunningTurnIsActive'
      BY <1>0, <1>1, <2>1, <2>2 DEF RunningTurnIsActive, Conv, CorePcs
    <2> QED BY <2>1, <2>3, <2>4, <2>5 DEF ActiveInv, StatusIsCurrent
  <1> QED BY <1>2, <1>3, <1>4, <1>5, <1>6, <1>7, LoopOnCore

LEMMA QuietInit == Init => QuietInv
  <1> SUFFICES ASSUME Init PROVE QuietInv
    OBVIOUS
  <1>1. QuietLoop
    BY DEF Init, QuietLoop, IsWaiting
  <1>2. ActiveHasStarted /\ CoreHoldsOwn /\ StatusIsCurrent
    BY DEF Init, ActiveHasStarted, CoreHoldsOwn, StatusIsCurrent
  <1>3. RunningTurnIsActive
    BY DEF Init, RunningTurnIsActive, CorePcs
  <1> QED BY <1>1, <1>2, <1>3 DEF QuietInv

LEMMA QuietStep ==
  ASSUME Gate = "quiet", Readers = {}, IInv, QuietInv, [Next]_vars
  PROVE  QuietInv'
  <1>0. TypeOK /\ QuietLoop /\ ActiveInv
    BY DEF IInv, QuietInv, ActiveInv
  <1>1. QuietLoop'
    BY <1>0, QuietLoopStep
  <1>2. ASSUME UNCHANGED <<loopPc, current, pc, active, corePending, recorded, reqTurn>>
        PROVE  ActiveInv'
    BY <1>0, <1>2 DEF ActiveInv, ActiveHasStarted, CoreHoldsOwn, StatusIsCurrent,
      RunningTurnIsActive, Live, Conv, Unstarted, LivePcs, CorePcs
  <1>3. ASSUME NEW cmd \in Command, Send(cmd) PROVE ActiveInv'
    BY <1>2, <1>3, SendFrame DEF turnVars, coreVars, requestVars
  <1>4. ASSUME DetachedStep PROVE ActiveInv'
    BY <1>2, <1>4 DEF DetachedStep, NoteTurnStarted, ReleaseGuard, loopVars, turnVars,
      coreVars, requestVars
  <1>5. ASSUME UNCHANGED vars PROVE ActiveInv'
    <2>1. UNCHANGED <<loopPc, current, pc, active, corePending, recorded, reqTurn>>
      BY <1>5 DEF vars, loopVars, turnVars, coreVars, requestVars
    <2> QED BY <1>2, <2>1
  <1>6. ASSUME LoopStep PROVE ActiveInv'
    BY <1>0, <1>6, ActiveLoopStep
  <1>7. ASSUME NEW t \in Turns, TurnStep(t) PROVE ActiveInv'
    BY <1>0, <1>7, ActiveTurnStep
  <1>8. ActiveInv'
    BY <1>3, <1>4, <1>5, <1>6, <1>7 DEF Next
  <1> QED BY <1>1, <1>8 DEF QuietInv, ActiveInv

(* While the clients send nothing that waits for turns during one, and     *)
(* only the command loop asks for a status, an interrupt finds the turn    *)
(* that runs: it is the active turn of its conversation.                   *)
THEOREM RunningIsActive ==
  ASSUME Gate = "quiet", Readers = {}
  PROVE  Spec => []RunningTurnIsActive
  <1>1. IInv /\ QuietInv /\ [Next]_vars => QuietInv'
    BY QuietStep
  <1>2. QuietInv => RunningTurnIsActive
    BY DEF QuietInv
  <1> QED BY <1>1, <1>2, QuietInit, Invariance, PTL DEF Spec

(* Under the same clients, what agent-core lists as pending are requests   *)
(* of the turn that runs.                                                  *)
THEOREM PendingOfRunning ==
  ASSUME Gate = "quiet", Readers = {}
  PROVE  Spec => []CorePendingIsOfRunningTurn
  <1>1. IInv /\ QuietInv /\ [Next]_vars => QuietInv'
    BY QuietStep
  <1>2. QuietInv => CorePendingIsOfRunningTurn
    BY DEF QuietInv, CoreHoldsOwn, CorePendingIsOfRunningTurn
  <1> QED BY <1>1, <1>2, QuietInit, Invariance, PTL DEF Spec

(***************************************************************************)
(* The app server implements ApprovalContract: every behaviour of          *)
(* TurnService, seen through the refinement mapping of Contract, is one    *)
(* that the contract allows.                                               *)
(***************************************************************************)

LEMMA ContractInit == Init => Contract!Init
  BY DEF Init, Contract!Init, RequestStatus, EndedTurns

(* A step that changes no request and ends no turn is invisible.           *)
LEMMA Invisible ==
  ASSUME UNCHANGED <<pending, reqTurn, reply, approved>>,
         \A t \in Turns : pc'[t] = "done" <=> pc[t] = "done"
  PROVE  UNCHANGED Contract!contractVars
  BY DEF Contract!contractVars, RequestStatus, EndedTurns

(* Draining a set of pending requests withdraws them.                      *)
LEMMA DrainWithdraws ==
  ASSUME IInv, NEW R \in SUBSET pending, Drain(R), UNCHANGED EndedTurns
  PROVE  Contract!Withdraw(R)
  <1>1. \A r \in R : r \in Requests /\ reqTurn[r] # NoTurn
    BY DEF IInv, TypeOK, RequestsAccounted
  <1>2. \A r \in R : RequestStatus[r] = "open"
    BY <1>1 DEF RequestStatus
  <1>3. RequestStatus' = [r \in Requests |-> IF r \in R THEN "cancel" ELSE RequestStatus[r]]
    BY <1>1 DEF RequestStatus, Drain
  <1> QED BY <1>2, <1>3 DEF Contract!Withdraw, Drain

LEMMA InsertOpens ==
  ASSUME IInv, NEW t \in Turns, NEW r \in Requests, InsertPending(t, r)
  PROVE  Contract!Open(r, t)
  <1>1. /\ pc[t] = "insert" /\ pc' = [pc EXCEPT ![t] = "register"] /\ reqTurn[r] = NoTurn
        /\ pending' = pending \cup {r} /\ reqTurn' = [reqTurn EXCEPT ![r] = t]
        /\ UNCHANGED <<reply, approved>>
    BY DEF InsertPending, Goto
  <1>2. t # NoTurn
    BY TurnServiceAssumption
  <1>3. RequestStatus[r] = "unborn" /\ t \notin EndedTurns
    BY <1>1 DEF RequestStatus, EndedTurns
  <1>4. RequestStatus' = [RequestStatus EXCEPT ![r] = "open"]
    BY <1>1, <1>2 DEF RequestStatus, IInv, TypeOK
  <1>5. EndedTurns' = EndedTurns
    BY <1>1 DEF EndedTurns, IInv, TypeOK
  <1> QED BY <1>1, <1>3, <1>4, <1>5 DEF Contract!Open

LEMMA AnswerDecides ==
  ASSUME IInv, ReceiveResolve
  PROVE  [Contract!Next]_(Contract!contractVars)
  <1> DEFINE r == Head(commands).request
             d == Head(commands).decision
  <1>1. UNCHANGED <<pc, reqTurn, approved>>
    BY DEF ReceiveResolve, turnVars
  <1>2. CASE r \in pending
    <2>1. pending' = pending \ {r} /\ reply' = [reply EXCEPT ![r] = d]
      BY <1>2 DEF ReceiveResolve
    <2>2. d \in Decisions
      BY HandledCommand, CommandFields DEF ReceiveResolve, IInv
    <2>3. r \in Requests /\ reqTurn[r] # NoTurn
      BY <1>2 DEF IInv, TypeOK, RequestsAccounted
    <2> HIDE DEF r, d
    <2>4. RequestStatus[r] = "open" /\ RequestStatus' = [RequestStatus EXCEPT ![r] = d]
      BY <1>1, <1>2, <2>1, <2>3 DEF RequestStatus, IInv, TypeOK
    <2>5. Contract!Decide(r, d)
      BY <1>1, <2>4 DEF Contract!Decide, EndedTurns
    <2> QED BY <2>2, <2>3, <2>5 DEF Contract!Next
  <1>3. CASE r \notin pending
    BY <1>1, <1>3, Invisible DEF ReceiveResolve
  <1> QED BY <1>2, <1>3

LEMMA TakeApproves ==
  ASSUME IInv, NEW t \in Turns, TakeDecision(t)
  PROVE  [Contract!Next]_(Contract!contractVars)
  <1>1. /\ pc[t] = "await" /\ pc'[t] \in {"run", "finish"}
        /\ UNCHANGED <<pending, reqTurn, reply>>
        /\ approved' = IF reply[cur[t]] = "accept" THEN approved \cup {cur[t]} ELSE approved
    BY DEF TakeDecision, IInv, TypeOK
  <1>2. \A u \in Turns : pc'[u] = "done" <=> pc[u] = "done"
    BY <1>1, TurnFrame DEF TurnStep, IInv
  <1>3. CASE reply[cur[t]] = "accept"
    <2>1. cur[t] \in Requests /\ reqTurn[cur[t]] = t /\ t # NoTurn
      BY <1>1, TurnServiceAssumption DEF IInv, AskingTurns, AskingPcs
    <2>2. cur[t] \notin pending
      BY <1>3, <2>1 DEF IInv, RequestsAccounted
    <2>3. RequestStatus[cur[t]] = "accept" /\ t \notin EndedTurns
      BY <1>1, <1>3, <2>1, <2>2 DEF RequestStatus, EndedTurns
    <2>4. cur[t] \notin approved
      BY DEF IInv, LeftBehind
    <2>5. UNCHANGED <<RequestStatus, EndedTurns>>
      BY <1>1, <1>2 DEF RequestStatus, EndedTurns
    <2>6. Contract!Approve(cur[t])
      BY <1>1, <1>3, <2>1, <2>3, <2>4, <2>5 DEF Contract!Approve
    <2> QED BY <2>1, <2>6 DEF Contract!Next
  <1>4. CASE reply[cur[t]] # "accept"
    BY <1>1, <1>2, <1>4, Invisible
  <1> QED BY <1>3, <1>4

(* A turn that ends has drained its requests.                              *)
LEMMA FinishedEnds ==
  ASSUME IInv, NEW t \in Turns, NoteTurnFinished(t)
  PROVE  Contract!End(t)
  <1>1. /\ pc[t] = "viewfinish" /\ pc' = [pc EXCEPT ![t] = "done"]
        /\ UNCHANGED <<pending, reqTurn, reply, approved>>
    BY DEF NoteTurnFinished, Goto, requestVars
  <1>2. \A r \in Requests : reqTurn[r] = t => r \notin pending
    BY <1>1 DEF IInv, RequestsAccounted, AskingPcs
  <1>3. \A r \in Requests : reqTurn[r] = t => RequestStatus[r] # "open"
    BY <1>2, TurnServiceAssumption DEF RequestStatus, IInv, RequestsAccounted, TypeOK, Decisions
  <1>4. EndedTurns' = EndedTurns \cup {t} /\ t \notin EndedTurns
    BY <1>1 DEF EndedTurns, IInv, TypeOK
  <1> QED BY <1>1, <1>3, <1>4 DEF Contract!End, RequestStatus

LEMMA ContractStep ==
  ASSUME IInv, [Next]_vars
  PROVE  [Contract!Next]_(Contract!contractVars)
  <1>1. ASSUME UNCHANGED <<pc, pending, reqTurn, reply, approved>>
        PROVE  UNCHANGED Contract!contractVars
    BY <1>1, Invisible
  <1>2. CASE UNCHANGED vars
    BY <1>1, <1>2 DEF vars, turnVars, requestVars
  <1>3. ASSUME NEW cmd \in Command, Send(cmd) PROVE UNCHANGED Contract!contractVars
    BY <1>1, <1>3, SendFrame DEF turnVars, requestVars
  <1>4. CASE SideStep
    BY <1>1, <1>4, SideFrame DEF turnVars, requestVars
  <1>5. ASSUME LoopStep PROVE [Contract!Next]_(Contract!contractVars)
    <2>1. ASSUME DrainConversation PROVE [Contract!Next]_(Contract!contractVars)
      <3> DEFINE R == ConversationRequests(current.conv)
      <3>1. R \in SUBSET pending
        BY DEF ConversationRequests
      <3>2. R \in SUBSET Requests
        BY <3>1 DEF IInv, TypeOK
      <3>3. Drain(R) /\ UNCHANGED EndedTurns
        BY <2>1 DEF DrainConversation, turnVars, EndedTurns
      <3> HIDE DEF R
      <3>4. Contract!Withdraw(R)
        BY <3>1, <3>3, DrainWithdraws
      <3> QED BY <3>2, <3>4 DEF Contract!Next
    <2>2. ASSUME NEW t \in Turns, SpawnTurn(t) PROVE UNCHANGED Contract!contractVars
      <3>1. pc[t] = "idle" /\ pc' = [pc EXCEPT ![t] = "start"] /\ UNCHANGED requestVars
        BY <2>2 DEF SpawnTurn
      <3> QED BY <3>1, Invisible DEF requestVars, IInv, TypeOK
    <2>3. ASSUME \/ ReceiveTurnWait \/ ReceiveShutdown \/ ReceiveInterrupt \/ ReceiveReset
                 \/ ReceiveRequestView \/ ReadStatus \/ NoteLoaded \/ StartCompaction
                 \/ EndCompaction \/ StopLoop \/ NoteInterrupt \/ PublishDrained
                 \/ ResolveCore \/ ResolveView
          PROVE  UNCHANGED Contract!contractVars
      <3>1. UNCHANGED <<turnVars, requestVars>>
        BY <2>3 DEF ReceiveTurnWait, ReceiveShutdown, ReceiveInterrupt, ReceiveReset,
             ReceiveRequestView, ReadStatus, NoteLoaded, StartCompaction, EndCompaction,
             StopLoop, NoteInterrupt, PublishDrained, ResolveCore, ResolveView
      <3> QED BY <1>1, <3>1 DEF turnVars, requestVars
    <2> QED BY <1>5, <2>1, <2>2, <2>3, AnswerDecides DEF LoopStep
  <1>6. ASSUME NEW t \in Turns, TurnStep(t) PROVE [Contract!Next]_(Contract!contractVars)
    <2>1. \A u \in Turns \ {t} : pc'[u] = pc[u]
      BY <1>6, TurnFrame DEF IInv
    <2>2. ASSUME DrainTurn(t) PROVE [Contract!Next]_(Contract!contractVars)
      <3>1. TurnRequests(t) \in SUBSET pending
        BY DEF TurnRequests
      <3>2. TurnRequests(t) \in SUBSET Requests
        BY <3>1 DEF IInv, TypeOK
      <3>3. Drain(TurnRequests(t)) /\ UNCHANGED EndedTurns
        BY <2>2 DEF DrainTurn, Goto, EndedTurns, IInv, TypeOK
      <3>4. Contract!Withdraw(TurnRequests(t))
        BY <3>1, <3>3, DrainWithdraws
      <3> QED BY <3>2, <3>4 DEF Contract!Next
    <2>3. ASSUME NEW r \in Requests, InsertPending(t, r)
          PROVE  [Contract!Next]_(Contract!contractVars)
      BY <2>3, InsertOpens DEF Contract!Next
    <2>4. ASSUME NoteTurnFinished(t) PROVE [Contract!Next]_(Contract!contractVars)
      BY <2>4, FinishedEnds DEF Contract!Next
    <2>5. ASSUME \/ NoteTurnStarting(t) \/ StartTurn(t) \/ RefuseBusy(t) \/ LoadFails(t)
                 \/ EmitTurnStarted(t) \/ EnterChat(t) \/ EndChat(t) \/ RequestApproval(t)
                 \/ RegisterPending(t) \/ ShowPending(t) \/ SendRequest(t)
                 \/ ObserveCancel(t) \/ FinishTurn(t) \/ SaveOutcome(t) \/ AbortTurn(t)
                 \/ NoteSystemError(t) \/ SettleDrained(t)
          PROVE  UNCHANGED Contract!contractVars
      <3>1. pc[t] # "done" /\ pc'[t] # "done" /\ UNCHANGED requestVars
        BY <2>5 DEF NoteTurnStarting, StartTurn, RefuseBusy, LoadFails, EmitTurnStarted,
             EnterChat, EndChat, RequestApproval, RegisterPending, ShowPending, SendRequest,
             ObserveCancel, FinishTurn, SaveOutcome, AbortTurn, NoteSystemError,
             SettleDrained, Goto, IInv, TypeOK
      <3> QED BY <2>1, <3>1, Invisible DEF requestVars
    <2> QED BY <1>6, <2>2, <2>3, <2>4, <2>5, TakeApproves DEF TurnStep
  <1> QED BY <1>2, <1>3, <1>4, <1>5, <1>6 DEF Next, SideStep

(* A request is decided once, its tool call goes ahead only if the         *)
(* decision was to accept, and no turn ends with a request left open,      *)
(* whatever the interleaving of clients, loop, turns and interrupts.       *)
THEOREM RefinesContract == Spec => KeepsContract
  <1>1. Init => Contract!Init
    BY ContractInit
  <1>2. IInv /\ [Next]_vars => [Contract!Next]_(Contract!contractVars)
    BY ContractStep
  <1> QED BY <1>1, <1>2, Invariance, PTL DEF Spec, Contract!Spec, KeepsContract
===============================================================================
