------------------------------ MODULE TurnRecord ------------------------------
(***************************************************************************)
(* What the turns of one conversation leave behind: the history in memory, *)
(* from which every model request is made, and the rollout, from which the *)
(* history is rebuilt after a restart.  A turn asks the model, authorizes  *)
(* and runs the calls of its answer, in order or side by side, and may be  *)
(* interrupted, fail or be killed at any point; a recorder writes what it  *)
(* recorded some time later.  Compaction of the context is left out.       *)
(***************************************************************************)
EXTENDS Naturals, Sequences, SequencesExt

CONSTANTS
  MaxTurns,   \* bound: turns of the conversation
  MaxAnswers, \* bound: model answers
  MaxCalls    \* bound: tool calls of one answer

VARIABLES
  pc,        \* where the turn is; "idle" between turns
  turns, answers,
  cancelled, \* the token of the turn
  calls,     \* calls of the answer not looked at yet
  ready,     \* ready_calls: authorized, not finished
  mem,       \* the history in memory; Unloaded after a restart
  queued,    \* items on their way to the rollout
  log,       \* the rollout
  stale      \* history: an interrupt read the rollout behind the recorder
vars == <<pc, turns, answers, cancelled, calls, ready, mem, queued, log, stale>>

-------------------------------------------------------------------------------
(* Items and events.  A call is <<answer, place>>. *)
User(t) == [kind |-> "user", turn |-> t]
Marker == [kind |-> "marker"]
Assistant(n, cs) == [kind |-> "assistant", answer |-> n, calls |-> cs]
Output(call, what) == [kind |-> "tool", call |-> call, what |-> what]
Started(t) == [kind |-> "started", turn |-> t]
Ended(how) == [kind |-> "ended", turn |-> turns, how |-> how]
Unloaded == <<[kind |-> "unloaded"]>>
IsItem(x) == x.kind \in {"user", "marker", "assistant", "tool"}

HasOutput(msgs, call) ==
  \E i \in DOMAIN msgs : msgs[i].kind = "tool" /\ msgs[i].call = call

(* The outputs an answer's calls lack *)
Missing(msgs, cs) ==
  LET lacking[k \in 0..Len(cs)] ==
        IF k = 0 THEN <<>>
        ELSE IF HasOutput(msgs, cs[k]) THEN lacking[k - 1]
        ELSE Append(lacking[k - 1], Output(cs[k], "aborted"))
  IN  lacking[Len(cs)]

(* ensure_tool_outputs_present: right behind the answer that made the call *)
EnsureOutputs(msgs) ==
  LET filled[k \in 0..Len(msgs)] ==
        IF k = 0 THEN <<>>
        ELSE IF msgs[k].kind = "assistant"
        THEN Append(filled[k - 1], msgs[k]) \o Missing(msgs, msgs[k].calls)
        ELSE Append(filled[k - 1], msgs[k])
  IN  filled[Len(msgs)]

(* append_turn_aborted_marker_if_needed *)
Marked(msgs) == IF msgs # <<>> /\ Last(msgs) = Marker THEN msgs ELSE Append(msgs, Marker)

(* Mutant: a turn that failed is dropped, answers and all.                   *)
FlushTurnDropping(acc, how) ==
  [turn |-> <<>>, msgs |-> IF how = "failed" THEN acc.msgs ELSE acc.msgs \o acc.turn]
(* flush_pending_model_history_turn *)
FlushTurn(acc, how) ==
  LET output == \E i \in DOMAIN acc.turn : acc.turn[i].kind \in {"assistant", "tool"}
      all == acc.msgs \o acc.turn
  IN  [turn |-> <<>>,
       msgs |-> CASE acc.turn = <<>> -> acc.msgs
                  [] acc.turn # <<>> /\ how \in {"cancelled", "failed"} /\ ~output -> acc.msgs
                  [] acc.turn # <<>> /\ how = "cancelled" /\ output -> Marked(all)
                  [] OTHER -> all]

(* replay_model_history_suffix, one item *)
Replay(acc, x) ==
  CASE x.kind \in {"user", "marker"} -> [FlushTurn(acc, "open") EXCEPT !.turn = <<x>>]
    [] x.kind \in {"assistant", "tool"} ->
         IF acc.turn # <<>> THEN [acc EXCEPT !.turn = Append(@, x)]
         ELSE [acc EXCEPT !.msgs = Append(@, x)]
    [] x.kind = "ended" ->
         IF acc.turn = <<>> /\ x.how = "cancelled" THEN [acc EXCEPT !.msgs = Marked(@)]
         ELSE FlushTurn(acc, x.how)
    [] OTHER -> acc

(* conversation_history_from_rollout_items *)
Reconstructed(items) ==
  LET acc[k \in 0..Len(items)] ==
        IF k = 0 THEN [msgs |-> <<>>, turn |-> <<>>] ELSE Replay(acc[k - 1], items[k])
  IN  EnsureOutputs(FlushTurn(acc[Len(items)], "open").msgs)

-------------------------------------------------------------------------------
TypeOK ==
  /\ pc \in {"idle", "started", "top", "request", "batch", "run", "after",
             "interrupted", "failed", "reread", "flush"}
  /\ turns \in 0..MaxTurns /\ answers \in 0..MaxAnswers
  /\ cancelled \in BOOLEAN /\ stale \in BOOLEAN
  /\ pc \in {"idle", "started", "top", "request"} => calls = <<>>
  /\ pc \in {"idle", "started", "top", "request", "after"} => ready = <<>>
  /\ \A i \in DOMAIN mem : mem[i].kind \in {"user", "marker", "assistant", "tool", "unloaded"}
  /\ pc \notin {"idle", "flush", "interrupted", "failed", "reread"} => mem # Unloaded

Init ==
  /\ pc = "idle" /\ turns = 0 /\ answers = 0 /\ cancelled = FALSE
  /\ calls = <<>> /\ ready = <<>> /\ mem = Unloaded
  /\ queued = <<>> /\ log = <<>> /\ stale = FALSE

(* The history grows by items, which are recorded with the events that go
   with them; then the turn goes on at label.                                *)
Record(items, events, label) ==
  /\ mem' = mem \o items
  /\ queued' = queued \o items \o events
  /\ pc' = label

(* The marker is recorded even when the history ends with one already *)
RecordMarker(label) ==
  /\ mem' = Marked(mem)
  /\ queued' = queued \o <<Marker, Ended("cancelled")>>
  /\ pc' = label
  /\ calls' = <<>> /\ ready' = <<>>

-------------------------------------------------------------------------------
(* load_history waits for the recorder when nothing is in memory *)
StartTurn ==
  /\ pc = "idle" /\ turns < MaxTurns
  /\ mem = Unloaded => queued = <<>>
  /\ turns' = turns + 1
  /\ cancelled' = FALSE
  /\ mem' = Append(IF mem = Unloaded THEN Reconstructed(log) ELSE mem, User(turns'))
  /\ queued' = queued \o <<User(turns'), Started(turns')>>
  /\ pc' = "started"
  /\ UNCHANGED <<answers, calls, ready, log, stale>>

Interrupt ==
  /\ pc \notin {"idle", "flush"} /\ ~cancelled
  /\ cancelled' = TRUE
  /\ UNCHANGED <<pc, turns, answers, calls, ready, mem, queued, log, stale>>

(* The check before the chat, and the one at the top of its loop *)
CheckCancelled ==
  /\ pc \in {"started", "top"}
  /\ IF cancelled THEN RecordMarker("flush")
     ELSE /\ pc' = IF pc = "started" THEN "top" ELSE "request"
          /\ UNCHANGED <<mem, queued, calls, ready>>
  /\ UNCHANGED <<turns, answers, cancelled, log, stale>>

(* The limit of round trips, or a request over the budget: a message of its
   own ends the turn.  The bound of answers stands for the first.            *)
StopWithMessage ==
  /\ pc = "request" /\ answers < MaxAnswers
  /\ answers' = answers + 1
  /\ \E how \in {"completed", "failed"} :
       Record(<<Assistant(answers', <<>>)>>, <<Ended(how)>>, "flush")
  /\ UNCHANGED <<turns, cancelled, calls, ready, log, stale>>

(* observe_model_response_stream, record_model_response *)
ModelResponds ==
  /\ pc = "request" /\ answers < MaxAnswers
  /\ answers' = answers + 1
  /\ \E n \in 0..MaxCalls :
       /\ calls' = [i \in 1..n |-> <<answers', i>>]
       /\ \/ n > 0 /\ Record(<<Assistant(answers', calls')>>, <<>>, "batch")
          \/ n = 0 /\ Record(<<Assistant(answers', calls')>>, <<Ended("completed")>>, "flush")
          \/ n = 0 /\ Record(<<Assistant(answers', calls')>>, <<>>, "top")
  /\ UNCHANGED <<turns, cancelled, ready, log, stale>>

ModelFails ==
  /\ pc = "request"
  /\ pc' = "failed" \/ (cancelled /\ pc' = "interrupted")
  /\ UNCHANGED <<turns, answers, cancelled, calls, ready, mem, queued, log, stale>>

-------------------------------------------------------------------------------
(* The batch: each call is looked at in turn *)
BatchCancelled ==
  /\ pc = "batch" /\ calls # <<>> /\ cancelled
  /\ RecordMarker("flush")
  /\ UNCHANGED <<turns, answers, cancelled, log, stale>>

(* An unknown tool, a request denied before, or now *)
Refuse ==
  /\ pc = "batch" /\ calls # <<>>
  /\ calls' = Tail(calls)
  /\ Record(<<Output(Head(calls), "refused")>>, <<>>, "batch")
  /\ UNCHANGED <<turns, answers, cancelled, ready, log, stale>>

(* No approval needed, granted for the session, or approved *)
Admit ==
  /\ pc = "batch" /\ calls # <<>>
  /\ calls' = Tail(calls) /\ ready' = Append(ready, Head(calls))
  /\ UNCHANGED <<pc, turns, answers, cancelled, mem, queued, log, stale>>

(* ServerRequestDecisionKind::Cancel *)
CancelFromPrompt ==
  /\ pc = "batch" /\ calls # <<>>
  /\ RecordMarker("flush")
  /\ UNCHANGED <<turns, answers, cancelled, log, stale>>

(* await_server_request_decision sees the token *)
PromptInterrupted ==
  /\ pc = "batch" /\ calls # <<>> /\ cancelled
  /\ pc' = "interrupted" /\ calls' = <<>> /\ ready' = <<>>
  /\ UNCHANGED <<turns, answers, cancelled, mem, queued, log, stale>>

(* run_ready_calls_sequentially *)
RunNext ==
  /\ pc = "batch" /\ calls = <<>> /\ ready # <<>> /\ ~cancelled
  /\ ready' = Tail(ready)
  /\ Record(<<Output(Head(ready), "done")>>, <<>>, "batch")
  /\ UNCHANGED <<turns, answers, cancelled, calls, log, stale>>

(* A call that ran to its end although the turn was cancelled meanwhile: its
   output is dropped, and the end of the turn is told twice.                 *)
(* Mutant: the error it returns is not the one of an interrupt.              *)
RunOutpacedFailing ==
  /\ pc = "batch" /\ calls = <<>> /\ ready # <<>> /\ cancelled
  /\ ready' = <<>>
  /\ Record(<<>>, <<Ended("cancelled")>>, "failed")
  /\ UNCHANGED <<turns, answers, cancelled, calls, log, stale>>
RunOutpaced ==
  /\ pc = "batch" /\ calls = <<>> /\ ready # <<>> /\ cancelled
  /\ ready' = <<>>
  /\ Record(<<>>, <<Ended("cancelled")>>, "interrupted")
  /\ UNCHANGED <<turns, answers, cancelled, calls, log, stale>>

RunFails ==
  /\ pc = "batch" /\ calls = <<>> /\ ready # <<>>
  /\ pc' = "failed" \/ (cancelled /\ pc' = "interrupted")
  /\ ready' = <<>>
  /\ UNCHANGED <<turns, answers, cancelled, calls, mem, queued, log, stale>>

(* run_parallel_ready_calls: all of them, or those that came in time *)
RunTogether ==
  /\ pc = "batch" /\ calls = <<>> /\ ready # <<>>
  /\ \E n \in 0..Len(ready) : \E finished \in [1..n -> DOMAIN ready] :
       LET outputs == [k \in 1..n |-> Output(ready[finished[k]], "done")]
       IN  /\ \A k, l \in 1..n : k < l => finished[k] < finished[l]
           /\ \/ n = Len(ready) /\ Record(outputs, <<>>, "batch")
              \/ /\ n < Len(ready) /\ cancelled
                 /\ mem' = Marked(mem \o outputs)
                 /\ queued' = queued \o outputs \o <<Marker, Ended("cancelled")>>
                 /\ pc' = "flush"
  /\ ready' = <<>>
  /\ UNCHANGED <<turns, answers, cancelled, calls, log, stale>>

BatchDone ==
  /\ pc = "batch" /\ calls = <<>> /\ ready = <<>>
  /\ pc' = "after"
  /\ UNCHANGED <<turns, answers, cancelled, calls, ready, mem, queued, log, stale>>

(* The loop guard, or too many answers without text after a compaction *)
Advance ==
  /\ pc = "after"
  /\ \/ pc' = "top" /\ UNCHANGED <<answers, mem, queued>>
     \/ /\ answers < MaxAnswers /\ answers' = answers + 1
        /\ Record(<<Assistant(answers', <<>>)>>, <<Ended("failed")>>, "flush")
  /\ UNCHANGED <<turns, cancelled, calls, ready, log, stale>>

-------------------------------------------------------------------------------
(* TurnInterruptedError: the history is read from the rollout as it is, with
   items of this turn still on their way to it                               *)
EndInterrupted ==
  /\ pc = "interrupted"
  /\ mem' = EnsureOutputs(Marked(Reconstructed(log)))
  /\ queued' = queued \o <<Marker, Ended("cancelled")>>
  /\ stale' = (stale \/ \E i \in DOMAIN queued : IsItem(queued[i]))
  /\ pc' = "flush"
  /\ UNCHANGED <<turns, answers, cancelled, calls, ready, log>>

EndFailed ==
  /\ pc = "failed"
  /\ Record(<<>>, <<Ended("failed")>>, "reread")
  /\ UNCHANGED <<turns, answers, cancelled, calls, ready, log, stale>>

(* ... here it waits for the recorder first *)
Reread ==
  /\ pc = "reread" /\ queued = <<>>
  /\ mem' = Reconstructed(log)
  /\ stale' = FALSE
  /\ pc' = "flush"
  /\ UNCHANGED <<turns, answers, cancelled, calls, ready, queued, log>>

FinishTurn ==
  /\ pc = "flush" /\ queued = <<>>
  /\ pc' = "idle"
  /\ UNCHANGED <<turns, answers, cancelled, calls, ready, mem, queued, log, stale>>

(* The recorder *)
Write ==
  /\ queued # <<>>
  /\ log' = Append(log, Head(queued)) /\ queued' = Tail(queued)
  /\ UNCHANGED <<pc, turns, answers, cancelled, calls, ready, mem, stale>>

Crash ==
  /\ pc' = "idle" /\ calls' = <<>> /\ ready' = <<>>
  /\ mem' = Unloaded /\ queued' = <<>> /\ stale' = FALSE
  /\ UNCHANGED <<turns, answers, cancelled, log>>

Next ==
  \/ StartTurn \/ Interrupt \/ CheckCancelled \/ StopWithMessage
  \/ ModelResponds \/ ModelFails
  \/ BatchCancelled \/ Refuse \/ Admit \/ CancelFromPrompt \/ PromptInterrupted
  \/ RunNext \/ RunOutpaced \/ RunFails \/ RunTogether \/ BatchDone \/ Advance
  \/ EndInterrupted \/ EndFailed \/ Reread \/ FinishTurn \/ Write \/ Crash

Spec == Init /\ [][Next]_vars

-------------------------------------------------------------------------------
(* What the provider sends: enrich_chat_request. *)
(* Mutant: the missing outputs go to the end of the request.                 *)
RequestAppending(msgs) ==
  msgs \o SelectSeq(EnsureOutputs(msgs),
                    LAMBDA x : x.kind = "tool" /\ ~HasOutput(msgs, x.call))
Request(msgs) == EnsureOutputs(msgs)

(* The answer an output at place i is read as belonging to *)
Owner(msgs, i) ==
  LET before == {j \in 1..(i - 1) : msgs[j].kind # "tool"}
  IN  msgs[CHOOSE j \in before : \A k \in before : k <= j]

(* Every request pairs each call with exactly one output, in the run of
   outputs right behind the answer that made it, whatever interrupts,
   refusals, failures and restarts the conversation went through.            *)
RequestsArePaired ==
  pc = "request" =>
    LET msgs == Request(mem)
        outputs == {i \in DOMAIN msgs : msgs[i].kind = "tool"}
    IN  /\ \A i \in outputs :
             /\ Owner(msgs, i).kind = "assistant"
             /\ \E k \in DOMAIN Owner(msgs, i).calls : Owner(msgs, i).calls[k] = msgs[i].call
        /\ \A i, j \in outputs : msgs[i].call = msgs[j].call => i = j
        /\ \A i \in DOMAIN msgs : msgs[i].kind = "assistant" =>
             \A k \in DOMAIN msgs[i].calls : HasOutput(msgs, msgs[i].calls[k])

(* Between turns the model would be told the same after a restart as without
   one, markers of interrupted turns apart: the history in memory is the one
   the rollout rebuilds, unless an interrupt read the rollout too early.     *)
Content(msgs) ==
  LET kept[k \in 0..Len(msgs)] ==
        IF k = 0 THEN <<>>
        ELSE IF msgs[k] = Marker THEN kept[k - 1] ELSE Append(kept[k - 1], msgs[k])
  IN  kept[Len(msgs)]
RestartTellsTheSame ==
  pc = "idle" /\ mem # Unloaded /\ ~stale =>
    Content(EnsureOutputs(mem)) = Content(Reconstructed(log))

(* The endings a turn leaves on the rollout say the same, and nothing but the
   marker of an interrupted turn stands between them.                        *)
EndingsAgree ==
  \A i, j \in DOMAIN log :
    /\ i < j
    /\ log[i].kind = "ended" /\ log[j].kind = "ended" /\ log[i].turn = log[j].turn
    => /\ log[i].how = log[j].how
       /\ \A k \in (i + 1)..(j - 1) : log[k] = Marker
===============================================================================
