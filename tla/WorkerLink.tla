----------------------------- MODULE WorkerLink -----------------------------
(***************************************************************************)
(* The link between a node and one worker process (an app server on the    *)
(* other end of two pipes): the worker's standard output, the task of      *)
(* StdioAppServerClient that reads it (read_events, forward_event) into a  *)
(* bounded event queue, the task that writes commands and requests to its  *)
(* standard input (write_commands), and the task of the worker manager     *)
(* that owns the client (the loop in ensure_worker), down to shutdown.     *)
(*                                                                         *)
(* Events are the numbers 1, 2, ... in the order the worker emits them.    *)
(* One request is in flight at a time, so the pipe is two counters (events *)
(* read + 1 to written are in it) and the place of the one response.       *)
(***************************************************************************)
EXTENDS Integers, Sequences

CONSTANTS Requests,
          Capacity,      (* DEFAULT_EVENT_CHANNEL_CAPACITY, 128 in the code *)
          MaxEvents,     (* bound on the events the worker emits           *)
          MaxOutbound    (* bound on the lines to be written, unbounded    *)

ASSUME WorkerLinkAssumption ==
  /\ Capacity \in Nat \ {0}
  /\ MaxEvents \in Nat /\ MaxOutbound \in Nat

VARIABLES
  child,      (* the worker process                                        *)
  written,    (* events it got into its standard output                    *)
  lossless,   (* those of them that require delivery                       *)
  response,   (* the response in the pipe: the events before it, what it is *)
  read,       (* events the reader took from the pipe                      *)
  reader,     (* where the reader is                                       *)
  holding,    (* what it is forwarding: event number read, or the EOF      *)
  skipped,    (* skipped_events                                            *)
  queue,      (* the bounded event queue                                   *)
  outbound,   (* lines handed to the writer                                *)
  writer,     (* the writer task                                           *)
  call,       (* what became of the request in flight                      *)
  worker,     (* where the worker manager's task is                        *)
  inbox,      (* typed requests sent to it; it serves the first one        *)
  outcome,    (* what the caller of each request knows                     *)
  evicted,    (* the manager dropped the handle                            *)
  told,       (* history: events the worker task was told of               *)
  received    (* history: events it was given                              *)

pipeVars == <<child, written, lossless, response>>
readerVars == <<read, reader, holding, skipped>>
writerVars == <<outbound, writer, call>>
workerVars == <<worker, inbox, outcome, evicted>>
history == <<told, received>>
vars == <<pipeVars, readerVars, queue, writerVars, workerVars, history>>

(* n is the event of a message; skipped is the number of events a marker   *)
(* announces, whose n, the last of them, is history the code has not got.  *)
Entry == [op : {"message", "lagged", "disconnected"}, n : Nat, skipped : Nat]

NoResponse == [at |-> 0, result |-> "none"]

TypeOK ==
  /\ child \in {"running", "exited"}
  /\ written \in Nat /\ read \in 0 .. written
  /\ lossless \in SUBSET (1 .. written)
  /\ response \in {NoResponse} \cup [at : 0 .. written, result : {"ok", "error"}]
  /\ reader \in {"read", "mark", "send", "done", "failed"}
  /\ holding \in {"none", "event", "eof"}
  /\ skipped \in Nat
  /\ queue \in Seq(Entry) /\ Len(queue) <= Capacity
  /\ outbound \in Seq({"command", "call"})
  /\ writer \in {"running", "ended"}
  /\ call \in {"none", "outbound", "pending", "ok", "error"}
  /\ worker \in {"select", "request", "exit", "join", "stopped"}
  /\ inbox \in Seq(Requests)
  /\ outcome \in [Requests -> {"unasked", "asked", "ok", "failed"}]
  /\ evicted \in BOOLEAN
  /\ told \in Nat /\ received \in SUBSET Nat

Init ==
  /\ child = "running" /\ written = 0 /\ lossless = {} /\ response = NoResponse
  /\ read = 0 /\ reader = "read" /\ holding = "none" /\ skipped = 0
  /\ queue = <<>>
  /\ outbound = <<>> /\ writer = "running" /\ call = "none"
  /\ worker = "select" /\ inbox = <<>> /\ evicted = FALSE
  /\ outcome = [r \in Requests |-> "unasked"]
  /\ told = 0 /\ received = {}

-----------------------------------------------------------------------------
(* The worker process.  It numbers and writes its events in one task.      *)

EmitEvent ==
  /\ child = "running"
  /\ written < MaxEvents
  /\ written' = written + 1
  /\ lossless' = lossless \/ lossless' = lossless \cup {written'}
  /\ UNCHANGED <<child, response, readerVars, queue, writerVars, workerVars, history>>

Respond ==
  /\ child = "running"
  /\ call = "pending" /\ response = NoResponse
  /\ response' \in [at : {written}, result : {"ok", "error"}]
  /\ UNCHANGED <<child, written, lossless, readerVars, queue, writerVars, workerVars, history>>

(* The process is gone; what it had not got into the pipe is lost.         *)
Gone ==
  /\ child' = "exited"
  /\ IF child = "exited"
     THEN UNCHANGED <<written, lossless, response>>
     ELSE /\ written' \in read .. written
          /\ lossless' = lossless \cap 1 .. written'
          /\ \/ response' = NoResponse
             \/ response.at <= written' /\ UNCHANGED response

ChildExits ==
  /\ child = "running"
  /\ Gone
  /\ UNCHANGED <<readerVars, queue, writerVars, workerVars, history>>

-----------------------------------------------------------------------------
(* The reader: read_events and forward_event.                              *)

ResponseNext == response # NoResponse /\ response.at = read

(* A response goes to whoever still waits for it.                          *)
ReadResponse ==
  /\ reader = "read"
  /\ ResponseNext
  /\ response' = NoResponse
  /\ call' = IF call = "pending" THEN response.result ELSE call
  /\ UNCHANGED <<child, written, lossless, readerVars, queue, outbound, writer>>
  /\ UNCHANGED <<workerVars, history>>

(* forward_event announces the events skipped before this one first.       *)
Forward(item) ==
  /\ holding' = item
  /\ reader' = IF skipped > 0 THEN "mark" ELSE "send"
  /\ UNCHANGED skipped

ReadEvent ==
  /\ reader = "read"
  /\ ~ResponseNext
  /\ read < written
  /\ read' = read + 1
  /\ Forward("event")
  /\ UNCHANGED <<pipeVars, queue, writerVars, workerVars, history>>

(* At the end of the pipe every pending request fails.                     *)
ReadEof ==
  /\ reader = "read"
  /\ ~ResponseNext
  /\ read = written /\ child = "exited"
  /\ call' = IF call = "pending" THEN "error" ELSE call
  /\ Forward("eof")
  /\ UNCHANGED <<read, outbound, writer, pipeVars, queue, workerVars, history>>

(* A line that does not parse ends the task through `?`: neither are the   *)
(* pending requests failed nor is the disconnection reported.              *)
ReaderFails ==
  /\ reader = "read"
  /\ reader' = "failed"
  /\ UNCHANGED <<read, holding, skipped, pipeVars, queue, writerVars, workerVars, history>>

ReaderEnded == reader \in {"done", "failed"}

RequiresDelivery == holding = "event" /\ read \in lossless

Open == worker # "stopped"
Room == Open /\ Len(queue) < Capacity

Forwarded ==
  /\ reader' = IF holding = "eof" THEN "done" ELSE "read"
  /\ holding' = "none"

(* Mutant: an event that made room for the marker is not sent after it.    *)
MarkLosing ==
  /\ reader = "mark" /\ Room
  /\ queue' = Append(queue, [op |-> "lagged", n |-> read - 1, skipped |-> skipped])
  /\ skipped' = 0
  /\ Forwarded
  /\ UNCHANGED <<read, pipeVars, writerVars, workerVars, history>>

LastSkipped == IF holding = "event" THEN read - 1 ELSE read

Mark ==
  /\ reader = "mark" /\ Room
  /\ queue' = Append(queue, [op |-> "lagged", n |-> LastSkipped, skipped |-> skipped])
  /\ skipped' = 0
  /\ reader' = "send"
  /\ UNCHANGED <<read, holding, pipeVars, writerVars, workerVars, history>>

(* Mutant: the event is sent whether or not the queue has room for it.     *)
DeliverUnbounded ==
  /\ reader = "send" /\ Open
  /\ queue' = Append(queue, [op |-> IF holding = "eof" THEN "disconnected" ELSE "message",
                             n |-> read, skipped |-> 0])
  /\ Forwarded
  /\ UNCHANGED <<read, skipped, pipeVars, writerVars, workerVars, history>>

Deliver ==
  /\ reader = "send" /\ Room
  /\ queue' = Append(queue, [op |-> IF holding = "eof" THEN "disconnected" ELSE "message",
                             n |-> read, skipped |-> 0])
  /\ Forwarded
  /\ UNCHANGED <<read, skipped, pipeVars, writerVars, workerVars, history>>

(* Mutant: an event that finds the queue full is dropped but not counted.  *)
SkipUncounted ==
  /\ reader \in {"mark", "send"} /\ Open /\ ~Room
  /\ ~RequiresDelivery
  /\ Forwarded
  /\ UNCHANGED <<read, skipped, pipeVars, queue, writerVars, workerVars, history>>

(* try_send finds the queue full: of the marker or of the event itself.    *)
(* A send that must be delivered waits instead.                            *)
SkipHeld ==
  /\ reader \in {"mark", "send"} /\ Open /\ ~Room
  /\ ~RequiresDelivery
  /\ skipped' = skipped + 1
  /\ Forwarded
  /\ UNCHANGED <<read, pipeVars, queue, writerVars, workerVars, history>>

(* The receiver of the queue was dropped with the client.                  *)
ForwardFails ==
  /\ reader \in {"mark", "send"} /\ ~Open
  /\ reader' = "done" /\ holding' = "none"
  /\ UNCHANGED <<read, skipped, pipeVars, queue, writerVars, workerVars, history>>

ReaderStep ==
  \/ ReadResponse \/ ReadEvent \/ ReadEof
  \/ Mark \/ Deliver \/ SkipHeld \/ ForwardFails

-----------------------------------------------------------------------------
(* The writer.                                                              *)

(* A request is pending before its line is written, so that its answer     *)
(* finds it; when the write fails, the lines behind it are dropped with    *)
(* the requests in them, but the request just registered stays pending.    *)
WriteLine ==
  /\ writer = "running" /\ outbound # <<>>
  /\ call' = IF call # "outbound" THEN call
             ELSE IF Head(outbound) = "call" THEN "pending"
             ELSE IF child = "exited" THEN "error" ELSE "outbound"
  /\ IF child = "running"
     THEN outbound' = Tail(outbound) /\ UNCHANGED writer
     ELSE outbound' = <<>> /\ writer' = "ended"
  /\ UNCHANGED <<pipeVars, readerVars, queue, workerVars, history>>

-----------------------------------------------------------------------------
(* Callers of the worker manager.                                          *)

Ask(r) ==
  /\ outcome[r] = "unasked"
  /\ IF Open
     THEN outcome' = [outcome EXCEPT ![r] = "asked"] /\ inbox' = Append(inbox, r)
     ELSE outcome' = [outcome EXCEPT ![r] = "failed"] /\ UNCHANGED inbox
  /\ UNCHANGED <<worker, evicted, pipeVars, readerVars, queue, writerVars, history>>

(* prune_workers or shutdown takes the handle out of the map.              *)
Evict ==
  /\ ~evicted
  /\ evicted' = TRUE
  /\ UNCHANGED <<worker, inbox, outcome, pipeVars, readerVars, queue, writerVars, history>>

-----------------------------------------------------------------------------
(* The worker manager's task: one select over requests, commands, events.  *)

(* The task ends: the client is dropped, which kills the process and       *)
(* closes the event queue, and every request not answered fails.           *)
Stop ==
  /\ worker' = "stopped"
  /\ Gone
  /\ queue' = <<>>
  /\ inbox' = <<>>
  /\ outcome' = [r \in Requests |-> IF outcome[r] = "asked" THEN "failed" ELSE outcome[r]]
  /\ UNCHANGED <<evicted, readerVars, writerVars>>

TakeRequest ==
  /\ worker = "select" /\ inbox # <<>>
  /\ worker' = "request"
  /\ IF writer = "running"
     THEN outbound' = Append(outbound, "call") /\ call' = "outbound"
     ELSE call' = "error" /\ UNCHANGED outbound
  /\ UNCHANGED <<writer, inbox, outcome, evicted, pipeVars, readerVars, queue, history>>

(* The caller is told; any error is taken for a fault of the worker, which *)
(* is then shut down.                                                      *)
Answer(result, next) ==
  /\ worker = "request"
  /\ outcome' = [outcome EXCEPT ![Head(inbox)] = result]
  /\ inbox' = Tail(inbox)
  /\ worker' = next
  /\ call' = "none"
  /\ UNCHANGED <<evicted, outbound, writer, pipeVars, readerVars, queue, history>>

Answered ==
  \/ call = "ok" /\ Answer("ok", "select")
  \/ call = "error" /\ Answer("failed", "exit")

(* Mutant: a request waits for its response for ever.                      *)
TimeoutNever == FALSE /\ Answer("failed", "exit")

Timeout ==
  /\ call \in {"outbound", "pending"}
  /\ Answer("failed", "exit")

(* `?` ends the task when the writer has ended.                            *)
TakeCommand ==
  /\ worker = "select"
  /\ \/ /\ writer = "running"
        /\ Len(outbound) < MaxOutbound
        /\ outbound' = Append(outbound, "command")
        /\ UNCHANGED <<writer, call, workerVars, pipeVars, readerVars, queue, history>>
     \/ /\ writer = "ended"
        /\ Stop /\ UNCHANGED history

EvictionNoticed ==
  /\ worker = "select" /\ evicted
  /\ worker' = "exit"
  /\ UNCHANGED <<inbox, outcome, evicted, pipeVars, readerVars, queue, writerVars, history>>

ReceiveEvent ==
  /\ worker = "select" /\ queue # <<>>
  /\ queue' = Tail(queue)
  /\ \/ /\ Head(queue).op = "message"
        /\ told' = told + 1 /\ received' = received \cup {Head(queue).n}
     \/ /\ Head(queue).op = "lagged"
        /\ told' = told + Head(queue).skipped /\ UNCHANGED received
  /\ UNCHANGED <<pipeVars, readerVars, writerVars, workerVars>>

ReceiveDisconnected ==
  /\ worker = "select" /\ queue # <<>>
  /\ Head(queue).op = "disconnected"
  /\ Stop /\ UNCHANGED history

ReceiveNone ==
  /\ worker = "select" /\ queue = <<>> /\ ReaderEnded
  /\ Stop /\ UNCHANGED history

(* shutdown waits for the process, which it asked to exit, and kills it    *)
(* after 5 seconds; then it joins the reader, with the receiver of the     *)
(* event queue still in its hands.                                         *)
AwaitChild ==
  /\ worker = "exit"
  /\ worker' = "join"
  /\ Gone
  /\ UNCHANGED <<inbox, outcome, evicted, readerVars, queue, writerVars, history>>

JoinReader ==
  /\ worker = "join" /\ ReaderEnded
  /\ Stop /\ UNCHANGED history

Select == ReceiveEvent \/ ReceiveDisconnected \/ ReceiveNone

WorkerStep ==
  \/ Select \/ TakeRequest \/ Answered \/ Timeout
  \/ EvictionNoticed \/ AwaitChild \/ JoinReader

Next ==
  \/ EmitEvent \/ Respond \/ ChildExits
  \/ ReaderStep \/ ReaderFails \/ WriteLine
  \/ \E r \in Requests : Ask(r)
  \/ Evict
  \/ WorkerStep \/ TakeCommand

Spec == Init /\ [][Next]_vars

(* Tasks that can proceed are polled, select! takes each of its branches   *)
(* in the end, and time passes.  Neither the worker process nor the        *)
(* callers owe anything.                                                   *)
Fairness ==
  /\ WF_vars(ReaderStep) /\ WF_vars(WriteLine)
  /\ WF_vars(Select) /\ WF_vars(TakeRequest)
  /\ WF_vars(Answered \/ Timeout)
  /\ WF_vars(EvictionNoticed) /\ WF_vars(AwaitChild) /\ WF_vars(JoinReader)

FairSpec == Spec /\ Fairness

-----------------------------------------------------------------------------
(* Properties.                                                              *)

(* What the worker task is told of the worker's events is a LossyStream:   *)
(* in order, nothing twice, every gap announced with its length, and no    *)
(* event that requires delivery in a gap.                                  *)
Stream == INSTANCE LossyStream WITH sent <- written

ImplementsLossyStream == Stream!Spec

Serving == worker \in {"select", "request"}

(* An event that requires delivery and got into the pipe reaches the       *)
(* worker task, even when the worker process dies right after writing it,  *)
(* unless the link itself is given up: a request or a command failed, the  *)
(* worker was evicted, or a line of the pipe did not parse.                *)
LosslessDelivered ==
  \A n \in 1 .. MaxEvents :
    n \in lossless ~> n \in received \/ n \notin lossless \/ ~Serving \/ reader = "failed"

(* The death of the worker process is always noticed, also when the notice *)
(* of the disconnection found the queue full, when a request was waiting   *)
(* for an answer, and when it was registered after the pending ones failed. *)
CrashNoticed == child = "exited" ~> ~Serving

(* A worker that is being shut down, because it was idle or because a      *)
(* request failed, comes to an end: whoever prunes workers waits for it.   *)
ShutdownReturns == worker = "exit" ~> worker = "stopped"
==============================================================================
