----------------------------- MODULE ExecSession ------------------------------
(***************************************************************************)
(* The commands that outlive the tool call that started them: the store of *)
(* sessions, the tasks that pump a command's output into a buffer, and the *)
(* calls that start, poll and end a session side by side.  A call may be   *)
(* dropped at any await, when its turn is interrupted.  The two streams of *)
(* a command behave alike and are one; output is counted in chunks, before *)
(* the limits of what is kept and told.                                    *)
(***************************************************************************)
EXTENDS Naturals, Sequences, FiniteSets, SequencesExt

CONSTANTS
  Calls,       \* tool calls that run at the same time
  NoCall,
  MaxSessions, \* bound: sessions started
  MaxActive,   \* MAX_ACTIVE_EXEC_SESSIONS (16 in the code)
  MaxOutput    \* bound: chunks one command writes

VARIABLES
  pc, target,  \* the call's step, and the session it is about
  victim,      \* the session a start has pruned; 0 for none
  status,      \* what the wait of the call found
  seen,        \* length of the text the call has cloned
  store,       \* the sessions' ids, the one used last at the end
  started,     \* ids given out
  child,       \* of each session: "running" or "exited"
  holder,      \* the call that holds the lock of the child
  written, captured, cursor,
  given,        \* history: chunks that reached the model
  dropped      \* history: sessions of calls dropped with the text in hand
callVars == <<pc, target, victim, status, seen>>
outputVars == <<written, captured, cursor, given, dropped>>
vars == <<callVars, store, started, child, holder, outputVars>>

Ids == 1..started
Stored == {store[i] : i \in DOMAIN store}

TypeOK ==
  /\ pc \in [Calls -> {"idle", "prune", "lock", "wait", "abort", "text", "cursor",
                       "return", "cleanup", "terminate"}]
  /\ target \in [Calls -> 0..started] /\ victim \in [Calls -> 0..started]
  /\ status \in [Calls -> {"none", "running", "over"}]
  /\ started \in 0..MaxSessions /\ Stored \subseteq Ids
  /\ IsInjective(store) /\ Len(store) <= MaxActive
  /\ child \in [Ids -> {"running", "exited"}]
  /\ holder \in [Ids -> Calls \cup {NoCall}]
  /\ \A s \in Ids : captured[s] <= written[s] /\ cursor[s] <= captured[s]
  /\ \A c \in Calls : (pc[c] = "wait") = (\E s \in Ids : holder[s] = c)
  /\ \A c \in Calls : (pc[c] = "prune") = (victim[c] # 0)

Init ==
  /\ pc = [c \in Calls |-> "idle"] /\ target = [c \in Calls |-> 0]
  /\ victim = [c \in Calls |-> 0] /\ status = [c \in Calls |-> "none"]
  /\ seen = [c \in Calls |-> 0]
  /\ store = <<>> /\ started = 0 /\ child = <<>> /\ holder = <<>>
  /\ written = <<>> /\ captured = <<>> /\ cursor = <<>> /\ given = <<>> /\ dropped = {}

-------------------------------------------------------------------------------
Goto(c, label) == pc' = [pc EXCEPT ![c] = label]

(* The store once a session is taken out of it, if it was there *)
Without(s) ==
  IF s \in Stored THEN RemoveAt(store, CHOOSE i \in DOMAIN store : store[i] = s) ELSE store

(* The Arcs of a session besides the store's *)
Held(s) == {c \in Calls : (pc[c] # "idle" /\ target[c] = s) \/ victim[c] = s}

(* What is left of the children when call c gives up its Arcs: the last Arc
   of a session takes its child with it (kill_on_drop).                      *)
(* Mutant: a child survives the handle that started it.                      *)
ReleasedAlive(c) == child
Released(c) ==
  [s \in Ids |-> IF s \notin Stored /\ Held(s) \subseteq {c} THEN "exited" ELSE child[s]]

-------------------------------------------------------------------------------
(* start_session: the oldest session makes room for the new one *)
Start(c) ==
  /\ pc[c] = "idle" /\ started < MaxSessions
  /\ LET full == Len(store) >= MaxActive
     IN  /\ store' = Append(IF full THEN Tail(store) ELSE store, started + 1)
         /\ victim' = [victim EXCEPT ![c] = IF full THEN Head(store) ELSE 0]
         /\ Goto(c, IF full THEN "prune" ELSE "lock")
  /\ started' = started + 1
  /\ target' = [target EXCEPT ![c] = started']
  /\ child' = Append(child, "running") /\ holder' = Append(holder, NoCall)
  /\ written' = Append(written, 0) /\ captured' = Append(captured, 0)
  /\ cursor' = Append(cursor, 0) /\ given' = Append(given, {})
  /\ UNCHANGED <<status, seen, dropped>>

(* terminate of the pruned session waits for whoever waits for its child *)
Prune(c) ==
  /\ pc[c] = "prune" /\ holder[victim[c]] = NoCall
  /\ child' = [child EXCEPT ![victim[c]] = "exited"]
  /\ victim' = [victim EXCEPT ![c] = 0]
  /\ Goto(c, "lock")
  /\ UNCHANGED <<target, status, seen, store, started, holder, outputVars>>

(* write_stdin: get touches the session, also when the input is refused or
   cannot be written; what is written is not kept                            *)
Poll(c, s) ==
  /\ pc[c] = "idle" /\ s \in Stored
  /\ store' = Append(Without(s), s)
  /\ \/ target' = [target EXCEPT ![c] = s] /\ Goto(c, "lock")
     \/ UNCHANGED <<target, pc>>
  /\ UNCHANGED <<victim, status, seen, started, child, holder, outputVars>>

(* wait_for_session *)
Lock(c) ==
  /\ pc[c] = "lock" /\ holder[target[c]] = NoCall
  /\ holder' = [holder EXCEPT ![target[c]] = c]
  /\ Goto(c, "wait")
  /\ UNCHANGED <<target, victim, status, seen, store, started, child, outputVars>>

(* The child has exited, or the yield time is over *)
Waited(c) ==
  /\ pc[c] = "wait"
  /\ status' = [status EXCEPT ![c] = IF child[target[c]] = "exited" THEN "over" ELSE "running"]
  /\ holder' = [holder EXCEPT ![target[c]] = NoCall]
  /\ Goto(c, "text")
  /\ UNCHANGED <<target, victim, seen, store, started, child, outputVars>>

(* ... or the turn is cancelled: the lock is given up, then taken again *)
Aborted(c) ==
  /\ pc[c] = "wait"
  /\ holder' = [holder EXCEPT ![target[c]] = NoCall]
  /\ Goto(c, "abort")
  /\ UNCHANGED <<target, victim, status, seen, store, started, child, outputVars>>

AbortedTerminates(c) ==
  /\ pc[c] = "abort" /\ holder[target[c]] = NoCall
  /\ child' = [child EXCEPT ![target[c]] = "exited"]
  /\ Goto(c, "cleanup")
  /\ UNCHANGED <<target, victim, status, seen, store, started, holder, outputVars>>

(* take_new_buffer: the text under one lock, the cursor under another *)
TakeText(c) ==
  /\ pc[c] = "text"
  /\ seen' = [seen EXCEPT ![c] = captured[target[c]]]
  /\ Goto(c, "cursor")
  /\ UNCHANGED <<target, victim, status, store, started, child, holder, outputVars>>

(* Mutant: the cursor goes to the end of the buffer as it is by now.         *)
AdvanceToEnd(s, length) == cursor' = [cursor EXCEPT ![s] = captured[s]]
Advance(s, length) == cursor' = [cursor EXCEPT ![s] = length]

TakeCursor(c) ==
  /\ pc[c] = "cursor"
  /\ given' = [given EXCEPT ![target[c]] = @ \cup (cursor[target[c]] + 1)..seen[c]]
  /\ Advance(target[c], seen[c])
  /\ seen' = [seen EXCEPT ![c] = 0]
  /\ Goto(c, IF status[c] = "over" THEN "cleanup" ELSE "return")
  /\ UNCHANGED <<target, victim, status, store, started, child, holder, written, captured,
                 dropped>>

Finish(c) ==
  /\ pc' = [pc EXCEPT ![c] = "idle"]
  /\ target' = [target EXCEPT ![c] = 0] /\ status' = [status EXCEPT ![c] = "none"]

(* Still running: the caller is told to poll *)
Return(c) ==
  /\ pc[c] = "return"
  /\ Finish(c) /\ child' = Released(c)
  /\ UNCHANGED <<victim, seen, store, started, holder, outputVars>>

(* cleanup_session: nothing to do when another call has removed it *)
Cleanup(c) ==
  /\ pc[c] = "cleanup"
  /\ store' = Without(target[c])
  /\ IF target[c] \in Stored THEN Goto(c, "terminate") /\ UNCHANGED <<target, status, child>>
     ELSE Finish(c) /\ child' = Released(c)
  /\ UNCHANGED <<victim, seen, started, holder, outputVars>>

Terminate(c) ==
  /\ pc[c] = "terminate" /\ holder[target[c]] = NoCall
  /\ child' = [child EXCEPT ![target[c]] = "exited"]
  /\ Finish(c)
  /\ UNCHANGED <<victim, seen, store, started, holder, outputVars>>

(* The interrupt drops the future of a call, wherever it stands *)
Drop(c) ==
  /\ pc[c] # "idle"
  /\ Finish(c) /\ child' = Released(c)
  /\ holder' = [s \in Ids |-> IF holder[s] = c THEN NoCall ELSE holder[s]]
  /\ victim' = [victim EXCEPT ![c] = 0] /\ seen' = [seen EXCEPT ![c] = 0]
  /\ dropped' = IF pc[c] \in {"return", "cleanup", "terminate"} THEN dropped \cup {target[c]}
                ELSE dropped
  /\ UNCHANGED <<store, started, written, captured, cursor, given>>

-------------------------------------------------------------------------------
(* The command *)
Write(s) ==
  /\ child[s] = "running" /\ written[s] < MaxOutput
  /\ written' = [written EXCEPT ![s] = @ + 1]
  /\ UNCHANGED <<callVars, store, started, child, holder, captured, cursor, given, dropped>>

Exit(s) ==
  /\ child[s] = "running"
  /\ child' = [child EXCEPT ![s] = "exited"]
  /\ UNCHANGED <<callVars, store, started, holder, outputVars>>

(* pump_exec_reader *)
Pump(s) ==
  /\ captured[s] < written[s]
  /\ captured' = [captured EXCEPT ![s] = @ + 1]
  /\ UNCHANGED <<callVars, store, started, child, holder, written, cursor, given, dropped>>

Next ==
  \/ \E c \in Calls :
       \/ Start(c) \/ Prune(c) \/ \E s \in Ids : Poll(c, s)
       \/ Lock(c) \/ Waited(c) \/ Aborted(c) \/ AbortedTerminates(c)
       \/ TakeText(c) \/ TakeCursor(c) \/ Return(c) \/ Cleanup(c) \/ Terminate(c) \/ Drop(c)
  \/ \E s \in Ids : Write(s) \/ Exit(s) \/ Pump(s)

Spec == Init /\ [][Next]_vars

-------------------------------------------------------------------------------
(* A command that runs can still be polled, or a call is about to end it:
   neither pruning, nor two calls that end a session at once, nor a call that
   is dropped half way leaves a process that nobody can reach.               *)
NoChildLeftBehind ==
  \A s \in Ids : child[s] = "running" => s \in Stored \/ Held(s) # {}

(* What was taken from a session's output reached the model, without a hole,
   however many calls take it at the same time -- unless one was dropped with
   the text in hand.                                                         *)
NothingSkipped ==
  \A s \in Ids : s \in dropped \/ 1..cursor[s] \subseteq given[s]
===============================================================================
