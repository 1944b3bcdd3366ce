----------------------------- MODULE WecomInbound -----------------------------
(***************************************************************************)
(* How the wecom bot gathers the texts a user sends in quick succession:   *)
(* the task that reads the websocket adds each to the batch of its session *)
(* and starts a task that hands the batch over after a pause, aborting the *)
(* one it started before.  A message that cannot be batched is handled by  *)
(* the reading task itself, which reads nothing meanwhile.  One session;   *)
(* repeated deliveries, which the bot recognises, are left out, and so are *)
(* messages a policy refuses.                                              *)
(***************************************************************************)
EXTENDS Naturals, Sequences, SequencesExt

CONSTANTS MaxTexts   \* bound: messages that come in

VARIABLES
  pc,          \* of the reader, which is 0, and of the tasks it spawned
  item,        \* the message the reader is about
  gathered,    \* pending_text_batches: the texts of the session's entry
  timer,       \* pending_text_batch_tasks: the session's task; 0 for none
  aborted,     \* tasks told to stop, which they do at their next await
  load,        \* of each task: the texts it has taken out of the batch
  delivered,   \* texts given to handle_message
  cut          \* history: texts a task held when it was aborted
vars == <<pc, item, gathered, timer, aborted, load, delivered, cut>>

Reader == 0
Tasks == DOMAIN load
TypeOK ==
  /\ DOMAIN pc = {Reader} \cup Tasks
  /\ pc[Reader] \in {"read", "batch", "replace", "spawn", "insert", "dispatch",
                    "handle"}
  /\ \A t \in Tasks :
       pc[t] \in {"sleep", "unregister", "dispatch", "handle", "done", "dropped"}
  /\ item \in 0..MaxTexts
  /\ ToSet(gathered) \subseteq 1..item /\ timer \in {0} \cup Tasks
  /\ aborted \subseteq Tasks
  /\ \A t \in Tasks : load[t] # <<>> => pc[t] \in {"unregister", "dispatch"}
  /\ delivered \subseteq 1..item /\ cut \subseteq 1..item

Init ==
  /\ pc = [p \in {Reader} |-> "read"] /\ item = 0 /\ gathered = <<>> /\ timer = 0
  /\ aborted = {} /\ load = <<>> /\ delivered = {} /\ cut = {}

-------------------------------------------------------------------------------
Goto(p, label) == pc' = [pc EXCEPT ![p] = label]

(* should_batch_text *)
Receive ==
  /\ pc[Reader] = "read" /\ item < MaxTexts /\ item' = item + 1
  /\ \/ Goto(Reader, "batch") \/ Goto(Reader, "dispatch")
  /\ UNCHANGED <<gathered, timer, aborted, load, delivered, cut>>

AddToBatch ==
  /\ pc[Reader] = "batch" /\ Goto(Reader, "replace")
  /\ gathered' = Append(gathered, item)
  /\ UNCHANGED <<item, timer, aborted, load, delivered, cut>>

ReplaceTask ==
  /\ pc[Reader] = "replace" /\ Goto(Reader, "spawn")
  /\ aborted' = aborted \cup ({timer} \ {0}) /\ timer' = 0
  /\ UNCHANGED <<item, gathered, load, delivered, cut>>

SpawnTask ==
  /\ pc[Reader] = "spawn" /\ load' = Append(load, <<>>)
  /\ pc' = [p \in {Reader} \cup DOMAIN load' |->
              IF p = Reader THEN "insert" ELSE IF p \in Tasks THEN pc[p] ELSE "sleep"]
  /\ UNCHANGED <<item, gathered, timer, aborted, delivered, cut>>

InsertTask ==
  /\ pc[Reader] = "insert" /\ Goto(Reader, "read") /\ timer' = Len(load)
  /\ UNCHANGED <<item, gathered, aborted, load, delivered, cut>>

(* The pause of a task is over: it takes the batch.  The pause outlasts the
   step in which the reader registers the task. *)
Flush(t) ==
  /\ pc[t] = "sleep" /\ t \notin aborted /\ ~(pc[Reader] = "insert" /\ t = Len(load))
  /\ load' = [load EXCEPT ![t] = gathered] /\ gathered' = <<>> /\ Goto(t, "unregister")
  /\ UNCHANGED <<item, timer, aborted, delivered, cut>>

(* It forgets the task of the session, which may be another one by now. *)
UnregisterAborting(t) ==   \* Mutant: what it forgets it also aborts.
  /\ pc[t] = "unregister" /\ timer' = 0
  /\ aborted' = aborted \cup ({timer} \ {0, t})
  /\ Goto(t, IF load[t] = <<>> THEN "done" ELSE "dispatch")
  /\ UNCHANGED <<item, gathered, load, delivered, cut>>
Unregister(t) ==
  /\ pc[t] = "unregister" /\ timer' = 0
  /\ Goto(t, IF load[t] = <<>> THEN "done" ELSE "dispatch")
  /\ UNCHANGED <<item, gathered, aborted, load, delivered, cut>>

(* dispatch_message: the handler has the message, and runs its turn. *)
Dispatch(p) ==
  /\ pc[p] = "dispatch" /\ Goto(p, "handle")
  /\ IF p = Reader THEN delivered' = delivered \cup {item} /\ UNCHANGED load
     ELSE /\ delivered' = delivered \cup ToSet(load[p])
          /\ load' = [load EXCEPT ![p] = <<>>]
  /\ UNCHANGED <<item, gathered, timer, aborted, cut>>
HandlerReturns(p) ==
  /\ pc[p] = "handle" /\ Goto(p, IF p = Reader THEN "read" ELSE "done")
  /\ UNCHANGED <<item, gathered, timer, aborted, load, delivered, cut>>

(* An aborted task is dropped at the next await at which it has to wait. *)
Drop(t) ==
  /\ t \in aborted /\ pc[t] \in {"sleep", "unregister", "dispatch", "handle"}
  /\ Goto(t, "dropped") /\ load' = [load EXCEPT ![t] = <<>>]
  /\ cut' = IF pc[t] = "sleep" THEN cut ELSE cut \cup ToSet(load[t])
  /\ UNCHANGED <<item, gathered, timer, aborted, delivered>>

Next ==
  \/ Receive \/ AddToBatch \/ ReplaceTask \/ SpawnTask \/ InsertTask
  \/ \E t \in Tasks : Flush(t) \/ Unregister(t) \/ Drop(t)
  \/ \E p \in {Reader} \cup Tasks : Dispatch(p) \/ HandlerReturns(p)

Spec == Init /\ [][Next]_vars

-------------------------------------------------------------------------------
(* No text is lost on its way, however arrivals and the tasks of earlier texts
   fall together: it is in the batch, for which a task that will not be aborted
   is asleep or about to be started; or a task has it in hand; or it was
   handled; and only one of these.  The exception is a text whose task the next
   arrival aborts after it took the batch and before it handed it over. *)
Places ==
  <<ToSet(gathered), delivered, cut,
    IF pc[Reader] \in {"batch", "dispatch"} THEN {item} ELSE {}>>
    \o [t \in Tasks |-> ToSet(load[t])]
TextReachesHandler ==
  /\ \A x \in 1..item : \E i \in DOMAIN Places :
       \A j \in DOMAIN Places : x \in Places[j] <=> j = i
  /\ gathered # <<>> => \/ pc[Reader] \in {"replace", "spawn"}
                     \/ \E t \in Tasks \ aborted : pc[t] = "sleep"
===============================================================================
