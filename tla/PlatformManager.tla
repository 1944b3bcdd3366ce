---------------------------- MODULE PlatformManager ----------------------------
(***************************************************************************)
(* The switch and the configuration of one messaging platform in a node,   *)
(* the files they are kept in, and the task that runs the platform's bot.  *)
(* Several sessions change them side by side, each a few steps under a     *)
(* short lock, and the start of the node brings up what the file says.     *)
(* Aborting a runtime ends the task that waits for the bot, which is what  *)
(* the manager owns; the bot's own task is not in the model.               *)
(***************************************************************************)
EXTENDS Naturals, Sequences

CONSTANTS
  Admins,       \* sessions that send platform commands, one at a time each
  Startup,      \* the task that syncs the desired state when the node starts
  MaxRuntimes,  \* bound: runtimes built
  MaxVersions   \* bound: values of the configuration

VARIABLES
  pc, want,     \* the caller's step, and the state it is to bring about
  copy,         \* what the caller has cloned from the manager
  hand,         \* the runtime the caller has built; 0 for none
  enabled, config,         \* PlatformManagerState: persisted, config
  enabledFile, configFile,
  runtime,      \* PlatformManagerState::runtimes; 0 for none
  tasks,        \* of each runtime built: the configuration it runs with
  over,         \* runtimes whose task has ended
  crossed, unclean, bypassed   \* history: see SwitchIsObeyed
callerVars == <<pc, want, copy, hand>>
historyVars == <<crossed, unclean, bypassed>>
vars == <<callerVars, enabled, config, enabledFile, configFile, runtime, tasks,
          over, historyVars>>

Callers == Admins \cup {Startup}
Runtimes == DOMAIN tasks

TypeOK ==
  /\ pc \in [Callers -> {"idle", "clone", "write", "stop", "build", "connect", "offer",
                         "insert", "cloneconfig", "writeconfig", "reload",
                         "restop", "reread", "sync"}]
  /\ want \in [Callers -> {"on", "off", "reload", "keep"}]
  /\ hand \in [Callers -> {0} \cup Runtimes]
  /\ {enabled, enabledFile} \subseteq BOOLEAN
  /\ config \in 1..MaxVersions /\ configFile \in 1..config
  /\ runtime \in {0} \cup Runtimes /\ over \subseteq Runtimes
  /\ \A r \in Runtimes : tasks[r] \in 1..config
  /\ \A c \in Callers : hand[c] # 0 <=> pc[c] \in {"offer", "insert"}

Init ==
  /\ enabled \in BOOLEAN /\ config = 1 /\ enabledFile = enabled /\ configFile = 1
  /\ pc = [c \in Callers |-> IF c = Startup THEN "sync" ELSE "idle"]
  /\ want = [c \in Callers |-> "keep"] /\ hand = [c \in Callers |-> 0]
  /\ copy = [c \in Callers |-> 0]
  /\ runtime = 0 /\ tasks = <<>> /\ over = {}
  /\ crossed = FALSE /\ unclean = FALSE /\ bypassed = FALSE

-------------------------------------------------------------------------------
At(c, label) == pc[c] = label /\ UNCHANGED crossed
Goto(c, label) ==
  /\ pc' = [pc EXCEPT ![c] = label]
  /\ want' = IF label = "idle" THEN [want EXCEPT ![c] = "keep"] ELSE want

(* A command begins; whether another one is under way is remembered. *)
Begin(c, goal, label) ==
  /\ c \in Admins /\ pc[c] = "idle" /\ pc' = [pc EXCEPT ![c] = label]
  /\ want' = [want EXCEPT ![c] = goal]
  /\ crossed' = (crossed \/ \E d \in Callers : pc[d] # "idle")

SetEnabled(c, on) ==
  /\ Begin(c, IF on THEN "on" ELSE "off", "clone") /\ enabled' = on
  /\ UNCHANGED <<copy, hand, config, enabledFile, configFile, runtime, tasks, over,
                 unclean, bypassed>>

(* set_config_value and clear_config_value, which reload a running bot, and a
   confirmed weixin login, which does not. *)
SetConfig(c, goal) ==
  /\ config < MaxVersions
  /\ Begin(c, goal, "cloneconfig") /\ config' = config + 1
  /\ bypassed' = (bypassed \/ (goal = "keep" /\ runtime # 0))
  /\ UNCHANGED <<copy, hand, enabled, enabledFile, configFile, runtime, tasks, over,
                 unclean>>

SyncDesiredState(c) ==
  /\ At(c, "sync") /\ Goto(c, IF enabled THEN "build" ELSE "stop")
  /\ UNCHANGED <<copy, hand, enabled, config, enabledFile, configFile, runtime, tasks,
                 over, unclean, bypassed>>

(* persist and persist_config clone the state under the lock and write it to
   the file without it. *)
CloneState(c) ==
  /\ \/ At(c, "clone") /\ Goto(c, "write") /\ copy' = [copy EXCEPT ![c] = enabled]
     \/ /\ At(c, "cloneconfig") /\ Goto(c, "writeconfig")
        /\ copy' = [copy EXCEPT ![c] = config]
  /\ UNCHANGED <<hand, enabled, config, enabledFile, configFile, runtime, tasks, over,
                 unclean, bypassed>>

Persist(c) ==
  /\ \/ /\ At(c, "write") /\ enabledFile' = copy[c]
        /\ Goto(c, IF want[c] = "on" THEN "build" ELSE "stop")
        /\ UNCHANGED configFile
     \/ /\ At(c, "writeconfig") /\ configFile' = copy[c]
        /\ Goto(c, IF want[c] = "reload" THEN "reload" ELSE "idle")
        /\ UNCHANGED enabledFile
  /\ copy' = [copy EXCEPT ![c] = 0]
  /\ UNCHANGED <<hand, enabled, config, runtime, tasks, over, unclean, bypassed>>

(* A write fails, or the bot cannot be configured or connected: the caller is
   told, and what was done before stays. *)
Fail(c) ==
  /\ \/ At(c, "write") \/ At(c, "writeconfig") \/ At(c, "build") \/ At(c, "connect")
  /\ Goto(c, "idle") /\ copy' = [copy EXCEPT ![c] = 0] /\ unclean' = TRUE
  /\ UNCHANGED <<hand, enabled, config, enabledFile, configFile, runtime, tasks, over,
                 bypassed>>

RemoveRuntime ==
  /\ runtime' = 0 /\ bypassed' = FALSE
  /\ over' = over \cup ({runtime} \ {0})
StopRuntime(c) ==
  /\ \/ At(c, "stop") /\ Goto(c, "idle")
     \/ At(c, "restop") /\ Goto(c, "reread")
  /\ RemoveRuntime
  /\ UNCHANGED <<copy, hand, enabled, config, enabledFile, configFile, tasks, unclean>>

ReloadKeeping(c) ==   \* Mutant: the old runtime is not stopped first.
  /\ At(c, "reload") /\ Goto(c, IF runtime # 0 THEN "reread" ELSE "idle")
  /\ UNCHANGED <<copy, hand, enabled, config, enabledFile, configFile, runtime, tasks,
                 over, unclean, bypassed>>
ReloadIfRunning(c) ==
  /\ At(c, "reload") /\ Goto(c, IF runtime # 0 THEN "restop" ELSE "idle")
  /\ UNCHANGED <<copy, hand, enabled, config, enabledFile, configFile, runtime, tasks,
                 over, unclean, bypassed>>
ReadSwitch(c) ==
  /\ At(c, "reread") /\ Goto(c, IF enabled THEN "build" ELSE "idle")
  /\ UNCHANGED <<copy, hand, enabled, config, enabledFile, configFile, runtime, tasks,
                 over, unclean, bypassed>>

(* spawn_*_runtime: the configuration is cloned under the lock, then the bot's
   client is connected and its task started. *)
Build(c) ==
  /\ At(c, "build") /\ Goto(c, "connect") /\ copy' = [copy EXCEPT ![c] = config]
  /\ UNCHANGED <<hand, enabled, config, enabledFile, configFile, runtime, tasks, over,
                 unclean, bypassed>>
Connect(c) ==
  /\ At(c, "connect") /\ Goto(c, "offer") /\ Len(tasks) < MaxRuntimes
  /\ tasks' = Append(tasks, copy[c]) /\ hand' = [hand EXCEPT ![c] = Len(tasks) + 1]
  /\ copy' = [copy EXCEPT ![c] = 0]
  /\ UNCHANGED <<enabled, config, enabledFile, configFile, runtime, over, unclean,
                 bypassed>>

(* ensure_runtime_started looks twice, with the lock free in between. *)
AbortOwn(c) ==
  /\ Goto(c, "idle") /\ over' = over \cup {hand[c]}
  /\ hand' = [hand EXCEPT ![c] = 0] /\ UNCHANGED runtime
Keep(c) ==
  /\ Goto(c, "idle") /\ runtime' = hand[c]
  /\ hand' = [hand EXCEPT ![c] = 0] /\ UNCHANGED over
Offer(c) ==
  /\ At(c, "offer")
  /\ \/ runtime # 0 /\ AbortOwn(c)
     \/ runtime = 0 /\ Goto(c, "insert") /\ UNCHANGED <<hand, runtime, over>>
  /\ UNCHANGED <<copy, enabled, config, enabledFile, configFile, tasks, unclean, bypassed>>
InsertOver(c) ==   \* Mutant: the first look is enough.
  /\ At(c, "insert") /\ Keep(c)
  /\ UNCHANGED <<copy, enabled, config, enabledFile, configFile, tasks, unclean, bypassed>>
Insert(c) ==
  /\ At(c, "insert")
  /\ \/ runtime # 0 /\ AbortOwn(c)
     \/ runtime = 0 /\ Keep(c)
  /\ UNCHANGED <<copy, enabled, config, enabledFile, configFile, tasks, unclean, bypassed>>

(* A bot ends by itself; the manager goes on holding its runtime. *)
RuntimeEnds(r) ==
  /\ r \notin over /\ over' = over \cup {r}
  /\ UNCHANGED <<callerVars, enabled, config, enabledFile, configFile, runtime, tasks,
                 historyVars>>

Next ==
  \/ \E c \in Callers :
       \/ \E on \in BOOLEAN : SetEnabled(c, on)
       \/ \E goal \in {"reload", "keep"} : SetConfig(c, goal)
       \/ SyncDesiredState(c) \/ CloneState(c) \/ Persist(c) \/ Fail(c)
       \/ StopRuntime(c) \/ ReloadIfRunning(c) \/ ReadSwitch(c)
       \/ Build(c) \/ Connect(c) \/ Offer(c) \/ Insert(c)
  \/ \E r \in Runtimes : RuntimeEnds(r)

Spec == Init /\ [][Next]_vars

-------------------------------------------------------------------------------
(* A runtime that runs can be stopped: the manager holds it, or the one caller
   that has just built it does, however the two looks of
   ensure_runtime_started, stops and reloads of other callers fall between. *)
Holders(r) == {c \in Callers : hand[c] = r}
RuntimesOwned ==
  \A r \in Runtimes \ over :
    IF runtime = r THEN Holders(r) = {} ELSE \E c \in Callers : Holders(r) = {c}

(* When nothing is under way, the files say what the manager says, a runtime
   is held exactly if the platform is enabled, and it was built from the
   present configuration.  This takes commands that neither crossed one another
   nor failed half way; a confirmed login does not reach the runtime. *)
SwitchIsObeyed ==
  (\A c \in Callers : pc[c] = "idle") /\ ~crossed /\ ~unclean =>
    /\ enabledFile = enabled /\ configFile = config
    /\ enabled <=> runtime # 0
    /\ runtime # 0 => tasks[runtime] = config \/ bypassed
===============================================================================
