----------------------------- MODULE GatewayProofs -----------------------------
(***************************************************************************)
(* Proofs about the messaging gateway: who owns a platform's runtime and   *)
(* whether it follows its switch (PlatformManager), the texts WecomInbound *)
(* gathers, and the replies and approvals of GatewayReply.  The proofs of  *)
(* a part stay within its own Next; the last section lifts them to the     *)
(* module that runs one of ten parts.                                      *)
(***************************************************************************)
EXTENDS MCParts, TLAPS

(***************************************************************************)
(* PlatformManager                                                         *)
(***************************************************************************)

Steps == {"idle", "clone", "write", "stop", "build", "connect", "offer", "insert",
          "cloneconfig", "writeconfig", "reload", "restop", "reread", "sync"}
Goals == {"on", "off", "reload", "keep"}

(* The types with what TypeOK leaves unsaid: a copy has the type of what it
   was cloned from. *)
PlatformTypes ==
  /\ Platform!TypeOK
  /\ tasks \in Seq(1..MaxVersions) /\ config \in 1..MaxVersions
  /\ DOMAIN copy = Platform!Callers
  /\ \A c \in Platform!Callers :
       /\ pc[c] = "write" => copy[c] \in BOOLEAN
       /\ pc[c] \in {"writeconfig", "connect"} => copy[c] \in 1..config

(* As long as no command crossed another, one caller at most is at work. *)
PlatformUncrossed ==
  ~crossed => \A c, d \in Platform!Callers : pc[c] # "idle" /\ pc[d] # "idle" => c = d

(* What holds of manager, files and runtime while the one caller is at work. *)
FilesUnderway(c) ==
  /\ pc[c] \in {"clone", "write"} \/ enabledFile = enabled
  /\ pc[c] \in {"cloneconfig", "writeconfig"} \/ configFile = config
  /\ pc[c] = "write" => copy[c] = enabled
  /\ pc[c] \in {"clone", "write"} =>
       want[c] \in {"on", "off"} /\ (enabled <=> want[c] = "on")
  /\ pc[c] \in {"cloneconfig", "writeconfig"} => want[c] \in {"reload", "keep"}
  /\ pc[c] \in {"writeconfig", "connect"} => copy[c] = config
RuntimeUnderway(c) ==
  /\ pc[c] \in {"offer", "insert"} => tasks[hand[c]] = config
  /\ pc[c] \in {"build", "connect", "offer", "insert"} => enabled
  /\ pc[c] = "stop" => ~enabled
  /\ pc[c] \in {"cloneconfig", "writeconfig", "reload", "restop"} =>
       (enabled <=> runtime # 0)
  /\ pc[c] \in {"reread", "sync", "insert"} => runtime = 0
  /\ runtime # 0 =>
       \/ tasks[runtime] = config \/ bypassed
       \/ /\ pc[c] \in {"cloneconfig", "writeconfig", "reload", "restop"}
          /\ pc[c] \in {"cloneconfig", "writeconfig"} => want[c] = "reload"
PlatformUnderway ==
  ~crossed /\ ~unclean =>
    \A c \in Platform!Callers :
      pc[c] # "idle" => FilesUnderway(c) /\ RuntimeUnderway(c)

SwitchObeyed ==
  /\ enabledFile = enabled /\ configFile = config
  /\ enabled <=> runtime # 0
  /\ runtime # 0 => tasks[runtime] = config \/ bypassed

PlatformInv ==
  /\ PlatformTypes /\ Platform!RuntimesOwned
  /\ PlatformUncrossed /\ PlatformUnderway /\ Platform!SwitchIsObeyed

(* A caller that goes on stands at one of the steps. *)
LEMMA GotoTypes ==
  ASSUME PlatformTypes, NEW c \in Platform!Callers,
         \E x \in Steps : Platform!Goto(c, x)
  PROVE  pc' \in [Platform!Callers -> Steps] /\ want' \in [Platform!Callers -> Goals]
  <1>1. pc \in [Platform!Callers -> Steps] /\ want \in [Platform!Callers -> Goals]
    BY DEF PlatformTypes, Platform!TypeOK, Steps, Goals
  <1>2. PICK x \in Steps : Platform!Goto(c, x)
    OBVIOUS
  <1>3. /\ pc' = [pc EXCEPT ![c] = x]
        /\ want' = [want EXCEPT ![c] = "keep"] \/ want' = want
    BY <1>2 DEF Platform!Goto
  <1>4. "keep" \in Goals
    BY DEF Goals
  <1> QED BY <1>1, <1>3, <1>4

(* A step keeps the types. *)
LEMMA PlatformTypesStep ==
  ASSUME PlatformTypes, [Platform!Next]_(Platform!vars)
  PROVE  PlatformTypes'
  <1>0. MaxVersions \in Nat \ {0} /\ Startup \notin Admins /\ MaxRuntimes \in Nat
    BY PartsAssumption
  <1> USE <1>0 DEF PlatformTypes, Steps, Goals, Platform!TypeOK,
    Platform!Callers, Platform!Runtimes
  <1>1. ASSUME NEW c \in Platform!Callers, NEW on \in BOOLEAN, Platform!SetEnabled(c, on)
        PROVE  PlatformTypes'
    BY <1>1 DEF Platform!SetEnabled, Platform!Begin
  <1>2. ASSUME NEW c \in Platform!Callers, NEW goal \in {"reload", "keep"},
               Platform!SetConfig(c, goal)
        PROVE  PlatformTypes'
    <2>1. pc' \in [Platform!Callers -> Steps] /\ want' \in [Platform!Callers -> Goals]
      BY <1>2 DEF Platform!SetConfig, Platform!Begin
    <2>2. hand' \in [Platform!Callers -> {0} \cup Platform!Runtimes']
      BY <1>2 DEF Platform!SetConfig, Platform!Begin
    <2>3. \A d \in Platform!Callers :
            hand'[d] # 0 <=> pc'[d] \in {"offer", "insert"}
      BY <1>2 DEF Platform!SetConfig, Platform!Begin
    <2>4. /\ {enabled', enabledFile'} \subseteq BOOLEAN
          /\ config' \in 1..MaxVersions /\ configFile' \in 1..config'
          /\ runtime' \in {0} \cup Platform!Runtimes' /\ over' \subseteq Platform!Runtimes'
      BY <1>2 DEF Platform!SetConfig, Platform!Begin
    <2>5. tasks' \in Seq(1..MaxVersions) /\ \A r \in Platform!Runtimes' : tasks'[r] \in 1..config'
      BY <1>2 DEF Platform!SetConfig, Platform!Begin
    <2>6. /\ DOMAIN copy' = Platform!Callers
          /\ \A d \in Platform!Callers :
               /\ pc'[d] = "write" => copy'[d] \in BOOLEAN
               /\ pc'[d] \in {"writeconfig", "connect"} => copy'[d] \in 1..config'
      BY <1>2 DEF Platform!SetConfig, Platform!Begin
    <2>7. QED
      BY <2>1, <2>2, <2>3, <2>4, <2>5, <2>6
  <1>3. ASSUME NEW c \in Platform!Callers, Platform!SyncDesiredState(c)
        PROVE  PlatformTypes'
    BY <1>3 DEF Platform!SyncDesiredState, Platform!At, Platform!Goto
  <1>4. ASSUME NEW c \in Platform!Callers, Platform!CloneState(c)
        PROVE  PlatformTypes'
    <2>1. pc' \in [Platform!Callers -> Steps] /\ want' \in [Platform!Callers -> Goals]
      <3>1. \E x \in Steps : Platform!Goto(c, x)
        BY <1>4 DEF Platform!CloneState
      <3> QED BY <3>1, GotoTypes
    <2>2. hand' \in [Platform!Callers -> {0} \cup Platform!Runtimes']
      BY <1>4 DEF Platform!CloneState, Platform!At, Platform!Goto
    <2>3. \A d \in Platform!Callers :
            hand'[d] # 0 <=> pc'[d] \in {"offer", "insert"}
      BY <1>4 DEF Platform!CloneState, Platform!At, Platform!Goto
    <2>4. /\ {enabled', enabledFile'} \subseteq BOOLEAN
          /\ config' \in 1..MaxVersions /\ configFile' \in 1..config'
          /\ runtime' \in {0} \cup Platform!Runtimes' /\ over' \subseteq Platform!Runtimes'
      BY <1>4 DEF Platform!CloneState, Platform!At, Platform!Goto
    <2>5. tasks' \in Seq(1..MaxVersions) /\ \A r \in Platform!Runtimes' : tasks'[r] \in 1..config'
      BY <1>4 DEF Platform!CloneState, Platform!At, Platform!Goto
    <2>6. /\ DOMAIN copy' = Platform!Callers
          /\ \A d \in Platform!Callers :
               /\ pc'[d] = "write" => copy'[d] \in BOOLEAN
               /\ pc'[d] \in {"writeconfig", "connect"} => copy'[d] \in 1..config'
      <3>1. /\ config \in 1..config /\ config' = config /\ enabled \in BOOLEAN
            /\ DOMAIN pc = Platform!Callers /\ DOMAIN copy = Platform!Callers
        BY <1>4 DEF Platform!CloneState
      <3>2. CASE pc' = [pc EXCEPT ![c] = "write"] /\ copy' = [copy EXCEPT ![c] = enabled]
        BY <3>1, <3>2
      <3>3. CASE pc' = [pc EXCEPT ![c] = "writeconfig"] /\ copy' = [copy EXCEPT ![c] = config]
        BY <3>1, <3>3
      <3>4. QED
        BY <1>4, <3>2, <3>3 DEF Platform!CloneState, Platform!At, Platform!Goto
    <2>7. QED
      BY <2>1, <2>2, <2>3, <2>4, <2>5, <2>6
  <1>5. ASSUME NEW c \in Platform!Callers, Platform!Persist(c)
        PROVE  PlatformTypes'
    BY <1>5 DEF Platform!Persist, Platform!At, Platform!Goto
  <1>6. ASSUME NEW c \in Platform!Callers, Platform!Fail(c)
        PROVE  PlatformTypes'
    BY <1>6 DEF Platform!Fail, Platform!At, Platform!Goto
  <1>7. ASSUME NEW c \in Platform!Callers, Platform!StopRuntime(c)
        PROVE  PlatformTypes'
    BY <1>7 DEF Platform!StopRuntime, Platform!At, Platform!Goto,
      Platform!RemoveRuntime
  <1>8. ASSUME NEW c \in Platform!Callers, Platform!ReloadIfRunning(c)
        PROVE  PlatformTypes'
    BY <1>8 DEF Platform!ReloadIfRunning, Platform!At, Platform!Goto
  <1>9. ASSUME NEW c \in Platform!Callers, Platform!ReadSwitch(c)
        PROVE  PlatformTypes'
    BY <1>9 DEF Platform!ReadSwitch, Platform!At, Platform!Goto
  <1>10. ASSUME NEW c \in Platform!Callers, Platform!Build(c)
        PROVE  PlatformTypes'
    BY <1>10 DEF Platform!Build, Platform!At, Platform!Goto
  <1>11. ASSUME NEW c \in Platform!Callers, Platform!Connect(c)
        PROVE  PlatformTypes'
    <2>1. pc' \in [Platform!Callers -> Steps] /\ want' \in [Platform!Callers -> Goals]
      <3>1. \E x \in Steps : Platform!Goto(c, x)
        BY <1>11 DEF Platform!Connect
      <3> QED BY <3>1, GotoTypes
    <2>2. hand' \in [Platform!Callers -> {0} \cup Platform!Runtimes']
      BY <1>11 DEF Platform!Connect, Platform!At, Platform!Goto
    <2>3. \A d \in Platform!Callers :
            hand'[d] # 0 <=> pc'[d] \in {"offer", "insert"}
      BY <1>11 DEF Platform!Connect, Platform!At, Platform!Goto
    <2>4. /\ {enabled', enabledFile'} \subseteq BOOLEAN
          /\ config' \in 1..MaxVersions /\ configFile' \in 1..config'
          /\ runtime' \in {0} \cup Platform!Runtimes' /\ over' \subseteq Platform!Runtimes'
      BY <1>11 DEF Platform!Connect, Platform!At, Platform!Goto
    <2>5. tasks' \in Seq(1..MaxVersions) /\ \A r \in Platform!Runtimes' : tasks'[r] \in 1..config'
      BY <1>11 DEF Platform!Connect, Platform!At, Platform!Goto
    <2>6. /\ DOMAIN copy' = Platform!Callers
          /\ \A d \in Platform!Callers :
               /\ pc'[d] = "write" => copy'[d] \in BOOLEAN
               /\ pc'[d] \in {"writeconfig", "connect"} => copy'[d] \in 1..config'
      BY <1>11 DEF Platform!Connect, Platform!At, Platform!Goto
    <2>7. QED
      BY <2>1, <2>2, <2>3, <2>4, <2>5, <2>6
  <1>12. ASSUME NEW c \in Platform!Callers, Platform!Offer(c)
        PROVE  PlatformTypes'
    <2>1. pc' \in [Platform!Callers -> Steps] /\ want' \in [Platform!Callers -> Goals]
      <3>1. \E x \in Steps : Platform!Goto(c, x)
        BY <1>12 DEF Platform!Offer, Platform!AbortOwn
      <3> QED BY <3>1, GotoTypes
    <2>2. hand' \in [Platform!Callers -> {0} \cup Platform!Runtimes']
      BY <1>12 DEF Platform!Offer, Platform!AbortOwn, Platform!At, Platform!Goto
    <2>3. \A d \in Platform!Callers :
            hand'[d] # 0 <=> pc'[d] \in {"offer", "insert"}
      BY <1>12 DEF Platform!Offer, Platform!AbortOwn, Platform!At, Platform!Goto
    <2>4. /\ {enabled', enabledFile'} \subseteq BOOLEAN
          /\ config' \in 1..MaxVersions /\ configFile' \in 1..config'
          /\ runtime' \in {0} \cup Platform!Runtimes' /\ over' \subseteq Platform!Runtimes'
      BY <1>12 DEF Platform!Offer, Platform!AbortOwn, Platform!At, Platform!Goto
    <2>5. tasks' \in Seq(1..MaxVersions) /\ \A r \in Platform!Runtimes' : tasks'[r] \in 1..config'
      BY <1>12 DEF Platform!Offer, Platform!AbortOwn, Platform!At, Platform!Goto
    <2>6. /\ DOMAIN copy' = Platform!Callers
          /\ \A d \in Platform!Callers :
               /\ pc'[d] = "write" => copy'[d] \in BOOLEAN
               /\ pc'[d] \in {"writeconfig", "connect"} => copy'[d] \in 1..config'
      BY <1>12 DEF Platform!Offer, Platform!AbortOwn, Platform!At, Platform!Goto
    <2>7. QED
      BY <2>1, <2>2, <2>3, <2>4, <2>5, <2>6
  <1>13. ASSUME NEW c \in Platform!Callers, Platform!Insert(c)
        PROVE  PlatformTypes'
    <2>1. pc' \in [Platform!Callers -> Steps] /\ want' \in [Platform!Callers -> Goals]
      <3>1. \E x \in Steps : Platform!Goto(c, x)
        BY <1>13 DEF Platform!Insert, Platform!AbortOwn, Platform!Keep
      <3> QED BY <3>1, GotoTypes
    <2>2. hand' \in [Platform!Callers -> {0} \cup Platform!Runtimes']
      BY <1>13 DEF Platform!Insert, Platform!AbortOwn, Platform!Keep, Platform!At, Platform!Goto
    <2>3. \A d \in Platform!Callers :
            hand'[d] # 0 <=> pc'[d] \in {"offer", "insert"}
      BY <1>13 DEF Platform!Insert, Platform!AbortOwn, Platform!Keep, Platform!At, Platform!Goto
    <2>4. /\ {enabled', enabledFile'} \subseteq BOOLEAN
          /\ config' \in 1..MaxVersions /\ configFile' \in 1..config'
          /\ runtime' \in {0} \cup Platform!Runtimes' /\ over' \subseteq Platform!Runtimes'
      BY <1>13 DEF Platform!Insert, Platform!AbortOwn, Platform!Keep, Platform!At, Platform!Goto
    <2>5. tasks' \in Seq(1..MaxVersions) /\ \A r \in Platform!Runtimes' : tasks'[r] \in 1..config'
      BY <1>13 DEF Platform!Insert, Platform!AbortOwn, Platform!Keep, Platform!At, Platform!Goto
    <2>6. /\ DOMAIN copy' = Platform!Callers
          /\ \A d \in Platform!Callers :
               /\ pc'[d] = "write" => copy'[d] \in BOOLEAN
               /\ pc'[d] \in {"writeconfig", "connect"} => copy'[d] \in 1..config'
      BY <1>13 DEF Platform!Insert, Platform!AbortOwn, Platform!Keep, Platform!At, Platform!Goto
    <2>7. QED
      BY <2>1, <2>2, <2>3, <2>4, <2>5, <2>6
  <1>14. ASSUME NEW r \in Platform!Runtimes, Platform!RuntimeEnds(r)
        PROVE  PlatformTypes'
    BY <1>14 DEF Platform!RuntimeEnds, Platform!callerVars,
      Platform!historyVars
  <1>15. CASE UNCHANGED Platform!vars
    BY <1>15 DEF Platform!vars, Platform!callerVars, Platform!historyVars
  <1>16. QED
    BY <1>1, <1>2, <1>3, <1>4, <1>5, <1>6, <1>7, <1>8, <1>9, <1>10, <1>11,
      <1>12, <1>13, <1>14, <1>15 DEF Platform!Next

(* What a caller that is at work does next. *)
PlatformWork(c) ==
  \/ Platform!SyncDesiredState(c) \/ Platform!CloneState(c) \/ Platform!Persist(c)
  \/ Platform!Fail(c) \/ Platform!StopRuntime(c) \/ Platform!ReloadIfRunning(c)
  \/ Platform!ReadSwitch(c) \/ Platform!Build(c) \/ Platform!Connect(c)
  \/ Platform!Offer(c) \/ Platform!Insert(c)

(* A caller at work moves itself alone, and crosses nobody. *)
LEMMA PlatformWorkFrame ==
  ASSUME PlatformTypes, NEW c \in Platform!Callers, PlatformWork(c)
  PROVE  /\ pc[c] # "idle" /\ crossed' = crossed
         /\ \A d \in Platform!Callers \ {c} : pc'[d] = pc[d]
         /\ unclean => unclean'
  <1>0. DOMAIN pc = Platform!Callers
    BY DEF PlatformTypes, Platform!TypeOK
  <1>1. CASE Platform!SyncDesiredState(c)
    BY <1>0, <1>1 DEF Platform!SyncDesiredState, Platform!At, Platform!Goto
  <1>2. CASE Platform!CloneState(c)
    BY <1>0, <1>2 DEF Platform!CloneState, Platform!At, Platform!Goto
  <1>3. CASE Platform!Persist(c)
    BY <1>0, <1>3 DEF Platform!Persist, Platform!At, Platform!Goto
  <1>4. CASE Platform!Fail(c)
    BY <1>0, <1>4 DEF Platform!Fail, Platform!At, Platform!Goto
  <1>5. CASE Platform!StopRuntime(c)
    BY <1>0, <1>5 DEF Platform!StopRuntime, Platform!RemoveRuntime,
      Platform!At, Platform!Goto
  <1>6. CASE Platform!ReloadIfRunning(c)
    BY <1>0, <1>6 DEF Platform!ReloadIfRunning, Platform!At, Platform!Goto
  <1>7. CASE Platform!ReadSwitch(c)
    BY <1>0, <1>7 DEF Platform!ReadSwitch, Platform!At, Platform!Goto
  <1>8. CASE Platform!Build(c)
    BY <1>0, <1>8 DEF Platform!Build, Platform!At, Platform!Goto
  <1>9. CASE Platform!Connect(c)
    BY <1>0, <1>9 DEF Platform!Connect, Platform!At, Platform!Goto
  <1>10. CASE Platform!Offer(c)
    BY <1>0, <1>10 DEF Platform!Offer, Platform!AbortOwn, Platform!At,
      Platform!Goto
  <1>11. CASE Platform!Insert(c)
    BY <1>0, <1>11 DEF Platform!Insert, Platform!AbortOwn, Platform!Keep,
      Platform!At, Platform!Goto
  <1>12. QED
    BY <1>1, <1>2, <1>3, <1>4, <1>5, <1>6, <1>7, <1>8, <1>9, <1>10, <1>11 DEF
      PlatformWork

(* A step is one of a caller at work, the beginning of a command, the end of a
   bot, or none. *)
LEMMA PlatformSteps ==
  ASSUME [Platform!Next]_(Platform!vars)
  PROVE  \/ \E c \in Platform!Callers : PlatformWork(c)
         \/ \E c \in Platform!Callers, on \in BOOLEAN : Platform!SetEnabled(c, on)
         \/ \E c \in Platform!Callers, goal \in {"reload", "keep"} :
              Platform!SetConfig(c, goal)
         \/ \E r \in Platform!Runtimes : Platform!RuntimeEnds(r)
         \/ UNCHANGED Platform!vars
  BY DEF Platform!Next, PlatformWork

(* Of two callers at work one came after the other, which is remembered. *)
LEMMA PlatformUncrossedStep ==
  ASSUME PlatformTypes, PlatformUncrossed, [Platform!Next]_(Platform!vars)
  PROVE  PlatformUncrossed'
  <1>0. DOMAIN pc = Platform!Callers
    BY DEF PlatformTypes, Platform!TypeOK
  <1>1. ASSUME NEW c \in Platform!Callers, PlatformWork(c)
        PROVE  PlatformUncrossed'
    BY <1>1, PlatformWorkFrame DEF PlatformUncrossed, Platform!Callers
  <1>2. ASSUME NEW c \in Platform!Callers, NEW on \in BOOLEAN, Platform!SetEnabled(c, on)
        PROVE  PlatformUncrossed'
    BY <1>0, <1>2 DEF PlatformUncrossed, Platform!SetEnabled, Platform!Begin,
      Platform!Callers
  <1>3. ASSUME NEW c \in Platform!Callers, NEW goal \in {"reload", "keep"},
               Platform!SetConfig(c, goal)
        PROVE  PlatformUncrossed'
    BY <1>0, <1>3 DEF PlatformUncrossed, Platform!SetConfig, Platform!Begin,
      Platform!Callers
  <1>4. ASSUME UNCHANGED <<pc, crossed>>
        PROVE  PlatformUncrossed'
    BY <1>4 DEF PlatformUncrossed, Platform!Callers
  <1>5. QED
    BY <1>1, <1>2, <1>3, <1>4, PlatformSteps DEF Platform!RuntimeEnds, Platform!vars,
      Platform!callerVars, Platform!historyVars

(* Who holds a runtime, without the set of its holders. *)
RuntimeOwned(r) ==
  IF runtime = r THEN \A c \in Platform!Callers : hand[c] # r
  ELSE \E c \in Platform!Callers :
         hand[c] = r /\ \A d \in Platform!Callers : hand[d] = r => d = c
LEMMA OwnedPointwise ==
  Platform!RuntimesOwned <=> \A r \in Platform!Runtimes \ over : RuntimeOwned(r)
  <1>1. \A r : Platform!Holders(r) = {} <=> \A c \in Platform!Callers : hand[c] # r
    BY DEF Platform!Holders
  <1>2. \A r : \A c \in Platform!Callers :
          Platform!Holders(r) = {c} <=>
            hand[c] = r /\ \A d \in Platform!Callers : hand[d] = r => d = c
    BY DEF Platform!Holders
  <1>3. QED
    BY <1>1, <1>2 DEF Platform!RuntimesOwned, RuntimeOwned
LEMMA OwnedPointwiseNext ==
  Platform!RuntimesOwned' <=> \A r \in Platform!Runtimes' \ over' : RuntimeOwned(r)'
  <1>1. \A r : Platform!Holders(r)' = {} <=> \A c \in Platform!Callers : hand'[c] # r
    BY DEF Platform!Holders, Platform!Callers
  <1>2. \A r : \A c \in Platform!Callers :
          Platform!Holders(r)' = {c} <=>
            hand'[c] = r /\ \A d \in Platform!Callers : hand'[d] = r => d = c
    BY DEF Platform!Holders, Platform!Callers
  <1>3. QED
    BY <1>1, <1>2 DEF Platform!RuntimesOwned, RuntimeOwned, Platform!Callers

(* A runtime passes from the caller that built it to the manager, or ends. *)
LEMMA RuntimesOwnedStep ==
  ASSUME PlatformTypes, Platform!RuntimesOwned, [Platform!Next]_(Platform!vars)
  PROVE  Platform!RuntimesOwned'
  <1>0. /\ hand \in [Platform!Callers -> {0} \cup Platform!Runtimes]
        /\ runtime \in {0} \cup Platform!Runtimes
        /\ tasks \in Seq(1..MaxVersions) /\ DOMAIN tasks = 1..Len(tasks)
        /\ Len(tasks) \in Nat
        /\ \A c \in Platform!Callers : hand[c] # 0 <=> pc[c] \in {"offer", "insert"}
    BY DEF PlatformTypes, Platform!TypeOK
  <1>1. \A r \in Platform!Runtimes \ over : RuntimeOwned(r)
    BY OwnedPointwise
  <1>2. SUFFICES \A r \in Platform!Runtimes' \ over' : RuntimeOwned(r)'
    BY OwnedPointwiseNext
  <1>3. CASE UNCHANGED <<hand, runtime, tasks>> /\ over \subseteq over'
    BY <1>1, <1>3 DEF RuntimeOwned, Platform!Runtimes, Platform!Callers
  <1>4. ASSUME NEW c \in Platform!Callers, Platform!StopRuntime(c)
        PROVE  \A r \in Platform!Runtimes' \ over' : RuntimeOwned(r)'
    BY <1>0, <1>1, <1>4 DEF Platform!StopRuntime, Platform!RemoveRuntime, RuntimeOwned,
      Platform!Runtimes, Platform!Callers
  <1>5. ASSUME NEW c \in Platform!Callers, Platform!Connect(c)
        PROVE  \A r \in Platform!Runtimes' \ over' : RuntimeOwned(r)'
    <2>0. PICK new : new = Len(tasks) + 1
      OBVIOUS
    <2>1. /\ pc[c] = "connect" /\ hand' = [hand EXCEPT ![c] = new] /\ hand[c] = 0
          /\ Platform!Runtimes' = Platform!Runtimes \cup {new}
          /\ new \notin Platform!Runtimes
          /\ UNCHANGED <<runtime, over>>
      <3>1. Platform!Runtimes' = 1..new /\ Platform!Runtimes = 1..Len(tasks)
        BY <1>0, <2>0, <1>5 DEF Platform!Connect, Platform!Runtimes
      <3>2. QED
        BY <1>0, <2>0, <1>5, <3>1 DEF Platform!Connect, Platform!At
    <2>2. RuntimeOwned(new)'
      <3>1. hand'[c] = new /\ \A d \in Platform!Callers : hand'[d] = new => d = c
        BY <1>0, <2>0, <2>1
      <3>2. runtime' # new
        BY <1>0, <2>0, <2>1
      <3>3. QED
        BY <3>1, <3>2 DEF RuntimeOwned, Platform!Callers
    <2>3. ASSUME NEW r \in Platform!Runtimes \ over
          PROVE  RuntimeOwned(r)'
      <3>1. \A d \in Platform!Callers : hand'[d] = r <=> hand[d] = r
        BY <1>0, <2>0, <2>1 DEF Platform!Runtimes
      <3>2. QED
        BY <1>1, <2>1, <3>1 DEF RuntimeOwned, Platform!Callers
    <2>4. QED
      BY <2>1, <2>2, <2>3
  <1>6. ASSUME NEW c \in Platform!Callers, pc[c] \in {"offer", "insert"},
               Platform!AbortOwn(c), UNCHANGED tasks
        PROVE  \A r \in Platform!Runtimes' \ over' : RuntimeOwned(r)'
    BY <1>0, <1>1, <1>6 DEF Platform!AbortOwn, RuntimeOwned, Platform!Runtimes,
      Platform!Callers
  <1>7. ASSUME NEW c \in Platform!Callers, pc[c] = "insert", runtime = 0,
               Platform!Keep(c), UNCHANGED tasks
        PROVE  \A r \in Platform!Runtimes' \ over' : RuntimeOwned(r)'
    BY <1>0, <1>1, <1>7 DEF Platform!Keep, RuntimeOwned, Platform!Runtimes,
      Platform!Callers
  <1>8. ASSUME NEW c \in Platform!Callers, PlatformWork(c)
        PROVE  \A r \in Platform!Runtimes' \ over' : RuntimeOwned(r)'
    <2>1. CASE Platform!Offer(c) \/ Platform!Insert(c)
      BY <1>3, <1>6, <1>7, <2>1 DEF Platform!Offer, Platform!Insert, Platform!At
    <2>2. CASE Platform!StopRuntime(c) \/ Platform!Connect(c)
      BY <1>4, <1>5, <2>2
    <2>3. CASE \/ Platform!SyncDesiredState(c) \/ Platform!CloneState(c)
               \/ Platform!Persist(c) \/ Platform!Fail(c) \/ Platform!ReloadIfRunning(c)
               \/ Platform!ReadSwitch(c) \/ Platform!Build(c)
      BY <1>3, <2>3 DEF Platform!SyncDesiredState, Platform!CloneState,
        Platform!Persist, Platform!Fail, Platform!ReloadIfRunning,
        Platform!ReadSwitch, Platform!Build
    <2>4. QED
      BY <1>8, <2>1, <2>2, <2>3 DEF PlatformWork
  <1>9. QED
    BY <1>3, <1>8, PlatformSteps DEF Platform!SetEnabled, Platform!SetConfig,
      Platform!RuntimeEnds, Platform!vars, Platform!callerVars

(* What a command has done so far leads it to where the switch is obeyed. *)
LEMMA PlatformWorkLeads ==
  ASSUME PlatformTypes, NEW c \in Platform!Callers, PlatformWork(c),
         FilesUnderway(c), RuntimeUnderway(c), ~unclean'
  PROVE  IF pc'[c] = "idle" THEN SwitchObeyed'
         ELSE FilesUnderway(c)' /\ RuntimeUnderway(c)'
  <1>0. /\ DOMAIN pc = Platform!Callers /\ DOMAIN want = Platform!Callers
        /\ DOMAIN hand = Platform!Callers /\ DOMAIN copy = Platform!Callers
        /\ want[c] \in Goals /\ enabled \in BOOLEAN
    BY DEF PlatformTypes, Platform!TypeOK, Goals
  <1>00. /\ tasks \in Seq(1..MaxVersions) /\ runtime \in {0} \cup DOMAIN tasks
         /\ hand[c] # 0 <=> pc[c] \in {"offer", "insert"}
         /\ hand[c] \in {0} \cup DOMAIN tasks
    BY DEF PlatformTypes, Platform!TypeOK, Platform!Runtimes
  <1> USE DEF FilesUnderway, RuntimeUnderway, SwitchObeyed, Goals
  <1>1. CASE Platform!SyncDesiredState(c)
    BY <1>0, <1>00, <1>1 DEF Platform!SyncDesiredState, Platform!At,
      Platform!Goto
  <1>2. CASE Platform!CloneState(c)
    BY <1>0, <1>00, <1>2 DEF Platform!CloneState, Platform!At, Platform!Goto
  <1>3. CASE Platform!Persist(c)
    BY <1>0, <1>00, <1>3 DEF Platform!Persist, Platform!At, Platform!Goto
  <1>4. CASE Platform!Fail(c)
    BY <1>0, <1>00, <1>4 DEF Platform!Fail, Platform!At, Platform!Goto
  <1>5. CASE Platform!StopRuntime(c)
    BY <1>0, <1>00, <1>5 DEF Platform!StopRuntime, Platform!RemoveRuntime,
      Platform!At, Platform!Goto
  <1>6. CASE Platform!ReloadIfRunning(c)
    BY <1>0, <1>00, <1>6 DEF Platform!ReloadIfRunning, Platform!At,
      Platform!Goto
  <1>7. CASE Platform!ReadSwitch(c)
    BY <1>0, <1>00, <1>7 DEF Platform!ReadSwitch, Platform!At, Platform!Goto
  <1>8. CASE Platform!Build(c)
    BY <1>0, <1>00, <1>8 DEF Platform!Build, Platform!At, Platform!Goto
  <1>9. CASE Platform!Connect(c)
    BY <1>0, <1>00, <1>9 DEF Platform!Connect, Platform!At, Platform!Goto
  <1>10. CASE Platform!Offer(c)
    BY <1>0, <1>00, <1>10 DEF Platform!Offer, Platform!AbortOwn, Platform!At,
      Platform!Goto
  <1>11. CASE Platform!Insert(c)
    BY <1>0, <1>00, <1>11 DEF Platform!Insert, Platform!AbortOwn,
      Platform!Keep, Platform!At, Platform!Goto
  <1>12. QED
    BY <1>1, <1>2, <1>3, <1>4, <1>5, <1>6, <1>7, <1>8, <1>9, <1>10, <1>11 DEF
      PlatformWork

LEMMA SwitchIsObeyedMeans ==
  Platform!SwitchIsObeyed <=>
    ((\A c \in Platform!Callers : pc[c] = "idle") /\ ~crossed /\ ~unclean => SwitchObeyed)
  BY DEF Platform!SwitchIsObeyed, SwitchObeyed

(* One command at a time, and each leaves the switch obeyed. *)
LEMMA SwitchIsObeyedStep ==
  ASSUME PlatformInv, [Platform!Next]_(Platform!vars)
  PROVE  PlatformUnderway' /\ Platform!SwitchIsObeyed'
  <1>0. PlatformTypes /\ PlatformUncrossed /\ PlatformUnderway /\ DOMAIN pc = Platform!Callers
        /\ DOMAIN want = Platform!Callers
    BY DEF PlatformInv, PlatformTypes, Platform!TypeOK
  <1>1. (\A c \in Platform!Callers : pc[c] = "idle") /\ ~crossed /\ ~unclean => SwitchObeyed
    BY SwitchIsObeyedMeans DEF PlatformInv
  <1>2. SUFFICES
          /\ PlatformUnderway'
          /\ (\A c \in Platform!Callers : pc'[c] = "idle") /\ ~crossed' /\ ~unclean'
               => SwitchObeyed'
    BY SwitchIsObeyedMeans DEF Platform!SwitchIsObeyed, SwitchObeyed, Platform!Callers
  <1>3. ASSUME NEW c \in Platform!Callers, PlatformWork(c), ~crossed', ~unclean'
        PROVE  /\ \A d \in Platform!Callers :
                    pc'[d] # "idle" => FilesUnderway(d)' /\ RuntimeUnderway(d)'
               /\ (\A d \in Platform!Callers : pc'[d] = "idle") => SwitchObeyed'
    <2>1. /\ pc[c] # "idle" /\ ~crossed /\ ~unclean
          /\ \A d \in Platform!Callers \ {c} : pc'[d] = "idle"
      BY <1>0, <1>3, PlatformWorkFrame DEF PlatformUncrossed
    <2>2. FilesUnderway(c) /\ RuntimeUnderway(c)
      BY <1>0, <2>1 DEF PlatformUnderway
    <2>3. IF pc'[c] = "idle" THEN SwitchObeyed' ELSE FilesUnderway(c)' /\ RuntimeUnderway(c)'
      BY <1>0, <1>3, <2>2, PlatformWorkLeads
    <2>4. QED
      BY <2>1, <2>3
  <1>4. ASSUME NEW c \in Platform!Callers, NEW on \in BOOLEAN, Platform!SetEnabled(c, on),
               ~crossed', ~unclean'
        PROVE  /\ \A d \in Platform!Callers :
                    pc'[d] # "idle" => FilesUnderway(d)' /\ RuntimeUnderway(d)'
               /\ (\A d \in Platform!Callers : pc'[d] = "idle") => SwitchObeyed'
    <2>1. /\ SwitchObeyed /\ pc'[c] = "clone" /\ \A d \in Platform!Callers \ {c} : pc'[d] = "idle"
          /\ want'[c] = IF on THEN "on" ELSE "off"
      BY <1>0, <1>1, <1>4 DEF Platform!SetEnabled, Platform!Begin
    <2>2. FilesUnderway(c)' /\ RuntimeUnderway(c)'
      BY <1>4, <2>1 DEF Platform!SetEnabled, FilesUnderway, RuntimeUnderway, SwitchObeyed
    <2>3. QED
      BY <2>1, <2>2
  <1>5. ASSUME NEW c \in Platform!Callers, NEW goal \in {"reload", "keep"},
               Platform!SetConfig(c, goal), ~crossed', ~unclean'
        PROVE  /\ \A d \in Platform!Callers :
                    pc'[d] # "idle" => FilesUnderway(d)' /\ RuntimeUnderway(d)'
               /\ (\A d \in Platform!Callers : pc'[d] = "idle") => SwitchObeyed'
    <2>1. /\ SwitchObeyed /\ pc'[c] = "cloneconfig" /\ want'[c] = goal
          /\ \A d \in Platform!Callers \ {c} : pc'[d] = "idle"
      BY <1>0, <1>1, <1>5 DEF Platform!SetConfig, Platform!Begin
    <2>2. FilesUnderway(c)' /\ RuntimeUnderway(c)'
      BY <1>5, <2>1 DEF Platform!SetConfig, FilesUnderway, RuntimeUnderway, SwitchObeyed
    <2>3. QED
      BY <2>1, <2>2
  <1>6. CASE UNCHANGED <<pc, want, copy, hand, enabled, config, enabledFile, configFile,
                         runtime, tasks, crossed, unclean, bypassed>>
    BY <1>0, <1>1, <1>6 DEF PlatformUnderway, FilesUnderway, RuntimeUnderway, SwitchObeyed,
      Platform!Callers
  <1>7. QED
    <2>1. CASE \E c \in Platform!Callers : PlatformWork(c)
      BY <1>3, <2>1 DEF PlatformUnderway, Platform!Callers
    <2>2. CASE \E c \in Platform!Callers, on \in BOOLEAN : Platform!SetEnabled(c, on)
      BY <1>4, <2>2 DEF PlatformUnderway, Platform!Callers
    <2>3. CASE \E c \in Platform!Callers, goal \in {"reload", "keep"} :
                 Platform!SetConfig(c, goal)
      BY <1>5, <2>3 DEF PlatformUnderway, Platform!Callers
    <2>4. CASE (\E r \in Platform!Runtimes : Platform!RuntimeEnds(r)) \/ UNCHANGED Platform!vars
      BY <1>6, <2>4 DEF Platform!RuntimeEnds, Platform!vars, Platform!callerVars,
        Platform!historyVars
    <2>5. QED
      BY <2>1, <2>2, <2>3, <2>4, PlatformSteps

LEMMA PlatformInit == Platform!Init => PlatformInv
  <1>1. SUFFICES ASSUME Platform!Init PROVE PlatformInv
    OBVIOUS
  <1>2. /\ tasks = <<>> /\ DOMAIN tasks = {} /\ tasks \in Seq(1..MaxVersions)
        /\ MaxVersions \in Nat \ {0} /\ Startup \in Platform!Callers
    BY <1>1, PartsAssumption DEF Platform!Init, Platform!Callers
  <1>3. PlatformTypes
    BY <1>1, <1>2 DEF Platform!Init, PlatformTypes, Platform!TypeOK, Platform!Runtimes
  <1>4. Platform!RuntimesOwned
    BY <1>2 DEF Platform!RuntimesOwned, Platform!Runtimes
  <1>5. PlatformUncrossed
    BY <1>1 DEF Platform!Init, PlatformUncrossed
  <1>6. PlatformUnderway /\ Platform!SwitchIsObeyed
    BY <1>1, <1>2 DEF Platform!Init, PlatformUnderway, FilesUnderway, RuntimeUnderway,
      Platform!SwitchIsObeyed
  <1>7. QED
    BY <1>3, <1>4, <1>5, <1>6 DEF PlatformInv

LEMMA PlatformStep ==
  ASSUME PlatformInv, [Platform!Next]_(Platform!vars)
  PROVE  PlatformInv'
  BY PlatformTypesStep, PlatformUncrossedStep, RuntimesOwnedStep, SwitchIsObeyedStep
    DEF PlatformInv

(***************************************************************************)
(* WecomInbound                                                            *)
(***************************************************************************)

InboundTypes ==
  /\ Inbound!TypeOK
  /\ gathered \in Seq(Nat) /\ load \in Seq(Seq(Nat))
  /\ \A t \in Inbound!Tasks : Inbound!ToSet(load[t]) \subseteq 1..item
  /\ pc[Inbound!Reader] \in {"batch", "dispatch"} => item # 0

(* The task that was started last is asleep and will wake. *)
LastTaskSleeps ==
  Len(load) \in Inbound!Tasks /\ pc[Len(load)] = "sleep" /\ Len(load) \notin aborted
BatchIsWaitedFor ==
  /\ gathered # <<>> => pc[Inbound!Reader] \in {"replace", "spawn"} \/ LastTaskSleeps
  /\ pc[Inbound!Reader] = "insert" => LastTaskSleeps

(* Of a row of sets exactly one has x. *)
Once(row, x) == \E i \in DOMAIN row : \A j \in DOMAIN row : x \in row[j] <=> j = i

InboundInv ==
  InboundTypes /\ BatchIsWaitedFor /\ \A x \in 1..item : Once(Inbound!Places, x)

(* What one set hands over to another stays in one set. *)
LEMMA HandingOverKeepsOnce ==
  ASSUME NEW P, NEW Q, DOMAIN Q = DOMAIN P,
         NEW a \in DOMAIN P, NEW b \in DOMAIN P, a # b,
         Q[a] = {}, Q[b] = P[a] \cup P[b], \A i \in DOMAIN P \ {a, b} : Q[i] = P[i],
         NEW x, Once(P, x)
  PROVE  Once(Q, x)
  <1>1. PICK i \in DOMAIN P : \A j \in DOMAIN P : x \in P[j] <=> j = i
    BY DEF Once
  <1>2. CASE i = a
    <2>1. \A j \in DOMAIN Q : x \in Q[j] <=> j = b
      BY <1>1, <1>2
    <2>2. QED
      BY <2>1 DEF Once
  <1>3. CASE i # a
    <2>1. \A j \in DOMAIN Q : x \in Q[j] <=> j = i
      BY <1>1, <1>3
    <2>2. QED
      BY <2>1 DEF Once
  <1>4. QED
    BY <1>2, <1>3

(* Another set that is empty changes nothing. *)
LEMMA EmptySetKeepsOnce ==
  ASSUME NEW P, NEW Q, NEW n, n \notin DOMAIN P, DOMAIN Q = DOMAIN P \cup {n},
         Q[n] = {}, \A i \in DOMAIN P : Q[i] = P[i],
         NEW x, Once(P, x)
  PROVE  Once(Q, x)
  <1>1. PICK i \in DOMAIN P : \A j \in DOMAIN P : x \in P[j] <=> j = i
    BY DEF Once
  <1>2. \A j \in DOMAIN Q : x \in Q[j] <=> j = i
    BY <1>1
  <1>3. QED
    BY <1>2 DEF Once

(* The elements of a sequence when one is added. *)
LEMMA ToSetFacts ==
  /\ Inbound!ToSet(<<>>) = {}
  /\ \A s \in Seq(Nat), x \in Nat :
       Inbound!ToSet(Append(s, x)) = Inbound!ToSet(s) \cup {x}
  <1>1. Inbound!ToSet(<<>>) = {}
    BY DEF Inbound!ToSet
  <1>2. ASSUME NEW s \in Seq(Nat), NEW x \in Nat
        PROVE  Inbound!ToSet(Append(s, x)) = Inbound!ToSet(s) \cup {x}
    <2>1. /\ DOMAIN s = 1..Len(s) /\ Len(s) \in Nat
          /\ DOMAIN Append(s, x) = 1..(Len(s) + 1)
          /\ \A i \in 1..Len(s) : Append(s, x)[i] = s[i]
          /\ Append(s, x)[Len(s) + 1] = x
      OBVIOUS
    <2>2. \A y \in Inbound!ToSet(s) \cup {x} : y \in Inbound!ToSet(Append(s, x))
      BY <2>1 DEF Inbound!ToSet
    <2>3. \A y \in Inbound!ToSet(Append(s, x)) : y \in Inbound!ToSet(s) \cup {x}
      BY <2>1 DEF Inbound!ToSet
    <2>4. QED
      BY <2>2, <2>3
  <1>3. QED
    BY <1>1, <1>2

(* The places a text can be in, one by one. *)
PlacesOf(waiting, done, gone, own, loads) ==
  <<Inbound!ToSet(waiting), done, gone, own>>
    \o [t \in DOMAIN loads |-> Inbound!ToSet(loads[t])]
LEMMA PlacesAre ==
  ASSUME NEW waiting, NEW done, NEW gone, NEW own, NEW loads \in Seq(Seq(Nat))
  PROVE  LET row == PlacesOf(waiting, done, gone, own, loads) IN
         /\ DOMAIN row = 1..(4 + Len(loads))
         /\ row[1] = Inbound!ToSet(waiting) /\ row[2] = done /\ row[3] = gone /\ row[4] = own
         /\ \A t \in 1..Len(loads) : row[4 + t] = Inbound!ToSet(loads[t])
  <1> DEFINE first == <<Inbound!ToSet(waiting), done, gone, own>>
             rest == [t \in DOMAIN loads |-> Inbound!ToSet(loads[t])]
             sets == {Inbound!ToSet(waiting), done, gone, own}
                       \cup {Inbound!ToSet(loads[t]) : t \in DOMAIN loads}
  <1>1. DOMAIN loads = 1..Len(loads) /\ Len(loads) \in Nat
    OBVIOUS
  <1>2. first \in Seq(sets) /\ rest \in Seq(sets)
    BY <1>1
  <1>3. Len(first) = 4 /\ Len(rest) = Len(loads)
    BY <1>1
  <1>4. QED
    BY <1>1, <1>2, <1>3 DEF PlacesOf

OwnText(at, x) == IF at \in {"batch", "dispatch"} THEN {x} ELSE {}
LEMMA PlacesNow ==
  Inbound!Places = PlacesOf(gathered, delivered, cut, OwnText(pc[0], item), load)
  BY DEF Inbound!Places, PlacesOf, OwnText, Inbound!Reader, Inbound!Tasks
LEMMA PlacesNext ==
  Inbound!Places' = PlacesOf(gathered', delivered', cut', OwnText(pc'[0], item'), load')
  BY DEF Inbound!Places, PlacesOf, OwnText, Inbound!Reader, Inbound!Tasks

(* A step keeps the types, and every text in its place below the counter. *)
LEMMA InboundTypesStep ==
  ASSUME InboundTypes, [Inbound!Next]_(Inbound!vars)
  PROVE  InboundTypes'
  <1>0. /\ item \in Nat /\ MaxTexts \in Nat /\ item <= MaxTexts /\ Inbound!Reader = 0
        /\ Inbound!Tasks = 1..Len(load) /\ Len(load) \in Nat
    BY PartsAssumption DEF InboundTypes, Inbound!TypeOK, Inbound!Tasks, Inbound!Reader
  <1> USE DEF InboundTypes, Inbound!TypeOK, Inbound!Tasks
  <1>1. ASSUME Inbound!Receive
        PROVE  InboundTypes'
    <2>1. /\ 1..item \subseteq 1..item' /\ item' \in 0..MaxTexts /\ item' # 0
          /\ DOMAIN pc' = DOMAIN pc /\ pc'[0] \in {"batch", "dispatch"}
          /\ \A t \in Inbound!Tasks : pc'[t] = pc[t]
      BY <1>0, <1>1 DEF Inbound!Receive, Inbound!Goto
    <2>2. /\ pc'[0] \in {"read", "batch", "replace", "spawn", "insert", "dispatch", "handle"}
          /\ load' = load /\ gathered' = gathered /\ timer' = timer
          /\ delivered' = delivered /\ cut' = cut /\ aborted' = aborted
      BY <1>0, <1>1, <2>1 DEF Inbound!Receive
    <2>3. /\ delivered' \subseteq 1..item' /\ cut' \subseteq 1..item'
          /\ Inbound!ToSet(gathered') \subseteq 1..item'
          /\ \A t \in Inbound!Tasks : Inbound!ToSet(load'[t]) \subseteq 1..item'
      BY <2>1, <2>2
    <2>4. QED
      BY <1>0, <2>1, <2>2, <2>3 DEF Inbound!Reader
  <1>2. ASSUME Inbound!AddToBatch
        PROVE  InboundTypes'
    BY <1>0, <1>2, ToSetFacts DEF Inbound!AddToBatch, Inbound!Goto
  <1>3. ASSUME Inbound!ReplaceTask
        PROVE  InboundTypes'
    BY <1>0, <1>3, ToSetFacts DEF Inbound!ReplaceTask, Inbound!Goto
  <1>4. ASSUME Inbound!SpawnTask
        PROVE  InboundTypes'
    BY <1>0, <1>4, ToSetFacts DEF Inbound!SpawnTask, Inbound!Goto
  <1>5. ASSUME Inbound!InsertTask
        PROVE  InboundTypes'
    BY <1>0, <1>5, ToSetFacts DEF Inbound!InsertTask, Inbound!Goto
  <1>6. ASSUME NEW t \in Inbound!Tasks, Inbound!Flush(t)
        PROVE  InboundTypes'
    BY <1>0, <1>6, ToSetFacts DEF Inbound!Flush, Inbound!Goto
  <1>7. ASSUME NEW t \in Inbound!Tasks, Inbound!Unregister(t)
        PROVE  InboundTypes'
    BY <1>0, <1>7, ToSetFacts DEF Inbound!Unregister, Inbound!Goto
  <1>8. ASSUME NEW t \in Inbound!Tasks, Inbound!Drop(t)
        PROVE  InboundTypes'
    BY SMTT(30), <1>0, <1>8, ToSetFacts DEF Inbound!Drop, Inbound!Goto
  <1>9. ASSUME NEW p \in {Inbound!Reader} \cup Inbound!Tasks, Inbound!Dispatch(p)
        PROVE  InboundTypes'
    <2>1. CASE p = Inbound!Reader
      <3>1. /\ pc' = [pc EXCEPT ![0] = "handle"] /\ delivered' = delivered \cup {item}
            /\ UNCHANGED <<item, gathered, timer, aborted, cut, load>>
            /\ item \in 1..item
        BY <1>0, <1>9, <2>1 DEF Inbound!Dispatch, Inbound!Goto
      <3>2. /\ DOMAIN pc' = DOMAIN pc /\ pc'[0] = "handle"
            /\ \A t \in Inbound!Tasks : pc'[t] = pc[t]
        BY <1>0, <3>1
      <3>3. QED
        BY <1>0, <3>1, <3>2 DEF Inbound!Reader
    <2>2. CASE p # Inbound!Reader
      <3>1. /\ p \in Inbound!Tasks /\ load' = [load EXCEPT ![p] = <<>>]
            /\ pc' = [pc EXCEPT ![p] = "handle"]
            /\ delivered' = delivered \cup Inbound!ToSet(load[p])
            /\ UNCHANGED <<item, gathered, timer, aborted, cut>>
        BY <1>9, <2>2 DEF Inbound!Dispatch, Inbound!Goto
      <3>2. load' \in Seq(Seq(Nat)) /\ DOMAIN load' = DOMAIN load
        BY <3>1
      <3>3. \A t \in Inbound!Tasks :
              /\ Inbound!ToSet(load'[t]) \subseteq 1..item
              /\ load'[t] # <<>> => pc'[t] \in {"unregister", "dispatch"}
              /\ pc'[t] \in {"sleep", "unregister", "dispatch", "handle", "done", "dropped"}
        BY <1>0, <3>1, <3>2, ToSetFacts
      <3>4. DOMAIN pc' = DOMAIN pc /\ pc'[0] = pc[0]
        BY <1>0, <3>1
      <3>5. QED
        BY <1>0, <3>1, <3>2, <3>3, <3>4 DEF Inbound!Reader
    <2>3. QED
      BY <2>1, <2>2
  <1>10. ASSUME NEW p \in {Inbound!Reader} \cup Inbound!Tasks, Inbound!HandlerReturns(p)
        PROVE  InboundTypes'
    BY <1>0, <1>10, ToSetFacts DEF Inbound!HandlerReturns, Inbound!Goto
  <1>11. CASE UNCHANGED Inbound!vars
    BY SMTT(30), <1>11 DEF Inbound!vars, Inbound!ToSet
  <1>12. QED
    BY <1>1, <1>2, <1>3, <1>4, <1>5, <1>6, <1>7, <1>8, <1>9, <1>10, <1>11 DEF Inbound!Next

(* As long as texts are gathered, the task that was started last waits for them
   or the reader is about to start one. *)
LEMMA BatchIsWaitedForStep ==
  ASSUME InboundTypes, BatchIsWaitedFor, [Inbound!Next]_(Inbound!vars)
  PROVE  BatchIsWaitedFor'
  <1>0. /\ Inbound!Reader = 0 /\ Inbound!Tasks = 1..Len(load) /\ Len(load) \in Nat
        /\ DOMAIN pc = {0} \cup Inbound!Tasks /\ aborted \subseteq Inbound!Tasks
        /\ load \in Seq(Seq(Nat))
    BY DEF InboundTypes, Inbound!TypeOK, Inbound!Tasks, Inbound!Reader
  <1> USE DEF BatchIsWaitedFor, LastTaskSleeps, Inbound!Tasks
  <1>1. ASSUME Inbound!Receive
        PROVE  BatchIsWaitedFor'
    BY <1>0, <1>1 DEF Inbound!Receive, Inbound!Goto, Inbound!Reader
  <1>2. ASSUME Inbound!AddToBatch
        PROVE  BatchIsWaitedFor'
    BY <1>0, <1>2 DEF Inbound!AddToBatch, Inbound!Goto, Inbound!Reader
  <1>3. ASSUME Inbound!ReplaceTask
        PROVE  BatchIsWaitedFor'
    BY <1>0, <1>3 DEF Inbound!ReplaceTask, Inbound!Goto, Inbound!Reader
  <1>4. ASSUME Inbound!SpawnTask
        PROVE  BatchIsWaitedFor'
    BY <1>0, <1>4 DEF Inbound!SpawnTask, Inbound!Goto, Inbound!Reader
  <1>5. ASSUME Inbound!InsertTask
        PROVE  BatchIsWaitedFor'
    BY <1>0, <1>5 DEF Inbound!InsertTask, Inbound!Goto, Inbound!Reader
  <1>6. ASSUME NEW t \in Inbound!Tasks, Inbound!Flush(t)
        PROVE  BatchIsWaitedFor'
    BY <1>0, <1>6 DEF Inbound!Flush, Inbound!Goto, Inbound!Reader
  <1>7. ASSUME NEW t \in Inbound!Tasks, Inbound!Unregister(t)
        PROVE  BatchIsWaitedFor'
    BY <1>0, <1>7 DEF Inbound!Unregister, Inbound!Goto, Inbound!Reader
  <1>8. ASSUME NEW t \in Inbound!Tasks, Inbound!Drop(t)
        PROVE  BatchIsWaitedFor'
    BY <1>0, <1>8 DEF Inbound!Drop, Inbound!Goto, Inbound!Reader
  <1>9. ASSUME NEW p \in {Inbound!Reader} \cup Inbound!Tasks, Inbound!Dispatch(p)
        PROVE  BatchIsWaitedFor'
    BY <1>0, <1>9 DEF Inbound!Dispatch, Inbound!Goto, Inbound!Reader
  <1>10. ASSUME NEW p \in {Inbound!Reader} \cup Inbound!Tasks, Inbound!HandlerReturns(p)
        PROVE  BatchIsWaitedFor'
    BY <1>0, <1>10 DEF Inbound!HandlerReturns, Inbound!Goto, Inbound!Reader
  <1>11. CASE UNCHANGED Inbound!vars
    BY <1>11 DEF Inbound!vars, Inbound!Reader
  <1>12. QED
    BY <1>1, <1>2, <1>3, <1>4, <1>5, <1>6, <1>7, <1>8, <1>9, <1>10, <1>11 DEF Inbound!Next

(* No step loses a text, or puts one in two places. *)
LEMMA OnceStep ==
  ASSUME InboundInv, [Inbound!Next]_(Inbound!vars)
  PROVE  \A x \in 1..item' : Once(Inbound!Places', x)
  <1>1. InboundTypes /\ InboundTypes' /\ \A x \in 1..item : Once(Inbound!Places, x)
    BY InboundTypesStep DEF InboundInv
  <1>2. /\ load \in Seq(Seq(Nat)) /\ load' \in Seq(Seq(Nat))
        /\ gathered \in Seq(Nat) /\ item \in Nat
        /\ Inbound!Tasks = 1..Len(load) /\ Len(load) \in Nat
        /\ DOMAIN pc = {0} \cup Inbound!Tasks
        /\ \A t \in Inbound!Tasks : load[t] # <<>> => pc[t] \in {"unregister", "dispatch"}
    BY <1>1 DEF InboundTypes, Inbound!TypeOK, Inbound!Tasks, Inbound!Reader
  <1> DEFINE P == Inbound!Places
             Q == Inbound!Places'
  <1>3. /\ DOMAIN P = 1..(4 + Len(load))
        /\ P[1] = Inbound!ToSet(gathered) /\ P[2] = delivered /\ P[3] = cut
        /\ P[4] = OwnText(pc[0], item)
        /\ \A t \in 1..Len(load) : P[4 + t] = Inbound!ToSet(load[t])
    BY <1>2, PlacesNow, PlacesAre
  <1>4. /\ DOMAIN Q = 1..(4 + Len(load'))
        /\ Q[1] = Inbound!ToSet(gathered') /\ Q[2] = delivered' /\ Q[3] = cut'
        /\ Q[4] = OwnText(pc'[0], item')
        /\ \A t \in 1..Len(load') : Q[4 + t] = Inbound!ToSet(load'[t])
    BY <1>2, PlacesNext, PlacesAre
  <1> HIDE DEF P, Q
  <1>5. SUFFICES \A x \in 1..item' : Once(Q, x)
    BY DEF Q
  <1>6. \A x \in 1..item : Once(P, x)
    BY <1>1 DEF P
  <1>7. ASSUME UNCHANGED <<item, gathered, delivered, cut, load>>,
               OwnText(pc'[0], item') = OwnText(pc[0], item)
        PROVE  \A x \in 1..item' : Once(Q, x)
    BY <1>6, <1>7, PlacesNow, PlacesNext DEF P, Q
  <1>8. ASSUME NEW a \in DOMAIN P, NEW b \in DOMAIN P, a # b, DOMAIN Q = DOMAIN P, item' = item,
               Q[a] = {}, Q[b] = P[a] \cup P[b], \A i \in DOMAIN P \ {a, b} : Q[i] = P[i]
        PROVE  \A x \in 1..item' : Once(Q, x)
    BY <1>6, <1>8, HandingOverKeepsOnce
  <1>13. /\ \A i \in DOMAIN P : i \in {1, 2, 3, 4} \/ \E t \in 1..Len(load) : i = 4 + t
         /\ {1, 2, 3, 4} \subseteq DOMAIN P /\ 0 \notin Inbound!Tasks
         /\ \A t \in 1..Len(load) : 4 + t \in DOMAIN P /\ 4 + t \notin {1, 2, 3, 4}
    <2>1. DOMAIN P = 1..(4 + Len(load)) /\ Len(load) \in Nat
      BY <1>2, <1>3
    <2>2. ASSUME NEW i \in 1..(4 + Len(load)), i \notin {1, 2, 3, 4}
          PROVE  i - 4 \in 1..Len(load) /\ i = 4 + (i - 4)
      BY <2>1, <2>2
    <2>3. \A i \in DOMAIN P : i \in {1, 2, 3, 4} \/ \E t \in 1..Len(load) : i = 4 + t
      BY <2>1, <2>2
    <2>4. \A t \in 1..Len(load) : 4 + t \in DOMAIN P /\ 4 + t \notin {1, 2, 3, 4}
      BY <2>1
    <2>5. {1, 2, 3, 4} \subseteq DOMAIN P /\ 0 \notin Inbound!Tasks
      BY <1>2, <2>1
    <2>6. QED
      BY <2>3, <2>4, <2>5
  <1>21. ASSUME load' = load
         PROVE  DOMAIN Q = DOMAIN P /\ \A i \in DOMAIN P \ {1, 2, 3, 4} : Q[i] = P[i]
    <2>1. DOMAIN Q = DOMAIN P
      BY <1>3, <1>4, <1>21
    <2>2. \A t \in 1..Len(load) : Q[4 + t] = P[4 + t]
      BY <1>3, <1>4, <1>21
    <2>3. QED
      BY <1>13, <2>1, <2>2
  <1>9. CASE Inbound!Receive
    <2>1. /\ P[4] = {} /\ Q[4] = {item + 1} /\ item' = item + 1 /\ DOMAIN Q = DOMAIN P
          /\ \A i \in DOMAIN P \ {4} : Q[i] = P[i]
      <3>1. /\ pc[0] = "read" /\ pc'[0] \in {"batch", "dispatch"} /\ item' = item + 1
            /\ UNCHANGED <<gathered, delivered, cut, load>>
        BY <1>2, <1>9 DEF Inbound!Receive, Inbound!Goto, Inbound!Reader
      <3>2. OwnText(pc[0], item) = {} /\ OwnText(pc'[0], item') = {item + 1}
        BY <3>1 DEF OwnText
      <3>3. QED
        BY <1>3, <1>4, <1>21, <3>1, <3>2
    <2>2. \A i \in DOMAIN P : P[i] \subseteq 1..item
      <3>1. /\ delivered \subseteq 1..item /\ cut \subseteq 1..item
            /\ Inbound!ToSet(gathered) \subseteq 1..item
            /\ \A t \in 1..Len(load) : Inbound!ToSet(load[t]) \subseteq 1..item
        BY <1>1, <1>2 DEF InboundTypes, Inbound!TypeOK
      <3>2. \A t \in 1..Len(load) : P[4 + t] \subseteq 1..item
        BY <1>3, <3>1
      <3>3. \A i \in {1, 2, 3, 4} : P[i] \subseteq 1..item
        BY <1>3, <2>1, <3>1
      <3>4. QED
        BY <1>13, <3>2, <3>3
    <2>3. ASSUME NEW x \in 1..item PROVE Once(Q, x)
      <3>1. PICK i \in DOMAIN P : \A j \in DOMAIN P : x \in P[j] <=> j = i
        BY <1>6 DEF Once
      <3>2. \A j \in DOMAIN Q : x \in Q[j] <=> j = i
        BY <1>2, <2>1, <3>1
      <3>3. QED
        BY <2>1, <3>1, <3>2 DEF Once
    <2>4. Once(Q, item + 1)
      <3>1. item + 1 \notin 1..item
        BY <1>2
      <3>2. \A j \in DOMAIN Q : item + 1 \in Q[j] <=> j = 4
        BY <2>1, <2>2, <3>1
      <3>3. 4 \in DOMAIN Q
        BY <1>2, <1>3, <2>1
      <3>4. QED
        BY <3>2, <3>3 DEF Once
    <2>5. QED
      BY <1>2, <2>1, <2>3, <2>4
  <1>10. CASE Inbound!AddToBatch
    <2>1. /\ pc[0] = "batch" /\ pc'[0] = "replace" /\ gathered' = Append(gathered, item)
          /\ UNCHANGED <<item, delivered, cut, load>>
      BY <1>2, <1>10 DEF Inbound!AddToBatch, Inbound!Goto, Inbound!Reader
    <2>2. OwnText(pc[0], item) = {item} /\ OwnText(pc'[0], item') = {}
      BY <2>1 DEF OwnText
    <2>3. Inbound!ToSet(gathered') = Inbound!ToSet(gathered) \cup {item}
      BY <1>2, <2>1, ToSetFacts
    <2>4. \A i \in DOMAIN P \ {4, 1} : Q[i] = P[i]
      BY <1>3, <1>4, <1>21, <2>1
    <2>5. /\ 4 \in DOMAIN P /\ 1 \in DOMAIN P /\ 4 # 1 /\ DOMAIN Q = DOMAIN P
          /\ item' = item /\ Q[4] = {} /\ Q[1] = P[4] \cup P[1]
      BY <1>3, <1>4, <1>13, <2>1, <2>2, <2>3
    <2>6. QED
      BY <1>8, <2>4, <2>5
  <1>11. CASE Inbound!ReplaceTask \/ Inbound!InsertTask
    BY <1>2, <1>7, <1>11 DEF Inbound!ReplaceTask, Inbound!InsertTask, Inbound!Goto,
      Inbound!Reader, OwnText
  <1>12. CASE Inbound!SpawnTask
    <2>1. /\ load' = Append(load, <<>>) /\ UNCHANGED <<item, gathered, delivered, cut>>
          /\ pc[0] = "spawn" /\ pc'[0] = "insert"
      BY <1>2, <1>12 DEF Inbound!SpawnTask, Inbound!Reader
    <2>2. OwnText(pc[0], item) = {} /\ OwnText(pc'[0], item') = {}
      BY <2>1 DEF OwnText
    <2>3. /\ Len(load') = Len(load) + 1 /\ load'[Len(load) + 1] = <<>>
          /\ \A t \in 1..Len(load) : load'[t] = load[t]
      BY <1>2, <2>1
    <2>4. /\ DOMAIN Q = DOMAIN P \cup {5 + Len(load)} /\ 5 + Len(load) \notin DOMAIN P
          /\ 5 + Len(load) = 4 + (Len(load) + 1) /\ Len(load) + 1 \in 1..Len(load')
      <3>1. DOMAIN P = 1..(4 + Len(load)) /\ DOMAIN Q = 1..(4 + (Len(load) + 1))
        BY <1>3, <1>4, <2>3
      <3>2. QED
        BY <1>2, <2>3, <3>1
    <2>5. Q[5 + Len(load)] = {}
      BY <1>4, <2>3, <2>4, ToSetFacts
    <2>6. \A t \in 1..Len(load) : Q[4 + t] = P[4 + t]
      <3>1. \A t \in 1..Len(load) : t \in 1..Len(load')
        BY <1>2, <2>3
      <3>2. QED
        BY <1>3, <1>4, <2>3, <3>1
    <2>7. \A i \in DOMAIN P : Q[i] = P[i]
      BY <1>3, <1>4, <1>13, <2>1, <2>2, <2>6
    <2>8. QED
      BY <1>6, <2>1, <2>4, <2>5, <2>7, EmptySetKeepsOnce
  <1>14. ASSUME NEW t \in Inbound!Tasks, NEW b \in {1, 2, 3}, NEW taken \in Seq(Nat),
                load' = [load EXCEPT ![t] = taken], pc'[0] = pc[0], item' = item
         PROVE  /\ 4 + t \in DOMAIN P /\ b \in DOMAIN P /\ b # 4 + t /\ DOMAIN Q = DOMAIN P
                /\ P[4 + t] = Inbound!ToSet(load[t]) /\ Q[4 + t] = Inbound!ToSet(taken)
                /\ \A i \in DOMAIN P \ {1, 2, 3, 4 + t} : Q[i] = P[i]
    <2>1. /\ Len(load') = Len(load) /\ t \in 1..Len(load) /\ load'[t] = taken
          /\ \A u \in 1..Len(load) \ {t} : load'[u] = load[u]
      BY <1>2, <1>14
    <2>2. OwnText(pc'[0], item') = OwnText(pc[0], item)
      BY <1>14
    <2>3. \A u \in 1..Len(load) \ {t} : Q[4 + u] = P[4 + u]
      BY <1>3, <1>4, <2>1
    <2>4. \A i \in DOMAIN P \ {1, 2, 3, 4 + t} : Q[i] = P[i]
      BY <1>3, <1>4, <1>13, <2>2, <2>3
    <2>5. QED
      BY SMTT(30), <1>2, <1>3, <1>4, <2>1, <2>4
  <1>15. ASSUME NEW t \in Inbound!Tasks, Inbound!Flush(t)
         PROVE  \A x \in 1..item' : Once(Q, x)
    <2>1. /\ load' = [load EXCEPT ![t] = gathered] /\ gathered' = <<>> /\ load[t] = <<>>
          /\ pc'[0] = pc[0] /\ UNCHANGED <<item, delivered, cut>>
      BY <1>2, <1>13, <1>15 DEF Inbound!Flush, Inbound!Goto
    <2>2. /\ 4 + t \in DOMAIN P /\ 1 \in DOMAIN P /\ 1 # 4 + t /\ DOMAIN Q = DOMAIN P
          /\ P[4 + t] = {} /\ Q[4 + t] = Inbound!ToSet(gathered) /\ Q[1] = {}
          /\ \A i \in DOMAIN P \ {1, 4 + t} : Q[i] = P[i]
      <3>1. /\ 4 + t \in DOMAIN P /\ 1 \in DOMAIN P /\ 1 # 4 + t /\ DOMAIN Q = DOMAIN P
            /\ P[4 + t] = Inbound!ToSet(load[t]) /\ Q[4 + t] = Inbound!ToSet(gathered)
            /\ \A i \in DOMAIN P \ {1, 2, 3, 4 + t} : Q[i] = P[i]
        BY <1>2, <1>14, <2>1
      <3>2. QED
        BY <1>3, <1>4, <2>1, <3>1, ToSetFacts
    <2>3. item' = item /\ Q[4 + t] = P[1] \cup P[4 + t]
      BY <1>3, <2>1, <2>2
    <2>4. QED
      BY <1>8, <2>2, <2>3
  <1>16. ASSUME NEW t \in Inbound!Tasks, Inbound!Drop(t)
         PROVE  \A x \in 1..item' : Once(Q, x)
    <2>1. /\ load' = [load EXCEPT ![t] = <<>>] /\ pc'[0] = pc[0]
          /\ cut' = cut \cup Inbound!ToSet(load[t]) /\ UNCHANGED <<item, gathered, delivered>>
      BY <1>2, <1>13, <1>16, ToSetFacts DEF Inbound!Drop, Inbound!Goto
    <2>2. /\ 4 + t \in DOMAIN P /\ 3 \in DOMAIN P /\ 3 # 4 + t /\ DOMAIN Q = DOMAIN P
          /\ P[4 + t] = Inbound!ToSet(load[t]) /\ Q[4 + t] = {}
          /\ \A i \in DOMAIN P \ {3, 4 + t} : Q[i] = P[i]
      <3>1. <<>> \in Seq(Nat)
        OBVIOUS
      <3>2. /\ 4 + t \in DOMAIN P /\ 3 \in DOMAIN P /\ 3 # 4 + t /\ DOMAIN Q = DOMAIN P
            /\ P[4 + t] = Inbound!ToSet(load[t]) /\ Q[4 + t] = Inbound!ToSet(<<>>)
            /\ \A i \in DOMAIN P \ {1, 2, 3, 4 + t} : Q[i] = P[i]
        BY <1>14, <2>1, <3>1
      <3>3. QED
        BY <1>3, <1>4, <2>1, <3>2, ToSetFacts
    <2>3. item' = item /\ Q[3] = P[4 + t] \cup P[3]
      BY <1>3, <1>4, <2>1, <2>2
    <2>4. QED
      BY <1>8, <2>2, <2>3
  <1>17. ASSUME NEW p \in {Inbound!Reader} \cup Inbound!Tasks, Inbound!Dispatch(p)
         PROVE  \A x \in 1..item' : Once(Q, x)
    <2>1. CASE p = Inbound!Reader
      <3>1. /\ pc[0] = "dispatch" /\ pc'[0] = "handle" /\ delivered' = delivered \cup {item}
            /\ UNCHANGED <<item, gathered, cut, load>>
        BY <1>2, <1>17, <2>1 DEF Inbound!Dispatch, Inbound!Goto, Inbound!Reader
      <3>2. OwnText(pc[0], item) = {item} /\ OwnText(pc'[0], item') = {}
        BY <3>1 DEF OwnText
      <3>3. \A i \in DOMAIN P \ {4, 2} : Q[i] = P[i]
        BY <1>3, <1>4, <1>21, <3>1
      <3>4. /\ 4 \in DOMAIN P /\ 2 \in DOMAIN P /\ 4 # 2 /\ DOMAIN Q = DOMAIN P
            /\ item' = item /\ Q[4] = {} /\ Q[2] = P[4] \cup P[2]
        BY <1>3, <1>4, <1>13, <3>1, <3>2
      <3>5. QED
        BY <1>8, <3>3, <3>4
    <2>2. CASE p # Inbound!Reader
      <3>1. /\ load' = [load EXCEPT ![p] = <<>>] /\ pc'[0] = pc[0] /\ p \in Inbound!Tasks
            /\ delivered' = delivered \cup Inbound!ToSet(load[p])
            /\ UNCHANGED <<item, gathered, cut>>
        BY <1>2, <1>13, <1>17, <2>2 DEF Inbound!Dispatch, Inbound!Goto, Inbound!Reader
      <3>2. /\ 4 + p \in DOMAIN P /\ 2 \in DOMAIN P /\ 2 # 4 + p /\ DOMAIN Q = DOMAIN P
            /\ P[4 + p] = Inbound!ToSet(load[p]) /\ Q[4 + p] = {}
            /\ \A i \in DOMAIN P \ {2, 4 + p} : Q[i] = P[i]
        <4>1. <<>> \in Seq(Nat)
          OBVIOUS
        <4>2. /\ 4 + p \in DOMAIN P /\ 2 \in DOMAIN P /\ 2 # 4 + p /\ DOMAIN Q = DOMAIN P
              /\ P[4 + p] = Inbound!ToSet(load[p]) /\ Q[4 + p] = Inbound!ToSet(<<>>)
              /\ \A i \in DOMAIN P \ {1, 2, 3, 4 + p} : Q[i] = P[i]
          BY <1>14, <3>1, <4>1
        <4>3. QED
          BY <1>3, <1>4, <3>1, <4>2, ToSetFacts
      <3>3. item' = item /\ Q[2] = P[4 + p] \cup P[2]
        BY <1>3, <1>4, <3>1, <3>2
      <3>4. QED
        BY <1>8, <3>2, <3>3
    <2>3. QED
      BY <2>1, <2>2
  <1>18. CASE \/ \E t \in Inbound!Tasks : Inbound!Unregister(t)
              \/ \E p \in {Inbound!Reader} \cup Inbound!Tasks : Inbound!HandlerReturns(p)
    <2>1. /\ UNCHANGED <<item, gathered, delivered, cut, load>>
          /\ pc'[0] = pc[0] \/ (pc[0] = "handle" /\ pc'[0] = "read")
      BY <1>2, <1>13, <1>18 DEF Inbound!Unregister, Inbound!HandlerReturns, Inbound!Goto,
        Inbound!Reader
    <2>2. OwnText(pc'[0], item') = OwnText(pc[0], item)
      BY <2>1 DEF OwnText
    <2>3. QED
      BY <1>7, <2>1, <2>2
  <1>19. CASE UNCHANGED Inbound!vars
    BY <1>7, <1>19 DEF Inbound!vars
  <1>20. QED
    BY <1>9, <1>10, <1>11, <1>12, <1>15, <1>16, <1>17, <1>18, <1>19 DEF Inbound!Next

LEMMA InboundInit == Inbound!Init => InboundInv
  <1>1. SUFFICES ASSUME Inbound!Init PROVE InboundInv
    OBVIOUS
  <1>2. /\ load = <<>> /\ gathered = <<>> /\ Inbound!Tasks = {} /\ item = 0 /\ MaxTexts \in Nat
        /\ pc[0] = "read" /\ DOMAIN pc = {0} /\ load \in Seq(Seq(Nat)) /\ gathered \in Seq(Nat)
    BY <1>1, PartsAssumption DEF Inbound!Init, Inbound!Tasks, Inbound!Reader
  <1>3. InboundTypes
    BY <1>1, <1>2, ToSetFacts DEF Inbound!Init, InboundTypes, Inbound!TypeOK, Inbound!Reader
  <1>4. BatchIsWaitedFor
    BY <1>2 DEF BatchIsWaitedFor, Inbound!Reader
  <1>5. QED
    BY <1>2, <1>3, <1>4 DEF InboundInv

LEMMA InboundStep ==
  ASSUME InboundInv, [Inbound!Next]_(Inbound!vars)
  PROVE  InboundInv'
  BY InboundTypesStep, BatchIsWaitedForStep, OnceStep DEF InboundInv

(* Each text is in one place, so none is lost or handled twice. *)
LEMMA InboundInvSuffices == InboundInv => Inbound!TextReachesHandler
  BY DEF InboundInv, BatchIsWaitedFor, LastTaskSleeps, Once, Inbound!TextReachesHandler

(***************************************************************************)
(* GatewayReply                                                            *)
(***************************************************************************)

Phases == {"submitted", "running", "asking", "asked", "over"}
ChatOf(t) == nodeTurns[t].chat
AsksFor(e, c) == e.kind = "request" /\ e.chat = c

LineTypes ==
  /\ line \in Seq(Reply!Messages)
  /\ \A i, j \in DOMAIN line : line[i] = line[j] => i = j
  /\ \A m \in Reply!Messages : (pc[m] \in {"waiting", "listening"}) <=>
       \E i \in DOMAIN line : line[i] = m
  /\ \A m \in Reply!Messages : pc[m] = "listening" => m = Head(line)
  /\ pc \in [Reply!Messages -> {"new", "waiting", "listening", "gone"}]
  /\ chat \in [Reply!Messages -> Chats \cup {NoChat}]
  /\ \A m \in Reply!Messages : pc[m] # "new" => chat[m] \in Chats

TurnTypes ==
  /\ nodeTurns \in Seq([chat : Chats, by : 0..MaxMessages])
  /\ phase \in Seq(Phases) /\ Len(phase) = Len(nodeTurns)
  /\ Len(nodeTurns) <= MaxTurns
  /\ trailing \subseteq {t \in Reply!Turns : phase[t] = "over"}
  /\ held \subseteq Chats /\ strayed \subseteq Chats

StreamTypes ==
  /\ stream \in Seq(Reply!Events) /\ Len(stream) <= MaxStream
  /\ \A i \in DOMAIN stream :
       LET e == stream[i] IN
       IF e.kind = "refused" THEN e.turn = 0
       ELSE e.turn \in Reply!Turns /\ e.chat = ChatOf(e.turn)

ToldTypes ==
  /\ bound \in [Reply!Messages -> {0} \cup Reply!Turns]
  /\ shown \in [Reply!Messages -> SUBSET Reply!Turns]
  /\ prompted \in Seq(Reply!Turns)
  /\ pending \in [Chats -> {0} \cup Reply!Turns]
  /\ cards \in Seq(Chats \cup {NoChat}) /\ withCards \in BOOLEAN

ReplyTypes == LineTypes /\ TurnTypes /\ StreamTypes /\ ToldTypes

(* Of the turns of a chat only the last one runs, and while it does the node
   takes the chat for busy. *)
OneTurnRuns ==
  /\ \A t, u \in Reply!Turns : t < u /\ ChatOf(t) = ChatOf(u) => phase[t] = "over"
  /\ \A t \in Reply!Turns : phase[t] # "over" => ChatOf(t) \in held

(* A turn asks once; the requests of a chat are told in the order of its turns. *)
RequestsInOrder ==
  /\ \A i, j \in DOMAIN stream :
       i < j /\ stream[i].kind = "request" /\ stream[j].kind = "request"
         /\ stream[i].chat = stream[j].chat => stream[i].turn < stream[j].turn
  /\ \A k \in DOMAIN prompted, j \in DOMAIN stream :
       stream[j].kind = "request" /\ stream[j].chat = ChatOf(prompted[k])
         => prompted[k] < stream[j].turn
  /\ \A j \in DOMAIN stream :
       stream[j].kind = "request" => phase[stream[j].turn] \notin {"submitted", "running"}
  /\ \A k \in DOMAIN prompted : phase[prompted[k]] \notin {"submitted", "running"}

(* A card that stands for a chat is the one of the request pending there. *)
CardsStandForPending ==
  /\ Len(cards) = IF withCards THEN Len(prompted) ELSE 0
  /\ \A k \in DOMAIN cards : cards[k] # NoChat => pending[cards[k]] = prompted[k]
  /\ \A click \in clicked : click.card \in DOMAIN prompted

(* A message has one turn at most, in its chat. *)
OneTurnPerMessage ==
  /\ \A t \in Reply!Turns : nodeTurns[t].by # 0 =>
       /\ pc[nodeTurns[t].by] \in {"listening", "gone"}
       /\ chat[nodeTurns[t].by] = ChatOf(t)
  /\ \A t, u \in Reply!Turns :
       nodeTurns[t].by = nodeTurns[u].by /\ nodeTurns[t].by # 0 => t = u

(* What an end leaves behind in the stream are items. *)
EndComesLast ==
  /\ \A i \in DOMAIN stream : stream[i].kind = "end" => phase[stream[i].turn] = "over"
  /\ \A i, j \in DOMAIN stream :
       i < j /\ stream[i].kind = "end" /\ stream[j].turn = stream[i].turn
         => stream[j].kind = "item"

(* In a chat without strays: a handler that is gone has told the end of its
   turn, and a handler is bound to its own turn. *)
HandlersKeepToTheirs ==
  /\ \A m \in Reply!Messages : pc[m] = "new" \/ pc[m] = "waiting" => bound[m] = 0 /\ shown[m] = {}
  /\ \A t \in Reply!Turns : ChatOf(t) \notin strayed =>
       /\ nodeTurns[t].by # 0
       /\ pc[nodeTurns[t].by] = "gone" =>
            /\ phase[t] = "over"
            /\ \A i \in DOMAIN stream : stream[i].turn = t => stream[i].kind = "item"
  /\ \A m \in Reply!Messages :
       chat[m] \notin strayed /\ bound[m] # 0 => nodeTurns[bound[m]].by = m

ReplyInv ==
  /\ ReplyTypes /\ OneTurnRuns /\ RequestsInOrder /\ CardsStandForPending
  /\ OneTurnPerMessage /\ EndComesLast /\ HandlersKeepToTheirs
  /\ Reply!CardDecidesItsRequest /\ Reply!PromptStaysAnswerable
  /\ Reply!ReplyIsOfItsMessage
(* What Append and Tail do to the places of a sequence. *)
LEMMA SeqPlaces ==
  ASSUME NEW S, NEW s \in Seq(S)
  PROVE  DOMAIN s = 1..Len(s) /\ Len(s) \in Nat /\ \A i \in DOMAIN s : s[i] \in S
  OBVIOUS
LEMMA SeqGrows ==
  ASSUME NEW S, NEW T, S \subseteq T, NEW s \in Seq(S)
  PROVE  s \in Seq(T)
  OBVIOUS
LEMMA AppendPlaces ==
  ASSUME NEW S, NEW s \in Seq(S), NEW x \in S
  PROVE  /\ Append(s, x) \in Seq(S) /\ Len(Append(s, x)) = Len(s) + 1 /\ Len(s) \in Nat
         /\ DOMAIN s = 1..Len(s) /\ DOMAIN Append(s, x) = 1..(Len(s) + 1)
         /\ DOMAIN Append(s, x) = DOMAIN s \cup {Len(s) + 1} /\ Len(s) + 1 \notin DOMAIN s
         /\ \A i \in DOMAIN s : i < Len(s) + 1 /\ Append(s, x)[i] = s[i]
         /\ Append(s, x)[Len(s) + 1] = x
  OBVIOUS
LEMMA TailPlaces ==
  ASSUME NEW S, NEW s \in Seq(S), s # <<>>
  PROVE  /\ Tail(s) \in Seq(S) /\ Len(Tail(s)) = Len(s) - 1 /\ Len(s) \in Nat \ {0}
         /\ DOMAIN s = 1..Len(s) /\ 1 \in DOMAIN s /\ Head(s) = s[1] /\ Head(s) \in S
         /\ \A i \in DOMAIN Tail(s) : i + 1 \in DOMAIN s /\ Tail(s)[i] = s[i + 1]
         /\ \A i \in DOMAIN s : i # 1 => i - 1 \in DOMAIN Tail(s) /\ Tail(s)[i - 1] = s[i]
  OBVIOUS

(* The steps that touch the line, and the others. *)
LEMMA ReplyKinds ==
  ASSUME [Reply!Next]_(Reply!vars)
  PROVE  \/ \E m \in Reply!Messages, c \in Chats : Reply!Arrive(m, c)
         \/ \E m \in Reply!Messages : Reply!Submit(m)
         \/ \E m \in Reply!Messages : Reply!ReadEvent(m) \/ Reply!GiveUp(m)
         \/ UNCHANGED <<pc, chat, line>>
  BY DEF Reply!Next, Reply!vars, Reply!ForeignTurn, Reply!Settle, Reply!AnswerByText,
    Reply!AnswerByCard, Reply!Resolve, Reply!TurnMoves, Reply!DecideElsewhere

(* A message that comes in goes to the end of the line, and leaves from its head. *)
LEMMA LineTypesStep ==
  ASSUME LineTypes, StreamTypes, [Reply!Next]_(Reply!vars)
  PROVE  LineTypes'
  <1>0. /\ line \in Seq(Reply!Messages) /\ DOMAIN line = 1..Len(line) /\ Len(line) \in Nat
        /\ DOMAIN pc = Reply!Messages /\ DOMAIN chat = Reply!Messages
    BY DEF LineTypes
  <1>1. ASSUME NEW m \in Reply!Messages, NEW c \in Chats, Reply!Arrive(m, c)
        PROVE  LineTypes'
    <2>1. /\ pc' = [pc EXCEPT ![m] = "waiting"] /\ chat' = [chat EXCEPT ![m] = c]
          /\ line' = Append(line, m) /\ pc[m] = "new"
      BY <1>1 DEF Reply!Arrive
    <2>2. \A i \in DOMAIN line : line[i] # m
      BY <2>1 DEF LineTypes
    <2>3. /\ line' \in Seq(Reply!Messages) /\ DOMAIN line' = DOMAIN line \cup {Len(line) + 1}
          /\ \A i \in DOMAIN line : line'[i] = line[i]
          /\ line'[Len(line) + 1] = m
      BY <1>0, <2>1, AppendPlaces
    <2>4. \A i, j \in DOMAIN line' : line'[i] = line'[j] => i = j
      BY <2>2, <2>3 DEF LineTypes
    <2>5. \A n \in Reply!Messages : (pc'[n] \in {"waiting", "listening"}) <=>
            \E i \in DOMAIN line' : line'[i] = n
      BY <1>0, <2>1, <2>3 DEF LineTypes
    <2>6. \A n \in Reply!Messages : pc'[n] = "listening" => n = Head(line')
      <3>1. ASSUME NEW n \in Reply!Messages, pc'[n] = "listening"
            PROVE  n = Head(line')
        <4>1. pc[n] = "listening"
          BY <1>0, <2>1, <3>1
        <4>2. line # <<>> /\ n = Head(line)
          BY <1>0, <4>1 DEF LineTypes
        <4>3. QED
          BY <1>0, <2>1, <4>2
      <3>2. QED
        BY <3>1
    <2>7. /\ pc' \in [Reply!Messages -> {"new", "waiting", "listening", "gone"}]
          /\ chat' \in [Reply!Messages -> Chats \cup {NoChat}]
          /\ \A n \in Reply!Messages : pc'[n] # "new" => chat'[n] \in Chats
      BY <2>1 DEF LineTypes
    <2>8. QED
      BY <2>3, <2>4, <2>5, <2>6, <2>7 DEF LineTypes, Reply!Messages
  <1>2. ASSUME NEW m \in Reply!Messages, Reply!Submit(m)
        PROVE  LineTypes'
    <2>1. pc[m] = "waiting" /\ m = Head(line) /\ pc' = [pc EXCEPT ![m] = "listening"]
          /\ UNCHANGED <<chat, line>>
      BY <1>2 DEF Reply!Submit
    <2>2. /\ pc' \in [Reply!Messages -> {"new", "waiting", "listening", "gone"}]
          /\ \A n \in Reply!Messages : pc'[n] # "new" => chat[n] \in Chats
          /\ \A n \in Reply!Messages : pc'[n] = "listening" => n = Head(line)
          /\ \A n \in Reply!Messages :
               pc'[n] \in {"waiting", "listening"} <=> pc[n] \in {"waiting", "listening"}
      BY <2>1 DEF LineTypes
    <2>3. QED
      BY <2>1, <2>2 DEF LineTypes, Reply!Messages
  <1>3. ASSUME NEW m \in Reply!Messages, pc[m] = "listening", Reply!Leave(m), UNCHANGED chat
        PROVE  LineTypes'
    <2>1. pc' = [pc EXCEPT ![m] = "gone"] /\ line' = Tail(line)
      BY <1>3 DEF Reply!Leave
    <2>2. line # <<>> /\ m = line[1]
      <3>1. \E i \in DOMAIN line : line[i] = m
        BY <1>3 DEF LineTypes
      <3>2. line # <<>> /\ m = Head(line)
        BY <1>0, <1>3, <3>1 DEF LineTypes
      <3>3. QED
        BY <1>0, <3>2
    <2>3. /\ line' \in Seq(Reply!Messages)
          /\ \A i \in DOMAIN line' : i + 1 \in DOMAIN line /\ line'[i] = line[i + 1]
          /\ \A i \in DOMAIN line : i # 1 => i - 1 \in DOMAIN line' /\ line'[i - 1] = line[i]
          /\ 1 \in DOMAIN line /\ DOMAIN line' \subseteq Nat /\ DOMAIN line \subseteq Nat
      BY <1>0, <2>1, <2>2, TailPlaces
    <2>4. \A i, j \in DOMAIN line' : line'[i] = line'[j] => i = j
      BY <2>3 DEF LineTypes
    <2>5. \A n \in Reply!Messages : (pc'[n] \in {"waiting", "listening"}) <=>
            \E i \in DOMAIN line' : line'[i] = n
      <3>1. ASSUME NEW n \in Reply!Messages, n # m
            PROVE  (pc'[n] \in {"waiting", "listening"}) <=> \E i \in DOMAIN line' : line'[i] = n
        <4>1. pc'[n] = pc[n]
          BY <1>0, <2>1, <3>1
        <4>2. (pc[n] \in {"waiting", "listening"}) <=> \E i \in DOMAIN line : line[i] = n
          BY DEF LineTypes
        <4>3. (\E i \in DOMAIN line : line[i] = n) <=> \E i \in DOMAIN line' : line'[i] = n
          BY <2>2, <2>3, <3>1
        <4>4. QED
          BY <4>1, <4>2, <4>3
      <3>2. ~ \E i \in DOMAIN line' : line'[i] = m
        <4>1. SUFFICES ASSUME NEW i \in DOMAIN line', line'[i] = m PROVE FALSE
          OBVIOUS
        <4>2. i + 1 \in DOMAIN line /\ line[i + 1] = line[1] /\ i + 1 # 1
          BY <1>0, <2>1, <2>2, <2>3, <4>1
        <4>3. QED
          BY <2>3, <4>2 DEF LineTypes
      <3>3. pc'[m] = "gone"
        BY <1>0, <2>1
      <3>4. QED
        BY <3>1, <3>2, <3>3
    <2>6. \A n \in Reply!Messages : pc'[n] # "listening"
      BY <1>0, <1>3, <2>1 DEF LineTypes
    <2>7. /\ pc' \in [Reply!Messages -> {"new", "waiting", "listening", "gone"}]
          /\ \A n \in Reply!Messages : pc'[n] # "new" => chat[n] \in Chats
      BY <1>3, <2>1 DEF LineTypes
    <2>8. QED
      BY <1>3, <2>3, <2>4, <2>5, <2>6, <2>7 DEF LineTypes, Reply!Messages
  <1>4. CASE UNCHANGED <<pc, chat, line>>
    BY <1>4 DEF LineTypes, Reply!Messages
  <1>5. ASSUME NEW m \in Reply!Messages, Reply!ReadEvent(m) \/ Reply!GiveUp(m)
        PROVE  LineTypes'
    BY <1>3, <1>4, <1>5 DEF Reply!ReadEvent, Reply!GiveUp
  <1>6. QED
    BY <1>1, <1>2, <1>4, <1>5, ReplyKinds

(* What the moves of a turn have in common: it says one thing, and changes its
   phase alone. *)
TurnSays(t, k, p) ==
  /\ Len(stream) < MaxStream
  /\ stream' = Append(stream, [kind |-> k, chat |-> ChatOf(t), turn |-> t])
  /\ phase' = [phase EXCEPT ![t] = p]
  /\ \/ k = "started" /\ phase[t] = "submitted" /\ p = "running"
     \/ k = "item" /\ phase[t] \in {"running", "asked", "over"} /\ p = phase[t]
     \/ k = "request" /\ phase[t] = "running" /\ p = "asking"
     \/ k = "end" /\ phase[t] \notin {"submitted", "over"} /\ p = "over"
  /\ trailing' \subseteq IF p = "over" THEN trailing \cup {t} ELSE trailing
  /\ UNCHANGED <<pc, chat, line, bound, nodeTurns, held, pending, cards, prompted,
                 withCards, shown, clicked, strayed>>
LEMMA TurnMovesMeans ==
  ASSUME TurnTypes, NEW t \in Reply!Turns, Reply!TurnMoves(t)
  PROVE  \E k \in {"started", "item", "request", "end"}, p \in Phases : TurnSays(t, k, p)
  <1>0. /\ phase \in Seq(Phases) /\ phase = [phase EXCEPT ![t] = phase[t]] /\ phase[t] \in Phases
        /\ \A u \in trailing : phase[u] = "over"
    BY DEF TurnTypes, Reply!Turns
  <1> USE DEF TurnSays, Reply!Emit, ChatOf, Phases, Reply!approvalVars
  <1>1. CASE phase[t] = "submitted" /\ phase' = [phase EXCEPT ![t] = "running"]
               /\ Reply!Emit("started", nodeTurns[t].chat, t) /\ UNCHANGED trailing
    <2>1. TurnSays(t, "started", "running")
      BY <1>0, <1>1 DEF Reply!TurnMoves
    <2>2. QED
      BY <2>1
  <1>2. CASE phase[t] \in {"running", "asked"} /\ UNCHANGED <<phase, trailing>>
               /\ Reply!Emit("item", nodeTurns[t].chat, t)
    <2>1. TurnSays(t, "item", phase[t])
      BY <1>0, <1>2 DEF Reply!TurnMoves
    <2>2. QED
      BY <1>0, <2>1
  <1>3. CASE phase[t] = "running" /\ phase' = [phase EXCEPT ![t] = "asking"]
               /\ Reply!Emit("request", nodeTurns[t].chat, t) /\ UNCHANGED trailing
    <2>1. TurnSays(t, "request", "asking")
      BY <1>0, <1>3 DEF Reply!TurnMoves
    <2>2. QED
      BY <2>1
  <1>4. CASE phase[t] \notin {"submitted", "over"} /\ phase' = [phase EXCEPT ![t] = "over"]
               /\ Reply!Emit("end", nodeTurns[t].chat, t)
               /\ trailing' \in {trailing, trailing \cup {t}}
    <2>1. TurnSays(t, "end", "over")
      BY <1>0, <1>4 DEF Reply!TurnMoves
    <2>2. QED
      BY <2>1
  <1>5. CASE t \in trailing /\ trailing' = trailing \ {t} /\ UNCHANGED phase
               /\ Reply!Emit("item", nodeTurns[t].chat, t)
    <2>1. TurnSays(t, "item", phase[t])
      BY <1>0, <1>5 DEF Reply!TurnMoves
    <2>2. QED
      BY <1>0, <2>1
  <1>6. QED
    BY <1>1, <1>2, <1>3, <1>4, <1>5 DEF Reply!TurnMoves

(* What a submission does to the turns, n being the new one. *)
TurnStarts(n, c, who) ==
  /\ n \in Nat /\ n \notin Reply!Turns /\ \A t \in Reply!Turns : t < n
  /\ n = Len(nodeTurns) + 1 /\ n <= MaxTurns
  /\ Reply!Turns' = Reply!Turns \cup {n}
  /\ \A t \in Reply!Turns : nodeTurns'[t] = nodeTurns[t] /\ phase'[t] = phase[t]
  /\ nodeTurns'[n] = [chat |-> c, by |-> who] /\ phase'[n] = "submitted"
  /\ c \notin held /\ held' = held \cup {c}
LEMMA StartTurnMeans ==
  ASSUME TurnTypes, NEW c \in Chats, NEW who \in 0..MaxMessages, Reply!StartTurn(c, who)
  PROVE  /\ \E n \in Nat : TurnStarts(n, c, who)
         /\ nodeTurns' \in Seq([chat : Chats, by : 0..MaxMessages])
         /\ phase' \in Seq(Phases) /\ Len(phase') = Len(nodeTurns')
         /\ Len(nodeTurns') <= MaxTurns
  <1>1. /\ nodeTurns \in Seq([chat : Chats, by : 0..MaxMessages])
        /\ phase \in Seq(Phases) /\ Len(phase) = Len(nodeTurns)
        /\ nodeTurns' = Append(nodeTurns, [chat |-> c, by |-> who])
        /\ phase' = Append(phase, "submitted") /\ c \notin held /\ held' = held \cup {c}
        /\ Len(nodeTurns) < MaxTurns /\ MaxTurns \in Nat
    BY PartsAssumption DEF TurnTypes, Reply!StartTurn
  <1>2. [chat |-> c, by |-> who] \in [chat : Chats, by : 0..MaxMessages]
    OBVIOUS
  <1>3. /\ nodeTurns' \in Seq([chat : Chats, by : 0..MaxMessages])
        /\ Len(nodeTurns') = Len(nodeTurns) + 1 /\ Len(nodeTurns) \in Nat
        /\ DOMAIN nodeTurns' = DOMAIN nodeTurns \cup {Len(nodeTurns) + 1}
        /\ Len(nodeTurns) + 1 \notin DOMAIN nodeTurns
        /\ \A t \in DOMAIN nodeTurns : t < Len(nodeTurns) + 1 /\ nodeTurns'[t] = nodeTurns[t]
        /\ nodeTurns'[Len(nodeTurns) + 1] = [chat |-> c, by |-> who]
    BY <1>1, <1>2, AppendPlaces
  <1>4. /\ phase' \in Seq(Phases) /\ Len(phase') = Len(phase) + 1
        /\ DOMAIN phase = DOMAIN nodeTurns
        /\ \A t \in DOMAIN phase : phase'[t] = phase[t]
        /\ phase'[Len(phase) + 1] = "submitted"
    BY <1>1, AppendPlaces DEF Phases
  <1>5. TurnStarts(Len(nodeTurns) + 1, c, who)
    BY <1>1, <1>3, <1>4 DEF TurnStarts, Reply!Turns
  <1>6. QED
    BY <1>1, <1>3, <1>4, <1>5

(* A decision is taken by a text, by a card or elsewhere; it reaches the turn if
   that is still asking. *)
LEMMA DecidedMeans ==
  ASSUME TurnTypes, NEW r, Reply!Decided(r), r \in Reply!Turns
  PROVE  /\ phase' \in Seq(Phases) /\ Len(phase') = Len(phase)
         /\ \A t \in Reply!Turns \ {r} : phase'[t] = phase[t]
         /\ IF phase[r] = "asking" THEN phase'[r] = "asked" ELSE phase'[r] = phase[r]
  BY SMTT(30) DEF TurnTypes, Reply!Decided, Phases, Reply!Turns

(* The steps, with what a submission, a decision and the end of a reader's wait
   amount to for the rest. *)
Starts(c, who) ==
  /\ c \in Chats /\ who \in 0..MaxMessages
  /\ \/ /\ who \in Reply!Messages /\ pc[who] = "waiting" /\ c = chat[who]
        /\ pc' = [pc EXCEPT ![who] = "listening"] /\ UNCHANGED strayed
     \/ who = 0 /\ strayed' = strayed \cup {c} /\ UNCHANGED pc
  /\ Reply!StartTurn(c, who)
  /\ UNCHANGED <<chat, line, bound, stream, trailing, pending, cards, prompted, withCards,
                 shown, clicked>>
Refused(m) ==
  /\ pc[m] = "waiting" /\ pc' = [pc EXCEPT ![m] = "listening"]
  /\ Reply!Emit("refused", chat[m], 0)
  /\ UNCHANGED <<chat, line, bound, nodeTurns, phase, held, trailing, pending, cards,
                 prompted, withCards, shown, clicked, strayed>>
Decision(r) ==
  /\ r \in Reply!Turns /\ Reply!Decided(r)
  /\ UNCHANGED <<pc, chat, line, bound, stream, nodeTurns, held, trailing, prompted,
                 withCards, shown, strayed>>
DecidedHere(c) ==
  /\ c \in Chats /\ pending[c] # 0 /\ Decision(pending[c])
  /\ pending' = [pending EXCEPT ![c] = 0]
  /\ cards' = [k \in DOMAIN cards |-> IF cards[k] = c THEN NoChat ELSE cards[k]]
  /\ \/ UNCHANGED clicked
     \/ \E k \in DOMAIN cards :
          cards[k] = c /\ clicked' = clicked \cup {[card |-> k, request |-> pending[c]]}
LEMMA ReplySteps ==
  ASSUME ReplyTypes, [Reply!Next]_(Reply!vars)
  PROVE  \/ \E m \in Reply!Messages, c \in Chats : Reply!Arrive(m, c)
         \/ \E c \in Chats, who \in 0..MaxMessages : Starts(c, who)
         \/ \E m \in Reply!Messages : Refused(m) \/ Reply!ReadEvent(m) \/ Reply!GiveUp(m)
         \/ \E t \in Reply!Turns, k \in {"started", "item", "request", "end"}, p \in Phases :
              TurnSays(t, k, p)
         \/ \E c \in Chats : Reply!Settle(c) \/ DecidedHere(c)
         \/ \E r \in Reply!Turns : Decision(r) /\ UNCHANGED <<pending, cards, clicked>>
         \/ UNCHANGED Reply!vars
  <1>0. /\ Reply!Messages = 1..MaxMessages /\ MaxMessages \in Nat
        /\ \A m \in Reply!Messages : pc[m] # "new" => chat[m] \in Chats
    BY PartsAssumption DEF ReplyTypes, LineTypes, Reply!Messages
  <1>1. ASSUME NEW m \in Reply!Messages, Reply!Submit(m)
        PROVE  (\E c \in Chats, who \in 0..MaxMessages : Starts(c, who)) \/ Refused(m)
    <2>1. chat[m] \in Chats /\ m \in 0..MaxMessages
      BY <1>0, <1>1 DEF Reply!Submit
    <2>2. CASE Reply!StartTurn(chat[m], m) /\ UNCHANGED <<stream, trailing>>
      <3>1. Starts(chat[m], m)
        BY <1>1, <2>1, <2>2 DEF Reply!Submit, Starts, Reply!approvalVars
      <3>2. QED
        BY <2>1, <3>1
    <2>3. CASE chat[m] \in held /\ Reply!Emit("refused", chat[m], 0) /\ UNCHANGED Reply!turnVars
      BY <1>1, <2>3 DEF Reply!Submit, Refused, Reply!approvalVars, Reply!turnVars
    <2>4. QED
      BY <1>1, <2>2, <2>3 DEF Reply!Submit
  <1>2. ASSUME NEW c \in Chats, Reply!ForeignTurn(c)
        PROVE  Starts(c, 0) /\ 0 \in 0..MaxMessages
    BY <1>0, <1>2 DEF Reply!ForeignTurn, Starts, Reply!approvalVars
  <1>3. ASSUME NEW t \in Reply!Turns, Reply!TurnMoves(t)
        PROVE  \E k \in {"started", "item", "request", "end"}, p \in Phases : TurnSays(t, k, p)
    BY <1>3, TurnMovesMeans DEF ReplyTypes
  <1>4. ASSUME NEW c \in Chats, Reply!Resolve(c),
               \/ UNCHANGED clicked
               \/ \E k \in DOMAIN cards :
                    cards[k] = c /\ clicked' = clicked \cup {[card |-> k, request |-> pending[c]]}
        PROVE  DecidedHere(c)
    <2>1. pending[c] \in {0} \cup Reply!Turns
      BY DEF ReplyTypes, ToldTypes
    <2>2. QED
      BY <1>4, <2>1 DEF Reply!Resolve, DecidedHere, Decision, Reply!Cards
  <1>5. ASSUME NEW k \in Reply!Cards, Reply!AnswerByCard(k)
        PROVE  \E c \in Chats : DecidedHere(c)
    <2>1. cards[k] \in Chats
      BY <1>5 DEF ReplyTypes, ToldTypes, Reply!Cards, Reply!AnswerByCard
    <2>2. DecidedHere(cards[k])
      BY <1>4, <1>5, <2>1 DEF Reply!AnswerByCard, Reply!Cards
    <2>3. QED
      BY <2>1, <2>2
  <1>6. ASSUME NEW c \in Chats, Reply!AnswerByText(c)
        PROVE  DecidedHere(c)
    BY <1>4, <1>6 DEF Reply!AnswerByText
  <1>7. ASSUME NEW r \in Reply!Turns, Reply!DecideElsewhere(r)
        PROVE  Decision(r) /\ UNCHANGED <<pending, cards, clicked>>
    BY <1>7 DEF Reply!DecideElsewhere, Decision, Reply!approvalVars
  <1>8. QED
    BY <1>1, <1>2, <1>3, <1>5, <1>6, <1>7 DEF Reply!Next

(* What a handler does with the event at the head of the stream. *)
Passes(m, e) ==
  /\ stream # <<>> /\ 1 \in DOMAIN stream /\ e = stream[1] /\ stream' = Tail(stream)
  /\ e \in Reply!Events /\ pc[m] = "listening"
  /\ UNCHANGED <<chat, nodeTurns, phase, held, trailing, withCards, clicked, strayed>>
Ignores(m, e) == UNCHANGED <<pc, line, bound, pending, cards, prompted, shown>>
Registers(e) ==
  /\ pending' = [pending EXCEPT ![e.chat] = e.turn]
  /\ prompted' = Append(prompted, e.turn)
  /\ cards' = Reply!NewCard([k \in DOMAIN cards |-> IF cards[k] = e.chat THEN NoChat ELSE cards[k]],
                            e.chat)
Tells(m, e) ==
  /\ Reply!Gate(m, e)
  /\ bound' = [bound EXCEPT ![m] = IF Reply!TurnOf(e) # 0 THEN Reply!TurnOf(e) ELSE @]
  /\ shown' = [shown EXCEPT ![m] = @ \cup ({e.turn} \ {0})]
  /\ IF e.kind = "request" THEN Registers(e) ELSE UNCHANGED <<pending, cards, prompted>>
  /\ IF e.kind = "end" THEN pc' = [pc EXCEPT ![m] = "gone"] ELSE UNCHANGED pc
LEMMA ReadEventMeans ==
  ASSUME StreamTypes, NEW m \in Reply!Messages, Reply!ReadEvent(m)
  PROVE  \E e \in Reply!Events : Passes(m, e) /\ (Ignores(m, e) \/ Tells(m, e))
  <1>1. stream \in Seq(Reply!Events) /\ stream # <<>> /\ stream' = Tail(stream)
    BY DEF StreamTypes, Reply!ReadEvent
  <1>2. 1 \in DOMAIN stream /\ Head(stream) = stream[1] /\ Head(stream) \in Reply!Events
    BY <1>1, TailPlaces
  <1>3. Passes(m, Head(stream))
    BY <1>1, <1>2 DEF Reply!ReadEvent, Passes, Reply!turnVars
  <1>4. Ignores(m, Head(stream)) \/ Tells(m, Head(stream))
    BY DEF Reply!ReadEvent, Ignores, Tells, Registers, Reply!Register, Reply!Leave,
      Reply!approvalVars, Reply!Cards
  <1>5. QED
    BY <1>2, <1>3, <1>4

LEMMA TurnTypesStep ==
  ASSUME ReplyTypes, [Reply!Next]_(Reply!vars)
  PROVE  TurnTypes'
  <1>0. TurnTypes /\ Reply!Messages = 1..MaxMessages /\ MaxMessages \in Nat
        /\ \A m \in Reply!Messages : pc[m] # "new" => chat[m] \in Chats
    BY PartsAssumption DEF ReplyTypes, LineTypes, Reply!Messages
  <1>1. ASSUME NEW c \in Chats, NEW who \in 0..MaxMessages, Starts(c, who)
        PROVE  TurnTypes'
    <2>1. PICK n \in Nat : TurnStarts(n, c, who)
      BY <1>0, <1>1, StartTurnMeans DEF Starts
    <2>2. /\ nodeTurns' \in Seq([chat : Chats, by : 0..MaxMessages])
          /\ phase' \in Seq(Phases) /\ Len(phase') = Len(nodeTurns')
          /\ Len(nodeTurns') <= MaxTurns
      BY <1>0, <1>1, StartTurnMeans DEF Starts
    <2>3. trailing' \subseteq {t \in Reply!Turns' : phase'[t] = "over"}
      BY <1>0, <1>1, <2>1 DEF TurnTypes, Starts, TurnStarts
    <2>4. held' \subseteq Chats /\ strayed' \subseteq Chats
      BY <1>0, <1>1, <2>1 DEF TurnTypes, Starts, TurnStarts
    <2>5. QED
      BY <2>2, <2>3, <2>4 DEF TurnTypes, Phases
  <1>2. ASSUME NEW t \in Reply!Turns, NEW k \in {"started", "item", "request", "end"},
               NEW p \in Phases, TurnSays(t, k, p)
        PROVE  TurnTypes'
    <2>1. /\ phase' \in Seq(Phases) /\ Len(phase') = Len(phase)
          /\ phase'[t] = p /\ \A u \in Reply!Turns \ {t} : phase'[u] = phase[u]
      BY <1>0, <1>2 DEF TurnTypes, TurnSays, Phases, Reply!Turns
    <2>2. trailing' \subseteq {u \in Reply!Turns' : phase'[u] = "over"}
      BY <1>0, <1>2, <2>1 DEF TurnTypes, TurnSays, Reply!Turns
    <2>3. QED
      BY <1>0, <1>2, <2>1, <2>2 DEF TurnTypes, TurnSays, Phases
  <1>3. ASSUME NEW r, Decision(r)
        PROVE  TurnTypes'
    <2>1. /\ phase' \in Seq(Phases) /\ Len(phase') = Len(phase)
          /\ \A t \in Reply!Turns : phase[t] = "over" => phase'[t] = "over"
      BY <1>0, <1>3, DecidedMeans DEF Decision
    <2>2. QED
      BY <1>0, <1>3, <2>1 DEF TurnTypes, Decision, Phases, Reply!Turns
  <1>4. ASSUME NEW m \in Reply!Messages,
               Refused(m) \/ Reply!ReadEvent(m) \/ Reply!GiveUp(m)
        PROVE  TurnTypes'
    BY <1>0, <1>4 DEF TurnTypes, Refused, Reply!ReadEvent, Reply!GiveUp, Reply!turnVars,
      Phases, Reply!Turns
  <1>5. ASSUME NEW c \in Chats, Reply!Settle(c)
        PROVE  TurnTypes'
    BY <1>0, <1>5 DEF TurnTypes, Reply!Settle, Phases, Reply!Turns
  <1>6. ASSUME UNCHANGED <<nodeTurns, phase, held, trailing, strayed>>
        PROVE  TurnTypes'
    BY <1>0, <1>6 DEF TurnTypes, Phases, Reply!Turns
  <1>7. QED
    BY <1>1, <1>2, <1>3, <1>4, <1>5, <1>6, ReplySteps DEF DecidedHere, Reply!Arrive,
      Reply!vars, Reply!turnVars

LEMMA StreamTypesStep ==
  ASSUME ReplyTypes, [Reply!Next]_(Reply!vars)
  PROVE  StreamTypes'
  <1>0. /\ TurnTypes /\ StreamTypes /\ Reply!Messages = 1..MaxMessages
        /\ MaxMessages \in Nat /\ MaxTurns \in Nat
        /\ \A m \in Reply!Messages : pc[m] # "new" => chat[m] \in Chats
        /\ Reply!Turns \subseteq 0..MaxTurns
        /\ \A t \in Reply!Turns : ChatOf(t) \in Chats
    <2>1. /\ TurnTypes /\ StreamTypes /\ Reply!Messages = 1..MaxMessages
          /\ MaxMessages \in Nat /\ MaxTurns \in Nat
          /\ \A m \in Reply!Messages : pc[m] # "new" => chat[m] \in Chats
      BY PartsAssumption DEF ReplyTypes, LineTypes, Reply!Messages
    <2>2. /\ DOMAIN nodeTurns = 1..Len(nodeTurns) /\ Len(nodeTurns) \in Nat
          /\ Len(nodeTurns) <= MaxTurns
          /\ \A t \in DOMAIN nodeTurns : nodeTurns[t] \in [chat : Chats, by : 0..MaxMessages]
      <3>1. nodeTurns \in Seq([chat : Chats, by : 0..MaxMessages]) /\ Len(nodeTurns) <= MaxTurns
        BY <2>1 DEF TurnTypes
      <3>2. QED
        BY <3>1, SeqPlaces
    <2>3. Reply!Turns \subseteq 0..MaxTurns /\ \A t \in Reply!Turns : ChatOf(t) \in Chats
      BY <2>1, <2>2 DEF Reply!Turns, ChatOf
    <2>4. QED
      BY <2>1, <2>3
  <1>1. ASSUME NEW e \in Reply!Events, Len(stream) < MaxStream, stream' = Append(stream, e),
               IF e.kind = "refused" THEN e.turn = 0
               ELSE e.turn \in Reply!Turns /\ e.chat = ChatOf(e.turn),
               UNCHANGED nodeTurns
        PROVE  StreamTypes'
    <2>1. /\ stream' \in Seq(Reply!Events) /\ Len(stream') = Len(stream) + 1
          /\ DOMAIN stream' = DOMAIN stream \cup {Len(stream) + 1}
          /\ \A i \in DOMAIN stream : stream'[i] = stream[i]
          /\ stream'[Len(stream) + 1] = e
      BY <1>0, <1>1, AppendPlaces DEF StreamTypes
    <2>2. Len(stream') <= MaxStream
      BY <1>0, <1>1, <2>1, PartsAssumption DEF StreamTypes
    <2>3. QED
      BY <1>0, <1>1, <2>1, <2>2 DEF StreamTypes, Reply!Turns, ChatOf, Reply!Events
  <1>2. ASSUME NEW c \in Chats, NEW who \in 0..MaxMessages, Starts(c, who)
        PROVE  StreamTypes'
    <2>1. PICK n \in Nat : TurnStarts(n, c, who)
      BY <1>0, <1>2, StartTurnMeans DEF Starts
    <2>2. \A t \in Reply!Turns : t \in Reply!Turns' /\ nodeTurns'[t] = nodeTurns[t]
      BY <2>1 DEF TurnStarts
    <2>3. QED
      BY <1>0, <1>2, <2>2 DEF StreamTypes, Starts, ChatOf, Reply!Events
  <1>3. ASSUME NEW m \in Reply!Messages, Refused(m)
        PROVE  StreamTypes'
    <2>1. [kind |-> "refused", chat |-> chat[m], turn |-> 0] \in Reply!Events
      BY <1>0, <1>3 DEF Refused, Reply!Events
    <2>2. QED
      BY <1>1, <1>3, <2>1 DEF Refused, Reply!Emit
  <1>4. ASSUME NEW t \in Reply!Turns, NEW k \in {"started", "item", "request", "end"},
               NEW p \in Phases, TurnSays(t, k, p)
        PROVE  StreamTypes'
    <2>1. [kind |-> k, chat |-> ChatOf(t), turn |-> t] \in Reply!Events
      BY <1>0 DEF Reply!Events
    <2>2. QED
      BY <1>1, <1>4, <2>1 DEF TurnSays
  <1>5. ASSUME NEW m \in Reply!Messages, Reply!ReadEvent(m)
        PROVE  StreamTypes'
    <2>1. stream # <<>> /\ stream' = Tail(stream) /\ UNCHANGED nodeTurns
      BY <1>5 DEF Reply!ReadEvent, Reply!turnVars
    <2>2. /\ stream' \in Seq(Reply!Events) /\ Len(stream') = Len(stream) - 1
          /\ \A i \in DOMAIN stream' : i + 1 \in DOMAIN stream /\ stream'[i] = stream[i + 1]
          /\ Len(stream) \in Nat \ {0}
      BY <1>0, <2>1, TailPlaces DEF StreamTypes
    <2>3. Len(stream') <= MaxStream
      BY <1>0, <2>2, PartsAssumption DEF StreamTypes
    <2>4. QED
      BY <1>0, <2>1, <2>2, <2>3 DEF StreamTypes, ChatOf, Reply!Events, Reply!Turns
  <1>6. CASE UNCHANGED <<stream, nodeTurns>>
    BY <1>0, <1>6 DEF StreamTypes, ChatOf, Reply!Events, Reply!Turns
  <1>7. QED
    BY <1>2, <1>3, <1>4, <1>5, <1>6, ReplySteps DEF DecidedHere, Decision, Reply!Arrive,
      Reply!GiveUp, Reply!Settle, Reply!vars, Reply!turnVars

(* The head of the stream names a turn, unless it is a refusal. *)
LEMMA HeadEvent ==
  ASSUME StreamTypes, NEW m \in Reply!Messages, NEW e \in Reply!Events, Passes(m, e)
  PROVE  /\ e.kind = "refused" => e.turn = 0 /\ Reply!TurnOf(e) = 0
         /\ e.kind # "refused" => e.turn \in Reply!Turns /\ e.chat = ChatOf(e.turn)
         /\ Reply!TurnOf(e) \in {0} \cup Reply!Turns /\ e.chat \in Chats
         /\ e.kind \in {"started", "item", "end"} => Reply!TurnOf(e) = e.turn
         /\ e.kind = "request" => Reply!TurnOf(e) = 0
  BY DEF StreamTypes, Passes, Reply!TurnOf, Reply!Events

LEMMA CardsPlaces ==
  ASSUME cards \in Seq(Chats \cup {NoChat}), NEW c \in Chats
  PROVE  LET kept == [k \in DOMAIN cards |-> IF cards[k] = c THEN NoChat ELSE cards[k]]
             more == Reply!NewCard(kept, c)
         IN  /\ kept \in Seq(Chats \cup {NoChat}) /\ DOMAIN kept = DOMAIN cards
             /\ Len(kept) = Len(cards) /\ DOMAIN cards = 1..Len(cards) /\ Len(cards) \in Nat
             /\ \A k \in DOMAIN cards : kept[k] = IF cards[k] = c THEN NoChat ELSE cards[k]
             /\ more \in Seq(Chats \cup {NoChat})
             /\ \A k \in DOMAIN cards : more[k] = IF cards[k] = c THEN NoChat ELSE cards[k]
             /\ IF withCards
                THEN /\ Len(more) = Len(cards) + 1 /\ more[Len(cards) + 1] = c
                     /\ DOMAIN more = DOMAIN cards \cup {Len(cards) + 1}
                     /\ Len(cards) + 1 \notin DOMAIN cards
                ELSE more = kept
  <1> DEFINE kept == [k \in DOMAIN cards |-> IF cards[k] = c THEN NoChat ELSE cards[k]]
  <1>1. DOMAIN cards = 1..Len(cards) /\ Len(cards) \in Nat
    OBVIOUS
  <1>2. kept \in Seq(Chats \cup {NoChat}) /\ DOMAIN kept = DOMAIN cards /\ Len(kept) = Len(cards)
    BY <1>1
  <1>3. \A k \in DOMAIN cards : kept[k] = IF cards[k] = c THEN NoChat ELSE cards[k]
    OBVIOUS
  <1> HIDE DEF kept
  <1>4. CASE withCards
    <2>1. /\ Append(kept, c) \in Seq(Chats \cup {NoChat}) /\ Len(Append(kept, c)) = Len(kept) + 1
          /\ DOMAIN Append(kept, c) = DOMAIN kept \cup {Len(kept) + 1}
          /\ Len(kept) + 1 \notin DOMAIN kept
          /\ \A k \in DOMAIN kept : Append(kept, c)[k] = kept[k]
          /\ Append(kept, c)[Len(kept) + 1] = c
      BY <1>2, AppendPlaces
    <2>2. Reply!NewCard(kept, c) = Append(kept, c)
      BY <1>4 DEF Reply!NewCard
    <2>3. QED
      BY <1>1, <1>2, <1>3, <1>4, <2>1, <2>2 DEF kept
  <1>5. CASE ~withCards
    <2>1. Reply!NewCard(kept, c) = kept
      BY <1>5 DEF Reply!NewCard
    <2>2. QED
      BY <1>1, <1>2, <1>3, <1>5, <2>1 DEF kept
  <1>6. QED
    BY <1>4, <1>5

LEMMA ToldTypesStep ==
  ASSUME ReplyTypes, [Reply!Next]_(Reply!vars)
  PROVE  ToldTypes'
  <1>0. ToldTypes /\ TurnTypes /\ StreamTypes
    BY DEF ReplyTypes
  <1>1. ASSUME NEW c \in Chats, NEW who \in 0..MaxMessages, Starts(c, who)
        PROVE  ToldTypes'
    <2>1. PICK n \in Nat : TurnStarts(n, c, who)
      BY <1>0, <1>1, StartTurnMeans DEF Starts
    <2>2. Reply!Turns \subseteq Reply!Turns'
      BY <2>1 DEF TurnStarts
    <2>3. prompted \in Seq(Reply!Turns')
      BY <1>0, <2>2, SeqGrows DEF ToldTypes
    <2>4. /\ bound \in [Reply!Messages -> {0} \cup Reply!Turns']
          /\ shown \in [Reply!Messages -> SUBSET Reply!Turns']
          /\ pending \in [Chats -> {0} \cup Reply!Turns']
      BY <1>0, <2>2 DEF ToldTypes
    <2>5. UNCHANGED <<bound, shown, prompted, pending, cards, withCards>>
      BY <1>1 DEF Starts
    <2>6. QED
      BY <1>0, <2>3, <2>4, <2>5 DEF ToldTypes, Reply!Messages
  <1>2. ASSUME NEW m \in Reply!Messages, Reply!ReadEvent(m)
        PROVE  ToldTypes'
    <2>1. PICK e \in Reply!Events : Passes(m, e) /\ (Ignores(m, e) \/ Tells(m, e))
      BY <1>0, <1>2, ReadEventMeans
    <2>2. Reply!Turns' = Reply!Turns /\ withCards' = withCards
      BY <2>1 DEF Passes, Reply!Turns
    <2>3. CASE Ignores(m, e)
      BY <1>0, <2>2, <2>3 DEF Ignores, ToldTypes, Reply!Messages
    <2>4. CASE Tells(m, e)
      <3>1. /\ e.turn \in {0} \cup Reply!Turns /\ Reply!TurnOf(e) \in {0} \cup Reply!Turns
            /\ e.kind = "request" => e.turn \in Reply!Turns
            /\ e.chat \in Chats
        BY <1>0, <2>1, HeadEvent
      <3>2. bound' \in [Reply!Messages -> {0} \cup Reply!Turns]
        BY <1>0, <2>4, <3>1 DEF Tells, ToldTypes
      <3>3. shown' \in [Reply!Messages -> SUBSET Reply!Turns]
        BY <1>0, <2>4, <3>1 DEF Tells, ToldTypes
      <3>4. CASE e.kind = "request"
        <4>1. Registers(e)
          BY <2>4, <3>4 DEF Tells
        <4>2. prompted' \in Seq(Reply!Turns)
          BY <1>0, <3>1, <3>4, <4>1, AppendPlaces DEF Registers, ToldTypes
        <4>3. pending' \in [Chats -> {0} \cup Reply!Turns]
          BY <1>0, <3>1, <3>4, <4>1 DEF Registers, ToldTypes
        <4>4. cards' \in Seq(Chats \cup {NoChat})
          BY <1>0, <3>1, <4>1, CardsPlaces DEF Registers, ToldTypes
        <4>5. QED
          BY <1>0, <2>2, <3>2, <3>3, <4>2, <4>3, <4>4 DEF ToldTypes, Reply!Messages
      <3>5. CASE e.kind # "request"
        BY <1>0, <2>2, <2>4, <3>2, <3>3, <3>5 DEF Tells, ToldTypes, Reply!Messages
      <3>6. QED
        BY <3>4, <3>5
    <2>5. QED
      BY <2>1, <2>3, <2>4
  <1>3. ASSUME NEW c \in Chats, DecidedHere(c)
        PROVE  ToldTypes'
    <2>1. cards' \in Seq(Chats \cup {NoChat})
      BY <1>0, <1>3, CardsPlaces DEF DecidedHere, ToldTypes
    <2>2. pending' \in [Chats -> {0} \cup Reply!Turns]
      BY <1>0, <1>3 DEF DecidedHere, ToldTypes
    <2>3. UNCHANGED <<bound, shown, prompted, nodeTurns, withCards>>
      BY <1>3 DEF DecidedHere, Decision
    <2>4. QED
      BY <1>0, <2>1, <2>2, <2>3 DEF ToldTypes, Reply!Messages, Reply!Turns
  <1>4. CASE UNCHANGED <<bound, shown, prompted, pending, cards, withCards, nodeTurns>>
    BY <1>0, <1>4 DEF ToldTypes, Reply!Messages, Reply!Turns
  <1>5. QED
    BY ZenonT(60), <1>1, <1>2, <1>3, <1>4, ReplySteps DEF Decision, Reply!Arrive, Refused, TurnSays,
      Reply!GiveUp, Reply!Settle, Reply!vars, Reply!turnVars, Reply!approvalVars

LEMMA ReplyTypesStep ==
  ASSUME ReplyTypes, [Reply!Next]_(Reply!vars)
  PROVE  ReplyTypes'
  BY LineTypesStep, TurnTypesStep, StreamTypesStep, ToldTypesStep DEF ReplyTypes

(* Turns keep what they are, and their phases go on. *)
LEMMA TurnsGoOn ==
  ASSUME ReplyTypes, [Reply!Next]_(Reply!vars), NEW t \in Reply!Turns
  PROVE  /\ t \in Reply!Turns' /\ nodeTurns'[t] = nodeTurns[t] /\ ChatOf(t)' = ChatOf(t)
         /\ phase[t] = "over" => phase'[t] = "over"
         /\ phase'[t] \in {"submitted", "running"} => phase[t] \in {"submitted", "running"}
         /\ phase'[t] = "asking" => phase[t] \in {"running", "asking"}
  <1>0. TurnTypes /\ DOMAIN phase = Reply!Turns
    BY DEF ReplyTypes, TurnTypes, Reply!Turns
  <1> SUFFICES /\ t \in Reply!Turns' /\ nodeTurns'[t] = nodeTurns[t]
               /\ phase[t] = "over" => phase'[t] = "over"
               /\ phase'[t] \in {"submitted", "running"} => phase[t] \in {"submitted", "running"}
               /\ phase'[t] = "asking" => phase[t] \in {"running", "asking"}
    BY DEF ChatOf
  <1>1. ASSUME NEW c \in Chats, NEW who \in 0..MaxMessages, Starts(c, who)
        PROVE  t \in Reply!Turns' /\ nodeTurns'[t] = nodeTurns[t] /\ phase'[t] = phase[t]
    <2>1. PICK n \in Nat : TurnStarts(n, c, who)
      BY <1>0, <1>1, StartTurnMeans DEF Starts
    <2>2. QED
      BY <2>1 DEF TurnStarts
  <1>2. ASSUME NEW u \in Reply!Turns, NEW k \in {"started", "item", "request", "end"},
               NEW p \in Phases, TurnSays(u, k, p)
        PROVE  /\ t \in Reply!Turns' /\ nodeTurns'[t] = nodeTurns[t]
               /\ phase[t] = "over" => phase'[t] = "over"
               /\ phase'[t] \in {"submitted", "running"} => phase[t] \in {"submitted", "running"}
               /\ phase'[t] = "asking" => phase[t] \in {"running", "asking"}
    BY <1>0, <1>2 DEF TurnSays, Reply!Turns
  <1>3. ASSUME NEW r, Decision(r)
        PROVE  /\ t \in Reply!Turns' /\ nodeTurns'[t] = nodeTurns[t]
               /\ phase[t] = "over" => phase'[t] = "over"
               /\ phase'[t] \in {"submitted", "running"} => phase[t] \in {"submitted", "running"}
               /\ phase'[t] = "asking" => phase[t] \in {"running", "asking"}
    BY <1>0, <1>3, DecidedMeans DEF Decision, Reply!Turns
  <1>4. CASE UNCHANGED <<nodeTurns, phase>>
    BY <1>4 DEF Reply!Turns
  <1>5. QED
    BY <1>1, <1>2, <1>3, <1>4, ReplySteps DEF DecidedHere, Reply!Arrive, Refused,
      Reply!ReadEvent, Reply!GiveUp, Reply!Settle, Reply!vars, Reply!turnVars

(* A handler that has begun goes on with its chat. *)
LEMMA HandlersGoOn ==
  ASSUME ReplyTypes, [Reply!Next]_(Reply!vars), NEW m \in Reply!Messages,
         pc[m] \in {"listening", "gone"}
  PROVE  pc'[m] \in {"listening", "gone"} /\ chat'[m] = chat[m]
  <1>0. DOMAIN pc = Reply!Messages /\ DOMAIN chat = Reply!Messages /\ StreamTypes
    BY DEF ReplyTypes, LineTypes
  <1>1. ASSUME NEW n \in Reply!Messages, NEW c \in Chats, Reply!Arrive(n, c)
        PROVE  pc'[m] = pc[m] /\ chat'[m] = chat[m]
    BY <1>0, <1>1 DEF Reply!Arrive
  <1>2. ASSUME NEW c \in Chats, NEW who \in 0..MaxMessages, Starts(c, who)
        PROVE  pc'[m] = pc[m] /\ chat'[m] = chat[m]
    BY <1>0, <1>2 DEF Starts
  <1>3. ASSUME NEW n \in Reply!Messages, Refused(n) \/ Reply!GiveUp(n)
        PROVE  pc'[m] \in {"listening", "gone"} /\ chat'[m] = chat[m]
    BY <1>0, <1>3 DEF Refused, Reply!GiveUp, Reply!Leave
  <1>4. ASSUME NEW n \in Reply!Messages, Reply!ReadEvent(n)
        PROVE  pc'[m] \in {"listening", "gone"} /\ chat'[m] = chat[m]
    BY <1>0, <1>4 DEF Reply!ReadEvent, Reply!Leave
  <1>5. CASE UNCHANGED <<pc, chat>>
    BY <1>5
  <1>6. QED
    BY <1>1, <1>2, <1>3, <1>4, <1>5, ReplySteps DEF DecidedHere, Decision, TurnSays,
      Reply!Settle, Reply!vars

(* A turn starts in a chat whose turns are over, and the busy mark outlasts it. *)
LEMMA OneTurnRunsStep ==
  ASSUME ReplyTypes, OneTurnRuns, [Reply!Next]_(Reply!vars)
  PROVE  OneTurnRuns'
  <1>0. TurnTypes /\ DOMAIN phase = Reply!Turns
    BY DEF ReplyTypes, TurnTypes, Reply!Turns
  <1>1. ASSUME NEW c \in Chats, NEW who \in 0..MaxMessages, Starts(c, who)
        PROVE  OneTurnRuns'
    <2>1. PICK n \in Nat : TurnStarts(n, c, who)
      BY <1>0, <1>1, StartTurnMeans DEF Starts
    <2>2. /\ Reply!Turns' = Reply!Turns \cup {n} /\ n \notin Reply!Turns
          /\ \A t \in Reply!Turns : ~(n < t)
          /\ \A t \in Reply!Turns : ChatOf(t)' = ChatOf(t) /\ phase'[t] = phase[t]
          /\ nodeTurns'[n].chat = c /\ c \notin held /\ held' = held \cup {c}
      <3>1. Reply!Turns \subseteq Nat
        BY <1>0 DEF TurnTypes, Reply!Turns
      <3>2. QED
        BY <2>1, <3>1 DEF TurnStarts, ChatOf
    <2>3. \A t \in Reply!Turns : ChatOf(t) = c => phase[t] = "over"
      BY <2>2 DEF OneTurnRuns
    <2>4. ASSUME NEW t \in Reply!Turns', NEW u \in Reply!Turns', t < u, ChatOf(t)' = ChatOf(u)'
          PROVE  phase'[t] = "over"
      <3>1. CASE u = n
        <4>1. t \in Reply!Turns
          BY <2>1, <2>2, <2>4, <3>1 DEF TurnStarts
        <4>2. ChatOf(t) = c
          BY <2>2, <2>4, <3>1, <4>1 DEF ChatOf
        <4>3. QED
          BY <2>2, <2>3, <4>1, <4>2
      <3>2. CASE u # n
        <4>1. t \in Reply!Turns /\ u \in Reply!Turns
          BY <2>2, <2>4, <3>2
        <4>2. QED
          BY <2>2, <2>4, <4>1 DEF OneTurnRuns
      <3>3. QED
        BY <3>1, <3>2
    <2>5. \A t \in Reply!Turns' : phase'[t] # "over" => ChatOf(t)' \in held'
      BY <2>2 DEF OneTurnRuns, ChatOf
    <2>6. QED
      BY <2>4, <2>5 DEF OneTurnRuns
  <1>2. ASSUME Reply!Turns' = Reply!Turns, UNCHANGED held
        PROVE  OneTurnRuns'
    BY <1>2, TurnsGoOn DEF OneTurnRuns
  <1>3. ASSUME NEW c \in Chats, Reply!Settle(c)
        PROVE  OneTurnRuns'
    <2>1. /\ UNCHANGED <<nodeTurns, phase>> /\ held' = held \ {c}
          /\ \A t \in Reply!Turns : ChatOf(t) = c => phase[t] = "over"
      BY <1>3 DEF Reply!Settle, ChatOf
    <2>2. Reply!Turns' = Reply!Turns /\ \A t \in Reply!Turns : ChatOf(t)' = ChatOf(t)
      BY <2>1 DEF Reply!Turns, ChatOf
    <2>3. QED
      BY <2>1, <2>2 DEF OneTurnRuns
  <1>4. QED
    <2>1. UNCHANGED nodeTurns => Reply!Turns' = Reply!Turns
      BY DEF Reply!Turns
    <2>2. QED
      BY <1>1, <1>2, <1>3, <2>1, ReplySteps DEF DecidedHere, Decision, TurnSays,
        Reply!Arrive, Refused, Reply!ReadEvent, Reply!GiveUp, Reply!vars, Reply!turnVars

(* A turn is one message's, and has been since the handler submitted it. *)
LEMMA OneTurnPerMessageStep ==
  ASSUME ReplyTypes, OneTurnPerMessage, [Reply!Next]_(Reply!vars)
  PROVE  OneTurnPerMessage'
  <1>0. /\ TurnTypes /\ DOMAIN pc = Reply!Messages
        /\ Reply!Messages = 1..MaxMessages
        /\ \A t \in Reply!Turns : nodeTurns[t].by # 0 => nodeTurns[t].by \in Reply!Messages
    <2>1. nodeTurns \in Seq([chat : Chats, by : 0..MaxMessages]) /\ TurnTypes
          /\ DOMAIN pc = Reply!Messages
      BY DEF ReplyTypes, TurnTypes, LineTypes
    <2>2. \A t \in Reply!Turns : nodeTurns[t] \in [chat : Chats, by : 0..MaxMessages]
      BY <2>1, SeqPlaces DEF Reply!Turns
    <2>3. QED
      BY <2>1, <2>2, PartsAssumption DEF Reply!Messages
  <1>1. ASSUME NEW c \in Chats, NEW who \in 0..MaxMessages, Starts(c, who)
        PROVE  OneTurnPerMessage'
    <2>1. PICK n \in Nat : TurnStarts(n, c, who)
      BY <1>0, <1>1, StartTurnMeans DEF Starts
    <2>2. /\ Reply!Turns' = Reply!Turns \cup {n} /\ n \notin Reply!Turns
          /\ \A t \in Reply!Turns : nodeTurns'[t] = nodeTurns[t] /\ ChatOf(t)' = ChatOf(t)
          /\ nodeTurns'[n] = [chat |-> c, by |-> who]
      BY <2>1 DEF TurnStarts, ChatOf
    <2>3. who # 0 => pc[who] = "waiting" /\ pc'[who] = "listening" /\ chat'[who] = c
      BY <1>0, <1>1 DEF Starts
    <2>4. \A t \in Reply!Turns : nodeTurns[t].by # 0 => nodeTurns[t].by # who
      BY <2>3 DEF OneTurnPerMessage
    <2>5. \A t \in Reply!Turns : nodeTurns[t].by # 0 =>
            /\ pc'[nodeTurns[t].by] \in {"listening", "gone"}
            /\ chat'[nodeTurns[t].by] = ChatOf(t)
      BY <1>0, HandlersGoOn DEF OneTurnPerMessage
    <2>6. \A t \in Reply!Turns' : nodeTurns'[t].by # 0 =>
            /\ pc'[nodeTurns'[t].by] \in {"listening", "gone"}
            /\ chat'[nodeTurns'[t].by] = ChatOf(t)'
      BY <2>2, <2>3, <2>5 DEF ChatOf
    <2>7. \A t, u \in Reply!Turns' :
            nodeTurns'[t].by = nodeTurns'[u].by /\ nodeTurns'[t].by # 0 => t = u
      BY <2>2, <2>4 DEF OneTurnPerMessage
    <2>8. QED
      BY <2>6, <2>7 DEF OneTurnPerMessage
  <1>2. ASSUME UNCHANGED nodeTurns
        PROVE  OneTurnPerMessage'
    <2>1. Reply!Turns' = Reply!Turns /\ \A t \in Reply!Turns : ChatOf(t)' = ChatOf(t)
      BY <1>2 DEF Reply!Turns, ChatOf
    <2>2. QED
      BY <1>0, <1>2, <2>1, HandlersGoOn DEF OneTurnPerMessage
  <1>3. QED
    BY <1>1, <1>2, ReplySteps DEF DecidedHere, Decision, TurnSays, Reply!Settle,
      Reply!Arrive, Refused, Reply!ReadEvent, Reply!GiveUp, Reply!vars, Reply!turnVars

(* What the steps do to the stream: it grows at its end, or its head is read. *)
Grows(n, e) ==
  /\ n \in Nat /\ n \notin DOMAIN stream /\ DOMAIN stream' = DOMAIN stream \cup {n}
  /\ \A i \in DOMAIN stream : i \in Nat /\ i < n /\ stream'[i] = stream[i]
  /\ stream'[n] = e
Shrinks ==
  /\ \A i \in DOMAIN stream' :
       i \in Nat /\ i + 1 \in DOMAIN stream /\ 1 < i + 1 /\ stream'[i] = stream[i + 1]
  /\ \A i \in DOMAIN stream : i # 1 => i - 1 \in DOMAIN stream' /\ stream'[i - 1] = stream[i]
Says(t, k, p) ==
  /\ TurnSays(t, k, p)
  /\ \E n \in Nat : Grows(n, [kind |-> k, chat |-> ChatOf(t), turn |-> t])
Reads(m, e) == Passes(m, e) /\ Shrinks /\ (Ignores(m, e) \/ Tells(m, e))
LEMMA GrowsMeans ==
  ASSUME StreamTypes, NEW e \in Reply!Events, stream' = Append(stream, e)
  PROVE  \E n \in Nat : Grows(n, e)
  <1>1. Grows(Len(stream) + 1, e) /\ Len(stream) + 1 \in Nat
    BY AppendPlaces DEF StreamTypes, Grows
  <1>2. QED
    BY <1>1
LEMMA ShrinksMeans ==
  ASSUME StreamTypes, stream # <<>>, stream' = Tail(stream)
  PROVE  Shrinks
  <1>1. stream \in Seq(Reply!Events)
    BY DEF StreamTypes
  <1>2. DOMAIN Tail(stream) \subseteq Nat \ {0}
    BY <1>1
  <1>3. QED
    BY <1>1, <1>2, TailPlaces DEF Shrinks
LEMMA StreamMoves ==
  ASSUME ReplyTypes, [Reply!Next]_(Reply!vars)
  PROVE  \/ UNCHANGED <<stream, prompted>>
         \/ /\ UNCHANGED <<prompted, phase, nodeTurns>>
            /\ \E c \in Chats, n \in Nat :
                 Grows(n, [kind |-> "refused", chat |-> c, turn |-> 0])
         \/ \E t \in Reply!Turns, k \in {"started", "item", "request", "end"}, p \in Phases :
              Says(t, k, p)
         \/ \E m \in Reply!Messages, e \in Reply!Events : Reads(m, e)
  <1>0. /\ StreamTypes /\ Reply!Turns \subseteq 0..MaxTurns /\ MaxTurns \in Nat
        /\ \A t \in Reply!Turns : ChatOf(t) \in Chats
        /\ \A m \in Reply!Messages : pc[m] # "new" => chat[m] \in Chats
    <2>1. /\ nodeTurns \in Seq([chat : Chats, by : 0..MaxMessages])
          /\ Len(nodeTurns) <= MaxTurns /\ MaxTurns \in Nat /\ StreamTypes
          /\ \A m \in Reply!Messages : pc[m] # "new" => chat[m] \in Chats
      BY PartsAssumption DEF ReplyTypes, TurnTypes, LineTypes
    <2>2. \A t \in DOMAIN nodeTurns : nodeTurns[t] \in [chat : Chats, by : 0..MaxMessages]
      BY <2>1, SeqPlaces
    <2>3. Reply!Turns \subseteq 0..MaxTurns
      BY <2>1 DEF Reply!Turns
    <2>4. QED
      BY <2>1, <2>2, <2>3 DEF ChatOf, Reply!Turns
  <1>1. ASSUME NEW t \in Reply!Turns, NEW k \in {"started", "item", "request", "end"},
               NEW p \in Phases, TurnSays(t, k, p)
        PROVE  Says(t, k, p)
    <2>1. [kind |-> k, chat |-> ChatOf(t), turn |-> t] \in Reply!Events
      BY <1>0 DEF Reply!Events
    <2>2. QED
      BY <1>0, <1>1, <2>1, GrowsMeans DEF Says, TurnSays
  <1>2. ASSUME NEW m \in Reply!Messages, Refused(m)
        PROVE  /\ UNCHANGED <<prompted, phase, nodeTurns>>
               /\ \E c \in Chats, n \in Nat :
                    Grows(n, [kind |-> "refused", chat |-> c, turn |-> 0])
    <2>1. /\ [kind |-> "refused", chat |-> chat[m], turn |-> 0] \in Reply!Events
          /\ chat[m] \in Chats
      BY <1>0, <1>2 DEF Refused, Reply!Events
    <2>2. QED
      BY <1>0, <1>2, <2>1, GrowsMeans DEF Refused, Reply!Emit
  <1>3. ASSUME NEW m \in Reply!Messages, Reply!ReadEvent(m)
        PROVE  \E e \in Reply!Events : Reads(m, e)
    BY <1>0, <1>3, ReadEventMeans, ShrinksMeans DEF Passes, Reads
  <1>4. QED
    BY <1>1, <1>2, <1>3, ReplySteps DEF Starts, DecidedHere, Decision, Reply!Arrive,
      Reply!GiveUp, Reply!Settle, Reply!vars, Reply!turnVars, Reply!approvalVars

(* Turn numbers are numbers, and what the stream says of a turn names its chat. *)
LEMMA StreamNames ==
  ASSUME ReplyTypes
  PROVE  /\ Reply!Turns \subseteq Nat \ {0}
         /\ \A i \in DOMAIN stream : stream[i].kind # "refused" =>
              stream[i].turn \in Reply!Turns /\ stream[i].chat = ChatOf(stream[i].turn)
         /\ \A i \in DOMAIN stream : stream[i].kind = "refused" => stream[i].turn \notin Reply!Turns
         /\ \A k \in DOMAIN prompted : prompted[k] \in Reply!Turns
  <1>1. nodeTurns \in Seq([chat : Chats, by : 0..MaxMessages]) /\ prompted \in Seq(Reply!Turns)
    BY DEF ReplyTypes, TurnTypes, ToldTypes
  <1>2. Reply!Turns \subseteq Nat \ {0}
    BY <1>1, SeqPlaces DEF Reply!Turns
  <1>3. \A k \in DOMAIN prompted : prompted[k] \in Reply!Turns
    BY <1>1, SeqPlaces
  <1>4. QED
    BY <1>2, <1>3 DEF ReplyTypes, StreamTypes

(* A request is of a turn that runs, hence the latest of its chat to ask. *)
LEMMA RequestsInOrderStep ==
  ASSUME ReplyTypes, OneTurnRuns, RequestsInOrder, [Reply!Next]_(Reply!vars)
  PROVE  RequestsInOrder'
  <1> DEFINE Asks(i) == stream[i].kind = "request"
             Past(t) == phase[t] \notin {"submitted", "running"}
             TypesOK == /\ Reply!Turns \subseteq Nat
                        /\ \A i \in DOMAIN stream : Asks(i) =>
                             stream[i].turn \in Reply!Turns /\ stream[i].chat = ChatOf(stream[i].turn)
                        /\ \A k \in DOMAIN prompted : prompted[k] \in Reply!Turns
             One == \A i, j \in DOMAIN stream :
                      i < j /\ Asks(i) /\ Asks(j) /\ stream[i].chat = stream[j].chat
                        => stream[i].turn < stream[j].turn
             Two == \A k \in DOMAIN prompted, j \in DOMAIN stream :
                      Asks(j) /\ stream[j].chat = ChatOf(prompted[k])
                        => prompted[k] < stream[j].turn
             Three == \A j \in DOMAIN stream : Asks(j) => Past(stream[j].turn)
             Four == \A k \in DOMAIN prompted : Past(prompted[k])
  <1>0. TypesOK /\ One /\ Two /\ Three /\ Four
    BY StreamNames DEF RequestsInOrder
  <1>1. \A t \in Reply!Turns : ChatOf(t)' = ChatOf(t) /\ (Past(t) => Past(t)')
    BY TurnsGoOn
  <1>2. SUFFICES One' /\ Two' /\ Three' /\ Four'
    BY DEF RequestsInOrder
  <1>3. CASE UNCHANGED <<stream, prompted>>
    <2>1. (\A j : Asks(j)' = Asks(j)) /\ One'
      BY <1>0, <1>3
    <2>2. \A k \in DOMAIN prompted : ChatOf(prompted[k])' = ChatOf(prompted[k])
      BY <1>0, <1>1, <1>3 DEF ChatOf
    <2>3. Two'
      BY <1>0, <1>3, <2>2 DEF ChatOf
    <2>4. Three' /\ Four'
      BY <1>0, <1>1, <1>3
    <2>5. QED
      BY <2>1, <2>3, <2>4
  <1>4. ASSUME NEW n \in Nat, NEW e, Grows(n, e), UNCHANGED prompted,
               e.kind = "request" =>
                 /\ e.turn \in Reply!Turns /\ e.chat = ChatOf(e.turn) /\ phase[e.turn] = "running"
                 /\ phase'[e.turn] = "asking"
        PROVE  One' /\ Two' /\ Three' /\ Four'
    <2>1. /\ DOMAIN stream' = DOMAIN stream \cup {n} /\ n \notin DOMAIN stream
          /\ \A i \in DOMAIN stream : i \in Nat /\ i < n /\ stream'[i] = stream[i]
          /\ stream'[n] = e /\ DOMAIN stream \subseteq Nat
      BY <1>4 DEF Grows
    <2>2. ASSUME e.kind = "request", NEW t \in Reply!Turns, ChatOf(t) = e.chat, Past(t)
          PROVE  t < e.turn
      <3>1. t # e.turn /\ phase[e.turn] # "over" /\ e.turn \in Reply!Turns
            /\ ChatOf(t) = ChatOf(e.turn)
        BY <1>4, <2>2
      <3>2. ~(e.turn < t)
        BY <2>2, <3>1 DEF OneTurnRuns
      <3>3. t \in Nat /\ e.turn \in Nat
        BY <1>0, <3>1
      <3>4. QED
        BY <3>1, <3>2, <3>3
    <2>3. One'
      <3>1. SUFFICES ASSUME NEW i \in DOMAIN stream', NEW j \in DOMAIN stream', i < j,
                            Asks(i)', Asks(j)', stream'[i].chat = stream'[j].chat
                     PROVE  stream'[i].turn < stream'[j].turn
        BY Zenon
      <3>2. i \in DOMAIN stream
        BY <1>4, <2>1, <3>1
      <3>3. CASE j = n
        BY <1>0, <2>1, <2>2, <3>1, <3>2, <3>3
      <3>4. CASE j # n
        BY <1>0, <2>1, <3>1, <3>2, <3>4
      <3>5. QED
        BY <3>3, <3>4
    <2>4. Two'
      <3>1. SUFFICES ASSUME NEW k \in DOMAIN prompted', NEW j \in DOMAIN stream',
                            Asks(j)', stream'[j].chat = ChatOf(prompted[k])'
                     PROVE  prompted'[k] < stream'[j].turn
        BY Zenon
      <3>2. /\ prompted' = prompted /\ k \in DOMAIN prompted /\ prompted[k] \in Reply!Turns
            /\ stream'[j].chat = ChatOf(prompted[k])
        BY <1>0, <1>1, <1>4, <3>1
      <3>3. CASE j = n
        BY <1>0, <2>1, <2>2, <3>1, <3>2, <3>3
      <3>4. CASE j # n
        BY <1>0, <2>1, <3>1, <3>2, <3>4
      <3>5. QED
        BY <3>3, <3>4
    <2>5. Three'
      BY <1>0, <1>1, <1>4, <2>1
    <2>6. Four'
      BY <1>0, <1>1, <1>4
    <2>7. QED
      BY <2>3, <2>4, <2>5, <2>6
  <1>5. ASSUME NEW m \in Reply!Messages, NEW e \in Reply!Events, Reads(m, e)
        PROVE  One' /\ Two' /\ Three' /\ Four'
    <2>1. /\ \A i \in DOMAIN stream' :
               i \in Nat /\ i + 1 \in DOMAIN stream /\ 1 < i + 1 /\ stream'[i] = stream[i + 1]
          /\ 1 \in DOMAIN stream /\ e = stream[1]
      BY <1>5 DEF Reads, Shrinks, Passes
    <2>2. One'
      <3>1. SUFFICES ASSUME NEW i \in DOMAIN stream', NEW j \in DOMAIN stream', i < j,
                            Asks(i)', Asks(j)', stream'[i].chat = stream'[j].chat
                     PROVE  stream'[i].turn < stream'[j].turn
        BY Zenon
      <3>2. i + 1 < j + 1
        BY <2>1, <3>1
      <3>3. QED
        BY <1>0, <2>1, <3>1, <3>2
    <2>3. Three'
      BY <1>0, <1>1, <2>1
    <2>4. ASSUME UNCHANGED prompted
          PROVE  Two' /\ Four'
      BY ZenonT(60), <1>0, <1>1, <2>1, <2>4
    <2>5. ASSUME prompted' = Append(prompted, e.turn), e.kind = "request"
          PROVE  Two' /\ Four'
      <3>1. /\ DOMAIN prompted' = DOMAIN prompted \cup {Len(prompted) + 1}
            /\ \A k \in DOMAIN prompted : prompted'[k] = prompted[k]
            /\ prompted'[Len(prompted) + 1] = e.turn
            /\ e.turn \in Reply!Turns /\ e.chat = ChatOf(e.turn)
        <4>1. prompted \in Seq(Reply!Turns) /\ e.turn \in Reply!Turns
          BY <1>0, <2>1, <2>5 DEF ReplyTypes, ToldTypes
        <4>2. QED
          BY <1>0, <2>1, <2>5, <4>1, AppendPlaces
      <3>2. Four'
        <4>1. Past(e.turn)
          BY <1>0, <2>1, <2>5
        <4>2. SUFFICES ASSUME NEW k \in DOMAIN prompted' PROVE Past(prompted[k])'
          OBVIOUS
        <4>3. prompted'[k] \in Reply!Turns /\ Past(prompted'[k])
          BY <1>0, <3>1, <4>1
        <4>4. QED
          BY <1>1, <4>3
      <3>3. SUFFICES ASSUME NEW k \in DOMAIN prompted', NEW j \in DOMAIN stream',
                            Asks(j)', stream'[j].chat = ChatOf(prompted[k])'
                     PROVE  prompted'[k] < stream'[j].turn
        BY <3>2, Zenon
      <3>4. /\ stream[j + 1].kind = "request" /\ stream'[j] = stream[j + 1]
            /\ j + 1 \in DOMAIN stream /\ 1 < j + 1
        BY <2>1, <3>3
      <3>5. CASE k \in DOMAIN prompted
        <4>1. prompted'[k] = prompted[k] /\ stream[j + 1].chat = ChatOf(prompted[k])
          BY <1>0, <1>1, <3>1, <3>3, <3>4, <3>5 DEF ChatOf
        <4>2. QED
          BY <1>0, <3>4, <3>5, <4>1
      <3>6. CASE k = Len(prompted) + 1
        <4>1. prompted'[k] = e.turn /\ stream[j + 1].chat = stream[1].chat
          BY <1>1, <2>1, <3>1, <3>3, <3>4, <3>6 DEF ChatOf
        <4>2. QED
          BY <1>0, <2>1, <2>5, <3>4, <4>1
      <3>7. QED
        BY <3>1, <3>5, <3>6
    <2>6. QED
      BY <1>5, <2>2, <2>3, <2>4, <2>5 DEF Reads, Ignores, Tells, Registers
  <1>6. ASSUME NEW t \in Reply!Turns, NEW k \in {"started", "item", "request", "end"},
               NEW p \in Phases, Says(t, k, p)
        PROVE  One' /\ Two' /\ Three' /\ Four'
    <2>1. PICK n \in Nat : Grows(n, [kind |-> k, chat |-> ChatOf(t), turn |-> t])
      BY <1>6 DEF Says
    <2>2. /\ UNCHANGED prompted
          /\ k = "request" => phase[t] = "running" /\ phase'[t] = "asking"
      <3>1. TurnSays(t, k, p) /\ DOMAIN phase = Reply!Turns
        BY <1>6 DEF Says, ReplyTypes, TurnTypes, Reply!Turns
      <3>2. QED
        BY <3>1 DEF TurnSays
    <2>3. QED
      BY <1>4, <2>1, <2>2
  <1>7. ASSUME NEW c \in Chats, NEW n \in Nat, UNCHANGED prompted,
               Grows(n, [kind |-> "refused", chat |-> c, turn |-> 0])
        PROVE  One' /\ Two' /\ Three' /\ Four'
    BY <1>4, <1>7
  <1>8. QED
    <2> HIDE DEF One, Two, Three, Four
    <2>1. QED
      BY <1>3, <1>5, <1>6, <1>7, StreamMoves

(* Cards are sent with the requests they are for, and turned off together with
   the pending entry they stand for. *)
LEMMA CardsStandForPendingStep ==
  ASSUME ReplyTypes, CardsStandForPending, Reply!CardDecidesItsRequest,
         [Reply!Next]_(Reply!vars)
  PROVE  CardsStandForPending' /\ Reply!CardDecidesItsRequest'
  <1>0. /\ cards \in Seq(Chats \cup {NoChat}) /\ prompted \in Seq(Reply!Turns)
        /\ DOMAIN cards = 1..Len(cards) /\ DOMAIN prompted = 1..Len(prompted)
        /\ Len(prompted) \in Nat /\ DOMAIN pending = Chats /\ NoChat \notin Chats
        /\ \A k \in DOMAIN cards : cards[k] \in Chats \cup {NoChat}
        /\ StreamTypes
    <2>1. /\ cards \in Seq(Chats \cup {NoChat}) /\ prompted \in Seq(Reply!Turns)
          /\ DOMAIN pending = Chats /\ StreamTypes
      BY DEF ReplyTypes, ToldTypes
    <2>2. QED
      BY <2>1, SeqPlaces, PartsAssumption
  <1>1. /\ DOMAIN cards = IF withCards THEN DOMAIN prompted ELSE {}
        /\ Len(cards) = IF withCards THEN Len(prompted) ELSE 0
    BY <1>0 DEF CardsStandForPending
  <1>2. ASSUME NEW e \in Reply!Events, e.chat \in Chats, e.turn \in Reply!Turns, Registers(e),
               UNCHANGED <<withCards, clicked>>
        PROVE  CardsStandForPending' /\ Reply!CardDecidesItsRequest'
    <2>1. /\ Len(prompted') = Len(prompted) + 1 /\ prompted'[Len(prompted) + 1] = e.turn
          /\ DOMAIN prompted' = DOMAIN prompted \cup {Len(prompted) + 1}
          /\ \A k \in DOMAIN prompted : prompted'[k] = prompted[k]
      BY <1>0, <1>2, AppendPlaces DEF Registers
    <2>2. /\ \A k \in DOMAIN cards : cards'[k] = IF cards[k] = e.chat THEN NoChat ELSE cards[k]
          /\ IF withCards
             THEN /\ Len(cards') = Len(cards) + 1 /\ cards'[Len(cards) + 1] = e.chat
                  /\ DOMAIN cards' = DOMAIN cards \cup {Len(cards) + 1}
             ELSE Len(cards') = Len(cards) /\ DOMAIN cards' = DOMAIN cards
      BY <1>0, <1>2, CardsPlaces DEF Registers
    <2>3. pending' = [pending EXCEPT ![e.chat] = e.turn]
      BY <1>2 DEF Registers
    <2>4. Len(cards') = IF withCards' THEN Len(prompted') ELSE 0
      BY <1>0, <1>1, <1>2, <2>1, <2>2
    <2>5. ASSUME NEW k \in DOMAIN cards', cards'[k] # NoChat
          PROVE  pending'[cards'[k]] = prompted'[k]
      <3>1. CASE k \in DOMAIN cards
        <4>1. /\ cards'[k] = cards[k] /\ cards[k] # e.chat /\ cards[k] \in Chats
              /\ prompted'[k] = prompted[k]
          BY <1>0, <1>1, <2>1, <2>2, <2>5, <3>1
        <4>2. pending'[cards[k]] = pending[cards[k]]
          BY <1>0, <2>3, <4>1
        <4>3. QED
          BY <2>5, <3>1, <4>1, <4>2 DEF CardsStandForPending
      <3>2. CASE k \notin DOMAIN cards
        BY <1>0, <1>1, <1>2, <2>1, <2>2, <2>3, <3>2
      <3>3. QED
        BY <3>1, <3>2
    <2>6. \A click \in clicked' : click.card \in DOMAIN prompted'
      BY <1>2, <2>1 DEF CardsStandForPending
    <2>7. \A click \in clicked' : prompted'[click.card] = click.request
      BY <1>2, <2>1 DEF CardsStandForPending, Reply!CardDecidesItsRequest
    <2>8. QED
      BY <2>4, <2>5, <2>6, <2>7 DEF CardsStandForPending, Reply!CardDecidesItsRequest
  <1>3. ASSUME NEW c \in Chats, DecidedHere(c)
        PROVE  CardsStandForPending' /\ Reply!CardDecidesItsRequest'
    <2>1. /\ Len(cards') = Len(cards) /\ DOMAIN cards' = DOMAIN cards
          /\ \A k \in DOMAIN cards : cards'[k] = IF cards[k] = c THEN NoChat ELSE cards[k]
      BY <1>0, <1>3, CardsPlaces DEF DecidedHere
    <2>2. /\ pending' = [pending EXCEPT ![c] = 0] /\ UNCHANGED <<prompted, withCards>>
          /\ \/ clicked' = clicked
             \/ \E k \in DOMAIN cards :
                  cards[k] = c /\ clicked' = clicked \cup {[card |-> k, request |-> pending[c]]}
      BY <1>3 DEF DecidedHere, Decision
    <2>3. \A k \in DOMAIN cards' : cards'[k] # NoChat => pending'[cards'[k]] = prompted'[k]
      BY <1>0, <2>1, <2>2 DEF CardsStandForPending
    <2>4. \A click \in clicked' :
            click.card \in DOMAIN prompted' /\ prompted'[click.card] = click.request
      <3>1. ASSUME NEW k \in DOMAIN cards, cards[k] = c
            PROVE  k \in DOMAIN prompted /\ prompted[k] = pending[c]
        BY <1>0, <1>1, <3>1 DEF CardsStandForPending
      <3>2. QED
        BY <2>2, <3>1 DEF CardsStandForPending, Reply!CardDecidesItsRequest
    <2>5. QED
      BY <2>1, <2>2, <2>3, <2>4 DEF CardsStandForPending, Reply!CardDecidesItsRequest
  <1>4. CASE UNCHANGED <<cards, pending, prompted, clicked, withCards>>
    BY <1>4 DEF CardsStandForPending, Reply!CardDecidesItsRequest
  <1>5. ASSUME NEW m \in Reply!Messages, Reply!ReadEvent(m)
        PROVE  CardsStandForPending' /\ Reply!CardDecidesItsRequest'
    <2>1. PICK e \in Reply!Events : Passes(m, e) /\ (Ignores(m, e) \/ Tells(m, e))
      BY <1>0, <1>5, ReadEventMeans
    <2>2. e.chat \in Chats /\ (e.kind = "request" => e.turn \in Reply!Turns)
      BY <1>0, <2>1, HeadEvent
    <2>3. UNCHANGED <<clicked, withCards>>
      BY <2>1 DEF Passes
    <2>4. \/ UNCHANGED <<cards, pending, prompted>>
          \/ e.kind = "request" /\ Registers(e)
      BY <2>1 DEF Ignores, Tells
    <2>5. QED
      BY <1>2, <1>4, <2>2, <2>3, <2>4
  <1>6. QED
    BY <1>3, <1>4, <1>5, ReplySteps DEF Decision, Reply!Arrive, Refused, TurnSays, Starts,
      Reply!GiveUp, Reply!Settle, Reply!vars, Reply!turnVars, Reply!approvalVars

(* A later request in the chat of one that is undecided would be of a later turn,
   and the turn of the first would be over. *)
LEMMA PromptStaysAnswerableStep ==
  ASSUME ReplyTypes, OneTurnRuns, RequestsInOrder, CardsStandForPending,
         Reply!PromptStaysAnswerable, [Reply!Next]_(Reply!vars)
  PROVE  Reply!PromptStaysAnswerable'
  <1> DEFINE Answerable(i) == /\ pending[ChatOf(prompted[i])] = prompted[i]
                              /\ withCards => cards[i] = ChatOf(prompted[i])
  <1>0. /\ cards \in Seq(Chats \cup {NoChat}) /\ prompted \in Seq(Reply!Turns)
        /\ DOMAIN pending = Chats /\ StreamTypes /\ TurnTypes
        /\ DOMAIN prompted = 1..Len(prompted) /\ Len(prompted) \in Nat
        /\ withCards => DOMAIN cards = DOMAIN prompted /\ Len(cards) = Len(prompted)
    <2>1. /\ cards \in Seq(Chats \cup {NoChat}) /\ prompted \in Seq(Reply!Turns)
          /\ DOMAIN pending = Chats /\ StreamTypes /\ TurnTypes
      BY DEF ReplyTypes, ToldTypes
    <2>2. QED
      BY <2>1, SeqPlaces DEF CardsStandForPending
  <1>1. /\ Reply!Turns \subseteq Nat /\ \A i \in DOMAIN prompted : prompted[i] \in Reply!Turns
        /\ \A t \in Reply!Turns : ChatOf(t) \in Chats
    <2>1. nodeTurns \in Seq([chat : Chats, by : 0..MaxMessages])
      BY DEF ReplyTypes, TurnTypes
    <2>2. \A t \in Reply!Turns : nodeTurns[t] \in [chat : Chats, by : 0..MaxMessages]
      BY <2>1, SeqPlaces DEF Reply!Turns
    <2>3. QED
      BY <2>2, StreamNames DEF ChatOf
  <1>2. \A t \in Reply!Turns :
          /\ nodeTurns'[t] = nodeTurns[t]
          /\ phase'[t] = "asking" => phase[t] \in {"running", "asking"}
    BY TurnsGoOn
  <1>3. \A i \in DOMAIN prompted : phase'[prompted[i]] = "asking" =>
          phase[prompted[i]] = "asking" /\ Answerable(i)
    BY <1>1, <1>2 DEF RequestsInOrder, Reply!PromptStaysAnswerable, ChatOf
  <1>4. SUFFICES \A i \in DOMAIN prompted' : phase'[prompted'[i]] = "asking" =>
                   /\ pending'[nodeTurns'[prompted'[i]].chat] = prompted'[i]
                   /\ withCards' => cards'[i] = nodeTurns'[prompted'[i]].chat
    BY DEF Reply!PromptStaysAnswerable
  <1>5. CASE UNCHANGED <<cards, pending, prompted, withCards>>
    BY <1>1, <1>2, <1>3, <1>5 DEF ChatOf
  <1>6. ASSUME NEW c \in Chats, DecidedHere(c)
        PROVE  \A i \in DOMAIN prompted' : phase'[prompted'[i]] = "asking" =>
                 /\ pending'[nodeTurns'[prompted'[i]].chat] = prompted'[i]
                 /\ withCards' => cards'[i] = nodeTurns'[prompted'[i]].chat
    <2>1. /\ \A k \in DOMAIN cards : cards'[k] = IF cards[k] = c THEN NoChat ELSE cards[k]
          /\ pending' = [pending EXCEPT ![c] = 0] /\ UNCHANGED <<prompted, withCards>>
          /\ pending[c] \in Reply!Turns /\ Reply!Decided(pending[c])
      BY <1>0, <1>6, CardsPlaces DEF DecidedHere, Decision
    <2>2. phase'[pending[c]] # "asking"
      BY <1>0, <2>1, DecidedMeans
    <2>3. SUFFICES ASSUME NEW i \in DOMAIN prompted, phase'[prompted[i]] = "asking"
                   PROVE  /\ pending'[ChatOf(prompted[i])] = prompted[i]
                          /\ withCards => cards'[i] = ChatOf(prompted[i])
      BY <1>1, <1>2, <2>1 DEF ChatOf
    <2>4. Answerable(i) /\ ChatOf(prompted[i]) # c /\ ChatOf(prompted[i]) \in Chats
      BY <1>1, <1>3, <2>2, <2>3
    <2>5. pending'[ChatOf(prompted[i])] = pending[ChatOf(prompted[i])]
      BY <1>0, <2>1, <2>4
    <2>6. withCards => cards'[i] = ChatOf(prompted[i])
      BY <1>0, <2>1, <2>3, <2>4
    <2>7. QED
      BY <2>4, <2>5, <2>6
  <1>7. ASSUME NEW e \in Reply!Events, 1 \in DOMAIN stream, e = stream[1], e.kind = "request",
               Registers(e), UNCHANGED <<withCards, phase>>
        PROVE  \A i \in DOMAIN prompted' : phase'[prompted'[i]] = "asking" =>
                 /\ pending'[nodeTurns'[prompted'[i]].chat] = prompted'[i]
                 /\ withCards' => cards'[i] = nodeTurns'[prompted'[i]].chat
    <2>1. e.turn \in Reply!Turns /\ e.chat = ChatOf(e.turn) /\ e.chat \in Chats
      BY <1>1, <1>7, StreamNames
    <2>2. /\ DOMAIN prompted' = DOMAIN prompted \cup {Len(prompted) + 1}
          /\ \A k \in DOMAIN prompted : prompted'[k] = prompted[k]
          /\ prompted'[Len(prompted) + 1] = e.turn
      BY <1>0, <1>7, <2>1, AppendPlaces DEF Registers
    <2>3. /\ \A k \in DOMAIN cards : cards'[k] = IF cards[k] = e.chat THEN NoChat ELSE cards[k]
          /\ withCards => cards'[Len(cards) + 1] = e.chat
      BY <1>0, <1>7, <2>1, CardsPlaces DEF Registers
    <2>4. pending' = [pending EXCEPT ![e.chat] = e.turn]
      BY <1>7 DEF Registers
    <2>5. ASSUME NEW i \in DOMAIN prompted, phase[prompted[i]] = "asking"
          PROVE  /\ pending'[ChatOf(prompted[i])] = prompted[i]
                 /\ withCards => cards'[i] = ChatOf(prompted[i])
      <3>1. prompted[i] \in Reply!Turns /\ ChatOf(prompted[i]) \in Chats /\ Answerable(i)
        BY <1>1, <1>3, <1>7, <2>5
      <3>2. ChatOf(prompted[i]) # e.chat
        <4>1. SUFFICES ASSUME ChatOf(prompted[i]) = e.chat PROVE FALSE
          OBVIOUS
        <4>2. prompted[i] < e.turn
          BY <1>7, <2>5, <4>1 DEF RequestsInOrder
        <4>3. phase[prompted[i]] = "over"
          BY <2>1, <3>1, <4>1, <4>2 DEF OneTurnRuns
        <4>4. QED
          BY <2>5, <4>3
      <3>3. pending'[ChatOf(prompted[i])] = pending[ChatOf(prompted[i])]
        BY <1>0, <2>4, <3>1, <3>2
      <3>4. withCards => cards'[i] = cards[i]
        BY <1>0, <2>3, <3>1, <3>2
      <3>5. QED
        BY <3>1, <3>3, <3>4
    <2>6. /\ pending'[ChatOf(e.turn)] = e.turn
          /\ withCards => cards'[Len(prompted) + 1] = ChatOf(e.turn)
      BY <1>0, <2>1, <2>3, <2>4
    <2>7. TAKE i \in DOMAIN prompted'
    <2>8. CASE i \in DOMAIN prompted
      <3>1. prompted'[i] = prompted[i] /\ prompted[i] \in Reply!Turns
        BY <1>1, <2>2, <2>8
      <3>2. nodeTurns'[prompted[i]] = nodeTurns[prompted[i]]
        BY <1>2, <3>1
      <3>3. QED
        BY <1>7, <2>5, <2>8, <3>1, <3>2 DEF ChatOf
    <2>9. CASE i = Len(prompted) + 1
      BY <1>2, <1>7, <2>1, <2>2, <2>6, <2>9 DEF ChatOf
    <2>10. QED
      BY <2>2, <2>8, <2>9
  <1>8. ASSUME NEW m \in Reply!Messages, Reply!ReadEvent(m)
        PROVE  \A i \in DOMAIN prompted' : phase'[prompted'[i]] = "asking" =>
                 /\ pending'[nodeTurns'[prompted'[i]].chat] = prompted'[i]
                 /\ withCards' => cards'[i] = nodeTurns'[prompted'[i]].chat
    <2>1. PICK e \in Reply!Events : Passes(m, e) /\ (Ignores(m, e) \/ Tells(m, e))
      BY <1>0, <1>8, ReadEventMeans
    <2>2. UNCHANGED <<phase, withCards>> /\ 1 \in DOMAIN stream /\ e = stream[1]
      BY <2>1 DEF Passes
    <2>3. \/ UNCHANGED <<cards, pending, prompted>>
          \/ e.kind = "request" /\ Registers(e)
      BY <2>1 DEF Ignores, Tells
    <2>4. QED
      BY <1>5, <1>7, <2>2, <2>3
  <1>9. QED
    BY <1>5, <1>6, <1>8, ReplySteps DEF Decision, Reply!Arrive, Refused, TurnSays, Starts,
      Reply!GiveUp, Reply!Settle, Reply!vars, Reply!turnVars, Reply!approvalVars

(* A turn says items alone once it is over. *)
LEMMA EndComesLastStep ==
  ASSUME ReplyTypes, EndComesLast, [Reply!Next]_(Reply!vars)
  PROVE  EndComesLast'
  <1> DEFINE One == \A i \in DOMAIN stream :
                      stream[i].kind = "end" => phase[stream[i].turn] = "over"
             Two == \A i, j \in DOMAIN stream :
                      i < j /\ stream[i].kind = "end" /\ stream[j].turn = stream[i].turn
                        => stream[j].kind = "item"
  <1>0. /\ One /\ Two
        /\ \A i \in DOMAIN stream : stream[i].kind = "end" => stream[i].turn \in Reply!Turns
        /\ \A t \in Reply!Turns : phase[t] = "over" => phase'[t] = "over"
        /\ 0 \notin Reply!Turns
    BY StreamNames, TurnsGoOn DEF EndComesLast
  <1>1. SUFFICES One' /\ Two'
    BY DEF EndComesLast
  <1>2. CASE UNCHANGED <<stream, prompted>>
    BY <1>0, <1>2
  <1>3. ASSUME NEW n \in Nat, NEW e, Grows(n, e),
               e.kind = "end" => phase'[e.turn] = "over",
               e.turn \in Reply!Turns /\ phase[e.turn] = "over" => e.kind = "item"
        PROVE  One' /\ Two'
    <2>1. /\ DOMAIN stream' = DOMAIN stream \cup {n} /\ n \notin DOMAIN stream
          /\ \A i \in DOMAIN stream : i \in Nat /\ i < n /\ stream'[i] = stream[i]
          /\ stream'[n] = e
      BY <1>3 DEF Grows
    <2>2. One'
      BY <1>0, <1>3, <2>1
    <2>3. ASSUME NEW i \in DOMAIN stream', NEW j \in DOMAIN stream', i < j,
                 stream'[i].kind = "end", stream'[j].turn = stream'[i].turn
          PROVE  stream'[j].kind = "item"
      <3>1. i \in DOMAIN stream
        BY <1>3, <2>1, <2>3
      <3>2. /\ stream[i].kind = "end" /\ stream[i].turn \in Reply!Turns
            /\ phase[stream[i].turn] = "over" /\ stream'[j].turn = stream[i].turn
        BY <1>0, <2>1, <2>3, <3>1
      <3>3. CASE j = n
        BY <1>3, <2>1, <3>2, <3>3
      <3>4. CASE j # n
        BY <1>0, <2>1, <2>3, <3>1, <3>2, <3>4
      <3>5. QED
        BY <3>3, <3>4
    <2>4. QED
      BY <2>2, <2>3
  <1>4. ASSUME NEW t \in Reply!Turns, NEW k \in {"started", "item", "request", "end"},
               NEW p \in Phases, Says(t, k, p)
        PROVE  One' /\ Two'
    <2>1. PICK n \in Nat : Grows(n, [kind |-> k, chat |-> ChatOf(t), turn |-> t])
      BY <1>4 DEF Says
    <2>2. (k = "end" => phase'[t] = "over") /\ (phase[t] = "over" => k = "item")
      <3>1. TurnSays(t, k, p) /\ DOMAIN phase = Reply!Turns
        BY <1>4 DEF Says, ReplyTypes, TurnTypes, Reply!Turns
      <3>2. QED
        BY <3>1 DEF TurnSays
    <2>3. QED
      BY <1>3, <2>1, <2>2
  <1>5. ASSUME NEW c \in Chats, NEW n \in Nat,
               Grows(n, [kind |-> "refused", chat |-> c, turn |-> 0])
        PROVE  One' /\ Two'
    BY <1>0, <1>3, <1>5
  <1>6. ASSUME NEW m \in Reply!Messages, NEW e \in Reply!Events, Reads(m, e)
        PROVE  One' /\ Two'
    <2>1. \A i \in DOMAIN stream' :
            i \in Nat /\ i + 1 \in DOMAIN stream /\ stream'[i] = stream[i + 1]
      BY <1>6 DEF Reads, Shrinks
    <2>2. One'
      BY <1>0, <2>1
    <2>3. ASSUME NEW i \in DOMAIN stream', NEW j \in DOMAIN stream', i < j,
                 stream'[i].kind = "end", stream'[j].turn = stream'[i].turn
          PROVE  stream'[j].kind = "item"
      <3>1. i + 1 < j + 1
        BY <2>1, <2>3
      <3>2. QED
        BY <1>0, <2>1, <2>3, <3>1
    <2>4. QED
      BY <2>2, <2>3
  <1>7. QED
    <2> HIDE DEF One, Two
    <2>1. QED
      BY <1>2, <1>4, <1>5, <1>6, StreamMoves

(* What comes through the gate of a handler in a chat without strays is of the
   turn of its own message. *)
LEMMA GateIsOwn ==
  ASSUME ReplyTypes, OneTurnPerMessage, HandlersKeepToTheirs, NEW m \in Reply!Messages,
         NEW e \in Reply!Events, Passes(m, e), Reply!Gate(m, e), e.kind # "refused",
         chat[m] \notin strayed
  PROVE  e.turn \in Reply!Turns /\ nodeTurns[e.turn].by = m
  <1>1. /\ e.turn \in Reply!Turns /\ e.chat = ChatOf(e.turn) /\ e.chat = chat[m]
        /\ e.kind \in {"started", "item", "end"} => Reply!TurnOf(e) = e.turn
        /\ e.turn # 0 /\ 1 \in DOMAIN stream /\ e = stream[1] /\ pc[m] = "listening"
    BY HeadEvent, StreamNames DEF ReplyTypes, Reply!Gate, Passes
  <1>2. CASE e.kind \in {"started", "request"}
    <2>1. nodeTurns[e.turn].by # 0 /\ pc[nodeTurns[e.turn].by] # "gone"
      BY ZenonT(60), <1>1, <1>2 DEF HandlersKeepToTheirs
    <2>2. pc[nodeTurns[e.turn].by] = "listening"
      BY <1>1, <2>1 DEF OneTurnPerMessage
    <2>3. nodeTurns[e.turn].by \in Reply!Messages
      <3>1. nodeTurns[e.turn] \in [chat : Chats, by : 0..MaxMessages]
        BY <1>1, SeqPlaces DEF ReplyTypes, TurnTypes, Reply!Turns
      <3>2. QED
        BY <2>1, <3>1, PartsAssumption DEF Reply!Messages
    <2>4. QED
      BY <1>1, <2>2, <2>3 DEF ReplyTypes, LineTypes
  <1>3. CASE e.kind \in {"item", "end"}
    BY <1>1, <1>3 DEF Reply!Gate, HandlersKeepToTheirs
  <1>4. QED
    BY <1>2, <1>3 DEF Reply!Events

(* A handler that read the end of its turn leaves items behind; one that gave up
   before has a chat that counts as strayed. *)
LEMMA HandlersKeepToTheirsStep ==
  ASSUME ReplyTypes, OneTurnPerMessage, EndComesLast, HandlersKeepToTheirs,
         Reply!ReplyIsOfItsMessage, [Reply!Next]_(Reply!vars)
  PROVE  HandlersKeepToTheirs' /\ Reply!ReplyIsOfItsMessage'
  <1> DEFINE Fresh == \A m \in Reply!Messages :
                        pc[m] = "new" \/ pc[m] = "waiting" => bound[m] = 0 /\ shown[m] = {}
             Left == \A t \in Reply!Turns : ChatOf(t) \notin strayed =>
                       /\ nodeTurns[t].by # 0
                       /\ pc[nodeTurns[t].by] = "gone" =>
                            /\ phase[t] = "over"
                            /\ \A i \in DOMAIN stream : stream[i].turn = t => stream[i].kind = "item"
             Own == \A m \in Reply!Messages :
                      chat[m] \notin strayed =>
                        /\ bound[m] # 0 => nodeTurns[bound[m]].by = m
                        /\ \A t \in shown[m] : nodeTurns[t].by = m
  <1>0. /\ Fresh /\ Left /\ Own /\ ReplyTypes
        /\ TurnTypes /\ LineTypes /\ ToldTypes /\ StreamTypes
        /\ DOMAIN pc = Reply!Messages /\ DOMAIN chat = Reply!Messages
        /\ \A t \in Reply!Turns : nodeTurns[t].by # 0 =>
             nodeTurns[t].by \in Reply!Messages /\ pc[nodeTurns[t].by] \in {"listening", "gone"}
    <2>1. nodeTurns \in Seq([chat : Chats, by : 0..MaxMessages])
      BY DEF ReplyTypes, TurnTypes
    <2>2. \A t \in Reply!Turns : nodeTurns[t] \in [chat : Chats, by : 0..MaxMessages]
      BY <2>1, SeqPlaces DEF Reply!Turns
    <2>3. Fresh /\ Left /\ Own
      BY Zenon DEF HandlersKeepToTheirs, Reply!ReplyIsOfItsMessage
    <2>4. QED
      BY <2>2, <2>3, PartsAssumption DEF ReplyTypes, LineTypes, OneTurnPerMessage, Reply!Messages
  <1>1. SUFFICES Fresh' /\ Left' /\ Own'
    BY Zenon DEF HandlersKeepToTheirs, Reply!ReplyIsOfItsMessage, Reply!Messages
  <1>2. \A t \in Reply!Turns :
          /\ nodeTurns'[t] = nodeTurns[t] /\ ChatOf(t)' = ChatOf(t)
          /\ phase[t] = "over" => phase'[t] = "over"
    BY TurnsGoOn
  (* Left holds of a turn that there was, if its handler was gone before. *)
  <1>3. ASSUME strayed \subseteq strayed', NEW t \in Reply!Turns, ChatOf(t)' \notin strayed',
               pc'[nodeTurns[t].by] = "gone" => pc[nodeTurns[t].by] = "gone",
               \A i \in DOMAIN stream' :
                 (\E j \in DOMAIN stream : stream'[i] = stream[j]) \/ stream'[i].turn # t
                   \/ stream'[i].kind = "item" \/ phase[t] # "over"
        PROVE  /\ nodeTurns'[t].by # 0
               /\ pc'[nodeTurns'[t].by] = "gone" =>
                    /\ phase'[t] = "over"
                    /\ \A i \in DOMAIN stream' : stream'[i].turn = t => stream'[i].kind = "item"
    BY <1>0, <1>2, <1>3
  <1>4. ASSUME UNCHANGED <<bound, shown>>, strayed \subseteq strayed',
               \A m \in Reply!Messages : chat'[m] = chat[m] \/ pc[m] = "new"
        PROVE  Own'
    <2>1. \A m \in Reply!Messages :
            bound[m] \in {0} \cup Reply!Turns /\ shown[m] \subseteq Reply!Turns
      BY <1>0 DEF ToldTypes
    <2>2. SUFFICES ASSUME NEW m \in Reply!Messages, chat'[m] \notin strayed'
                   PROVE  /\ bound[m] # 0 => nodeTurns'[bound[m]].by = m
                          /\ \A t \in shown[m] : nodeTurns'[t].by = m
      BY <1>4 DEF Reply!Messages
    <2>3. CASE pc[m] = "new"
      BY <1>0, <2>3
    <2>4. CASE chat'[m] = chat[m]
      BY <1>0, <1>2, <1>4, <2>1, <2>2, <2>4
    <2>5. QED
      BY <1>4, <2>3, <2>4
  <1>5. ASSUME NEW c \in Chats, NEW who \in 0..MaxMessages, Starts(c, who)
        PROVE  Fresh' /\ Left' /\ Own'
    <2>1. PICK n \in Nat : TurnStarts(n, c, who)
      BY <1>0, <1>5, StartTurnMeans DEF Starts
    <2>2. /\ Reply!Turns' = Reply!Turns \cup {n} /\ nodeTurns'[n] = [chat |-> c, by |-> who]
      BY <2>1 DEF TurnStarts
    <2>3. /\ UNCHANGED <<chat, stream, bound, shown>> /\ strayed \subseteq strayed'
          /\ who = 0 => c \in strayed' /\ pc' = pc
          /\ who # 0 => /\ who \in Reply!Messages /\ pc[who] = "waiting"
                        /\ pc' = [pc EXCEPT ![who] = "listening"]
      <3>1. 0 \notin Reply!Messages
        BY PartsAssumption DEF Reply!Messages
      <3>2. QED
        BY <1>5, <3>1 DEF Starts
    <2>13. \A m \in Reply!Messages :
             pc'[m] = IF who # 0 /\ m = who THEN "listening" ELSE pc[m]
      BY <1>0, <2>3
    <2>4. Fresh'
      BY <1>0, <2>3, <2>13 DEF Reply!Messages
    <2>5. Own'
      BY <1>4, <2>3
    <2>6. \A t \in Reply!Turns : nodeTurns[t].by # 0 =>
            (pc'[nodeTurns[t].by] = "gone" => pc[nodeTurns[t].by] = "gone")
      BY <1>0, <2>13
    <2>7. ChatOf(n)' = c
      BY <2>2 DEF ChatOf
    <2>8. who # 0 => pc'[who] # "gone"
      BY <2>3, <2>13
    <2>9. SUFFICES ASSUME NEW t \in Reply!Turns', ChatOf(t)' \notin strayed'
                   PROVE  /\ nodeTurns'[t].by # 0
                          /\ pc'[nodeTurns'[t].by] = "gone" =>
                               /\ phase'[t] = "over"
                               /\ \A i \in DOMAIN stream' :
                                    stream'[i].turn = t => stream'[i].kind = "item"
      BY <2>4, <2>5
    <2>10. CASE t = n
      BY <2>2, <2>3, <2>7, <2>8, <2>9, <2>10
    <2>11. CASE t \in Reply!Turns
      <3>1. ChatOf(t) \notin strayed
        BY <1>2, <2>3, <2>9, <2>11
      <3>2. nodeTurns[t].by # 0
        BY <1>0, <2>11, <3>1
      <3>3. QED
        BY <1>3, <2>3, <2>6, <2>9, <2>11, <3>2
    <2>12. QED
      BY <2>2, <2>10, <2>11
  (* The same where no turn starts and no handler leaves on an end. *)
  <1>6. ASSUME UNCHANGED <<nodeTurns, bound, shown>>, strayed \subseteq strayed',
               \A m \in Reply!Messages : chat'[m] = chat[m] \/ pc[m] = "new",
               \A m \in Reply!Messages :
                 pc'[m] = "new" \/ pc'[m] = "waiting" => pc[m] = "new" \/ pc[m] = "waiting",
               \A t \in Reply!Turns : ChatOf(t) \notin strayed' =>
                 (pc'[nodeTurns[t].by] = "gone" => pc[nodeTurns[t].by] = "gone"),
               \A i \in DOMAIN stream', t \in Reply!Turns :
                 (\E j \in DOMAIN stream : stream'[i] = stream[j]) \/ stream'[i].turn # t
                   \/ stream'[i].kind = "item" \/ phase[t] # "over"
        PROVE  Fresh' /\ Left' /\ Own'
    <2>1. Fresh'
      BY <1>0, <1>6 DEF Reply!Messages
    <2>2. Own'
      BY <1>4, <1>6
    <2>3. Reply!Turns' = Reply!Turns
      BY <1>6 DEF Reply!Turns
    <2>4. Left'
      BY <1>2, <1>3, <1>6, <2>3
    <2>5. QED
      BY <2>1, <2>2, <2>4
  <1>7. ASSUME NEW m \in Reply!Messages, NEW c \in Chats, Reply!Arrive(m, c)
        PROVE  Fresh' /\ Left' /\ Own'
    <2>1. /\ UNCHANGED <<nodeTurns, bound, shown, stream, strayed>> /\ pc[m] = "new"
          /\ pc' = [pc EXCEPT ![m] = "waiting"] /\ chat' = [chat EXCEPT ![m] = c]
      BY <1>7 DEF Reply!Arrive, Reply!turnVars
    <2>2. \A n \in Reply!Messages : n # m => chat'[n] = chat[n] /\ pc'[n] = pc[n]
      BY <1>0, <2>1
    <2>3. pc'[m] = "waiting"
      BY <1>0, <2>1
    <2>4. \A t \in Reply!Turns : ChatOf(t) \notin strayed' =>
            (pc'[nodeTurns[t].by] = "gone" => pc[nodeTurns[t].by] = "gone")
      BY <1>0, <2>1, <2>2, <2>3
    <2>5. QED
      BY <1>6, <2>1, <2>2, <2>3, <2>4
  <1>8. ASSUME NEW m \in Reply!Messages, Refused(m)
        PROVE  Fresh' /\ Left' /\ Own'
    <2>1. /\ UNCHANGED <<nodeTurns, chat, bound, shown, strayed>> /\ pc[m] = "waiting"
          /\ pc' = [pc EXCEPT ![m] = "listening"]
          /\ stream' = Append(stream, [kind |-> "refused", chat |-> chat[m], turn |-> 0])
      BY <1>8 DEF Refused, Reply!Emit
    <2>2. [kind |-> "refused", chat |-> chat[m], turn |-> 0] \in Reply!Events
      BY <1>0, <2>1, PartsAssumption DEF Reply!Events, LineTypes
    <2>3. PICK n \in Nat : Grows(n, [kind |-> "refused", chat |-> chat[m], turn |-> 0])
      BY <1>0, <2>1, <2>2, GrowsMeans
    <2>4. \A i \in DOMAIN stream', t \in Reply!Turns :
            (\E j \in DOMAIN stream : stream'[i] = stream[j]) \/ stream'[i].turn # t
      BY <1>0, <2>3, StreamNames DEF Grows
    <2>5. /\ pc'[m] = "listening" /\ \A x \in Reply!Messages : x # m => pc'[x] = pc[x]
      BY <1>0, <2>1
    <2>6. \A t \in Reply!Turns : ChatOf(t) \notin strayed' =>
            (pc'[nodeTurns[t].by] = "gone" => pc[nodeTurns[t].by] = "gone")
      BY <1>0, <2>1, <2>5
    <2>7. QED
      BY <1>6, <2>1, <2>4, <2>5, <2>6
  <1>9. ASSUME NEW t \in Reply!Turns, NEW k \in {"started", "item", "request", "end"},
               NEW p \in Phases, Says(t, k, p)
        PROVE  Fresh' /\ Left' /\ Own'
    <2>1. PICK n \in Nat : Grows(n, [kind |-> k, chat |-> ChatOf(t), turn |-> t])
      BY <1>9 DEF Says
    <2>2. /\ UNCHANGED <<nodeTurns, chat, bound, shown, strayed, pc>>
          /\ phase[t] = "over" => k = "item"
      BY <1>9 DEF Says, TurnSays
    <2>3. \A i \in DOMAIN stream', u \in Reply!Turns :
            (\E j \in DOMAIN stream : stream'[i] = stream[j]) \/ stream'[i].turn # u
              \/ stream'[i].kind = "item" \/ phase[u] # "over"
      BY <2>1, <2>2 DEF Grows
    <2>4. QED
      BY <1>6, <2>2, <2>3
  <1>10. ASSUME NEW m \in Reply!Messages, Reply!GiveUp(m)
         PROVE  Fresh' /\ Left' /\ Own'
    <2>1. /\ UNCHANGED <<nodeTurns, chat, bound, shown, stream>>
          /\ strayed' = strayed \cup {chat[m]} /\ pc' = [pc EXCEPT ![m] = "gone"]
      BY <1>10 DEF Reply!GiveUp, Reply!Leave, Reply!turnVars
    <2>2. pc'[m] = "gone" /\ \A x \in Reply!Messages : x # m => pc'[x] = pc[x]
      BY <1>0, <2>1
    <2>3. ASSUME NEW t \in Reply!Turns, ChatOf(t) \notin strayed', pc'[nodeTurns[t].by] = "gone"
          PROVE  pc[nodeTurns[t].by] = "gone"
      <3>1. nodeTurns[t].by # 0 /\ nodeTurns[t].by \in Reply!Messages
        BY <1>0, <2>1, <2>3
      <3>2. nodeTurns[t].by # m
        BY <2>1, <2>3, <3>1 DEF OneTurnPerMessage
      <3>3. QED
        BY <2>2, <2>3, <3>1, <3>2
    <2>4. QED
      BY <1>6, <2>1, <2>2, <2>3
  <1>11. ASSUME UNCHANGED <<pc, chat, bound, stream, nodeTurns, shown, strayed>>
         PROVE  Fresh' /\ Left' /\ Own'
    BY <1>6, <1>11
  <1>12. ASSUME NEW m \in Reply!Messages, NEW e \in Reply!Events, Reads(m, e)
         PROVE  Fresh' /\ Left' /\ Own'
    <2>1. /\ UNCHANGED <<nodeTurns, chat, strayed, phase>> /\ pc[m] = "listening"
          /\ 1 \in DOMAIN stream /\ e = stream[1]
          /\ \A i \in DOMAIN stream' :
               i \in Nat /\ i + 1 \in DOMAIN stream /\ 1 < i + 1 /\ stream'[i] = stream[i + 1]
      BY <1>12 DEF Reads, Passes, Shrinks
    <2>2. \A i \in DOMAIN stream', t \in Reply!Turns :
            (\E j \in DOMAIN stream : stream'[i] = stream[j]) \/ stream'[i].turn # t
              \/ stream'[i].kind = "item" \/ phase[t] # "over"
      BY <2>1
    <2>3. CASE Ignores(m, e)
      BY <1>6, <2>1, <2>2, <2>3 DEF Ignores
    <2>4. ASSUME Tells(m, e)
          PROVE  Fresh' /\ Left' /\ Own'
      <3>1. /\ Reply!Gate(m, e) /\ Passes(m, e)
            /\ bound' = [bound EXCEPT ![m] = IF Reply!TurnOf(e) # 0 THEN Reply!TurnOf(e) ELSE @]
            /\ shown' = [shown EXCEPT ![m] = @ \cup ({e.turn} \ {0})]
            /\ IF e.kind = "end" THEN pc' = [pc EXCEPT ![m] = "gone"] ELSE UNCHANGED pc
        BY <1>12, <2>4 DEF Tells, Reads
      <3>2. /\ e.kind = "refused" => e.turn = 0 /\ Reply!TurnOf(e) = 0
            /\ e.kind # "refused" => Reply!TurnOf(e) \in {0, e.turn}
            /\ e.kind = "end" => Reply!TurnOf(e) = e.turn /\ e.chat = ChatOf(e.turn)
        <4>1. e.kind = "request" => Reply!TurnOf(e) = 0
          BY <1>0, <3>1, HeadEvent
        <4>2. QED
          BY <1>0, <3>1, <4>1, HeadEvent DEF Reply!Events
      <3>3. chat[m] \notin strayed /\ e.kind # "refused" =>
              e.turn \in Reply!Turns /\ nodeTurns[e.turn].by = m
        BY <1>0, <3>1, GateIsOwn
      <3>4. /\ DOMAIN bound = Reply!Messages /\ DOMAIN shown = Reply!Messages
            /\ \A x \in Reply!Messages :
                 x # m => bound'[x] = bound[x] /\ shown'[x] = shown[x] /\ pc'[x] = pc[x]
            /\ bound'[m] = IF Reply!TurnOf(e) # 0 THEN Reply!TurnOf(e) ELSE bound[m]
            /\ shown'[m] = shown[m] \cup ({e.turn} \ {0})
            /\ pc'[m] = IF e.kind = "end" THEN "gone" ELSE "listening"
        BY <1>0, <2>1, <3>1 DEF ToldTypes
      <3>5. Fresh'
        BY <1>0, <3>4 DEF Reply!Messages
      <3>6. Own'
        <4>1. SUFFICES ASSUME NEW x \in Reply!Messages, chat[x] \notin strayed
                       PROVE  /\ bound'[x] # 0 => nodeTurns[bound'[x]].by = x
                              /\ \A t \in shown'[x] : nodeTurns[t].by = x
          BY <2>1 DEF Reply!Messages
        <4>2. CASE x # m
          BY <1>0, <3>4, <4>1, <4>2
        <4>3. CASE x = m
          BY <1>0, <3>2, <3>3, <3>4, <4>1, <4>3
        <4>4. QED
          BY <4>2, <4>3
      <3>7. ASSUME NEW t \in Reply!Turns, ChatOf(t) \notin strayed, pc'[nodeTurns[t].by] = "gone"
            PROVE  /\ phase[t] = "over"
                   /\ \A i \in DOMAIN stream' : stream'[i].turn = t => stream'[i].kind = "item"
        <4>1. nodeTurns[t].by # 0 /\ nodeTurns[t].by \in Reply!Messages
          BY <1>0, <3>7
        <4>2. CASE nodeTurns[t].by = m /\ e.kind = "end"
          <5>1. chat[m] = ChatOf(t)
            BY <4>1, <4>2 DEF OneTurnPerMessage
          <5>2. e.turn \in Reply!Turns /\ nodeTurns[e.turn].by = m
            BY <3>3, <3>7, <4>2, <5>1
          <5>3. e.turn = t
            BY <4>1, <4>2, <5>2 DEF OneTurnPerMessage
          <5>4. phase[t] = "over"
            BY <2>1, <4>2, <5>3 DEF EndComesLast
          <5>5. ASSUME NEW i \in DOMAIN stream', stream'[i].turn = t
                PROVE  stream'[i].kind = "item"
            <6>1. i + 1 \in DOMAIN stream /\ 1 < i + 1 /\ stream'[i] = stream[i + 1]
              BY <2>1
            <6>2. QED
              BY <2>1, <4>2, <5>3, <5>5, <6>1 DEF EndComesLast
          <5>6. QED
            BY <5>4, <5>5
        <4>3. CASE nodeTurns[t].by # m \/ e.kind # "end"
          <5>1. pc[nodeTurns[t].by] = "gone"
            BY <3>4, <3>7, <4>1, <4>3
          <5>2. QED
            BY <1>0, <2>1, <3>7, <5>1
        <4>4. QED
          BY <4>2, <4>3
      <3>8. Left'
        <4>1. SUFFICES ASSUME NEW t \in Reply!Turns, ChatOf(t) \notin strayed
                       PROVE  /\ nodeTurns[t].by # 0
                              /\ pc'[nodeTurns[t].by] = "gone" =>
                                   /\ phase[t] = "over"
                                   /\ \A i \in DOMAIN stream' :
                                        stream'[i].turn = t => stream'[i].kind = "item"
          BY <2>1 DEF Reply!Turns, ChatOf
        <4>2. nodeTurns[t].by # 0
          BY <1>0, <4>1
        <4>3. QED
          BY <3>7, <4>1, <4>2
      <3>9. QED
        BY <3>5, <3>6, <3>8
    <2>5. QED
      BY <1>12, <2>3, <2>4 DEF Reads
  <1>13. QED
    <2> HIDE DEF Fresh, Left, Own
    <2>1. ASSUME NEW t \in Reply!Turns, NEW k \in {"started", "item", "request", "end"},
                 NEW p \in Phases, TurnSays(t, k, p)
          PROVE  Fresh' /\ Left' /\ Own'
      <3>1. [kind |-> k, chat |-> ChatOf(t), turn |-> t] \in Reply!Events
        <4>1. nodeTurns \in Seq([chat : Chats, by : 0..MaxMessages]) /\ MaxTurns \in Nat
              /\ Len(nodeTurns) <= MaxTurns
          BY <1>0, PartsAssumption DEF TurnTypes
        <4>2. /\ nodeTurns[t] \in [chat : Chats, by : 0..MaxMessages]
              /\ t \in 1..Len(nodeTurns) /\ Len(nodeTurns) \in Nat
          BY <4>1, SeqPlaces DEF Reply!Turns
        <4>3. t \in 0..MaxTurns
          BY <4>1, <4>2
        <4>4. QED
          BY <4>2, <4>3 DEF Reply!Events, ChatOf
      <3>2. Says(t, k, p)
        BY <1>0, <2>1, <3>1, GrowsMeans DEF Says, TurnSays
      <3>3. QED
        BY <1>9, <3>2
    <2>2. ASSUME NEW m \in Reply!Messages, Reply!ReadEvent(m)
          PROVE  Fresh' /\ Left' /\ Own'
      <3>1. PICK e \in Reply!Events : Reads(m, e)
        BY <1>0, <2>2, ReadEventMeans, ShrinksMeans DEF Passes, Reads
      <3>2. QED
        BY <1>12, <3>1
    <2>3. QED
      BY <1>5, <1>7, <1>8, <1>10, <1>11, <2>1, <2>2, ReplySteps DEF DecidedHere, Decision,
        Reply!Settle, Reply!vars, Reply!turnVars

LEMMA ReplyInit == Reply!Init => ReplyInv
  <1> SUFFICES ASSUME Reply!Init PROVE ReplyInv
    OBVIOUS
  <1>1. /\ pc = [m \in Reply!Messages |-> "new"] /\ chat = [m \in Reply!Messages |-> NoChat]
        /\ line = <<>> /\ bound = [m \in Reply!Messages |-> 0] /\ stream = <<>>
        /\ nodeTurns = <<>> /\ phase = <<>> /\ held = {} /\ trailing = {}
        /\ pending = [c \in Chats |-> 0] /\ cards = <<>> /\ withCards \in BOOLEAN
        /\ shown = [m \in Reply!Messages |-> {}]
        /\ prompted = <<>> /\ clicked = {} /\ strayed = {}
    BY DEF Reply!Init
  <1>2. {MaxTurns, MaxStream} \subseteq Nat
    BY PartsAssumption
  <1>3. DOMAIN line = {} /\ DOMAIN stream = {} /\ DOMAIN prompted = {} /\ DOMAIN cards = {}
        /\ Reply!Turns = {} /\ Len(line) = 0 /\ Len(stream) = 0 /\ Len(nodeTurns) = 0
        /\ Len(phase) = 0 /\ Len(cards) = 0 /\ Len(prompted) = 0
    BY <1>1 DEF Reply!Turns
  <1>4. LineTypes
    BY <1>1, <1>3 DEF LineTypes
  <1>5. TurnTypes
    BY <1>1, <1>2, <1>3 DEF TurnTypes
  <1>6. StreamTypes
    BY <1>1, <1>2, <1>3 DEF StreamTypes
  <1>7. ToldTypes
    BY <1>1, <1>3 DEF ToldTypes
  <1>8. OneTurnRuns /\ OneTurnPerMessage
    BY <1>3 DEF OneTurnRuns, OneTurnPerMessage
  <1>9. RequestsInOrder /\ EndComesLast
    BY <1>3 DEF RequestsInOrder, EndComesLast
  <1>10. CardsStandForPending /\ Reply!CardDecidesItsRequest
    BY <1>1, <1>3 DEF CardsStandForPending, Reply!CardDecidesItsRequest
  <1>11. HandlersKeepToTheirs /\ Reply!ReplyIsOfItsMessage
    BY <1>1, <1>3 DEF HandlersKeepToTheirs, Reply!ReplyIsOfItsMessage
  <1>12. Reply!PromptStaysAnswerable
    BY <1>3 DEF Reply!PromptStaysAnswerable
  <1>13. QED
    BY <1>4, <1>5, <1>6, <1>7, <1>8, <1>9, <1>10, <1>11, <1>12 DEF ReplyInv, ReplyTypes

LEMMA ReplyStep ==
  ASSUME ReplyInv, [Reply!Next]_(Reply!vars)
  PROVE  ReplyInv'
  BY ReplyTypesStep, OneTurnRunsStep, RequestsInOrderStep, CardsStandForPendingStep,
    OneTurnPerMessageStep, EndComesLastStep, HandlersKeepToTheirsStep,
    PromptStaysAnswerableStep DEF ReplyInv

(***************************************************************************)
(* The module of all parts                                                 *)
(***************************************************************************)

(* The bot's batches keep their invariant in the run of all parts. *)
LEMMA InboundHolds == Spec => [](part = "inbound" => InboundInv)
  <1> DEFINE Holds == part = "inbound" => InboundInv
  <1>1. Init => Holds
    BY InboundInit DEF Init
  <1>2. Holds /\ [Next]_vars => Holds'
    <2> SUFFICES ASSUME Holds, [Next]_vars, part' = "inbound" PROVE InboundInv'
      OBVIOUS
    <2>1. part = "inbound"
      BY DEF Next, vars
    <2>2. [Inbound!Next]_(Inbound!vars)
      BY <2>1 DEF Next, vars, inboundVars, Inbound!vars
    <2>3. QED
      BY <2>1, <2>2, InboundStep
  <1>3. QED
    BY <1>1, <1>2, PTL DEF Spec

(* WecomInbound: a text that came in is in exactly one place until a handler
   has it, and a batch always has a task that will take it. *)
THEOREM TextsReachHandler == Spec => []TextReachesHandler
  <1>1. (part = "inbound" => InboundInv) => TextReachesHandler
    BY InboundInvSuffices DEF TextReachesHandler
  <1>2. QED
    BY <1>1, InboundHolds, PTL

(* The replies keep their invariant in the run of all parts. *)
LEMMA ReplyHolds == Spec => [](part = "reply" => ReplyInv)
  <1> DEFINE Holds == part = "reply" => ReplyInv
  <1>1. Init => Holds
    BY ReplyInit DEF Init
  <1>2. Holds /\ [Next]_vars => Holds'
    <2> SUFFICES ASSUME Holds, [Next]_vars, part' = "reply" PROVE ReplyInv'
      OBVIOUS
    <2>1. part = "reply"
      BY DEF Next, vars
    <2>2. [Reply!Next]_(Reply!vars)
      BY <2>1 DEF Next, vars, replyVars, Reply!vars, Reply!turnVars, Reply!approvalVars
    <2>3. QED
      BY <2>1, <2>2, ReplyStep
  <1>3. QED
    BY <1>1, <1>2, PTL DEF Spec

(* GatewayReply: outside the chats with strays, what a message is answered with
   is of the turn its own handler submitted. *)
THEOREM RepliesAreOwn == Spec => []ReplyIsOfItsMessage
  <1>1. (part = "reply" => ReplyInv) => ReplyIsOfItsMessage
    BY DEF ReplyIsOfItsMessage, ReplyInv
  <1>2. QED
    BY <1>1, ReplyHolds, PTL

(* GatewayReply: a card decides the request it was sent for. *)
THEOREM CardsDecideTheirs == Spec => []CardDecidesItsRequest
  <1>1. (part = "reply" => ReplyInv) => CardDecidesItsRequest
    BY DEF CardDecidesItsRequest, ReplyInv
  <1>2. QED
    BY <1>1, ReplyHolds, PTL

(* GatewayReply: the chat's pending entry, and its card, are those of the request
   that is undecided. *)
THEOREM PromptsStayAnswerable == Spec => []PromptStaysAnswerable
  <1>1. (part = "reply" => ReplyInv) => PromptStaysAnswerable
    BY DEF PromptStaysAnswerable, ReplyInv
  <1>2. QED
    BY <1>1, ReplyHolds, PTL

(* The platform manager keeps its invariant in the run of all parts. *)
LEMMA PlatformHolds == Spec => [](part = "platform" => PlatformInv)
  <1> DEFINE Holds == part = "platform" => PlatformInv
  <1>1. Init => Holds
    BY PlatformInit DEF Init
  <1>2. Holds /\ [Next]_vars => Holds'
    <2> SUFFICES ASSUME Holds, [Next]_vars, part' = "platform" PROVE PlatformInv'
      OBVIOUS
    <2>1. part = "platform"
      BY DEF Next, vars
    <2>2. [Platform!Next]_(Platform!vars)
      BY <2>1 DEF Next, vars, platformVars, Platform!vars, Platform!callerVars,
        Platform!historyVars
    <2>3. QED
      BY <2>1, <2>2, PlatformStep
  <1>3. QED
    BY <1>1, <1>2, PTL DEF Spec

(* PlatformManager: a runtime that runs is held by the manager or by the one
   caller that has just built it, whatever other callers stop and reload. *)
THEOREM RuntimesStayOwned == Spec => []RuntimesOwned
  <1>1. (part = "platform" => PlatformInv) => RuntimesOwned
    BY DEF RuntimesOwned, PlatformInv
  <1>2. QED
    BY <1>1, PlatformHolds, PTL

(* PlatformManager: commands that did not cross and did not fail leave the
   files, the switch and the runtime agreed. *)
THEOREM SwitchStaysObeyed == Spec => []SwitchIsObeyed
  <1>1. (part = "platform" => PlatformInv) => SwitchIsObeyed
    BY DEF SwitchIsObeyed, PlatformInv
  <1>2. QED
    BY <1>1, PlatformHolds, PTL
===============================================================================
