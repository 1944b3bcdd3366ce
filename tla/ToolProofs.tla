------------------------------- MODULE ToolProofs -----------------------------
(***************************************************************************)
(* Proofs about the tools: a command that runs can be reached, and its      *)
(* output is told without a hole (ExecSession); what a patch changed is what *)
(* its report says (ApplyPatch).                                            *)
(***************************************************************************)
EXTENDS MCParts, TLAPS, SequenceTheorems

(***************************************************************************)
(* ExecSession                                                             *)
(***************************************************************************)

Labels == {"idle", "prune", "lock", "wait", "abort", "text", "cursor", "return", "cleanup",
           "terminate"}

(* The types, and what TypeOK leaves unsaid: a call at work has a session, the
   lock of a child is held by a call that waits for it, and the text in a
   call's hand reaches no further than what was captured.                    *)
CallTypes ==
  /\ pc \in [Calls -> Labels] /\ status \in [Calls -> {"none", "running", "over"}]
  /\ target \in [Calls -> 0..started] /\ victim \in [Calls -> 0..started]
  /\ seen \in [Calls -> Nat]
  /\ \A c \in Calls : (target[c] = 0 <=> pc[c] = "idle") /\ (pc[c] = "prune" <=> victim[c] # 0)
StoreTypes ==
  /\ store \in Seq(Nat) /\ Exec!Stored \subseteq Exec!Ids
  /\ Exec!IsInjective(store) /\ Len(store) <= MaxActive
SessionTypes ==
  /\ started \in 0..MaxSessions
  /\ child \in [Exec!Ids -> {"running", "exited"}]
  /\ holder \in [Exec!Ids -> Calls \cup {NoCall}]
  /\ written \in [Exec!Ids -> Nat] /\ captured \in [Exec!Ids -> Nat]
  /\ cursor \in [Exec!Ids -> Nat] /\ given \in [Exec!Ids -> SUBSET Nat]
LocksHeld ==
  \A c \in Calls :
    /\ \A s \in Exec!Ids : holder[s] = c => pc[c] = "wait" /\ target[c] = s
    /\ pc[c] = "wait" => holder[target[c]] = c
TextsReach ==
  /\ \A s \in Exec!Ids : captured[s] <= written[s] /\ cursor[s] <= captured[s]
  /\ \A c \in Calls : pc[c] = "cursor" => seen[c] <= captured[target[c]]
ExecTypes == CallTypes /\ StoreTypes /\ SessionTypes /\ LocksHeld /\ TextsReach

(* Removing the element at a place moves up those behind it. *)
LEMMA RemovedAt ==
  ASSUME NEW S, NEW q \in Seq(S), NEW k \in 1..Len(q)
  PROVE  /\ Exec!RemoveAt(q, k) \in Seq(S)
         /\ Len(Exec!RemoveAt(q, k)) = Len(q) - 1
         /\ \A i \in 1..(Len(q) - 1) :
              Exec!RemoveAt(q, k)[i] = IF i < k THEN q[i] ELSE q[i + 1]
  <1> DEFINE head == SubSeq(q, 1, k - 1)
  <1> DEFINE tail == SubSeq(q, k + 1, Len(q))
  <1>1. Exec!RemoveAt(q, k) = head \o tail /\ Len(q) \in Nat
    BY DEF Exec!RemoveAt
  <1>2. head \in Seq(S) /\ Len(head) = k - 1 /\ \A i \in 1..(k - 1) : head[i] = q[i]
    BY <1>1
  <1>3. /\ tail \in Seq(S) /\ Len(tail) = Len(q) - k
        /\ \A i \in 1..(Len(q) - k) : tail[i] = q[k + i]
    BY <1>1
  <1> HIDE DEF head, tail
  <1>4. /\ head \o tail \in Seq(S) /\ Len(head \o tail) = Len(head) + Len(tail)
        /\ \A i \in 1..(Len(head) + Len(tail)) :
             (head \o tail)[i] = IF i <= Len(head) THEN head[i] ELSE tail[i - Len(head)]
    BY <1>2, <1>3, ConcatProperties
  <1>5. Len(head) + Len(tail) = Len(q) - 1
    BY <1>1, <1>2, <1>3
  <1>6. ASSUME NEW i \in 1..(Len(q) - 1)
        PROVE  (head \o tail)[i] = IF i < k THEN q[i] ELSE q[i + 1]
    <2>1. CASE i < k
      <3>1. i <= Len(head) /\ i \in 1..(k - 1)
        BY <1>2, <2>1
      <3> QED BY <1>2, <1>4, <1>5, <2>1, <3>1
    <2>2. CASE ~(i < k)
      <3>1. /\ ~(i <= Len(head)) /\ i - Len(head) \in 1..(Len(q) - k)
            /\ k + (i - Len(head)) = i + 1
        BY <1>1, <1>2, <2>2
      <3> QED BY <1>3, <1>4, <1>5, <2>2, <3>1
    <2> QED BY <2>1, <2>2
  <1> QED BY <1>1, <1>4, <1>5, <1>6

(* Taking a session out of the store leaves the others. *)
LEMMA StoreWithout ==
  ASSUME StoreTypes, NEW s
  PROVE  /\ Exec!Without(s) \in Seq(Nat)
         /\ Len(Exec!Without(s)) <= Len(store)
         /\ s \in Exec!Stored => Len(Exec!Without(s)) < Len(store)
         /\ {Exec!Without(s)[i] : i \in DOMAIN Exec!Without(s)} = Exec!Stored \ {s}
         /\ Exec!IsInjective(Exec!Without(s))
  <1>1. store \in Seq(Nat) /\ Exec!IsInjective(store)
    BY DEF StoreTypes
  <1>2. CASE s \notin Exec!Stored
    BY <1>1, <1>2 DEF Exec!Without, Exec!Stored
  <1>3. CASE s \in Exec!Stored
    <2> DEFINE k == CHOOSE i \in DOMAIN store : store[i] = s
    <2> DEFINE rest == Exec!RemoveAt(store, k)
    <2>1. k \in 1..Len(store) /\ store[k] = s /\ Len(store) \in Nat
      <3>1. \E i \in DOMAIN store : store[i] = s
        BY <1>3 DEF Exec!Stored
      <3>2. k \in DOMAIN store /\ store[k] = s
        BY <3>1
      <3> HIDE DEF k
      <3> QED BY <1>1, <3>2
    <2>2. Exec!Without(s) = rest
      BY <1>3 DEF Exec!Without
    <2> HIDE DEF k
    <2>3. /\ rest \in Seq(Nat) /\ Len(rest) = Len(store) - 1
          /\ \A i \in 1..(Len(store) - 1) : rest[i] = IF i < k THEN store[i] ELSE store[i + 1]
      BY <1>1, <2>1, RemovedAt
    <2> HIDE DEF rest
    <2>4. DOMAIN rest = 1..(Len(store) - 1) /\ DOMAIN store = 1..Len(store)
      BY <1>1, <2>3
    <2>5. \A i, j \in DOMAIN store : store[i] = store[j] => i = j
      BY <1>1 DEF Exec!IsInjective
    <2>6. \A i \in DOMAIN rest : rest[i] \in Exec!Stored /\ rest[i] # s
      <3> SUFFICES ASSUME NEW i \in DOMAIN rest
                   PROVE  \E j \in DOMAIN store : store[j] = rest[i] /\ j # k
        BY <2>1, <2>4, <2>5 DEF Exec!Stored
      <3>1. CASE i < k
        BY <2>1, <2>3, <2>4, <3>1
      <3>2. CASE ~(i < k)
        <4>1. i + 1 \in DOMAIN store /\ i + 1 # k /\ store[i + 1] = rest[i]
          BY <2>1, <2>3, <2>4, <3>2
        <4> QED BY <4>1
      <3> QED BY <3>1, <3>2
    <2>7. \A x \in Exec!Stored \ {s} : \E i \in DOMAIN rest : rest[i] = x
      <3> SUFFICES ASSUME NEW x \in Exec!Stored, x # s
                   PROVE  \E i \in DOMAIN rest : rest[i] = x
        OBVIOUS
      <3>0. PICK j \in DOMAIN store : store[j] = x
        BY DEF Exec!Stored
      <3>1. CASE j < k
        <4>1. j \in DOMAIN rest /\ rest[j] = x
          BY <2>1, <2>3, <2>4, <3>0, <3>1
        <4> QED BY <4>1
      <3>2. CASE j > k
        <4>1. j - 1 \in DOMAIN rest /\ rest[j - 1] = x
          BY <2>1, <2>3, <2>4, <3>0, <3>2
        <4> QED BY <4>1
      <3> QED BY <2>1, <2>4, <3>0, <3>1, <3>2
    <2>8. \A i, j \in DOMAIN rest : rest[i] = rest[j] => i = j
      <3> SUFFICES ASSUME NEW i \in DOMAIN rest, NEW j \in DOMAIN rest, rest[i] = rest[j]
                   PROVE  i = j
        OBVIOUS
      <3> DEFINE at(n) == IF n < k THEN n ELSE n + 1
      <3>1. /\ at(i) \in DOMAIN store /\ at(j) \in DOMAIN store
            /\ rest[i] = store[at(i)] /\ rest[j] = store[at(j)]
        BY SMTT(30), <2>1, <2>3, <2>4
      <3>2. at(i) = at(j)
        BY <2>5, <3>1
      <3> QED BY <2>1, <2>4, <3>2
    <2> QED BY <2>1, <2>2, <2>3, <2>6, <2>7, <2>8 DEF Exec!IsInjective
  <1> QED BY <1>2, <1>3

(* A new session is stored, and pushes out one that the call will end. *)
LEMMA ExecStart ==
  ASSUME ExecTypes, NEW c \in Calls, Exec!Start(c)
  PROVE  /\ ExecTypes' /\ started' = started + 1 /\ target'[c] = started'
         /\ child'[started'] = "running" /\ started' \in Exec!Stored'
         /\ cursor'[started'] = 0 /\ given'[started'] = {}
         /\ \A s \in Exec!Ids : child'[s] = child[s] /\ cursor'[s] = cursor[s] /\ given'[s] = given[s]
         /\ \A s \in Exec!Stored : s \in Exec!Stored' \/ victim'[c] = s
  <1> DEFINE full == Len(store) >= MaxActive
  <1> DEFINE kept == IF full THEN Tail(store) ELSE store
  <1>0. /\ started \in Nat /\ started' = started + 1 /\ started' \in 0..MaxSessions
        /\ pc[c] = "idle" /\ CallTypes /\ StoreTypes /\ SessionTypes /\ LocksHeld /\ TextsReach
        /\ Exec!Ids = 1..started /\ Exec!Ids' = 1..(started + 1)
        /\ store' = Append(kept, started')
        /\ pc' = [pc EXCEPT ![c] = IF full THEN "prune" ELSE "lock"]
        /\ victim' = [victim EXCEPT ![c] = IF full THEN Head(store) ELSE 0]
        /\ target' = [target EXCEPT ![c] = started'] /\ UNCHANGED <<status, seen>>
        /\ MaxActive \in Nat \ {0} /\ NoCall \notin Calls
    <2>1. MaxActive \in Nat \ {0} /\ NoCall \notin Calls /\ MaxSessions \in Nat
      BY PartsAssumption
    <2>2. started \in Nat /\ started < MaxSessions /\ started' = started + 1
      BY <2>1 DEF ExecTypes, SessionTypes, Exec!Start
    <2>3. started' \in 0..MaxSessions
      BY <2>1, <2>2
    <2>4. /\ pc[c] = "idle" /\ store' = Append(kept, started')
          /\ pc' = [pc EXCEPT ![c] = IF full THEN "prune" ELSE "lock"]
          /\ victim' = [victim EXCEPT ![c] = IF full THEN Head(store) ELSE 0]
          /\ target' = [target EXCEPT ![c] = started'] /\ UNCHANGED <<status, seen>>
      BY DEF Exec!Start, Exec!Goto
    <2> QED BY <2>1, <2>2, <2>3, <2>4 DEF ExecTypes, Exec!Ids
  <1>1. /\ SessionTypes'
        /\ child'[started'] = "running" /\ holder'[started'] = NoCall
        /\ written'[started'] = 0 /\ captured'[started'] = 0
        /\ cursor'[started'] = 0 /\ given'[started'] = {}
        /\ \A s \in Exec!Ids :
             /\ child'[s] = child[s] /\ holder'[s] = holder[s] /\ written'[s] = written[s]
             /\ captured'[s] = captured[s] /\ cursor'[s] = cursor[s] /\ given'[s] = given[s]
    <2>1. /\ child' = Append(child, "running") /\ holder' = Append(holder, NoCall)
          /\ written' = Append(written, 0) /\ captured' = Append(captured, 0)
          /\ cursor' = Append(cursor, 0) /\ given' = Append(given, {})
      BY DEF Exec!Start
    <2>0. started \in Nat
      BY <1>0
    <2>2. /\ child \in [1..started -> {"running", "exited"}]
          /\ holder \in [1..started -> Calls \cup {NoCall}]
          /\ written \in [1..started -> Nat] /\ captured \in [1..started -> Nat]
          /\ cursor \in [1..started -> Nat] /\ given \in [1..started -> SUBSET Nat]
          /\ "running" \in {"running", "exited"} /\ NoCall \in Calls \cup {NoCall}
          /\ 0 \in Nat /\ {} \in SUBSET Nat
      BY <1>0 DEF SessionTypes
    <2>3. /\ child' \in [1..(started + 1) -> {"running", "exited"}]
          /\ child'[started + 1] = "running" /\ \A s \in 1..started : child'[s] = child[s]
      <3>1. child \in Seq({"running", "exited"}) /\ Len(child) = started /\ "running" \in {"running", "exited"}
        BY <2>0, <2>2
      <3>2. child' = Append(child, "running")
        BY <2>1
      <3>3. /\ child' \in Seq({"running", "exited"}) /\ Len(child') = started + 1
            /\ child'[started + 1] = "running" /\ \A s \in 1..started : child'[s] = child[s]
        BY <2>0, <3>1, <3>2
      <3>4. child' \in [1..Len(child') -> {"running", "exited"}]
        BY <3>3, LenProperties
      <3> QED BY <3>3, <3>4
    <2>4. /\ holder' \in [1..(started + 1) -> Calls \cup {NoCall}]
          /\ holder'[started + 1] = NoCall /\ \A s \in 1..started : holder'[s] = holder[s]
      <3>1. holder \in Seq(Calls \cup {NoCall}) /\ Len(holder) = started /\ NoCall \in Calls \cup {NoCall}
        BY <2>0, <2>2
      <3>2. holder' = Append(holder, NoCall)
        BY <2>1
      <3>3. /\ holder' \in Seq(Calls \cup {NoCall}) /\ Len(holder') = started + 1
            /\ holder'[started + 1] = NoCall /\ \A s \in 1..started : holder'[s] = holder[s]
        BY <2>0, <3>1, <3>2
      <3>4. holder' \in [1..Len(holder') -> Calls \cup {NoCall}]
        BY <3>3, LenProperties
      <3> QED BY <3>3, <3>4
    <2>5. /\ written' \in [1..(started + 1) -> Nat]
          /\ written'[started + 1] = 0 /\ \A s \in 1..started : written'[s] = written[s]
      <3>1. written \in Seq(Nat) /\ Len(written) = started /\ 0 \in Nat
        BY <2>0, <2>2
      <3>2. written' = Append(written, 0)
        BY <2>1
      <3>3. /\ written' \in Seq(Nat) /\ Len(written') = started + 1
            /\ written'[started + 1] = 0 /\ \A s \in 1..started : written'[s] = written[s]
        BY <2>0, <3>1, <3>2
      <3>4. written' \in [1..Len(written') -> Nat]
        BY <3>3, LenProperties
      <3> QED BY <3>3, <3>4
    <2>6. /\ captured' \in [1..(started + 1) -> Nat]
          /\ captured'[started + 1] = 0 /\ \A s \in 1..started : captured'[s] = captured[s]
      <3>1. captured \in Seq(Nat) /\ Len(captured) = started /\ 0 \in Nat
        BY <2>0, <2>2
      <3>2. captured' = Append(captured, 0)
        BY <2>1
      <3>3. /\ captured' \in Seq(Nat) /\ Len(captured') = started + 1
            /\ captured'[started + 1] = 0 /\ \A s \in 1..started : captured'[s] = captured[s]
        BY <2>0, <3>1, <3>2
      <3>4. captured' \in [1..Len(captured') -> Nat]
        BY <3>3, LenProperties
      <3> QED BY <3>3, <3>4
    <2>7. /\ cursor' \in [1..(started + 1) -> Nat]
          /\ cursor'[started + 1] = 0 /\ \A s \in 1..started : cursor'[s] = cursor[s]
      <3>1. cursor \in Seq(Nat) /\ Len(cursor) = started /\ 0 \in Nat
        BY <2>0, <2>2
      <3>2. cursor' = Append(cursor, 0)
        BY <2>1
      <3>3. /\ cursor' \in Seq(Nat) /\ Len(cursor') = started + 1
            /\ cursor'[started + 1] = 0 /\ \A s \in 1..started : cursor'[s] = cursor[s]
        BY <2>0, <3>1, <3>2
      <3>4. cursor' \in [1..Len(cursor') -> Nat]
        BY <3>3, LenProperties
      <3> QED BY <3>3, <3>4
    <2>8. /\ given' \in [1..(started + 1) -> SUBSET Nat]
          /\ given'[started + 1] = {} /\ \A s \in 1..started : given'[s] = given[s]
      <3>1. given \in Seq(SUBSET Nat) /\ Len(given) = started /\ {} \in SUBSET Nat
        BY <2>0, <2>2
      <3>2. given' = Append(given, {})
        BY <2>1
      <3>3. /\ given' \in Seq(SUBSET Nat) /\ Len(given') = started + 1
            /\ given'[started + 1] = {} /\ \A s \in 1..started : given'[s] = given[s]
        BY <2>0, <3>1, <3>2
      <3>4. given' \in [1..Len(given') -> SUBSET Nat]
        BY <3>3, LenProperties
      <3> QED BY <3>3, <3>4
    <2> QED BY <1>0, <2>3, <2>4, <2>5, <2>6, <2>7, <2>8 DEF SessionTypes
  <1>2. /\ kept \in Seq(Nat) /\ Len(kept) < MaxActive /\ Exec!IsInjective(kept)
        /\ \A i \in DOMAIN kept : kept[i] \in Exec!Stored
        /\ \A s \in Exec!Stored :
             \/ \E i \in DOMAIN kept : kept[i] = s
             \/ full /\ Head(store) = s
        /\ full => Head(store) \in Exec!Stored
    <2>1. CASE ~full
      BY <1>0, <2>1 DEF StoreTypes, Exec!Stored
    <2>2. CASE full
      <3>1. /\ store \in Seq(Nat) /\ store # <<>> /\ kept = Tail(store) /\ Len(store) = MaxActive
            /\ \A i, j \in DOMAIN store : store[i] = store[j] => i = j
        BY <1>0, <2>2 DEF StoreTypes, Exec!IsInjective
      <3>2. /\ Tail(store) \in Seq(Nat) /\ Len(Tail(store)) = Len(store) - 1
            /\ \A i \in 1..(Len(store) - 1) : Tail(store)[i] = store[i + 1]
            /\ DOMAIN store = 1..Len(store) /\ DOMAIN Tail(store) = 1..(Len(store) - 1)
            /\ Head(store) = store[1] /\ 1 \in DOMAIN store
        BY <3>1
      <3> HIDE DEF kept
      <3>3. \A i \in DOMAIN kept : i + 1 \in DOMAIN store /\ kept[i] = store[i + 1]
        BY <3>1, <3>2
      <3>4. \A i \in DOMAIN store : i # 1 => i - 1 \in DOMAIN kept /\ kept[i - 1] = store[i]
        <4>1. ASSUME NEW i \in DOMAIN store, i # 1
              PROVE  i - 1 \in 1..(Len(store) - 1) /\ (i - 1) + 1 = i
          BY <3>1, <3>2, <4>1
        <4>2. ASSUME NEW i \in DOMAIN store, i # 1
              PROVE  i - 1 \in DOMAIN kept /\ kept[i - 1] = store[i]
          BY <3>1, <3>2, <4>1, <4>2
        <4> QED BY <4>2
      <3>5. \A i, j \in DOMAIN kept : kept[i] = kept[j] => i = j
        BY <3>1, <3>2, <3>3
      <3>6. Exec!Stored = {store[i] : i \in DOMAIN store}
        BY DEF Exec!Stored
      <3>7. \A s \in Exec!Stored :
              (\E i \in DOMAIN kept : kept[i] = s) \/ Head(store) = s
        BY <3>2, <3>4, <3>6
      <3> QED BY SMTT(30), <2>2, <3>1, <3>2, <3>3, <3>5, <3>6, <3>7 DEF Exec!IsInjective
    <2> QED BY <2>1, <2>2
  <1>3. store' = Append(kept, started')
    BY <1>0
  <1> HIDE DEF kept
  <1>4. /\ store' \in Seq(Nat) /\ Len(store') = Len(kept) + 1 /\ Len(kept) \in Nat
        /\ DOMAIN store' = 1..(Len(kept) + 1) /\ DOMAIN kept = 1..Len(kept)
        /\ \A i \in DOMAIN kept : store'[i] = kept[i]
        /\ store'[Len(kept) + 1] = started'
    BY <1>0, <1>2, <1>3
  <1>5. \A i \in DOMAIN kept : kept[i] \in 1..started /\ kept[i] # started'
    BY <1>0, <1>2 DEF StoreTypes
  <1>6. /\ \A i \in DOMAIN store' : i \in DOMAIN kept \/ i = Len(kept) + 1
        /\ \A i \in DOMAIN kept : i \in DOMAIN store'
        /\ Len(kept) + 1 \in DOMAIN store'
    BY <1>4
  <1>7. Exec!IsInjective(store')
    BY <1>2, <1>4, <1>5, <1>6 DEF Exec!IsInjective
  <1>8. \A i \in DOMAIN store' : store'[i] \in 1..(started + 1)
    BY <1>0, <1>4, <1>5, <1>6
  <1>9. StoreTypes'
    <2>1. Len(store') <= MaxActive
      BY <1>0, <1>2, <1>4
    <2>2. Exec!Stored' \subseteq Exec!Ids'
      BY <1>0, <1>8 DEF Exec!Stored
    <2> QED BY <1>4, <1>7, <2>1, <2>2 DEF StoreTypes, Exec!IsInjective
  <1>10. started' \in Exec!Stored' /\ \A s \in Exec!Stored : s \in Exec!Stored' \/ victim'[c] = s
    <2>1. \A i \in DOMAIN kept : kept[i] \in Exec!Stored'
      BY <1>4, <1>6 DEF Exec!Stored
    <2>2. started' \in Exec!Stored'
      BY <1>4, <1>6 DEF Exec!Stored
    <2>3. full => victim'[c] = Head(store)
      BY <1>0 DEF CallTypes
    <2> QED BY <1>2, <2>1, <2>2, <2>3
  <1>11. CallTypes'
    <2>1. full => Head(store) \in 1..started
      BY <1>0, <1>2 DEF StoreTypes
    <2> QED BY <1>0, <2>1 DEF CallTypes, Labels
  <1>12. /\ \A s \in 1..(started + 1) : s \in 1..started \/ s = started + 1
         /\ \A d \in Calls : d # c => pc'[d] = pc[d] /\ target'[d] = target[d]
         /\ \A d \in Calls : pc[d] # "idle" => target[d] \in 1..started
         /\ pc'[c] \in {"prune", "lock"}
    BY <1>0 DEF CallTypes
  <1>13. LocksHeld'
    <2>1. ASSUME NEW d \in Calls, NEW s \in 1..(started + 1), holder'[s] = d
          PROVE  pc'[d] = "wait" /\ target'[d] = s
      <3>1. s \in 1..started /\ holder[s] = d
        BY <1>0, <1>1, <1>12, <2>1
      <3> QED BY <1>0, <1>12, <3>1 DEF LocksHeld
    <2>2. ASSUME NEW d \in Calls, pc'[d] = "wait" PROVE holder'[target'[d]] = d
      BY <1>0, <1>1, <1>12, <2>2 DEF LocksHeld
    <2> QED BY <1>0, <2>1, <2>2 DEF LocksHeld
  <1>14. TextsReach'
    <2>1. ASSUME NEW s \in 1..(started + 1)
          PROVE  captured'[s] <= written'[s] /\ cursor'[s] <= captured'[s]
      BY <1>0, <1>1, <1>12 DEF TextsReach
    <2>2. ASSUME NEW d \in Calls, pc'[d] = "cursor" PROVE seen'[d] <= captured'[target'[d]]
      BY <1>0, <1>1, <1>12, <2>2 DEF TextsReach
    <2> QED BY <1>0, <2>1, <2>2 DEF TextsReach
  <1>15. target'[c] = started'
    BY <1>0 DEF CallTypes
  <1> QED BY <1>0, <1>1, <1>9, <1>10, <1>11, <1>13, <1>14, <1>15 DEF ExecTypes

(* Moving a session to the end of the store keeps what is stored. *)
LEMMA StorePoll ==
  ASSUME StoreTypes, started \in Nat, UNCHANGED started,
         NEW s \in Exec!Stored, store' = Append(Exec!Without(s), s)
  PROVE  StoreTypes' /\ Exec!Stored' = Exec!Stored
  <1> DEFINE kept == Exec!Without(s)
  <1>1. /\ kept \in Seq(Nat) /\ Len(kept) < Len(store) /\ Exec!IsInjective(kept)
        /\ {kept[i] : i \in DOMAIN kept} = Exec!Stored \ {s}
    BY StoreWithout
  <1>2. s \in Nat /\ Len(store) \in Nat /\ Len(store) <= MaxActive /\ Exec!Stored \subseteq Exec!Ids
    BY DEF StoreTypes, Exec!Ids
  <1>3. store' = Append(kept, s)
    OBVIOUS
  <1> HIDE DEF kept
  <1>4. /\ store' \in Seq(Nat) /\ Len(store') = Len(kept) + 1 /\ Len(kept) \in Nat
        /\ DOMAIN store' = 1..(Len(kept) + 1) /\ DOMAIN kept = 1..Len(kept)
        /\ \A i \in DOMAIN kept : store'[i] = kept[i]
        /\ store'[Len(kept) + 1] = s
    BY <1>1, <1>2, <1>3
  <1>5. \A i \in DOMAIN kept : kept[i] # s /\ kept[i] \in Exec!Stored
    BY <1>1
  <1>6. /\ \A i \in DOMAIN store' : i \in DOMAIN kept \/ i = Len(kept) + 1
        /\ \A i \in DOMAIN kept : i \in DOMAIN store'
        /\ Len(kept) + 1 \in DOMAIN store'
    BY <1>4
  <1>7. Exec!IsInjective(store')
    BY <1>1, <1>4, <1>5, <1>6 DEF Exec!IsInjective
  <1>8. {store'[i] : i \in DOMAIN store'} = Exec!Stored
    <2>1. \A i \in DOMAIN store' : store'[i] \in Exec!Stored
      BY <1>4, <1>5, <1>6
    <2>2. ASSUME NEW x \in Exec!Stored PROVE \E i \in DOMAIN store' : store'[i] = x
      <3>1. CASE x = s
        BY <1>4, <1>6, <3>1
      <3>2. CASE x # s
        <4>1. PICK i \in DOMAIN kept : kept[i] = x
          BY <1>1, <3>2
        <4> QED BY <1>4, <1>6, <4>1
      <3> QED BY <3>1, <3>2
    <2> QED BY <2>1, <2>2
  <1>9. Exec!Stored' = Exec!Stored
    BY <1>8 DEF Exec!Stored
  <1>10. Exec!Ids' = Exec!Ids
    BY DEF Exec!Ids
  <1>11. Len(store') <= MaxActive
    <2>1. Len(kept) + 1 <= Len(store) /\ MaxActive \in Nat
      BY <1>1, <1>2, <1>4, PartsAssumption
    <2> QED BY <1>2, <1>4, <2>1
  <1> QED BY <1>2, <1>4, <1>7, <1>9, <1>10, <1>11 DEF StoreTypes, Exec!IsInjective

(* What a step of call c may do to the calls: give it another label, with a
   session as long as it is at work.                                         *)
LEMMA CallMoves ==
  ASSUME ExecTypes, UNCHANGED started, NEW c \in Calls, NEW l \in Labels, NEW t \in 0..started,
         pc' = [pc EXCEPT ![c] = l], target' = [target EXCEPT ![c] = t],
         t = 0 <=> l = "idle", l # "prune",
         victim' \in {victim, [victim EXCEPT ![c] = 0]}, pc[c] = "prune" => victim'[c] = 0,
         status' \in [Calls -> {"none", "running", "over"}], seen' \in [Calls -> Nat]
  PROVE  CallTypes'
  <1>1. CallTypes /\ started \in Nat
    BY DEF ExecTypes, SessionTypes
  <1>2. \A d \in Calls : d # c =>
          pc'[d] = pc[d] /\ target'[d] = target[d] /\ victim'[d] = victim[d]
    BY <1>1 DEF CallTypes
  <1>3. pc'[c] = l /\ target'[c] = t /\ victim'[c] = 0
    BY <1>1 DEF CallTypes
  <1>4. /\ pc' \in [Calls -> Labels] /\ target' \in [Calls -> 0..started]
        /\ victim' \in [Calls -> 0..started]
    BY <1>1 DEF CallTypes
  <1> QED BY <1>1, <1>2, <1>3, <1>4 DEF CallTypes

(* A step that takes and gives no lock. *)
LEMMA LocksStay ==
  ASSUME ExecTypes, UNCHANGED <<started, holder>>, NEW c \in Calls, NEW l \in Labels,
         pc[c] # "wait", l # "wait", pc' = [pc EXCEPT ![c] = l],
         \A d \in Calls \ {c} : target'[d] = target[d]
  PROVE  LocksHeld'
  <1>1. CallTypes /\ LocksHeld
    BY DEF ExecTypes
  <1>2. \A d \in Calls : pc'[d] = IF d = c THEN l ELSE pc[d]
    BY <1>1 DEF CallTypes
  <1> QED BY <1>1, <1>2 DEF LocksHeld, Exec!Ids

(* A step that takes no text. *)
LEMMA TextsStay ==
  ASSUME ExecTypes, UNCHANGED <<started, written, captured, cursor>>, NEW c \in Calls,
         NEW l \in Labels, l # "cursor", pc' = [pc EXCEPT ![c] = l],
         \A d \in Calls \ {c} : target'[d] = target[d] /\ seen'[d] = seen[d]
  PROVE  TextsReach'
  <1>1. CallTypes /\ TextsReach
    BY DEF ExecTypes
  <1>2. \A d \in Calls : pc'[d] = IF d = c THEN l ELSE pc[d]
    BY <1>1 DEF CallTypes
  <1> QED BY <1>1, <1>2 DEF TextsReach, Exec!Ids

LEMMA ExecTypesStep ==
  ASSUME ExecTypes, Exec!Next
  PROVE  ExecTypes'
  <1>0. /\ CallTypes /\ StoreTypes /\ SessionTypes /\ LocksHeld /\ TextsReach
        /\ started \in Nat /\ NoCall \notin Calls /\ Exec!Ids = 1..started
    BY PartsAssumption DEF ExecTypes, SessionTypes, Exec!Ids
  <1>1. ASSUME UNCHANGED <<store, started>> PROVE StoreTypes'
    BY <1>0, <1>1 DEF StoreTypes, Exec!Stored, Exec!Ids
  <1>2. \A d \in Calls : pc[d] # "idle" => target[d] \in Exec!Ids
    BY <1>0 DEF CallTypes
  <1>3. \A d \in Calls : pc[d] = "prune" => victim[d] \in Exec!Ids
    BY <1>0 DEF CallTypes
  <1>4. \A d \in Calls : Exec!Released(d) \in [Exec!Ids -> {"running", "exited"}]
    BY <1>0 DEF SessionTypes, Exec!Released
  <1>5. \A d \in Calls : pc = [pc EXCEPT ![d] = pc[d]] /\ pc[d] \in Labels
                        /\ target = [target EXCEPT ![d] = target[d]]
                        /\ target[d] \in 0..started
    BY <1>0 DEF CallTypes
  <1>6. status \in [Calls -> {"none", "running", "over"}] /\ seen \in [Calls -> Nat]
        /\ \A d \in Calls : target[d] = 0 <=> pc[d] = "idle"
    BY <1>0 DEF CallTypes
  <1>7. ASSUME NEW c \in Calls, Exec!Start(c) PROVE ExecTypes'
    BY <1>7, ExecStart
  <1>8. ASSUME NEW c \in Calls, Exec!Prune(c) PROVE ExecTypes'
    <2>1. /\ pc[c] = "prune" /\ pc' = [pc EXCEPT ![c] = "lock"]
          /\ victim' = [victim EXCEPT ![c] = 0]
          /\ child' = [child EXCEPT ![victim[c]] = "exited"]
          /\ UNCHANGED <<target, status, seen, store, started, holder, written, captured,
                         cursor, given>>
      BY <1>8 DEF Exec!Prune, Exec!Goto, Exec!outputVars
    <2>2. CallTypes'
      <3>1. /\ "lock" \in Labels /\ target' = [target EXCEPT ![c] = target[c]]
            /\ target[c] \in 0..started /\ target[c] # 0 /\ victim'[c] = 0
        BY <1>0, <1>5, <1>6, <2>1 DEF Labels, CallTypes
      <3> QED BY <1>6, <2>1, <3>1, CallMoves
    <2>3. SessionTypes'
      BY <1>0, <2>1 DEF SessionTypes, Exec!Ids
    <2>4. LocksHeld' /\ TextsReach'
      BY <2>1, LocksStay, TextsStay DEF Labels
    <2> QED BY <1>1, <2>1, <2>2, <2>3, <2>4 DEF ExecTypes
  <1>9. ASSUME NEW c \in Calls, NEW s \in Exec!Ids, Exec!Poll(c, s) PROVE ExecTypes'
    <2>1. /\ pc[c] = "idle" /\ s \in Exec!Stored /\ store' = Append(Exec!Without(s), s)
          /\ \/ pc' = [pc EXCEPT ![c] = "lock"] /\ target' = [target EXCEPT ![c] = s]
             \/ pc' = [pc EXCEPT ![c] = "idle"] /\ target' = [target EXCEPT ![c] = 0]
          /\ UNCHANGED <<victim, status, seen, started, child, holder, written, captured,
                         cursor, given>>
      BY <1>5, <1>6, <1>9 DEF Exec!Poll, Exec!Goto, Exec!outputVars
    <2>2. CallTypes'
      BY <1>0, <1>6, <2>1, CallMoves DEF Labels
    <2>3. SessionTypes'
      BY <1>0, <2>1 DEF SessionTypes, Exec!Ids
    <2>4. StoreTypes'
      BY <1>0, <2>1, StorePoll
    <2>5. \A d \in Calls \ {c} : target'[d] = target[d]
      BY <1>0, <2>1 DEF CallTypes
    <2>6. LocksHeld' /\ TextsReach'
      BY <2>1, <2>5, LocksStay, TextsStay DEF Labels
    <2> QED BY <2>2, <2>3, <2>4, <2>6 DEF ExecTypes
  <1>10. ASSUME NEW c \in Calls, Exec!Lock(c) PROVE ExecTypes'
    <2>1. /\ pc[c] = "lock" /\ holder[target[c]] = NoCall
          /\ holder' = [holder EXCEPT ![target[c]] = c] /\ pc' = [pc EXCEPT ![c] = "wait"]
          /\ UNCHANGED <<target, victim, status, seen, store, started, child, written,
                         captured, cursor, given>>
      BY <1>10 DEF Exec!Lock, Exec!Goto, Exec!outputVars
    <2>2. CallTypes'
      BY <1>5, <1>6, <2>1, CallMoves DEF Labels
    <2>3. SessionTypes'
      BY <1>0, <1>2, <2>1 DEF SessionTypes, Exec!Ids
    <2>4. TextsReach'
      BY <2>1, TextsStay DEF Labels
    <2>5. LocksHeld'
      BY SMTT(30), <1>0, <1>2, <2>1 DEF LocksHeld, CallTypes, SessionTypes, Exec!Ids
    <2> QED BY <1>1, <2>1, <2>2, <2>3, <2>4, <2>5 DEF ExecTypes
  <1>11. ASSUME NEW c \in Calls, Exec!Waited(c) \/ Exec!Aborted(c) PROVE ExecTypes'
    <2>1. /\ pc[c] = "wait" /\ holder' = [holder EXCEPT ![target[c]] = NoCall]
          /\ \E l \in {"text", "abort"} : pc' = [pc EXCEPT ![c] = l]
          /\ status' \in [Calls -> {"none", "running", "over"}]
          /\ UNCHANGED <<target, victim, seen, store, started, child, written,
                         captured, cursor, given>>
      BY <1>6, <1>11 DEF Exec!Waited, Exec!Aborted, Exec!Goto, Exec!outputVars
    <2>2. CallTypes'
      BY <1>5, <1>6, <2>1, CallMoves DEF Labels
    <2>3. SessionTypes'
      BY <1>0, <1>2, <2>1 DEF SessionTypes, Exec!Ids
    <2>4. TextsReach'
      BY <2>1, TextsStay DEF Labels
    <2>5. LocksHeld'
      <3>1. /\ target[c] \in Exec!Ids /\ pc'[c] # "wait"
            /\ \A d \in Calls \ {c} : pc'[d] = pc[d]
        BY <1>0, <1>2, <2>1 DEF CallTypes
      <3>2. \A s \in Exec!Ids : holder'[s] = IF s = target[c] THEN NoCall ELSE holder[s]
        BY <1>0, <2>1 DEF SessionTypes
      <3>3. \A s \in Exec!Ids : holder[s] = c => s = target[c]
        BY <1>0 DEF LocksHeld
      <3>4. \A d \in Calls \ {c} : pc[d] = "wait" => holder[target[d]] = d /\ target[d] \in Exec!Ids
        BY <1>0, <1>2 DEF LocksHeld
      <3>5. holder[target[c]] = c
        BY <1>0, <2>1 DEF LocksHeld
      <3> QED BY <1>0, <2>1, <3>1, <3>2, <3>3, <3>4, <3>5 DEF LocksHeld, Exec!Ids
    <2> QED BY <1>1, <2>1, <2>2, <2>3, <2>4, <2>5 DEF ExecTypes
  <1>12. ASSUME NEW c \in Calls, Exec!AbortedTerminates(c) PROVE ExecTypes'
    <2>1. /\ pc[c] = "abort" /\ pc' = [pc EXCEPT ![c] = "cleanup"]
          /\ child' = [child EXCEPT ![target[c]] = "exited"]
          /\ UNCHANGED <<target, victim, status, seen, store, started, holder, written,
                         captured, cursor, given>>
      BY <1>12 DEF Exec!AbortedTerminates, Exec!Goto, Exec!outputVars
    <2>2. CallTypes'
      BY <1>5, <1>6, <2>1, CallMoves DEF Labels
    <2>3. SessionTypes'
      BY <1>0, <1>2, <2>1 DEF SessionTypes, Exec!Ids
    <2>4. LocksHeld' /\ TextsReach'
      BY <2>1, LocksStay, TextsStay DEF Labels
    <2> QED BY <1>1, <2>1, <2>2, <2>3, <2>4 DEF ExecTypes
  <1>13. ASSUME NEW c \in Calls, Exec!TakeText(c) PROVE ExecTypes'
    <2>1. /\ pc[c] = "text" /\ pc' = [pc EXCEPT ![c] = "cursor"]
          /\ seen' = [seen EXCEPT ![c] = captured[target[c]]]
          /\ UNCHANGED <<target, victim, status, store, started, child, holder, written,
                         captured, cursor, given>>
      BY <1>13 DEF Exec!TakeText, Exec!Goto, Exec!outputVars
    <2>2. seen' \in [Calls -> Nat] /\ captured[target[c]] \in Nat
      BY <1>0, <1>2, <1>6, <2>1 DEF SessionTypes
    <2>3. CallTypes'
      BY <1>5, <1>6, <2>1, <2>2, CallMoves DEF Labels
    <2>4. SessionTypes'
      BY <1>0, <2>1 DEF SessionTypes, Exec!Ids
    <2>5. LocksHeld'
      BY <2>1, LocksStay DEF Labels
    <2>6. TextsReach'
      BY <1>0, <2>1, <2>2 DEF TextsReach, CallTypes, Exec!Ids
    <2> QED BY <1>1, <2>1, <2>3, <2>4, <2>5, <2>6 DEF ExecTypes
  <1>14. ASSUME NEW c \in Calls, Exec!TakeCursor(c) PROVE ExecTypes'
    <2>1. /\ pc[c] = "cursor"
          /\ \E l \in {"cleanup", "return"} : pc' = [pc EXCEPT ![c] = l]
          /\ seen' = [seen EXCEPT ![c] = 0]
          /\ cursor' = [cursor EXCEPT ![target[c]] = seen[c]]
          /\ given' = [given EXCEPT ![target[c]] = @ \cup (cursor[target[c]] + 1)..seen[c]]
          /\ UNCHANGED <<target, victim, status, store, started, child, holder, written,
                         captured>>
      BY <1>14 DEF Exec!TakeCursor, Exec!Goto, Exec!Advance
    <2>2. seen' \in [Calls -> Nat] /\ seen[c] \in Nat /\ target[c] \in Exec!Ids
          /\ cursor[target[c]] \in Nat
      BY <1>0, <1>2, <1>6, <2>1 DEF SessionTypes
    <2>3. CallTypes'
      BY <1>5, <1>6, <2>1, <2>2, CallMoves DEF Labels
    <2>4. SessionTypes'
      <3>1. (cursor[target[c]] + 1)..seen[c] \subseteq Nat
        BY <2>2
      <3>2. cursor' \in [Exec!Ids -> Nat]
        BY <1>0, <2>1, <2>2 DEF SessionTypes
      <3>3. given' \in [Exec!Ids -> SUBSET Nat]
        BY <1>0, <2>1, <2>2, <3>1 DEF SessionTypes
      <3> QED BY <1>0, <2>1, <3>2, <3>3 DEF SessionTypes, Exec!Ids
    <2>5. LocksHeld'
      BY <2>1, LocksStay DEF Labels
    <2>6. TextsReach'
      BY <1>0, <2>1, <2>2 DEF TextsReach, CallTypes, SessionTypes, Exec!Ids
    <2> QED BY <1>1, <2>1, <2>3, <2>4, <2>5, <2>6 DEF ExecTypes
  <1>15. ASSUME NEW c \in Calls, Exec!Finish(c), pc[c] \notin {"prune", "wait"},
                child' = Exec!Released(c) \/ child' = [child EXCEPT ![target[c]] = "exited"],
                StoreTypes',
                UNCHANGED <<victim, seen, started, holder, written, captured, cursor, given>>
         PROVE  ExecTypes'
    <2>1. /\ pc' = [pc EXCEPT ![c] = "idle"] /\ target' = [target EXCEPT ![c] = 0]
          /\ status' \in [Calls -> {"none", "running", "over"}]
      BY <1>6, <1>15 DEF Exec!Finish
    <2>2. CallTypes'
      <3>1. "idle" \in Labels /\ 0 \in 0..started /\ "idle" # "prune"
        BY <1>0 DEF Labels
      <3> QED BY <1>6, <1>15, <2>1, <3>1, CallMoves
    <2>3. child' \in [Exec!Ids -> {"running", "exited"}]
      BY <1>0, <1>4, <1>15 DEF SessionTypes
    <2>4. SessionTypes'
      BY <1>0, <1>15, <2>3 DEF SessionTypes, Exec!Ids
    <2>5. \A d \in Calls \ {c} : target'[d] = target[d]
      BY <1>0, <2>1 DEF CallTypes
    <2>6. LocksHeld' /\ TextsReach'
      BY <1>15, <2>1, <2>5, LocksStay, TextsStay DEF Labels
    <2> QED BY <1>15, <2>2, <2>4, <2>6 DEF ExecTypes
  <1>16. ASSUME NEW c \in Calls, Exec!Return(c) \/ Exec!Terminate(c) PROVE ExecTypes'
    <2>1. /\ UNCHANGED <<victim, seen, store, started, holder, written, captured, cursor, given>>
          /\ Exec!Finish(c) /\ pc[c] \notin {"prune", "wait"}
          /\ child' = Exec!Released(c) \/ child' = [child EXCEPT ![target[c]] = "exited"]
      BY <1>16 DEF Exec!Return, Exec!Terminate, Exec!outputVars
    <2> QED BY <1>1, <1>15, <2>1
  <1>17. ASSUME NEW c \in Calls, Exec!Cleanup(c) PROVE ExecTypes'
    <2>1. /\ pc[c] = "cleanup" /\ store' = Exec!Without(target[c])
          /\ UNCHANGED <<victim, seen, started, holder, written, captured, cursor, given>>
          /\ \/ pc' = [pc EXCEPT ![c] = "terminate"] /\ UNCHANGED <<target, status, child>>
             \/ Exec!Finish(c) /\ child' = Exec!Released(c)
      BY <1>17 DEF Exec!Cleanup, Exec!Goto, Exec!outputVars
    <2>2. StoreTypes'
      <3>1. /\ store' \in Seq(Nat) /\ Len(store') <= Len(store)
            /\ {store'[i] : i \in DOMAIN store'} \subseteq Exec!Stored
            /\ Exec!IsInjective(store')
        BY <1>0, <2>1, StoreWithout
      <3>2. Len(store') <= MaxActive
        BY <1>0, <3>1, PartsAssumption DEF StoreTypes
      <3>3. Exec!Stored' \subseteq Exec!Ids'
        BY <1>0, <2>1, <3>1 DEF StoreTypes, Exec!Stored, Exec!Ids
      <3> QED BY <3>1, <3>2, <3>3 DEF StoreTypes, Exec!IsInjective
    <2>3. CASE pc' = [pc EXCEPT ![c] = "terminate"] /\ UNCHANGED <<target, status, child>>
      <3>1. CallTypes'
        BY <1>5, <1>6, <2>1, <2>3, CallMoves DEF Labels
      <3>2. SessionTypes'
        BY <1>0, <2>1, <2>3 DEF SessionTypes, Exec!Ids
      <3>3. LocksHeld' /\ TextsReach'
        BY <2>1, <2>3, LocksStay, TextsStay DEF Labels
      <3> QED BY <2>2, <3>1, <3>2, <3>3 DEF ExecTypes
    <2>4. CASE Exec!Finish(c) /\ child' = Exec!Released(c)
      BY <1>15, <2>1, <2>2, <2>4
    <2> QED BY <2>1, <2>3, <2>4
  <1>18. ASSUME NEW c \in Calls, Exec!Drop(c) PROVE ExecTypes'
    <2>1. /\ pc' = [pc EXCEPT ![c] = "idle"] /\ target' = [target EXCEPT ![c] = 0]
          /\ status' \in [Calls -> {"none", "running", "over"}]
          /\ child' = Exec!Released(c)
          /\ holder' = [s \in Exec!Ids |-> IF holder[s] = c THEN NoCall ELSE holder[s]]
          /\ victim' = [victim EXCEPT ![c] = 0] /\ seen' = [seen EXCEPT ![c] = 0]
          /\ UNCHANGED <<store, started, written, captured, cursor, given>>
      BY <1>6, <1>18 DEF Exec!Drop, Exec!Finish
    <2>2. seen' \in [Calls -> Nat] /\ victim'[c] = 0
      BY <1>0, <1>6, <2>1 DEF CallTypes
    <2>3. CallTypes'
      <3>1. "idle" \in Labels /\ 0 \in 0..started /\ "idle" # "prune"
        BY <1>0 DEF Labels
      <3> QED BY <2>1, <2>2, <3>1, CallMoves
    <2>4. SessionTypes'
      <3>1. holder' \in [Exec!Ids -> Calls \cup {NoCall}]
        BY <1>0, <2>1 DEF SessionTypes
      <3> QED BY <1>0, <1>4, <2>1, <3>1 DEF SessionTypes, Exec!Ids
    <2>5. \A d \in Calls \ {c} : target'[d] = target[d] /\ seen'[d] = seen[d] /\ pc'[d] = pc[d]
      BY <1>0, <2>1 DEF CallTypes
    <2>6. LocksHeld'
      <3>1. pc'[c] = "idle" /\ \A s \in Exec!Ids : holder'[s] # c
        BY <1>0, <2>1 DEF CallTypes
      <3>2. \A d \in Calls \ {c} : \A s \in Exec!Ids : holder'[s] = d <=> holder[s] = d
        BY <1>0, <2>1
      <3> QED BY <1>0, <1>2, <2>1, <2>5, <3>1, <3>2 DEF LocksHeld, Exec!Ids
    <2>7. TextsReach'
      BY <2>1, <2>5, TextsStay DEF Labels
    <2> QED BY <1>1, <2>1, <2>3, <2>4, <2>6, <2>7 DEF ExecTypes
  <1>19. ASSUME NEW s \in Exec!Ids, Exec!Write(s) \/ Exec!Exit(s) \/ Exec!Pump(s)
         PROVE  ExecTypes'
    <2>1. /\ UNCHANGED <<pc, target, victim, status, seen, store, started, holder, cursor, given>>
          /\ \/ child' = child \/ child' = [child EXCEPT ![s] = "exited"]
          /\ \/ UNCHANGED <<written, captured>>
             \/ written' = [written EXCEPT ![s] = @ + 1] /\ UNCHANGED captured
             \/ /\ captured[s] < written[s] /\ UNCHANGED written
                /\ captured' = [captured EXCEPT ![s] = @ + 1]
      BY <1>19 DEF Exec!Write, Exec!Exit, Exec!Pump, Exec!callVars, Exec!outputVars
    <2>2. CallTypes' /\ LocksHeld'
      BY <1>0, <2>1 DEF CallTypes, LocksHeld, Exec!Ids
    <2>3. SessionTypes'
      <3>1. child' \in [Exec!Ids -> {"running", "exited"}]
        BY <1>0, <2>1 DEF SessionTypes
      <3>2. written' = written \/ written' = [written EXCEPT ![s] = @ + 1]
        BY <2>1
      <3>3. written \in [Exec!Ids -> Nat] /\ captured \in [Exec!Ids -> Nat]
        BY <1>0 DEF SessionTypes
      <3>4. written' \in [Exec!Ids -> Nat]
        BY <3>2, <3>3
      <3>5. captured' = captured \/ captured' = [captured EXCEPT ![s] = @ + 1]
        BY <2>1
      <3>6. captured' \in [Exec!Ids -> Nat]
        BY <3>3, <3>5
      <3> QED BY <1>0, <2>1, <3>1, <3>4, <3>6 DEF SessionTypes, Exec!Ids
    <2>4. /\ \A r \in Exec!Ids : captured[r] \in Nat /\ written[r] \in Nat
          /\ \A r \in Exec!Ids : captured[r] <= written[r]
          /\ \A r \in Exec!Ids : r # s => captured'[r] = captured[r] /\ written'[r] = written[r]
          /\ \/ captured'[s] = captured[s] /\ written'[s] \in {written[s], written[s] + 1}
             \/ captured[s] < written[s] /\ written'[s] = written[s] /\ captured'[s] = captured[s] + 1
      BY <1>0, <2>1 DEF SessionTypes, TextsReach
    <2>5. \A r \in Exec!Ids : captured'[r] <= written'[r] /\ captured[r] <= captured'[r]
      BY <2>4
    <2>6. TextsReach'
      <3>1. \A r \in Exec!Ids : cursor[r] \in Nat /\ captured'[r] \in Nat /\ cursor[r] <= captured'[r]
        BY SMTT(30), <1>0, <2>3, <2>1, <2>4, <2>5 DEF TextsReach, SessionTypes, Exec!Ids
      <3>2. \A d \in Calls : pc[d] = "cursor" => seen[d] <= captured'[target[d]]
        BY <1>0, <1>2, <1>6, <2>4, <2>5, <3>1 DEF TextsReach
      <3> QED BY <2>1, <2>5, <3>1, <3>2 DEF TextsReach, Exec!Ids
    <2> QED BY <1>1, <2>1, <2>2, <2>3, <2>6 DEF ExecTypes
  <1> QED
    BY <1>7, <1>8, <1>9, <1>10, <1>11, <1>12, <1>13, <1>14, <1>16, <1>17, <1>18, <1>19
      DEF Exec!Next
(* A call that stays at work on a session, or owes it its end, keeps it. *)
LEMMA HeldStays ==
  ASSUME NEW d \in Calls, NEW s, d \in Exec!Held(s),
         pc'[d] = pc[d], target'[d] = target[d], victim'[d] = victim[d]
  PROVE  d \in Exec!Held(s)'
  BY DEF Exec!Held

(* A call that gives up its Arcs takes no running child from the reach of
   the others.                                                               *)
LEMMA ReleaseLeavesNone ==
  ASSUME ExecTypes, Exec!NoChildLeftBehind, NEW c \in Calls, child' = Exec!Released(c),
         UNCHANGED <<store, started>>,
         \A d \in Calls \ {c} :
           pc'[d] = pc[d] /\ target'[d] = target[d] /\ victim'[d] = victim[d]
  PROVE  Exec!NoChildLeftBehind'
  <1> SUFFICES ASSUME NEW s \in Exec!Ids, child'[s] = "running", s \notin Exec!Stored
               PROVE  \E d \in Exec!Held(s)' : TRUE
    BY DEF Exec!NoChildLeftBehind, Exec!Stored, Exec!Ids
  <1>1. ~(Exec!Held(s) \subseteq {c})
    BY DEF Exec!Released
  <1>2. PICK d \in Exec!Held(s) : d # c
    BY <1>1
  <1>3. d \in Calls \ {c}
    BY <1>2 DEF Exec!Held
  <1>4. d \in Exec!Held(s)'
    BY <1>2, <1>3, HeldStays
  <1> QED BY <1>4

(* Neither a full store, nor calls that end a session at once, nor a call that
   is dropped leaves a child that nobody can reach.                          *)
LEMMA NoChildStep ==
  ASSUME ExecTypes, Exec!NoChildLeftBehind, Exec!Next
  PROVE  Exec!NoChildLeftBehind'
  <1>0. /\ CallTypes /\ StoreTypes /\ SessionTypes /\ started \in Nat
        /\ Exec!Ids = 1..started
        /\ \A s \in Exec!Ids : child[s] = "running" => s \in Exec!Stored \/ Exec!Held(s) # {}
    BY DEF ExecTypes, SessionTypes, Exec!Ids, Exec!NoChildLeftBehind
  <1>1. \A d \in Calls : /\ target[d] = 0 <=> pc[d] = "idle"
                         /\ pc[d] = "prune" <=> victim[d] # 0
                         /\ target[d] \in 0..started /\ victim[d] \in 0..started
    BY <1>0 DEF CallTypes
  (* Steps that touch no label but that of c, and leave it at work. *)
  <1>2. ASSUME NEW c \in Calls, NEW l \in Labels \ {"idle"}, pc[c] # "idle",
               pc' = [pc EXCEPT ![c] = l], UNCHANGED <<target, started>>,
               \A s \in Exec!Ids : child'[s] = "running" =>
                  /\ child[s] = "running"
                  /\ s \in Exec!Stored' \/ s \notin Exec!Stored \/ s = target[c]
                  /\ \A d \in Calls : victim[d] = s => victim'[d] = s
         PROVE  Exec!NoChildLeftBehind'
    <2> SUFFICES ASSUME NEW s \in Exec!Ids, child'[s] = "running", s \notin Exec!Stored'
                 PROVE  \E d \in Calls : d \in Exec!Held(s)'
      BY <1>2 DEF Exec!NoChildLeftBehind, Exec!Ids
    <2>1. \A d \in Calls : pc[d] # "idle" => pc'[d] # "idle"
      BY <1>0, <1>2 DEF CallTypes
    <2>2. CASE s = target[c]
      BY <1>2, <2>1, <2>2 DEF Exec!Held
    <2>3. CASE s # target[c]
      <3>1. s \notin Exec!Stored /\ child[s] = "running"
        BY <1>2, <2>3
      <3>2. PICK d \in Exec!Held(s) : TRUE
        BY <1>0, <3>1
      <3>3. d \in Calls /\ ((pc[d] # "idle" /\ target[d] = s) \/ victim[d] = s)
        BY <3>2 DEF Exec!Held
      <3>4. victim[d] = s => victim'[d] = s
        BY <1>2, <3>3
      <3> QED BY <1>2, <2>1, <3>3, <3>4 DEF Exec!Held
    <2> QED BY <2>2, <2>3
  <1>3. ASSUME NEW c \in Calls, Exec!Start(c) PROVE Exec!NoChildLeftBehind'
    <2>1. /\ pc[c] = "idle" /\ started' = started + 1 /\ started' \in Exec!Stored'
          /\ \A s \in Exec!Ids : child'[s] = child[s]
          /\ \A s \in Exec!Stored : s \in Exec!Stored' \/ victim'[c] = s
          /\ \E l \in Labels : pc' = [pc EXCEPT ![c] = l]
          /\ target' = [target EXCEPT ![c] = started']
          /\ \E v : victim' = [victim EXCEPT ![c] = v]
      BY <1>3, ExecStart DEF Exec!Start, Exec!Goto, Labels
    <2>2. \A d \in Calls \ {c} : pc'[d] = pc[d] /\ target'[d] = target[d] /\ victim'[d] = victim[d]
      BY <1>0, <2>1 DEF CallTypes
    <2> SUFFICES ASSUME NEW s \in Exec!Ids', child'[s] = "running", s \notin Exec!Stored'
                 PROVE  \E d \in Calls : d \in Exec!Held(s)'
      BY DEF Exec!NoChildLeftBehind
    <2>3. s \in Exec!Ids /\ s # 0
      BY <1>0, <2>1 DEF Exec!Ids
    <2>4. CASE s \in Exec!Stored
      BY <2>1, <2>4 DEF Exec!Held
    <2>5. CASE s \notin Exec!Stored
      <3>1. PICK d \in Exec!Held(s) : TRUE
        BY <1>0, <2>1, <2>3, <2>5
      <3>2. d \in Calls \ {c}
        BY <1>1, <2>1, <2>3, <3>1 DEF Exec!Held
      <3> QED BY <2>2, <3>1, <3>2, HeldStays
    <2> QED BY <2>4, <2>5
  <1>4. ASSUME NEW c \in Calls, Exec!Prune(c) PROVE Exec!NoChildLeftBehind'
    <2>1. /\ pc[c] = "prune" /\ pc' = [pc EXCEPT ![c] = "lock"]
          /\ victim' = [victim EXCEPT ![c] = 0]
          /\ child' = [child EXCEPT ![victim[c]] = "exited"]
          /\ UNCHANGED <<target, store, started>>
      BY <1>4 DEF Exec!Prune, Exec!Goto
    <2>2. Exec!Stored' = Exec!Stored
      BY <2>1 DEF Exec!Stored
    <2>3. ASSUME NEW s \in Exec!Ids, child'[s] = "running"
          PROVE  child[s] = "running" /\ s # victim[c]
      BY <1>0, <2>1, <2>3 DEF SessionTypes
    <2>4. \A d \in Calls : d # c => victim'[d] = victim[d]
      BY <1>0, <2>1 DEF CallTypes
    <2>5. \A s \in Exec!Ids : child'[s] = "running" =>
                  /\ child[s] = "running"
                  /\ s \in Exec!Stored' \/ s \notin Exec!Stored \/ s = target[c]
                  /\ \A d \in Calls : victim[d] = s => victim'[d] = s
      BY <2>2, <2>3, <2>4
    <2>6. "lock" \in Labels \ {"idle"} /\ pc[c] # "idle"
      BY <2>1 DEF Labels
    <2> QED BY <1>2, <2>1, <2>5, <2>6
  <1>5. ASSUME NEW c \in Calls, NEW r \in Exec!Ids, Exec!Poll(c, r)
        PROVE  Exec!NoChildLeftBehind'
    <2>1. /\ pc[c] = "idle" /\ r \in Exec!Stored /\ store' = Append(Exec!Without(r), r)
          /\ \/ pc' = [pc EXCEPT ![c] = "lock"] /\ target' = [target EXCEPT ![c] = r]
             \/ UNCHANGED <<target, pc>>
          /\ UNCHANGED <<victim, started, child>>
      BY <1>5 DEF Exec!Poll, Exec!Goto
    <2>2. Exec!Stored' = Exec!Stored
      BY <1>0, <2>1, StorePoll
    <2>3. \A d \in Calls \ {c} : pc'[d] = pc[d] /\ target'[d] = target[d] /\ victim'[d] = victim[d]
      BY <1>0, <2>1 DEF CallTypes
    <2> SUFFICES ASSUME NEW s \in Exec!Ids, child[s] = "running", s \notin Exec!Stored
                 PROVE  \E d \in Calls : d \in Exec!Held(s)'
      BY <2>1, <2>2 DEF Exec!NoChildLeftBehind, Exec!Ids
    <2>4. PICK d \in Exec!Held(s) : TRUE
      BY <1>0
    <2>5. d \in Calls \ {c}
      BY <1>0, <1>1, <2>1, <2>4 DEF Exec!Held
    <2> QED BY <2>3, <2>4, <2>5, HeldStays
  <1>6. ASSUME NEW c \in Calls,
               \/ Exec!Lock(c) \/ Exec!Waited(c) \/ Exec!Aborted(c) \/ Exec!TakeText(c)
               \/ Exec!TakeCursor(c)
        PROVE  Exec!NoChildLeftBehind'
    <2>1. /\ pc[c] # "idle" /\ UNCHANGED <<target, victim, store, started, child>>
          /\ \E l \in Labels \ {"idle"} : pc' = [pc EXCEPT ![c] = l]
      BY <1>6 DEF Exec!Lock, Exec!Waited, Exec!Aborted, Exec!TakeText, Exec!TakeCursor,
        Exec!Goto, Labels
    <2>2. Exec!Stored' = Exec!Stored
      BY <2>1 DEF Exec!Stored
    <2> QED BY <1>2, <2>1, <2>2
  <1>7. ASSUME NEW c \in Calls, Exec!AbortedTerminates(c) PROVE Exec!NoChildLeftBehind'
    <2>1. /\ pc[c] = "abort" /\ pc' = [pc EXCEPT ![c] = "cleanup"]
          /\ child' = [child EXCEPT ![target[c]] = "exited"]
          /\ UNCHANGED <<target, victim, store, started>>
      BY <1>7 DEF Exec!AbortedTerminates, Exec!Goto
    <2>2. Exec!Stored' = Exec!Stored
      BY <2>1 DEF Exec!Stored
    <2>3. \A s \in Exec!Ids : child'[s] = "running" => child[s] = "running"
      BY <1>0, <2>1 DEF SessionTypes
    <2>4. "cleanup" \in Labels \ {"idle"} /\ pc[c] # "idle"
      BY <2>1 DEF Labels
    <2> QED BY <1>2, <2>1, <2>2, <2>3, <2>4
  <1>8. ASSUME NEW c \in Calls, Exec!Return(c) \/ Exec!Drop(c) PROVE Exec!NoChildLeftBehind'
    <2>1. /\ pc' = [pc EXCEPT ![c] = "idle"] /\ target' = [target EXCEPT ![c] = 0]
          /\ victim' \in {victim, [victim EXCEPT ![c] = 0]}
          /\ child' = Exec!Released(c) /\ UNCHANGED <<store, started>>
      BY <1>8 DEF Exec!Return, Exec!Drop, Exec!Finish
    <2>2. \A d \in Calls \ {c} : pc'[d] = pc[d] /\ target'[d] = target[d] /\ victim'[d] = victim[d]
      BY <1>0, <2>1 DEF CallTypes
    <2> QED BY <2>1, <2>2, ReleaseLeavesNone
  <1>9. ASSUME NEW c \in Calls, Exec!Cleanup(c) PROVE Exec!NoChildLeftBehind'
    <2>1. CASE target[c] \in Exec!Stored
      <3>1. /\ pc[c] = "cleanup" /\ pc' = [pc EXCEPT ![c] = "terminate"]
            /\ store' = Exec!Without(target[c])
            /\ UNCHANGED <<target, victim, child, started>>
        BY <1>9, <2>1 DEF Exec!Cleanup, Exec!Goto
      <3>2. Exec!Stored' = Exec!Stored \ {target[c]}
        BY <1>0, <3>1, StoreWithout DEF Exec!Stored
      <3>3. "terminate" \in Labels \ {"idle"} /\ pc[c] # "idle"
        BY <3>1 DEF Labels
      <3> QED BY <1>2, <3>1, <3>2, <3>3
    <2>2. CASE target[c] \notin Exec!Stored
      <3>1. /\ pc' = [pc EXCEPT ![c] = "idle"] /\ target' = [target EXCEPT ![c] = 0]
            /\ child' = Exec!Released(c) /\ UNCHANGED <<victim, store, started>>
        BY <1>9, <2>2 DEF Exec!Cleanup, Exec!Finish, Exec!Without
      <3>2. \A d \in Calls \ {c} : pc'[d] = pc[d] /\ target'[d] = target[d] /\ victim'[d] = victim[d]
        BY <1>0, <3>1 DEF CallTypes
      <3> QED BY <3>1, <3>2, ReleaseLeavesNone
    <2> QED BY <2>1, <2>2
  <1>10. ASSUME NEW c \in Calls, Exec!Terminate(c) PROVE Exec!NoChildLeftBehind'
    <2>1. /\ pc[c] = "terminate" /\ pc' = [pc EXCEPT ![c] = "idle"]
          /\ target' = [target EXCEPT ![c] = 0]
          /\ child' = [child EXCEPT ![target[c]] = "exited"] /\ UNCHANGED <<victim, store, started>>
      BY <1>10 DEF Exec!Terminate, Exec!Finish
    <2>2. \A d \in Calls \ {c} : pc'[d] = pc[d] /\ target'[d] = target[d] /\ victim'[d] = victim[d]
      BY <1>0, <2>1 DEF CallTypes
    <2> SUFFICES ASSUME NEW s \in Exec!Ids, child'[s] = "running", s \notin Exec!Stored
                 PROVE  \E d \in Calls : d \in Exec!Held(s)'
      BY <2>1 DEF Exec!NoChildLeftBehind, Exec!Ids, Exec!Stored
    <2>3. child[s] = "running" /\ s # target[c] /\ s # 0
      BY <1>0, <2>1 DEF SessionTypes
    <2>4. PICK d \in Exec!Held(s) : TRUE
      BY <1>0, <2>3
    <2>5. d \in Calls \ {c}
      BY <1>1, <2>1, <2>3, <2>4 DEF Exec!Held
    <2> QED BY <2>2, <2>4, <2>5, HeldStays
  <1>11. ASSUME NEW r \in Exec!Ids, Exec!Write(r) \/ Exec!Exit(r) \/ Exec!Pump(r)
         PROVE  Exec!NoChildLeftBehind'
    <2>1. /\ UNCHANGED <<pc, target, victim, store, started>>
          /\ child' = child \/ child' = [child EXCEPT ![r] = "exited"]
      BY <1>11 DEF Exec!Write, Exec!Exit, Exec!Pump, Exec!callVars
    <2>2. \A s \in Exec!Ids : child'[s] = "running" => child[s] = "running"
      BY <1>0, <2>1 DEF SessionTypes
    <2> QED BY <1>0, <2>1, <2>2 DEF Exec!NoChildLeftBehind, Exec!Ids, Exec!Stored, Exec!Held
  <1> QED
    BY <1>3, <1>4, <1>5, <1>6, <1>7, <1>8, <1>9, <1>10, <1>11 DEF Exec!Next

(* Only a call that takes the text of a session moves its cursor, and it hands
   over all that lies between.                                               *)
LEMMA NothingSkippedStep ==
  ASSUME ExecTypes, Exec!NothingSkipped, Exec!Next
  PROVE  Exec!NothingSkipped'
  <1>0. /\ CallTypes /\ SessionTypes /\ started \in Nat /\ Exec!Ids = 1..started
        /\ \A s \in Exec!Ids : s \in dropped \/ 1..cursor[s] \subseteq given[s]
    BY DEF ExecTypes, SessionTypes, Exec!Ids, Exec!NothingSkipped
  <1>1. ASSUME NEW c \in Calls, Exec!Start(c) PROVE Exec!NothingSkipped'
    <2>1. /\ started' = started + 1 /\ cursor'[started'] = 0 /\ given'[started'] = {}
          /\ \A s \in Exec!Ids : cursor'[s] = cursor[s] /\ given'[s] = given[s]
          /\ UNCHANGED dropped
      BY <1>1, ExecStart DEF Exec!Start
    <2>2. Exec!Ids' = Exec!Ids \cup {started'} /\ 1..0 = {}
      BY <1>0, <2>1 DEF Exec!Ids
    <2>3. \A s \in Exec!Ids : s \in dropped' \/ 1..cursor'[s] \subseteq given'[s]
      BY <1>0, <2>1
    <2>4. 1..cursor'[started'] \subseteq given'[started']
      BY <2>1, <2>2
    <2> QED BY <2>2, <2>3, <2>4 DEF Exec!NothingSkipped
  <1>2. ASSUME NEW c \in Calls, Exec!TakeCursor(c) PROVE Exec!NothingSkipped'
    <2>1. /\ cursor' = [cursor EXCEPT ![target[c]] = seen[c]]
          /\ given' = [given EXCEPT ![target[c]] = @ \cup (cursor[target[c]] + 1)..seen[c]]
          /\ UNCHANGED <<started, dropped>>
      BY <1>2 DEF Exec!TakeCursor, Exec!Advance
    <2>2. /\ cursor \in [Exec!Ids -> Nat] /\ given \in [Exec!Ids -> SUBSET Nat]
          /\ seen[c] \in Nat
      BY <1>0 DEF CallTypes, SessionTypes
    <2> SUFFICES ASSUME NEW s \in Exec!Ids, s \notin dropped
                 PROVE  1..cursor'[s] \subseteq given'[s]
      BY <2>1 DEF Exec!NothingSkipped, Exec!Ids
    <2>3. 1..cursor[s] \subseteq given[s]
      BY <1>0
    <2>4. CASE s # target[c]
      BY <2>1, <2>2, <2>3, <2>4
    <2>5. CASE s = target[c]
      <3>1. /\ cursor'[s] = seen[c] /\ cursor[s] \in Nat
            /\ given'[s] = given[s] \cup (cursor[s] + 1)..seen[c]
        BY <2>1, <2>2, <2>5
      <3>2. 1..seen[c] \subseteq 1..cursor[s] \cup (cursor[s] + 1)..seen[c]
        BY <2>2, <3>1
      <3> QED BY <2>3, <3>1, <3>2
    <2> QED BY <2>4, <2>5
  <1>3. ASSUME UNCHANGED <<started, cursor, given>>, dropped \subseteq dropped'
        PROVE  Exec!NothingSkipped'
    BY <1>0, <1>3 DEF Exec!NothingSkipped, Exec!Ids
  <1>4. ASSUME NEW c \in Calls,
               \/ Exec!Prune(c) \/ (\E s \in Exec!Ids : Exec!Poll(c, s)) \/ Exec!Lock(c)
               \/ Exec!Waited(c) \/ Exec!Aborted(c) \/ Exec!AbortedTerminates(c)
               \/ Exec!TakeText(c) \/ Exec!Return(c) \/ Exec!Cleanup(c) \/ Exec!Terminate(c)
        PROVE  Exec!NothingSkipped'
    <2>1. UNCHANGED <<started, cursor, given, dropped>>
      BY <1>4 DEF Exec!Prune, Exec!Poll, Exec!Lock, Exec!Waited, Exec!Aborted,
        Exec!AbortedTerminates, Exec!TakeText, Exec!Return, Exec!Cleanup, Exec!Terminate,
        Exec!outputVars
    <2> QED BY <1>3, <2>1
  <1>5. ASSUME NEW c \in Calls, Exec!Drop(c) PROVE Exec!NothingSkipped'
    BY <1>3, <1>5 DEF Exec!Drop
  <1>6. ASSUME NEW s \in Exec!Ids, Exec!Write(s) \/ Exec!Exit(s) \/ Exec!Pump(s)
        PROVE  Exec!NothingSkipped'
    BY <1>3, <1>6 DEF Exec!Write, Exec!Exit, Exec!Pump, Exec!outputVars
  <1> QED BY <1>1, <1>2, <1>4, <1>5, <1>6 DEF Exec!Next

ExecInv == ExecTypes /\ Exec!NoChildLeftBehind /\ Exec!NothingSkipped

LEMMA ExecInit == Exec!Init => ExecInv
  <1> SUFFICES ASSUME Exec!Init PROVE ExecInv
    OBVIOUS
  <1>1. /\ pc = [c \in Calls |-> "idle"] /\ target = [c \in Calls |-> 0]
        /\ victim = [c \in Calls |-> 0] /\ status = [c \in Calls |-> "none"]
        /\ seen = [c \in Calls |-> 0] /\ started = 0 /\ Exec!Ids = {} /\ store = <<>>
        /\ MaxActive \in Nat \ {0} /\ MaxSessions \in Nat
    BY PartsAssumption DEF Exec!Init, Exec!Ids
  <1>2. CallTypes
    BY <1>1 DEF CallTypes, Labels
  <1>3. StoreTypes
    BY <1>1 DEF StoreTypes, Exec!Stored, Exec!IsInjective
  <1>4. SessionTypes
    <2>1. \A S : <<>> \in [{} -> S]
      OBVIOUS
    <2>2. /\ child = <<>> /\ holder = <<>> /\ written = <<>> /\ captured = <<>>
          /\ cursor = <<>> /\ given = <<>>
      BY DEF Exec!Init
    <2> QED BY <1>1, <2>1, <2>2 DEF SessionTypes
  <1>5. LocksHeld /\ TextsReach /\ Exec!NoChildLeftBehind /\ Exec!NothingSkipped
    BY <1>1 DEF LocksHeld, TextsReach, Exec!NoChildLeftBehind, Exec!NothingSkipped
  <1> QED BY <1>2, <1>3, <1>4, <1>5 DEF ExecInv, ExecTypes

LEMMA ExecStep ==
  ASSUME ExecInv, [Exec!Next]_(Exec!vars)
  PROVE  ExecInv'
  <1>1. CASE Exec!Next
    BY <1>1, ExecTypesStep, NoChildStep, NothingSkippedStep DEF ExecInv
  <1>2. CASE UNCHANGED Exec!vars
    <2>1. UNCHANGED <<pc, target, victim, status, seen, store, started, child, holder,
                      written, captured, cursor, given, dropped>>
      BY <1>2 DEF Exec!vars, Exec!callVars, Exec!outputVars
    <2>2. UNCHANGED <<Exec!Ids, Exec!Stored>> /\ \A s : Exec!Held(s)' = Exec!Held(s)
      BY <2>1 DEF Exec!Ids, Exec!Stored, Exec!Held
    <2>3. CallTypes' /\ SessionTypes' /\ LocksHeld' /\ TextsReach'
      BY <2>1, <2>2 DEF ExecInv, ExecTypes, CallTypes, SessionTypes, LocksHeld, TextsReach
    <2>4. StoreTypes'
      BY <2>1, <2>2 DEF ExecInv, ExecTypes, StoreTypes, Exec!IsInjective
    <2>5. Exec!NoChildLeftBehind' /\ Exec!NothingSkipped'
      BY <2>1, <2>2 DEF ExecInv, Exec!NoChildLeftBehind, Exec!NothingSkipped
    <2> QED BY <2>3, <2>4, <2>5 DEF ExecInv, ExecTypes
  <1> QED BY <1>1, <1>2

(* The command sessions keep their invariant in the run of all parts. *)
LEMMA ExecHolds == Spec => [](part = "exec" => ExecInv)
  <1> DEFINE Holds == part = "exec" => ExecInv
  <1>1. Init => Holds
    BY ExecInit DEF Init
  <1>2. Holds /\ [Next]_vars => Holds'
    <2> SUFFICES ASSUME Holds, [Next]_vars, part' = "exec" PROVE ExecInv'
      OBVIOUS
    <2>1. part = "exec"
      BY DEF Next, vars
    <2>2. [Exec!Next]_(Exec!vars)
      BY <2>1 DEF Next, vars, execVars, Exec!vars, Exec!callVars, Exec!outputVars
    <2> QED BY <2>1, <2>2, ExecStep
  <1> QED BY <1>1, <1>2, PTL DEF Spec

(* ExecSession: a command that runs is in the store, or a call holds it; calls
   that fill the store, end one session together or are dropped leave none.  *)
THEOREM ChildrenStayReachable == Spec => []NoChildLeftBehind
  <1>1. (part = "exec" => ExecInv) => NoChildLeftBehind
    BY DEF NoChildLeftBehind, ExecInv
  <1> QED BY <1>1, ExecHolds, PTL

(* ExecSession: what lies before the cursor of a session reached the model,
   however the calls that took it overlap, unless one was dropped with it.   *)
THEOREM OutputIsWhole == Spec => []NothingSkipped
  <1>1. (part = "exec" => ExecInv) => NothingSkipped
    BY DEF NothingSkipped, ExecInv
  <1> QED BY <1>1, ExecHolds, PTL

(***************************************************************************)
(* ApplyPatch                                                              *)
(***************************************************************************)

(* A planned change is of a section: it writes or deletes the file the section
   ends up as, and takes no other file than the section's.                   *)
Traced(c) ==
  \E i \in DOMAIN sections :
    c.name = sections[i].to /\ {c.name, c.source} \subseteq Patch!NamesOf(sections[i])

Requested == {sections[i] : i \in DOMAIN sections}
IsRequest(s) == /\ s.kind \in {"add", "delete", "update"}
                /\ s.kind = "delete" => s.from = s.to
RequestTypes == \A s \in Requested : IsRequest(s)
IsPlan(q) == q \in Seq({q[k] : k \in DOMAIN q}) /\ \A k \in DOMAIN q : Traced(q[k])
PatchTraced ==
  RequestTypes /\ unplanned \in Seq(Requested) /\ IsPlan(plan) /\ DOMAIN disk = Patch!Files
PatchInv == PatchTraced /\ Patch!ReportIsTheDisk

(* A sequence is one over its own elements. *)
LEMMA OverItsOwn ==
  ASSUME NEW S, NEW q \in Seq(S)
  PROVE  q \in Seq({q[k] : k \in DOMAIN q})
  <1>1. q \in [1..Len(q) -> S] /\ Len(q) \in Nat
    BY LenProperties
  <1>2. q \in [1..Len(q) -> {q[k] : k \in DOMAIN q}]
    BY <1>1
  <1> QED BY <1>1, <1>2

(* A step that reports what it changes keeps the report. *)
LEMMA ReportFollows ==
  ASSUME PatchInv, NEW c, Traced(c), NEW touched \in SUBSET Patch!Files,
         UNCHANGED <<before, sections>>, pc' \notin {"check", "plan", "refused"},
         changed' = changed \cup {c.name}, exact' => exact,
         touched \subseteq {Patch!FileOf(c.name), Patch!FileOf(c.source)},
         \A f \in Patch!Files \ touched : disk'[f] = disk[f]
  PROVE  Patch!ReportIsTheDisk'
  <1> SUFFICES ASSUME exact', NEW f \in Patch!Files, disk'[f] # before[f]
               PROVE  \E i \in DOMAIN sections :
                        /\ f \in {Patch!FileOf(n) : n \in Patch!NamesOf(sections[i])}
                        /\ sections[i].to \in changed'
    BY DEF Patch!ReportIsTheDisk
  <1>1. CASE f \in touched
    BY <1>1 DEF Traced
  <1>2. CASE f \notin touched
    BY <1>2 DEF PatchInv, Patch!ReportIsTheDisk
  <1> QED BY <1>1, <1>2

(* A step that changes no file and forgets no report keeps it as well. *)
LEMMA ReportStays ==
  ASSUME PatchInv, UNCHANGED <<before, sections, disk, changed>>, exact' => exact,
         pc' \in {"check", "plan", "refused"} => pc \in {"check", "plan", "refused"}
  PROVE  Patch!ReportIsTheDisk'
  BY DEF PatchInv, Patch!ReportIsTheDisk

LEMMA PatchStep ==
  ASSUME PatchInv, [Patch!Next]_(Patch!vars)
  PROVE  PatchInv'
  <1>0. PatchTraced /\ Patch!ReportIsTheDisk
    BY DEF PatchInv
  <1>a. ASSUME UNCHANGED sections
        PROVE  (RequestTypes <=> RequestTypes') /\ Requested' = Requested /\ \A q : IsPlan(q)' <=> IsPlan(q)
    <2>1. \A c : Traced(c)' <=> Traced(c)
      BY <1>a DEF Traced, Patch!NamesOf
    <2>2. Requested' = Requested
      BY <1>a DEF Requested
    <2> QED BY <2>1, <2>2 DEF IsPlan, RequestTypes
  <1>b. ASSUME UNCHANGED sections, IsPlan(plan'), unplanned' \in Seq(Requested), DOMAIN disk' = DOMAIN disk
        PROVE  PatchTraced'
    <2>1. IsPlan(plan)'
      BY <1>a, <1>b
    <2> QED BY <1>0, <1>a, <1>b, <2>1 DEF PatchTraced
  (* The steps that plan nothing and carry nothing out *)
  <1>1. ASSUME UNCHANGED <<before, sections, unplanned, plan, disk, changed, exact>>,
               pc' \in {"check", "plan", "refused"} => pc \in {"check", "plan", "refused"}
        PROVE  PatchInv'
    <2>1. IsPlan(plan') /\ unplanned' \in Seq(Requested) /\ DOMAIN disk' = DOMAIN disk
      BY <1>0, <1>1 DEF PatchTraced
    <2> QED BY <1>1, <1>b, <2>1, ReportStays DEF PatchInv
  <1>2. CASE Patch!Validate \/ Patch!PlanComplete \/ Patch!Complete \/ Patch!Drop
              \/ UNCHANGED Patch!vars
    BY <1>1, <1>2 DEF Patch!Validate, Patch!PlanComplete, Patch!Complete, Patch!Drop, Patch!vars
  <1>3. CASE Patch!PlanSection
    <2> DEFINE s == Head(unplanned)
    <2> DEFINE p == CASE s.kind = "add" -> Patch!PlanAdd(s)
                      [] s.kind = "delete" -> Patch!PlanDelete(s)
                      [] s.kind = "update" -> Patch!PlanUpdate(s)
    <2>1. /\ pc = "plan" /\ unplanned # <<>> /\ unplanned' = Tail(unplanned)
          /\ plan' = plan \o p.changes
          /\ UNCHANGED <<before, disk, sections, changed, exact>>
      BY <1>3 DEF Patch!PlanSection
    <2>2. s \in Requested /\ unplanned' \in Seq(Requested)
      BY <1>0, <2>1 DEF PatchTraced
    <2>3. PICK i \in DOMAIN sections : s = sections[i]
      BY <2>2 DEF Requested
    <2>4. s.kind \in {"add", "delete", "update"} /\ (s.kind = "delete" => s.from = s.to)
      BY <1>0, <2>2 DEF PatchTraced, RequestTypes, IsRequest
    <2>5. p.changes = <<>> \/ \E c : p.changes = <<c>> /\ Traced(c)
      <3>1. ASSUME NEW t
            PROVE  /\ Traced(Patch!Write(s.to, t, s.to))
                   /\ Traced(Patch!Write(s.to, t, s.from))
        BY <2>3 DEF Traced, Patch!Write, Patch!NamesOf
      <3>2. CASE s.kind = "add"
        <4>1. p = Patch!PlanAdd(s)
          BY <3>2
        <4>2. \/ p = Patch!Refusal
              \/ p = Patch!Planned(<<Patch!Write(s.to, Patch!NewText(s.hunks), s.to)>>)
          BY <4>1 DEF Patch!PlanAdd
        <4> HIDE DEF p
        <4> QED BY <3>1, <4>2 DEF Patch!Refusal, Patch!Planned
      <3>3. CASE s.kind = "delete"
        <4>1. p = Patch!PlanDelete(s)
          BY <3>3
        <4>2. p = Patch!Refusal \/ p = Patch!Planned(<<Patch!Delete(s.from)>>)
          BY <4>1 DEF Patch!PlanDelete
        <4>3. Traced(Patch!Delete(s.from))
          BY <2>3, <2>4, <3>3 DEF Traced, Patch!Delete, Patch!NamesOf
        <4> HIDE DEF p
        <4> QED BY <4>2, <4>3 DEF Patch!Refusal, Patch!Planned
      <3>4. CASE s.kind = "update"
        <4>1. p = Patch!PlanUpdate(s)
          BY <3>4
        <4>2. \/ p = Patch!Refusal \/ p = Patch!Planned(<<>>)
              \/ \E t : p = Patch!Planned(<<Patch!Write(s.to, t, s.from)>>)
          BY <4>1 DEF Patch!PlanUpdate
        <4> HIDE DEF p
        <4> QED BY <3>1, <4>2 DEF Patch!Refusal, Patch!Planned
      <3> QED BY <2>4, <3>2, <3>3, <3>4
    <2> HIDE DEF p
    <2>6. IsPlan(plan')
      <3>0. plan \in Seq({plan[k] : k \in DOMAIN plan}) /\ \A k \in DOMAIN plan : Traced(plan[k])
        BY <1>0 DEF PatchTraced, IsPlan
      <3>1. CASE p.changes = <<>>
        <4>1. plan' = plan
          BY <2>1, <3>0, <3>1
        <4> QED BY <1>0, <4>1 DEF PatchTraced
      <3>2. CASE p.changes # <<>>
        <4>1. PICK c : p.changes = <<c>> /\ Traced(c)
          BY <2>5, <3>2
        <4> DEFINE T == {plan[k] : k \in DOMAIN plan} \cup {c}
        <4>2. plan \in Seq(T) /\ plan' = Append(plan, c)
          <5>1. plan \in Seq(T)
            BY <3>0
          <5>2. <<c>> \in Seq(T) /\ Len(<<c>>) = 1 /\ <<c>>[1] = c
            OBVIOUS
          <5>3. plan \o <<c>> = Append(plan, c)
            BY <5>1, <5>2
          <5> QED BY <2>1, <4>1, <5>1, <5>3
        <4>3. \A t \in T : Traced(t)
          BY <3>0, <4>1
        <4>4. c \in T
          OBVIOUS
        <4> HIDE DEF T
        <4>5. plan' \in Seq(T)
          BY <4>2, <4>4
        <4>6. \A k \in DOMAIN plan' : plan'[k] \in T
          BY <4>5
        <4> QED BY <4>3, <4>5, <4>6, OverItsOwn DEF IsPlan
      <3> QED BY <3>1, <3>2
    <2>7. PatchTraced'
      BY <1>b, <2>1, <2>2, <2>6
    <2>8. Patch!ReportIsTheDisk'
      BY <2>1, ReportStays
    <2> QED BY <2>7, <2>8 DEF PatchInv
  (* The steps that carry the plan out *)
  <1>4. ASSUME plan # <<>>, UNCHANGED <<before, sections, unplanned>>,
               plan' = plan \/ plan' = Tail(plan), DOMAIN disk' = DOMAIN disk
        PROVE  PatchTraced' /\ Traced(Head(plan))
    <2> DEFINE T == {plan[k] : k \in DOMAIN plan}
    <2>1. plan \in Seq(T) /\ \A t \in T : Traced(t)
      BY <1>0 DEF PatchTraced, IsPlan
    <2> HIDE DEF T
    <2>2. Head(plan) \in T /\ Tail(plan) \in Seq(T)
      BY <1>4, <2>1
    <2>3. plan' \in Seq(T)
      BY <1>4, <2>1, <2>2
    <2>4. \A k \in DOMAIN plan' : plan'[k] \in T
      BY <2>3
    <2>5. IsPlan(plan')
      BY <2>1, <2>3, <2>4, OverItsOwn DEF IsPlan
    <2>6. unplanned' \in Seq(Requested)
      BY <1>0, <1>4 DEF PatchTraced
    <2>7. PatchTraced'
      BY <1>4, <1>b, <2>5, <2>6
    <2> QED BY <2>1, <2>2, <2>7
  <1>5. CASE Patch!WriteFile
    <2> DEFINE c == Head(plan)
    <2> DEFINE f == Patch!FileOf(c.name)
    <2> DEFINE src == Patch!FileOf(c.source)
    <2>0. /\ f \in Patch!Files /\ src \in Patch!Files /\ DOMAIN disk = Patch!Files
      BY <1>0 DEF Patch!FileOf, Patch!Files, PatchTraced
    <2>1. /\ pc = "write" /\ plan # <<>> /\ UNCHANGED <<before, sections, unplanned>>
          /\ \/ Patch!Fail /\ UNCHANGED <<disk, changed, exact>>
             \/ Patch!WriteFails(f, c.text)
             \/ /\ changed' = changed \cup {c.name}
                /\ \/ /\ Patch!Fail /\ exact' = FALSE /\ disk' = [disk EXCEPT ![f] = c.text]
                   \/ /\ Patch!Carry /\ UNCHANGED exact
                      /\ disk' = IF Patch!Moves(c)
                                 THEN [disk EXCEPT ![f] = c.text, ![src] = Patch!Absent]
                                 ELSE [disk EXCEPT ![f] = c.text]
      BY <1>5 DEF Patch!WriteFile
    <2> HIDE DEF f, src
    <2>2. CASE Patch!Fail /\ UNCHANGED <<disk, changed, exact>>
      <3>1. plan' = plan /\ pc' = "failed"
        BY <2>2 DEF Patch!Fail
      <3>2. PatchTraced'
        BY <1>4, <2>1, <2>2, <3>1
      <3>3. Patch!ReportIsTheDisk'
        BY <2>1, <2>2, <3>1, ReportStays
      <3> QED BY <3>2, <3>3 DEF PatchInv
    <2>3. CASE exact' = FALSE /\ Patch!Fail /\ \E t : disk' = [disk EXCEPT ![f] = t]
      <3>1. plan' = plan /\ pc' = "failed" /\ DOMAIN disk' = DOMAIN disk
        BY <2>3 DEF Patch!Fail
      <3>2. PatchTraced'
        BY <1>4, <2>1, <3>1
      <3>3. Patch!ReportIsTheDisk'
        BY <2>3, <3>1 DEF Patch!ReportIsTheDisk
      <3> QED BY <3>2, <3>3 DEF PatchInv
    <2>4. CASE /\ changed' = changed \cup {c.name} /\ Patch!Carry /\ UNCHANGED exact
               /\ disk' = IF Patch!Moves(c)
                          THEN [disk EXCEPT ![f] = c.text, ![src] = Patch!Absent]
                          ELSE [disk EXCEPT ![f] = c.text]
      <3>1. plan' = Tail(plan) /\ pc' = "write" /\ DOMAIN disk' = DOMAIN disk
            /\ changed' = changed \cup {c.name} /\ UNCHANGED exact
        BY <2>1, <2>4 DEF Patch!Carry
      <3>2. PatchTraced' /\ Traced(c)
        BY <1>4, <2>1, <3>1
      <3>3. \A x \in Patch!Files \ {f, src} : disk'[x] = disk[x]
        BY <2>0, <2>4
      <3>4. {f, src} \in SUBSET Patch!Files /\ {f, src} \subseteq {f, src}
        BY <2>0
      <3> HIDE DEF c
      <3>5. Patch!ReportIsTheDisk'
        BY <2>1, <3>1, <3>2, <3>3, <3>4, ReportFollows DEF f, src
      <3> QED BY <3>2, <3>5 DEF PatchInv
    <2>5. ASSUME Patch!WriteFails(f, c.text)
          PROVE  exact' = FALSE /\ Patch!Fail /\ \E t : disk' = [disk EXCEPT ![f] = t]
      BY <2>5 DEF Patch!WriteFails
    <2>6. ASSUME NEW t, disk' = [disk EXCEPT ![f] = t]
          PROVE  \E u : disk' = [disk EXCEPT ![f] = u]
      BY <2>6
    <2> QED BY <2>1, <2>2, <2>3, <2>4, <2>5, <2>6
  <1>6. CASE Patch!DeleteFile
    <2> DEFINE c == Head(plan)
    <2> DEFINE f == Patch!FileOf(c.name)
    <2>0. f \in Patch!Files /\ DOMAIN disk = Patch!Files
      BY <1>0 DEF Patch!FileOf, Patch!Files, PatchTraced
    <2>1. /\ pc = "write" /\ plan # <<>> /\ UNCHANGED <<before, sections, unplanned, exact>>
          /\ \/ Patch!Fail /\ UNCHANGED <<disk, changed>>
             \/ /\ Patch!Carry /\ disk' = [disk EXCEPT ![f] = Patch!Absent]
                /\ changed' = changed \cup {c.name}
      BY <1>6 DEF Patch!DeleteFile
    <2> HIDE DEF f
    <2>2. CASE Patch!Fail /\ UNCHANGED <<disk, changed>>
      <3>1. plan' = plan /\ pc' = "failed"
        BY <2>2 DEF Patch!Fail
      <3>2. PatchTraced'
        BY <1>4, <2>1, <2>2, <3>1
      <3>3. Patch!ReportIsTheDisk'
        BY <2>1, <2>2, <3>1, ReportStays
      <3> QED BY <3>2, <3>3 DEF PatchInv
    <2>3. CASE /\ Patch!Carry /\ disk' = [disk EXCEPT ![f] = Patch!Absent]
               /\ changed' = changed \cup {c.name}
      <3>1. plan' = Tail(plan) /\ pc' = "write" /\ DOMAIN disk' = DOMAIN disk
        BY <2>1, <2>3 DEF Patch!Carry
      <3>2. PatchTraced' /\ Traced(c)
        BY <1>4, <2>1, <3>1
      <3>3. \A x \in Patch!Files \ {f} : disk'[x] = disk[x]
        BY <2>0, <2>3
      <3>4. {f} \in SUBSET Patch!Files /\ {f} \subseteq {f, Patch!FileOf(c.source)}
        BY <2>0
      <3> HIDE DEF c
      <3>5. Patch!ReportIsTheDisk'
        BY <2>1, <2>3, <3>1, <3>2, <3>3, <3>4, ReportFollows DEF f
      <3> QED BY <3>2, <3>5 DEF PatchInv
    <2> QED BY <2>1, <2>2, <2>3
  <1> QED BY <1>2, <1>3, <1>5, <1>6 DEF Patch!Next

LEMMA PatchInit == Patch!Init => PatchInv
  <1> SUFFICES ASSUME Patch!Init PROVE PatchInv
    OBVIOUS
  <1>1. /\ disk = before /\ unplanned = sections /\ plan = <<>> /\ changed = {} /\ pc = "check"
        /\ DOMAIN disk = Patch!Files
    BY DEF Patch!Init
  <1>2. \E S : sections \in Seq(S) /\ \A s \in S : IsRequest(s)
    <2>1. CASE sections \in Patch!Edits
      <3>1. PICK l \in Patch!Bodies, t \in {<<>>} \cup {<<h>> : h \in Patch!Seconds} :
              sections = <<Patch!Section("update", "f", "f", <<Patch!Simple(l)>> \o t)>>
        BY <2>1 DEF Patch!Edits
      <3> DEFINE s == Patch!Section("update", "f", "f", <<Patch!Simple(l)>> \o t)
      <3>2. sections \in Seq({s}) /\ IsRequest(s)
        BY <3>1 DEF Patch!Section, IsRequest
      <3> QED BY <3>2
    <2>2. CASE sections \in {<<s, t>> : s \in Patch!SmallSections, t \in Patch!SmallSections}
      <3>1. \A s \in Patch!SmallSections : IsRequest(s)
        BY DEF Patch!SmallSections, Patch!Section, IsRequest
      <3>2. PICK s \in Patch!SmallSections, t \in Patch!SmallSections : sections = <<s, t>>
        BY <2>2
      <3>3. sections \in Seq(Patch!SmallSections)
        BY <3>2
      <3> QED BY <3>1, <3>3
    <2> QED BY <2>1, <2>2 DEF Patch!Init
  <1>3. PICK S : sections \in Seq(S) /\ \A s \in S : IsRequest(s)
    BY <1>2
  <1>4. Requested \subseteq S /\ unplanned \in Seq(Requested)
    <2>1. \A i \in DOMAIN sections : sections[i] \in S
      BY <1>3
    <2>2. sections \in Seq({sections[i] : i \in DOMAIN sections})
      BY <1>3, OverItsOwn
    <2> QED BY <1>1, <2>1, <2>2 DEF Requested
  <1>5. RequestTypes
    BY <1>3, <1>4 DEF RequestTypes
  <1>6. IsPlan(plan)
    BY <1>1 DEF IsPlan
  <1>7. PatchTraced
    BY <1>1, <1>4, <1>5, <1>6 DEF PatchTraced
  <1>8. Patch!ReportIsTheDisk
    BY <1>1 DEF Patch!ReportIsTheDisk
  <1> QED BY <1>7, <1>8 DEF PatchInv

(* A patch keeps its invariant in the run of all parts. *)
LEMMA PatchHolds == Spec => [](part = "patch" => PatchInv)
  <1> DEFINE Holds == part = "patch" => PatchInv
  <1>1. Init => Holds
    BY PatchInit DEF Init
  <1>2. Holds /\ [Next]_vars => Holds'
    <2> SUFFICES ASSUME Holds, [Next]_vars, part' = "patch" PROVE PatchInv'
      OBVIOUS
    <2>1. part = "patch"
      BY DEF Next, vars
    <2>2. [Patch!Next]_(Patch!vars)
      BY <2>1 DEF Next, vars, patchVars, Patch!vars
    <2> QED BY <2>1, <2>2, PatchStep
  <1> QED BY <1>1, <1>2, PTL DEF Spec

(* ApplyPatch: a file that a patch changed is of a path the report names, as
   long as the report says it is exact; a refused patch changed nothing.     *)
THEOREM ReportTellsTheDisk == Spec => []ReportIsTheDisk
  <1>1. (part = "patch" => PatchInv) => ReportIsTheDisk
    BY DEF ReportIsTheDisk, PatchInv
  <1> QED BY <1>1, PatchHolds, PTL
===============================================================================
