--------------------------- MODULE ConversationProofs ---------------------------
(***************************************************************************)
(* Proofs about what is told, marked and kept of a conversation: a client  *)
(* is told of the end of a turn last and shown the view there is           *)
(* (TurnStream), the busy mark of a conversation follows its state         *)
(* (NodeSessions), what a flush reports written can be loaded and a page of *)
(* the index is that of a scan (RolloutStore), and the endings a turn leaves *)
(* agree (TurnRecord).  The proofs of a part stay within its own Next; its *)
(* last theorem lifts them to the module that runs one of ten parts.       *)
(***************************************************************************)
EXTENDS MCParts, TLAPS, SequenceTheorems, WellFoundedInduction

(***************************************************************************)
(* Induction over a sequence                                               *)
(***************************************************************************)

LEMMA LeastOf ==
  ASSUME NEW S \in SUBSET Nat, S # {}
  PROVE  \E m \in S : \A y \in S : m <= y
  <1>1. PICK m \in S : \A y \in S : ~(<<y, m>> \in OpToRel(<, Nat))
    BY NatLessThanWellFounded, WFMin
  <1>2. ASSUME NEW y \in S, y < m PROVE FALSE
    <2>1. <<y, m>> \in {ss \in Nat \X Nat : ss[1] < ss[2]}
      BY <1>2
    <2> QED BY <1>1, <2>1 DEF OpToRel
  <1>3. \A y \in S : y \in Nat /\ m \in Nat
    OBVIOUS
  <1> QED BY <1>2, <1>3

(* A set that holds 0 and with k - 1 also k holds every number up to n: its
   least exception would be none. *)
LEMMA UpTo ==
  ASSUME NEW n \in Nat, NEW S, 0 \in S, \A k \in 1..n : k - 1 \in S => k \in S
  PROVE  \A k \in 0..n : k \in S
  <1> DEFINE Left == {k \in 0..n : k \notin S}
  <1>1. SUFFICES ASSUME Left # {} PROVE FALSE
    OBVIOUS
  <1>2. Left \in SUBSET Nat
    OBVIOUS
  <1>3. PICK m \in Left : \A y \in Left : m <= y
    <2> HIDE DEF Left
    <2> QED BY <1>1, <1>2, LeastOf
  <1>4. m \in 1..n /\ m - 1 \in 0..n /\ ~(m <= m - 1)
    OBVIOUS
  <1>5. m - 1 \in Left
    BY <1>4
  <1> QED BY <1>3, <1>4, <1>5

(* A recursion over 1..n whose steps stay in V has a solution. *)
Solves(f, V, n, base, step) ==
  f \in [0..n -> V] /\ f[0] = base /\ \A k \in 1..n : f[k] = step[k][f[k - 1]]

LEMMA RecursionHasOne ==
  ASSUME NEW V, NEW n \in Nat, NEW base \in V, NEW step \in [1..n -> [V -> V]]
  PROVE  \E f : Solves(f, V, n, base, step)
  <1> DEFINE Rec(f, m) == f[0] = base /\ \A k \in 1..m : f[k] = step[k][f[k - 1]]
             Good == {m \in 0..n : \E f \in [0..m -> V] : Rec(f, m)}
  <1>1. 0 \in Good
    <2>1. [k \in 0..0 |-> base] \in [0..0 -> V]
      OBVIOUS
    <2>2. Rec([k \in 0..0 |-> base], 0)
      OBVIOUS
    <2> HIDE DEF Rec
    <2> QED BY <2>1, <2>2
  <1>2. ASSUME NEW k \in 1..n, k - 1 \in Good PROVE k \in Good
    <2>1. PICK f \in [0..(k - 1) -> V] : Rec(f, k - 1)
      BY <1>2
    <2> DEFINE g == [j \in 0..k |-> IF j = k THEN step[k][f[k - 1]] ELSE f[j]]
    <2>2. k \in Nat /\ k - 1 \in 0..(k - 1) /\ f[k - 1] \in V /\ step[k] \in [V -> V]
      OBVIOUS
    <2>3. step[k][f[k - 1]] \in V
      BY <2>2
    <2>4. \A j \in 0..k : j = k \/ j \in 0..(k - 1)
      BY <2>2
    <2>5. g \in [0..k -> V]
      BY <2>3, <2>4
    <2>6. Rec(g, k)
      <3>1. g[0] = f[0] /\ g[k] = step[k][f[k - 1]] /\ g[k - 1] = f[k - 1]
        BY <2>2
      <3>2. \A j \in 1..(k - 1) : g[j] = f[j] /\ g[j - 1] = f[j - 1]
        BY <2>2
      <3>3. \A j \in 1..k : j = k \/ j \in 1..(k - 1)
        BY <2>2
      <3> HIDE DEF g
      <3> QED BY <2>1, <3>1, <3>2, <3>3
    <2> HIDE DEF g, Rec
    <2> QED BY <2>5, <2>6, <2>2
  <1>3. n \in Good
    <2>1. \A k \in 1..n : k - 1 \in Good => k \in Good
      BY <1>2
    <2>2. n \in 0..n
      OBVIOUS
    <2> HIDE DEF Good
    <2> QED BY <1>1, <2>1, <2>2, UpTo
  <1>4. PICK f \in [0..n -> V] : Rec(f, n)
    <2> HIDE DEF Rec
    <2> QED BY <1>3
  <1> QED BY <1>4 DEF Solves

(***************************************************************************)
(* Sequences                                                               *)
(***************************************************************************)

(* What the first place leaves behind it. *)
LEMMA TailPlaces ==
  ASSUME NEW S, NEW q \in Seq(S), q # <<>>
  PROVE  /\ Tail(q) \in Seq(S) /\ Head(q) = q[1] /\ Head(q) \in S /\ 1 \in DOMAIN q
         /\ \A k \in DOMAIN Tail(q) : k + 1 \in DOMAIN q /\ k + 1 # 1 /\ Tail(q)[k] = q[k + 1]
  <1>1. /\ Tail(q) \in Seq(S) /\ Len(Tail(q)) = Len(q) - 1 /\ Len(q) \in Nat \ {0}
        /\ \A k \in 1..(Len(q) - 1) : Tail(q)[k] = q[k + 1]
        /\ Head(q) = q[1] /\ Head(q) \in S
    OBVIOUS
  <1>2. DOMAIN q = 1..Len(q) /\ DOMAIN Tail(q) = 1..(Len(q) - 1)
    BY <1>1
  <1> QED BY <1>1, <1>2

(* What stands at the places of a longer sequence. *)
LEMMA AppendPlaces ==
  ASSUME NEW S, NEW q \in Seq(S), NEW x \in S
  PROVE  /\ Append(q, x) \in Seq(S) /\ Append(q, x) # <<>>
         /\ \A k \in DOMAIN Append(q, x) :
              \/ k \in DOMAIN q /\ Append(q, x)[k] = q[k] /\ k < Len(q) + 1
              \/ k = Len(q) + 1 /\ Append(q, x)[k] = x
         /\ Len(q) + 1 \in DOMAIN Append(q, x)
         /\ \A k \in DOMAIN q : k \in DOMAIN Append(q, x) /\ k < Len(q) + 1
  <1>1. /\ Append(q, x) \in Seq(S) /\ Len(Append(q, x)) = Len(q) + 1 /\ Len(q) \in Nat
        /\ \A k \in 1..Len(q) : Append(q, x)[k] = q[k]
        /\ Append(q, x)[Len(q) + 1] = x
    OBVIOUS
  <1>2. DOMAIN q = 1..Len(q) /\ DOMAIN Append(q, x) = 1..(Len(q) + 1)
    BY <1>1
  <1>3. Append(q, x) # <<>>
    BY <1>1
  <1> QED BY <1>1, <1>2, <1>3

(***************************************************************************)
(* TurnStream                                                              *)
(***************************************************************************)

Steps == {"item_started", "item_delta", "item_completed"}
Events == [kind : {"started"}] \cup [kind : Steps, item : Stream!Items]
            \cup [kind : {"end"}, how : Stream!Hows]
Ops == [op : {"event"}, event : Events, n : Nat] \cup [op : {"snapshot"}, n : Nat]
         \cup [op : {"finish", "error"}]
Kept == [kind : {"lifecycle_error"}] \cup [kind : {"end"}, how : Stream!Hows]
Notices == Kept \cup [kind : {"started", "error"}] \cup [kind : Steps, item : Stream!Items]

StreamTypes ==
  /\ queue \in Seq(Ops) /\ told \in Seq(Notices) /\ listening \in BOOLEAN /\ emitted \in Nat
  /\ projector \in [active : SUBSET Stream!Items, deferred : Seq(Kept), seen : Nat]
  /\ pc \notin {"idle", "settle", "ack"} => listening

IsEnd(op) == op.op = "event" /\ op.event.kind = "end"
IsCompletion(op) == IsEnd(op) /\ op.event.how = "completed"
Ends(x) == x.kind = "end" /\ x.how # "failed"
TellsEndLast(s) == \A i, j \in DOMAIN s : i < j /\ Ends(s[i]) => s[j].kind = "end"

(* The listener is asked once to finish, and answers before the turn task goes
   on.                                                                       *)
FinishAwaited ==
  \A k \in DOMAIN queue : queue[k].op = "finish" =>
    /\ pc = "ack" /\ listening
    /\ \A l \in DOMAIN queue : queue[l].op = "finish" => l = k

(* Once an end is on its way, or deferred, the chat of the turn is over; the end
   of a turn that completes is the only one.                                 *)
ChatIsOver ==
  (\E k \in DOMAIN queue : IsEnd(queue[k])) \/ projector.deferred # <<>> =>
    pc \notin {"starting", "chat"}
CompletesOnce ==
  \A k \in DOMAIN queue : IsCompletion(queue[k]) =>
    /\ pc \notin {"starting"} \cup Stream!Busy /\ projector.deferred = <<>>
    /\ \A l \in DOMAIN queue : IsEnd(queue[l]) => l = k

(* What ends a turn is told when the listener is done. *)
EndsWithListener ==
  (\E i \in DOMAIN told : Ends(told[i])) => ~listening /\ pc \in {"ack", "settle", "idle"}

(* A snapshot that is not sent yet is the view, unless it changed since. *)
ViewIsCurrent ==
  ~overlap => /\ \A w \in DOMAIN unsent : unsent[w] = facts
              /\ unsent = <<>> => view = facts

StreamInv ==
  /\ StreamTypes /\ FinishAwaited /\ ChatIsOver /\ CompletesOnce /\ EndsWithListener
  /\ TellsEndLast(projector.deferred) /\ TellsEndLast(told) /\ ViewIsCurrent

(* Something more is told of a turn whose end was not told. *)
LEMMA TellOne ==
  ASSUME NEW S, NEW s \in Seq(S), NEW x \in S, TellsEndLast(s),
         x.kind = "end" \/ \A i \in DOMAIN s : ~Ends(s[i])
  PROVE  TellsEndLast(Append(s, x)) /\ Append(s, x) \in Seq(S)
  <1>1. /\ Append(s, x) \in Seq(S)
        /\ \A k \in DOMAIN Append(s, x) :
              \/ k \in DOMAIN s /\ Append(s, x)[k] = s[k] /\ k < Len(s) + 1
              \/ k = Len(s) + 1 /\ Append(s, x)[k] = x
    BY AppendPlaces
  <1> SUFFICES ASSUME NEW i \in DOMAIN Append(s, x), NEW j \in DOMAIN Append(s, x), i < j,
                      Ends(Append(s, x)[i])
               PROVE  Append(s, x)[j].kind = "end"
    BY <1>1 DEF TellsEndLast
  <1>2. CASE j \in DOMAIN s /\ j < Len(s) + 1
    <2>1. i \in DOMAIN s /\ Append(s, x)[i] = s[i] /\ Append(s, x)[j] = s[j]
      BY <1>1, <1>2
    <2> QED BY <2>1, <1>2 DEF TellsEndLast
  <1>3. CASE j = Len(s) + 1
    BY <1>1, <1>3
  <1> QED BY <1>1, <1>2, <1>3

(* What was deferred is told behind what was told before. *)
LEMMA TellDeferred ==
  ASSUME NEW S, NEW s \in Seq(S), NEW d \in Seq(S), TellsEndLast(d),
         \A i \in DOMAIN s : ~Ends(s[i])
  PROVE  s \o d \in Seq(S) /\ TellsEndLast(s \o d)
  <1>1. /\ s \o d \in Seq(S) /\ Len(s \o d) = Len(s) + Len(d) /\ Len(s) \in Nat /\ Len(d) \in Nat
        /\ \A i \in 1..(Len(s) + Len(d)) :
             (s \o d)[i] = IF i <= Len(s) THEN s[i] ELSE d[i - Len(s)]
    BY ConcatProperties
  <1>2. /\ DOMAIN s = 1..Len(s) /\ DOMAIN d = 1..Len(d)
        /\ DOMAIN (s \o d) = 1..(Len(s) + Len(d))
    BY <1>1
  <1> SUFFICES ASSUME NEW i \in 1..(Len(s) + Len(d)), NEW j \in 1..(Len(s) + Len(d)), i < j,
                      Ends((s \o d)[i])
               PROVE  (s \o d)[j].kind = "end"
    BY <1>1, <1>2 DEF TellsEndLast
  <1>3. ~(i <= Len(s))
    BY <1>1, <1>2
  <1>4. /\ i - Len(s) \in DOMAIN d /\ j - Len(s) \in DOMAIN d /\ i - Len(s) < j - Len(s)
        /\ (s \o d)[i] = d[i - Len(s)] /\ (s \o d)[j] = d[j - Len(s)]
    BY <1>1, <1>2, <1>3
  <1> QED BY <1>4 DEF TellsEndLast

(* The turn task and the tasks of the events move only the view. *)
LEMMA StreamFrame ==
  ASSUME StreamInv, UNCHANGED <<queue, told, listening, emitted, projector>>,
         pc' \in {"starting", "chat"} => pc \in {"starting", "chat"},
         pc' \in {"starting"} \cup Stream!Busy => pc \in {"starting"} \cup Stream!Busy,
         pc \in {"ack", "settle", "idle"} => pc' \in {"ack", "settle", "idle"},
         pc = "ack" => pc' = "ack" \/ ~listening,
         pc' \notin {"idle", "settle", "ack"} => listening,
         ViewIsCurrent'
  PROVE  StreamInv'
  <1>1. StreamTypes'
    BY DEF StreamInv, StreamTypes
  <1>2. FinishAwaited'
    BY DEF StreamInv, FinishAwaited
  <1>3. ChatIsOver' /\ CompletesOnce'
    BY DEF StreamInv, ChatIsOver, CompletesOnce
  <1>4. EndsWithListener'
    BY DEF StreamInv, EndsWithListener
  <1>5. TellsEndLast(projector.deferred)' /\ TellsEndLast(told)'
    BY DEF StreamInv, TellsEndLast
  <1> QED BY <1>1, <1>2, <1>3, <1>4, <1>5 DEF StreamInv

(* A snapshot put aside under the lock is there to be sent. *)
LEMMA SentLater ==
  ASSUME NEW w, NEW new, Stream!Sends(w, new)
  PROVE  /\ DOMAIN unsent' = DOMAIN unsent \cup {w} /\ unsent' # <<>>
         /\ \A x \in DOMAIN unsent' : unsent'[x] = IF x = w THEN new ELSE unsent[x]
  BY DEF Stream!Sends

LEMMA ViewApplies ==
  ASSUME ViewIsCurrent, NEW w, NEW new, Stream!Apply(w, new)
  PROVE  ViewIsCurrent'
  <1>1. /\ facts' = new /\ view' = view
        /\ overlap' = (overlap \/ (facts # new /\ unsent # <<>>))
        /\ IF facts # new THEN Stream!Sends(w, new) ELSE UNCHANGED unsent
    BY DEF Stream!Apply, Stream!Changed
  <1>2. CASE facts = new
    BY <1>1, <1>2 DEF ViewIsCurrent
  <1>3. CASE facts # new
    <2>1. /\ DOMAIN unsent' = DOMAIN unsent \cup {w} /\ unsent' # <<>>
          /\ \A x \in DOMAIN unsent' : unsent'[x] = IF x = w THEN new ELSE unsent[x]
      BY <1>1, <1>3, SentLater
    <2>2. unsent = <<>> => DOMAIN unsent = {}
      OBVIOUS
    <2> QED BY <1>1, <1>3, <2>1, <2>2 DEF ViewIsCurrent
  <1> QED BY <1>2, <1>3

LEMMA ViewIsSent ==
  ASSUME ViewIsCurrent,
         Stream!ReadView \/ \E w \in Stream!Writers : Stream!Publish(w)
  PROVE  ViewIsCurrent'
  <1>1. ASSUME NEW w, Stream!Publish(w) PROVE ViewIsCurrent'
    <2>1. /\ w \in DOMAIN unsent /\ view' = unsent[w] /\ UNCHANGED <<facts, overlap>>
          /\ unsent' = [x \in DOMAIN unsent \ {w} |-> unsent[x]]
      BY <1>1 DEF Stream!Publish
    <2> QED BY <2>1 DEF ViewIsCurrent
  <1>2. CASE Stream!ReadView
    <2>1. /\ overlap' = (overlap \/ unsent # <<>>) /\ Stream!Sends(Stream!Reader, facts)
          /\ UNCHANGED <<facts, view>>
      BY <1>2 DEF Stream!ReadView
    <2>2. /\ DOMAIN unsent' = DOMAIN unsent \cup {Stream!Reader} /\ unsent' # <<>>
          /\ \A x \in DOMAIN unsent' : unsent'[x] = IF x = Stream!Reader THEN facts ELSE unsent[x]
      BY <2>1, SentLater
    <2>3. unsent = <<>> => DOMAIN unsent = {}
      OBVIOUS
    <2> QED BY <2>1, <2>2, <2>3 DEF ViewIsCurrent
  <1> QED BY <1>1, <1>2

(* The listener is asked for something: an event, a snapshot, or to finish. *)
LEMMA QueueGrows ==
  ASSUME StreamInv, NEW op \in Ops, queue' = Append(queue, op),
         UNCHANGED <<told, listening, projector>>, emitted' \in Nat, ViewIsCurrent',
         op.op = "finish" => pc # "ack" /\ pc' = "ack" /\ listening,
         pc = "ack" => pc' = "ack",
         pc' \in {"starting", "chat"} => pc \in {"starting", "chat"} /\ ~IsEnd(op),
         pc' \in {"starting"} \cup Stream!Busy =>
           pc \in {"starting"} \cup Stream!Busy /\ ~IsCompletion(op),
         IsEnd(op) => pc \in {"starting"} \cup Stream!Busy,
         IsCompletion(op) => pc \in {"starting", "chat"},
         pc \in {"ack", "settle", "idle"} => pc' \in {"ack", "settle", "idle"},
         pc' \notin {"idle", "settle", "ack"} => listening
  PROVE  StreamInv'
  <1>0. StreamTypes /\ queue \in Seq(Ops)
    BY DEF StreamInv, StreamTypes
  <1>1. /\ queue' \in Seq(Ops)
        /\ \A k \in DOMAIN queue' :
             \/ k \in DOMAIN queue /\ queue'[k] = queue[k]
             \/ k = Len(queue) + 1 /\ queue'[k] = op
    BY <1>0, AppendPlaces
  <1>2. StreamTypes'
    BY <1>0, <1>1 DEF StreamTypes
  <1>3. FinishAwaited'
    <2>1. CASE op.op = "finish"
      <3>1. \A k \in DOMAIN queue : queue[k].op # "finish"
        BY <2>1 DEF StreamInv, FinishAwaited
      <3> QED BY <1>1, <2>1, <3>1 DEF FinishAwaited
    <2>2. CASE op.op # "finish"
      <3>1. \A k \in DOMAIN queue' : queue'[k].op = "finish" => k \in DOMAIN queue /\ queue[k].op = "finish"
        BY <1>1, <2>2
      <3> QED BY <3>1 DEF StreamInv, FinishAwaited
    <2> QED BY <2>1, <2>2
  <1>4. ChatIsOver'
    <2>1. ASSUME NEW k \in DOMAIN queue', IsEnd(queue'[k])
          PROVE  IsEnd(op) \/ \E l \in DOMAIN queue : IsEnd(queue[l])
      BY <1>1, <2>1
    <2>2. (\E k \in DOMAIN queue' : IsEnd(queue'[k])) =>
            IsEnd(op) \/ \E l \in DOMAIN queue : IsEnd(queue[l])
      BY <2>1
    <2>3. (\E k \in DOMAIN queue : IsEnd(queue[k])) \/ projector.deferred # <<>> =>
            pc \notin {"starting", "chat"}
      BY DEF StreamInv, ChatIsOver
    <2>4. (\E k \in DOMAIN queue' : IsEnd(queue'[k])) \/ projector'.deferred # <<>> =>
            pc' \notin {"starting", "chat"}
      BY <2>2, <2>3
    <2> QED BY <2>4 DEF ChatIsOver, IsEnd
  <1>5. CompletesOnce'
    <2>0. /\ \A k \in DOMAIN queue : IsCompletion(queue[k]) =>
               /\ pc \notin {"starting"} \cup Stream!Busy /\ projector.deferred = <<>>
               /\ \A l \in DOMAIN queue : IsEnd(queue[l]) => l = k
          /\ (\E k \in DOMAIN queue : IsEnd(queue[k])) \/ projector.deferred # <<>> =>
               pc \notin {"starting", "chat"}
      BY DEF StreamInv, CompletesOnce, ChatIsOver
    <2>1. ASSUME NEW k \in DOMAIN queue', IsCompletion(queue'[k])
          PROVE  /\ pc' \notin {"starting"} \cup Stream!Busy /\ projector'.deferred = <<>>
                 /\ \A l \in DOMAIN queue' : IsEnd(queue'[l]) => l = k
      <3>1. CASE k \in DOMAIN queue /\ queue'[k] = queue[k]
        <4>1. /\ pc \notin {"starting"} \cup Stream!Busy /\ projector.deferred = <<>>
              /\ \A l \in DOMAIN queue : IsEnd(queue[l]) => l = k
          BY <2>0, <2>1, <3>1
        <4>2. ~IsEnd(op)
          BY <4>1
        <4> QED BY <1>1, <4>1, <4>2
      <3>2. CASE k = Len(queue) + 1 /\ queue'[k] = op
        <4>1. IsCompletion(op) /\ pc \in {"starting", "chat"}
          BY <2>1, <3>2
        <4>2. projector.deferred = <<>> /\ \A l \in DOMAIN queue : ~IsEnd(queue[l])
          BY <2>0, <4>1
        <4> QED BY <1>1, <3>2, <4>1, <4>2
      <3> QED BY <1>1, <3>1, <3>2
    <2> QED BY <2>1 DEF CompletesOnce, IsCompletion, IsEnd
  <1>6. EndsWithListener'
    BY DEF StreamInv, EndsWithListener, Ends
  <1>7. TellsEndLast(projector.deferred)' /\ TellsEndLast(told)'
    BY DEF StreamInv, TellsEndLast, Ends
  <1> QED BY <1>2, <1>3, <1>4, <1>5, <1>6, <1>7 DEF StreamInv

(* The listener takes what it was asked for, but to finish. *)
LEMMA QueueShrinks ==
  ASSUME StreamInv, listening, queue # <<>>, Head(queue).op # "finish", queue' = Tail(queue),
         UNCHANGED <<pc, listening, emitted>>, told' \in Seq(Notices),
         projector' \in [active : SUBSET Stream!Items, deferred : Seq(Kept), seen : Nat],
         \A i \in DOMAIN told' : ~Ends(told'[i]), TellsEndLast(projector'.deferred),
         IsEnd(Head(queue)) \/ projector'.deferred = projector.deferred,
         ViewIsCurrent'
  PROVE  StreamInv'
  <1>0. StreamTypes /\ queue \in Seq(Ops)
    BY DEF StreamInv, StreamTypes
  <1>1. /\ queue' \in Seq(Ops) /\ 1 \in DOMAIN queue /\ Head(queue) = queue[1]
        /\ \A k \in DOMAIN queue' : k + 1 \in DOMAIN queue /\ k + 1 # 1 /\ queue'[k] = queue[k + 1]
    BY <1>0, TailPlaces
  <1>d. DOMAIN queue' = 1..Len(queue')
    BY <1>1
  <1>2. StreamTypes'
    BY <1>0, <1>1 DEF StreamTypes
  <1>3. FinishAwaited'
    <2>1. ASSUME NEW k \in DOMAIN queue', queue'[k].op = "finish", NEW l \in DOMAIN queue',
                 queue'[l].op = "finish"
          PROVE  l = k
      <3>1. l + 1 = k + 1
        BY <1>1, <2>1 DEF StreamInv, FinishAwaited
      <3> QED BY <1>d, <3>1
    <2>2. ASSUME NEW k \in DOMAIN queue', queue'[k].op = "finish" PROVE pc = "ack"
      BY <1>1, <2>2 DEF StreamInv, FinishAwaited
    <2> QED BY <2>1, <2>2 DEF FinishAwaited
  <1>4. ChatIsOver'
    <2>1. (\E k \in DOMAIN queue : IsEnd(queue[k])) \/ projector.deferred # <<>> =>
            pc \notin {"starting", "chat"}
      BY DEF StreamInv, ChatIsOver
    <2>2. (\E k \in DOMAIN queue' : IsEnd(queue'[k])) => \E k \in DOMAIN queue : IsEnd(queue[k])
      BY <1>1
    <2>3. projector'.deferred # <<>> =>
            projector.deferred # <<>> \/ \E k \in DOMAIN queue : IsEnd(queue[k])
      BY <1>1
    <2>4. (\E k \in DOMAIN queue' : IsEnd(queue'[k])) \/ projector'.deferred # <<>> =>
            pc \notin {"starting", "chat"}
      BY <2>1, <2>2, <2>3
    <2> QED BY <2>4 DEF ChatIsOver, IsEnd
  <1>5. CompletesOnce'
    <2>1. ASSUME NEW k \in DOMAIN queue', IsCompletion(queue'[k])
          PROVE  /\ pc' \notin {"starting"} \cup Stream!Busy /\ projector'.deferred = <<>>
                 /\ \A l \in DOMAIN queue' : IsEnd(queue'[l]) => l = k
      <3>1. /\ pc \notin {"starting"} \cup Stream!Busy /\ projector.deferred = <<>>
            /\ \A l \in DOMAIN queue : IsEnd(queue[l]) => l = k + 1
        BY <1>1, <2>1 DEF StreamInv, CompletesOnce
      <3>2. ~IsEnd(Head(queue))
        BY <1>1, <3>1
      <3>3. ASSUME NEW l \in DOMAIN queue', IsEnd(queue'[l]) PROVE l = k
        <4>1. l + 1 = k + 1
          BY <1>1, <3>1, <3>3
        <4> QED BY <1>d, <4>1
      <3> QED BY <3>1, <3>2, <3>3
    <2> QED BY <2>1 DEF CompletesOnce, IsCompletion, IsEnd
  <1>6. EndsWithListener' /\ TellsEndLast(told)'
    BY DEF EndsWithListener, TellsEndLast, Ends
  <1>7. TellsEndLast(projector.deferred)'
    BY DEF TellsEndLast, Ends
  <1> QED BY <1>2, <1>3, <1>4, <1>5, <1>6, <1>7 DEF StreamInv

(* Notifications that end nothing are told. *)
LEMMA TellMore ==
  ASSUME NEW s \in Seq(Notices), NEW x \in Seq(Notices),
         \A i \in DOMAIN s : ~Ends(s[i]), \A i \in DOMAIN x : ~Ends(x[i])
  PROVE  s \o x \in Seq(Notices) /\ \A i \in DOMAIN (s \o x) : ~Ends((s \o x)[i])
  <1>1. /\ s \o x \in Seq(Notices) /\ Len(s \o x) = Len(s) + Len(x) /\ Len(s) \in Nat /\ Len(x) \in Nat
        /\ \A i \in 1..(Len(s) + Len(x)) :
             (s \o x)[i] = IF i <= Len(s) THEN s[i] ELSE x[i - Len(s)]
    BY ConcatProperties
  <1>2. /\ DOMAIN s = 1..Len(s) /\ DOMAIN x = 1..Len(x)
        /\ DOMAIN (s \o x) = 1..(Len(s) + Len(x))
    BY <1>1
  <1>3. ASSUME NEW i \in 1..(Len(s) + Len(x)) PROVE ~Ends((s \o x)[i])
    <2>1. CASE i <= Len(s)
      BY <1>1, <1>2, <2>1
    <2>2. CASE ~(i <= Len(s))
      <3>1. i - Len(s) \in DOMAIN x /\ (s \o x)[i] = x[i - Len(s)]
        BY <1>1, <1>2, <2>2
      <3> QED BY <3>1
    <2> QED BY <2>1, <2>2
  <1> QED BY <1>1, <1>2, <1>3

(* The turn task: it starts, tells its events and asks the listener to finish. *)
LEMMA TurnTaskSteps ==
  ASSUME StreamInv,
         \/ Stream!StartTurn \/ Stream!EmitStarted \/ Stream!EmitItem \/ Stream!EmitEnd
         \/ Stream!ChatReturns \/ Stream!FinishTurn \/ Stream!ChatFails \/ Stream!RefuseTurn
         \/ Stream!TellError \/ Stream!NoteTurnFinished \/ Stream!TaskEnds
  PROVE  StreamInv'
  <1>0. /\ StreamTypes /\ ViewIsCurrent /\ queue \in Seq(Ops) /\ told \in Seq(Notices)
        /\ emitted \in Nat /\ Stream!Busy = {"chat", "ending"}
        /\ pc \notin {"idle", "settle", "ack"} => listening
    BY DEF StreamInv, StreamTypes, Stream!Busy
  <1>1. UNCHANGED <<facts, unsent, view, overlap>> => ViewIsCurrent'
    BY <1>0 DEF ViewIsCurrent
  <1>2. CASE Stream!StartTurn
    <2>1. /\ pc' = "starting" /\ listening' = TRUE /\ queue' = <<>> /\ told' = <<>>
          /\ projector' = [active |-> {}, deferred |-> <<>>, seen |-> 0] /\ emitted' = emitted
          /\ Stream!Apply(Stream!TurnTask, [status |-> "active", turn |-> 0])
      BY <1>2 DEF Stream!StartTurn, Stream!NewProjector
    <2>2. ViewIsCurrent'
      BY <1>0, <2>1, ViewApplies
    <2>3. DOMAIN queue' = {} /\ DOMAIN told' = {} /\ DOMAIN projector'.deferred = {}
          /\ projector'.deferred = <<>>
      BY <2>1
    <2>4. StreamTypes'
      BY <1>0, <2>1 DEF StreamTypes
    <2>5. FinishAwaited' /\ ChatIsOver' /\ CompletesOnce' /\ EndsWithListener'
      BY <2>3 DEF FinishAwaited, ChatIsOver, CompletesOnce, EndsWithListener
    <2>6. TellsEndLast(projector.deferred)' /\ TellsEndLast(told)'
      BY <2>3 DEF TellsEndLast
    <2> QED BY <2>2, <2>4, <2>5, <2>6 DEF StreamInv
  <1>3. ASSUME NEW event \in Events, Stream!Emit(event),
               pc \in {"starting"} \cup Stream!Busy,
               \/ pc' = "chat" /\ pc \in {"starting", "chat"} /\ event.kind # "end"
               \/ /\ pc' = "ending" /\ pc \in Stream!Busy
                  /\ event.kind = "end" /\ event.how # "completed"
               \/ pc' = "ended" /\ pc = "chat" /\ event.kind = "end"
        PROVE  StreamInv'
    <2> DEFINE op == [op |-> "event", event |-> event, n |-> emitted']
    <2>1. /\ emitted' = emitted + 1 /\ queue' = Append(queue, op)
          /\ UNCHANGED <<listening, projector, told>>
          /\ UNCHANGED <<facts, unsent, view, overlap>>
      BY <1>3 DEF Stream!Emit, Stream!viewVars
    <2>2. op \in Ops /\ op.op = "event" /\ emitted' \in Nat
      BY <1>0, <1>3, <2>1 DEF Ops
    <2>3. /\ IsEnd(op) <=> event.kind = "end"
          /\ IsCompletion(op) <=> event.kind = "end" /\ event.how = "completed"
      BY DEF IsEnd, IsCompletion
    <2> HIDE DEF op
    <2>4. /\ op.op # "finish" /\ pc # "ack" /\ pc \notin {"ack", "settle", "idle"} /\ listening
          /\ pc' \in {"starting", "chat"} => pc \in {"starting", "chat"} /\ ~IsEnd(op)
          /\ pc' \in {"starting"} \cup Stream!Busy =>
               pc \in {"starting"} \cup Stream!Busy /\ ~IsCompletion(op)
          /\ IsEnd(op) => pc \in {"starting"} \cup Stream!Busy
          /\ IsCompletion(op) => pc \in {"starting", "chat"}
      BY <1>0, <1>3, <2>2, <2>3
    <2> QED BY <1>1, <2>1, <2>2, <2>4, QueueGrows
  <1>4. CASE Stream!EmitStarted
    <2>1. [kind |-> "started"] \in Events
      BY DEF Events
    <2> QED BY <1>0, <1>3, <1>4, <2>1 DEF Stream!EmitStarted
  <1>5. CASE Stream!EmitItem
    <2>1. PICK i \in Stream!Items, kind \in Steps :
            /\ Stream!Emit([kind |-> kind, item |-> i]) /\ pc = "chat" /\ pc' = "chat"
      BY <1>5 DEF Stream!EmitItem, Steps
    <2>2. [kind |-> kind, item |-> i] \in Events /\ kind # "end"
      BY <2>1 DEF Events, Steps
    <2> QED BY <1>0, <1>3, <2>1, <2>2
  <1>6. CASE Stream!EmitEnd
    <2>1. PICK how \in Stream!Hows :
            /\ \/ pc = "chat" /\ (how = "completed" => open = {})
               \/ pc = "ending" /\ how = "cancelled"
            /\ Stream!Emit([kind |-> "end", how |-> how])
            /\ pc' = IF how = "cancelled" THEN "ending" ELSE "ended"
      BY <1>6 DEF Stream!EmitEnd
    <2>2. [kind |-> "end", how |-> how] \in Events
      BY <2>1 DEF Events
    <2> QED BY <1>0, <1>3, <2>1, <2>2
  <1>7. CASE Stream!FinishTurn \/ Stream!TellError
    <2>1. /\ UNCHANGED <<told, listening, projector, emitted>>
          /\ UNCHANGED <<facts, unsent, view, overlap>>
          /\ \/ /\ queue' = Append(queue, [op |-> "finish"])
                /\ pc \in {"ended", "finish"} /\ pc' = "ack"
             \/ /\ queue' = Append(queue, [op |-> "error"])
                /\ pc = "refused" /\ pc' = "finish"
      BY <1>7 DEF Stream!FinishTurn, Stream!TellError, Stream!viewVars
    <2>2. /\ [op |-> "finish"] \in Ops /\ [op |-> "error"] \in Ops
          /\ ~IsEnd([op |-> "finish"]) /\ ~IsEnd([op |-> "error"])
          /\ ~IsCompletion([op |-> "finish"]) /\ ~IsCompletion([op |-> "error"])
      BY DEF Ops, IsEnd, IsCompletion
    <2>3. CASE queue' = Append(queue, [op |-> "finish"]) /\ pc \in {"ended", "finish"} /\ pc' = "ack"
      BY <1>0, <1>1, <2>1, <2>2, <2>3, QueueGrows
    <2>4. CASE queue' = Append(queue, [op |-> "error"]) /\ pc = "refused" /\ pc' = "finish"
      BY <1>0, <1>1, <2>1, <2>2, <2>4, QueueGrows
    <2> QED BY <2>1, <2>3, <2>4
  <1>8. CASE Stream!ChatFails
    <2> DEFINE x == [kind |-> "end", how |-> "failed"]
    <2>1. /\ pc \in Stream!Busy /\ pc' = "finish" /\ told' = Append(told, x)
          /\ UNCHANGED <<queue, listening, projector, emitted>>
          /\ UNCHANGED <<facts, unsent, view, overlap>>
      BY <1>8 DEF Stream!ChatFails, Stream!viewVars
    <2>2. x \in Notices /\ x.kind = "end" /\ ~Ends(x)
      BY DEF Notices, Kept, Stream!Hows, Ends
    <2> HIDE DEF x
    <2>3. TellsEndLast(told) /\ \A i \in DOMAIN told : ~Ends(told[i])
      BY <1>0, <2>1 DEF StreamInv, EndsWithListener
    <2>4. TellsEndLast(Append(told, x)) /\ Append(told, x) \in Seq(Notices)
      BY <1>0, <2>2, <2>3, TellOne
    <2>5. \A k \in DOMAIN told' : ~Ends(told'[k])
      BY <1>0, <2>1, <2>2, <2>3, AppendPlaces
    <2>6. StreamTypes'
      BY <1>0, <2>1, <2>4 DEF StreamTypes
    <2>7. FinishAwaited' /\ ChatIsOver' /\ CompletesOnce'
      BY <1>0, <2>1 DEF StreamInv, FinishAwaited, ChatIsOver, CompletesOnce
    <2>8. EndsWithListener'
      BY <2>5 DEF EndsWithListener, Ends
    <2>9. TellsEndLast(told)' /\ TellsEndLast(projector.deferred)'
      BY <2>1, <2>4 DEF StreamInv, TellsEndLast, Ends
    <2>10. ViewIsCurrent'
      BY <1>1, <2>1
    <2> QED BY <2>6, <2>7, <2>8, <2>9, <2>10 DEF StreamInv
  <1>9. CASE Stream!ChatReturns \/ Stream!TaskEnds
    <2>1. /\ UNCHANGED <<queue, told, listening, emitted, projector>>
          /\ UNCHANGED <<facts, unsent, view, overlap>>
          /\ (pc = "ending" /\ pc' = "ended") \/ (pc = "settle" /\ pc' = "idle")
      BY <1>9 DEF Stream!ChatReturns, Stream!TaskEnds, Stream!viewVars, Stream!listenerVars
    <2> QED BY <1>0, <1>1, <2>1, StreamFrame
  <1>10. CASE Stream!RefuseTurn \/ Stream!NoteTurnFinished
    <2>1. /\ UNCHANGED <<queue, told, listening, emitted, projector>>
          /\ \E new : Stream!Apply(Stream!TurnTask, new)
          /\ (pc = "starting" /\ pc' = "refused") \/ (pc = "ack" /\ ~listening /\ pc' = "settle")
      BY <1>10 DEF Stream!RefuseTurn, Stream!NoteTurnFinished, Stream!listenerVars
    <2>2. ViewIsCurrent'
      BY <1>0, <2>1, ViewApplies
    <2> QED BY <1>0, <2>1, <2>2, StreamFrame
  <1> QED BY <1>2, <1>4, <1>5, <1>6, <1>7, <1>8, <1>9, <1>10

(* The tasks of the events, and whoever sends or reads the view. *)
LEMMA TaskSteps ==
  ASSUME StreamInv,
         \/ \E n \in 1..MaxEvents :
              Stream!AskSnapshot(n) \/ Stream!SnapshotTimesOut(n) \/ Stream!PutSnapshot(n)
         \/ Stream!ReadView \/ \E w \in Stream!Writers : Stream!Publish(w)
         \/ UNCHANGED Stream!vars
  PROVE  StreamInv'
  <1>0. /\ StreamTypes /\ ViewIsCurrent /\ emitted \in Nat
        /\ pc \notin {"idle", "settle", "ack"} => listening
    BY DEF StreamInv, StreamTypes
  <1>1. UNCHANGED <<facts, unsent, view, overlap>> => ViewIsCurrent'
    BY <1>0 DEF ViewIsCurrent
  <1>2. ASSUME NEW n \in 1..MaxEvents, Stream!AskSnapshot(n) PROVE StreamInv'
    <2>1. /\ UNCHANGED <<pc, told, listening, emitted, projector>>
          /\ UNCHANGED <<facts, unsent, view, overlap>>
          /\ n \in 1..emitted
          /\ queue' = queue \/ queue' = Append(queue, [op |-> "snapshot", n |-> n])
      BY <1>2 DEF Stream!AskSnapshot, Stream!viewVars, Stream!turnVars
    <2>2. CASE queue' = queue
      BY <1>0, <1>1, <2>1, <2>2, StreamFrame
    <2>3. CASE queue' = Append(queue, [op |-> "snapshot", n |-> n])
      <3>1. /\ [op |-> "snapshot", n |-> n] \in Ops /\ ~IsEnd([op |-> "snapshot", n |-> n])
            /\ ~IsCompletion([op |-> "snapshot", n |-> n])
        BY <1>0, <2>1 DEF Ops, IsEnd, IsCompletion
      <3> QED BY <1>0, <1>1, <2>1, <2>3, <3>1, QueueGrows
    <2> QED BY <2>1, <2>2, <2>3
  <1>3. ASSUME NEW n \in 1..MaxEvents, Stream!SnapshotTimesOut(n) PROVE StreamInv'
    BY <1>0, <1>1, <1>3, StreamFrame
      DEF Stream!SnapshotTimesOut, Stream!viewVars, Stream!turnVars, Stream!listenerVars
  <1>4. ASSUME NEW n \in 1..MaxEvents, Stream!PutSnapshot(n) PROVE StreamInv'
    <2>1. /\ UNCHANGED <<pc, queue, told, listening, emitted, projector>>
          /\ Stream!Apply(n, [facts EXCEPT !.turn = answer[n]])
      BY <1>4 DEF Stream!PutSnapshot, Stream!turnVars, Stream!listenerVars
    <2>2. ViewIsCurrent'
      BY <1>0, <2>1, ViewApplies
    <2> QED BY <1>0, <2>1, <2>2, StreamFrame
  <1>5. CASE Stream!ReadView \/ \E w \in Stream!Writers : Stream!Publish(w)
    <2>1. UNCHANGED <<pc, queue, told, listening, emitted, projector>>
      BY <1>5 DEF Stream!ReadView, Stream!Publish, Stream!turnVars, Stream!listenerVars
    <2>2. ViewIsCurrent'
      BY <1>0, <1>5, ViewIsSent
    <2> QED BY <1>0, <2>1, <2>2, StreamFrame
  <1>6. CASE UNCHANGED Stream!vars
    BY <1>0, <1>1, <1>6, StreamFrame
      DEF Stream!vars, Stream!viewVars, Stream!turnVars, Stream!listenerVars
  <1> QED BY <1>2, <1>3, <1>4, <1>5, <1>6

(* What an event changes of the projector. *)
LEMMA ProjectorMoves ==
  ASSUME NEW I, NEW K,
         NEW p \in [active : SUBSET I, deferred : Seq(K), seen : Nat],
         NEW a \in SUBSET I, NEW d \in Seq(K), NEW q,
         q = [p EXCEPT !.seen = @ + 1, !.active = a, !.deferred = d]
  PROVE  q \in [active : SUBSET I, deferred : Seq(K), seen : Nat] /\ q.deferred = d
  <1>1. p.seen \in Nat
    OBVIOUS
  <1>2. q = [active |-> a, deferred |-> d, seen |-> p.seen + 1]
    OBVIOUS
  <1> QED BY <1>1, <1>2

(* The end of a turn is deferred behind the ends deferred before. *)
LEMMA EndDefers ==
  ASSUME StreamInv, queue # <<>>, IsEnd(Head(queue)), Stream!ProjectEnd(Head(queue).event)
  PROVE  /\ projector' \in [active : SUBSET Stream!Items, deferred : Seq(Kept), seen : Nat]
         /\ TellsEndLast(projector'.deferred) /\ told' = told
  <1> DEFINE e == Head(queue).event
             x == [kind |-> "end", how |-> e.how]
             first == IF e.how = "completed" /\ projector.active # {} THEN <<Stream!Error>>
                      ELSE <<>>
             d == projector.deferred
  <1>0. StreamTypes /\ queue \in Seq(Ops)
    BY DEF StreamInv, StreamTypes
  <1>1. Head(queue) \in Ops /\ Head(queue) = queue[1] /\ 1 \in DOMAIN queue
    BY <1>0, TailPlaces
  <1>2. x \in Kept /\ x.kind = "end" /\ x.how = e.how
    <2>1. e \in Events /\ e.kind = "end"
      BY <1>1 DEF Ops, IsEnd
    <2>2. e.how \in Stream!Hows
      BY <2>1 DEF Events, Steps
    <2> QED BY <2>2 DEF Kept
  <1>3. d \in Seq(Kept) /\ projector.active \in SUBSET Stream!Items /\ projector.seen \in Nat
    BY <1>0 DEF StreamTypes
  <1>4. Stream!Error \in Kept /\ Stream!Error.kind = "lifecycle_error"
    BY DEF Stream!Error, Kept
  <1>5. e.how = "completed" => d = <<>>
    BY <1>1 DEF StreamInv, CompletesOnce, IsCompletion, IsEnd
  <1> DEFINE a == IF e.how = "completed" THEN {} ELSE projector.active
             more == (d \o first) \o <<x>>
  <1>6. projector' = [projector EXCEPT !.seen = @ + 1, !.active = a, !.deferred = more]
        /\ told' = told
    BY DEF Stream!ProjectEnd
  <1>7. a \in SUBSET Stream!Items
    BY <1>3
  <1>8. TellsEndLast(d)
    BY DEF StreamInv
  <1> HIDE DEF e, x
  <1>r. SUFFICES more \in Seq(Kept) /\ TellsEndLast(more)
    <2> HIDE DEF a, more
    <2>1. /\ projector' \in [active : SUBSET Stream!Items, deferred : Seq(Kept), seen : Nat]
          /\ projector'.deferred = more
      BY <1>0, <1>6, <1>7, <1>r, ProjectorMoves DEF StreamTypes
    <2> QED BY <1>6, <1>r, <2>1
  <1>9. CASE first = <<>>
    <2>1. d \o first \o <<x>> = Append(d, x)
      <3>1. d \o <<>> = d
        BY <1>3
      <3>2. d \o <<x>> = Append(d, x)
        BY <1>2, <1>3
      <3>3. more = (d \o <<>>) \o <<x>>
        BY <1>9
      <3> QED BY <3>1, <3>2, <3>3
    <2>2. TellsEndLast(Append(d, x)) /\ Append(d, x) \in Seq(Kept)
      BY <1>2, <1>3, <1>8, TellOne
    <2> QED BY <2>1, <2>2
  <1>10. CASE first = <<Stream!Error>> /\ e.how = "completed"
    <2>1. more = <<Stream!Error>> \o <<x>>
      <3>0. d = <<>>
        BY <1>5, <1>10
      <3>1. d \o <<Stream!Error>> = <<Stream!Error>>
        <4>1. <<>> \o <<Stream!Error>> = <<Stream!Error>>
          OBVIOUS
        <4> QED BY <3>0, <4>1
      <3>2. more = (d \o <<Stream!Error>>) \o <<x>>
        BY <1>10
      <3> QED BY <3>1, <3>2
    <2>2. /\ <<Stream!Error>> \in Seq(Kept) /\ DOMAIN <<Stream!Error>> = {1}
          /\ <<Stream!Error>>[1] = Stream!Error
      BY <1>4
    <2>3. TellsEndLast(<<Stream!Error>>)
      BY <1>4, <2>2 DEF TellsEndLast, Ends
    <2>4. TellsEndLast(Append(<<Stream!Error>>, x)) /\ Append(<<Stream!Error>>, x) \in Seq(Kept)
      BY <1>2, <2>2, <2>3, TellOne
    <2>5. <<Stream!Error>> \o <<x>> = Append(<<Stream!Error>>, x)
      BY <1>2, <2>2
    <2> QED BY <2>1, <2>4, <2>5
  <1> QED BY <1>9, <1>10

(* The listener: it tells the events in their order, and the end when it is done. *)
LEMMA ListenerSteps ==
  ASSUME StreamInv,
         \/ Stream!ProjectEvent \/ Stream!ProjectError
         \/ Stream!ListenerFinishes \/ Stream!AnswerSnapshot
  PROVE  StreamInv'
  <1>0. /\ StreamTypes /\ queue \in Seq(Ops) /\ told \in Seq(Notices)
        /\ projector \in [active : SUBSET Stream!Items, deferred : Seq(Kept), seen : Nat]
        /\ TellsEndLast(projector.deferred) /\ ViewIsCurrent
    BY DEF StreamInv, StreamTypes
  <1>1. /\ listening /\ queue # <<>> /\ queue' = Tail(queue)
        /\ UNCHANGED <<pc, spawned, open, emitted, facts, unsent, view, overlap>>
    BY DEF Stream!ProjectEvent, Stream!ProjectError, Stream!ListenerFinishes,
           Stream!AnswerSnapshot, Stream!Receive, Stream!viewVars, Stream!turnVars
  <1>2. /\ Head(queue) \in Ops /\ Head(queue) = queue[1] /\ 1 \in DOMAIN queue
        /\ Tail(queue) \in Seq(Ops)
        /\ \A k \in DOMAIN Tail(queue) : k + 1 \in DOMAIN queue /\ k + 1 # 1
                                         /\ Tail(queue)[k] = queue[k + 1]
    BY <1>0, <1>1, TailPlaces
  <1>3. \A i \in DOMAIN told : ~Ends(told[i])
    BY <1>1 DEF StreamInv, EndsWithListener
  <1>4. ViewIsCurrent'
    BY <1>0, <1>1 DEF ViewIsCurrent
  <1>5. ASSUME NEW x \in Seq(Notices), told' = told \o x, \A i \in DOMAIN x : ~Ends(x[i])
        PROVE  told' \in Seq(Notices) /\ \A i \in DOMAIN told' : ~Ends(told'[i])
    BY <1>0, <1>3, <1>5, TellMore
  <1>6. CASE Stream!ProjectEvent
    <2> DEFINE e == Head(queue).event
    <2>1. /\ Head(queue).op = "event" /\ UNCHANGED listening /\ e \in Events
      BY <1>2, <1>6 DEF Stream!ProjectEvent, Stream!Receive, Ops
    <2>2. CASE e.kind = "end"
      <3>1. IsEnd(Head(queue)) /\ Stream!ProjectEnd(e)
        BY <1>6, <2>1, <2>2 DEF Stream!ProjectEvent, IsEnd
      <3>2. /\ projector' \in [active : SUBSET Stream!Items, deferred : Seq(Kept), seen : Nat]
            /\ TellsEndLast(projector'.deferred) /\ told' = told
        BY <1>1, <3>1, EndDefers
      <3> HIDE DEF e
      <3> QED BY <1>0, <1>1, <1>3, <1>4, <2>1, <3>1, <3>2, QueueShrinks
    <2>3. CASE e.kind # "end"
      <3>1. \E x \in Seq(Notices) : told' = told \o x /\ \A i \in DOMAIN x : ~Ends(x[i])
        <4>1. CASE e.kind = "started"
          <5> DEFINE x == <<[kind |-> "started"]>>
          <5>1. told' = told \o x
            BY <1>6, <4>1 DEF Stream!ProjectEvent, Stream!Tell
          <5>2. x \in Seq(Notices) /\ \A i \in DOMAIN x : ~Ends(x[i])
            BY DEF Notices, Ends
          <5> QED BY <5>1, <5>2
        <4>2. CASE e.kind # "started"
          <5> DEFINE n == [kind |-> e.kind, item |-> e.item]
          <5>1. e.kind \in Steps /\ e.item \in Stream!Items
            BY <2>1, <2>3, <4>2 DEF Events
          <5>2. /\ n \in Notices /\ Stream!Error \in Notices
                /\ ~Ends(n) /\ ~Ends(Stream!Error)
            BY <5>1 DEF Notices, Kept, Ends, Stream!Error, Steps
          <5>3. Stream!ProjectItem(e)
            BY <1>6, <2>3, <4>2 DEF Stream!ProjectEvent
          <5>4. \/ told' = told \o <<n>>
                \/ told' = told \o <<Stream!Error, n>>
                \/ told' = told \o <<Stream!Error>>
            BY <5>3 DEF Stream!ProjectItem, Stream!Tell
          <5> HIDE DEF n, e
          <5>5. /\ <<n>> \in Seq(Notices) /\ \A i \in DOMAIN <<n>> : ~Ends(<<n>>[i])
            BY <5>2
          <5>6. /\ <<Stream!Error>> \in Seq(Notices)
                /\ \A i \in DOMAIN <<Stream!Error>> : ~Ends(<<Stream!Error>>[i])
            BY <5>2
          <5>7. /\ <<Stream!Error, n>> \in Seq(Notices)
                /\ \A i \in DOMAIN <<Stream!Error, n>> : ~Ends(<<Stream!Error, n>>[i])
            BY <5>2
          <5> QED BY <5>4, <5>5, <5>6, <5>7
        <4> QED BY <4>1, <4>2
      <3>2. /\ projector' \in [active : SUBSET Stream!Items, deferred : Seq(Kept), seen : Nat]
            /\ projector'.deferred = projector.deferred
        <4>1. CASE e.kind = "started"
          <5>1. projector' = [projector EXCEPT !.seen = @ + 1]
            BY <1>6, <4>1 DEF Stream!ProjectEvent
          <5> QED BY SMTT(30), <1>0, <5>1
        <4>2. CASE e.kind # "started"
          <5>1. e.kind \in Steps /\ e.item \in Stream!Items
            BY <2>1, <2>3, <4>2 DEF Events
          <5>2. projector' = [projector EXCEPT
                   !.seen = @ + 1,
                   !.active = CASE e.kind = "item_started" -> @ \cup {e.item}
                                [] e.kind = "item_completed" -> @ \ {e.item}
                                [] OTHER -> @]
            BY <1>6, <2>3, <4>2 DEF Stream!ProjectEvent, Stream!ProjectItem
          <5> DEFINE a == CASE e.kind = "item_started" -> projector.active \cup {e.item}
                            [] e.kind = "item_completed" -> projector.active \ {e.item}
                            [] OTHER -> projector.active
          <5>3. a \in SUBSET Stream!Items
            BY <1>0, <5>1
          <5>4. projector.deferred \in Seq(Kept)
            BY <1>0
          <5>5. projector' = [projector EXCEPT !.seen = @ + 1, !.active = a,
                                !.deferred = projector.deferred]
            BY <1>0, <5>2
          <5> HIDE DEF e, a
          <5> QED BY <1>0, <5>3, <5>4, <5>5, ProjectorMoves
        <4> QED BY <4>1, <4>2
      <3>3. told' \in Seq(Notices) /\ \A i \in DOMAIN told' : ~Ends(told'[i])
        BY <1>5, <3>1
      <3>4. Head(queue).op # "finish" /\ TellsEndLast(projector'.deferred)
        BY <1>0, <2>1, <3>2
      <3> HIDE DEF e
      <3> QED BY <1>1, <1>4, <2>1, <3>2, <3>3, <3>4, QueueShrinks
    <2> QED BY <2>2, <2>3
  <1>7. CASE Stream!ProjectError
    <2> DEFINE x == <<[kind |-> "error"]>>
    <2>1. /\ Head(queue).op # "finish" /\ UNCHANGED <<listening, projector>> /\ told' = told \o x
      BY <1>7 DEF Stream!ProjectError, Stream!Receive, Stream!Tell
    <2>2. x \in Seq(Notices) /\ \A i \in DOMAIN x : ~Ends(x[i])
      BY DEF Notices, Ends
    <2>3. told' \in Seq(Notices) /\ \A i \in DOMAIN told' : ~Ends(told'[i])
      BY <1>5, <2>1, <2>2
    <2> QED BY <1>0, <1>1, <1>4, <2>1, <2>3, QueueShrinks
  <1>8. CASE Stream!AnswerSnapshot
    <2>1. Head(queue).op # "finish" /\ UNCHANGED <<listening, projector, told>>
      BY <1>8 DEF Stream!AnswerSnapshot, Stream!Receive
    <2> QED BY <1>0, <1>1, <1>3, <1>4, <2>1, QueueShrinks
  <1>9. CASE Stream!ListenerFinishes
    <2>1. /\ Head(queue).op = "finish" /\ told' = told \o projector.deferred
          /\ listening' = FALSE /\ projector' = [active |-> {}, deferred |-> <<>>, seen |-> 0]
      BY <1>9 DEF Stream!ListenerFinishes, Stream!Receive, Stream!Tell, Stream!NewProjector
    <2>2. /\ pc = "ack" /\ \A l \in DOMAIN queue : queue[l].op = "finish" => l = 1
      BY <1>2, <2>1 DEF StreamInv, FinishAwaited
    <2>3. \A k \in DOMAIN queue' : queue'[k].op # "finish"
      BY <1>1, <1>2, <2>2
    <2>4. told' \in Seq(Notices) /\ TellsEndLast(told')
      <3>1. Kept \subseteq Notices /\ projector.deferred \in Seq(Kept)
        BY <1>0 DEF Notices
      <3>2. projector.deferred \in Seq(Notices)
        BY <3>1
      <3>3. TellsEndLast(projector.deferred) /\ \A i \in DOMAIN told : ~Ends(told[i])
        BY <1>0, <1>3
      <3>4. /\ told \o projector.deferred \in Seq(Notices)
            /\ TellsEndLast(told \o projector.deferred)
        BY <1>0, <3>2, <3>3, TellDeferred
      <3> QED BY <2>1, <3>4 DEF TellsEndLast
    <2>5. projector'.deferred = <<>> /\ DOMAIN projector'.deferred = {}
      BY <2>1
    <2>6. StreamTypes'
      <3>1. /\ [active |-> {}, deferred |-> <<>>, seen |-> 0]
                 \in [active : SUBSET Stream!Items, deferred : Seq(Kept), seen : Nat]
            /\ queue' \in Seq(Ops)
        BY <1>1, <1>2
      <3> QED BY <1>0, <1>1, <2>1, <2>2, <2>4, <3>1 DEF StreamTypes
    <2>7. FinishAwaited'
      BY <2>3 DEF FinishAwaited
    <2>8. ChatIsOver'
      BY <1>1, <2>2 DEF ChatIsOver
    <2>9. CompletesOnce'
      <3>1. ASSUME NEW k \in DOMAIN queue', IsCompletion(queue'[k]), NEW l \in DOMAIN queue',
                   IsEnd(queue'[l])
            PROVE  l = k
        <4>1. l + 1 = k + 1
          BY <1>1, <1>2, <3>1 DEF StreamInv, CompletesOnce
        <4>2. DOMAIN queue' = 1..Len(queue') /\ Len(queue') \in Nat
          BY <1>1, <1>2
        <4> QED BY <4>1, <4>2
      <3> QED BY <1>1, <2>2, <2>5, <3>1 DEF CompletesOnce, IsCompletion, IsEnd, Stream!Busy
    <2>10. EndsWithListener'
      BY <1>1, <2>1, <2>2 DEF EndsWithListener
    <2>11. TellsEndLast(projector.deferred)' /\ TellsEndLast(told)'
      BY <2>4, <2>5 DEF TellsEndLast, Ends
    <2> QED BY <1>4, <2>6, <2>7, <2>8, <2>9, <2>10, <2>11 DEF StreamInv
  <1> QED BY <1>6, <1>7, <1>8, <1>9

LEMMA StreamInit == Stream!Init => StreamInv
  <1> SUFFICES ASSUME Stream!Init PROVE StreamInv
    OBVIOUS
  <1>1. /\ pc = "idle" /\ emitted = 0 /\ queue = <<>> /\ listening = FALSE /\ told = <<>>
        /\ projector = [active |-> {}, deferred |-> <<>>, seen |-> 0]
        /\ unsent = <<>> /\ facts = Stream!NewFacts /\ view = Stream!NewFacts
    BY DEF Stream!Init, Stream!NewProjector
  <1>2. DOMAIN queue = {} /\ DOMAIN told = {} /\ DOMAIN projector.deferred = {}
        /\ DOMAIN unsent = {} /\ projector.deferred = <<>>
    BY <1>1
  <1>3. StreamTypes
    <2>1. [active |-> {}, deferred |-> <<>>, seen |-> 0]
            \in [active : SUBSET Stream!Items, deferred : Seq(Kept), seen : Nat]
      OBVIOUS
    <2>2. queue \in Seq(Ops) /\ told \in Seq(Notices)
      BY <1>1
    <2> QED BY <1>1, <2>1, <2>2 DEF StreamTypes
  <1>4. FinishAwaited /\ ChatIsOver /\ CompletesOnce /\ EndsWithListener
    BY <1>2 DEF FinishAwaited, ChatIsOver, CompletesOnce, EndsWithListener
  <1>5. TellsEndLast(projector.deferred) /\ TellsEndLast(told) /\ ViewIsCurrent
    BY <1>1, <1>2 DEF TellsEndLast, ViewIsCurrent
  <1> QED BY <1>3, <1>4, <1>5 DEF StreamInv

LEMMA StreamHolds == Spec => [](part = "stream" => StreamInv)
  <1> DEFINE Holds == part = "stream" => StreamInv
  <1>1. Init => Holds
    BY StreamInit DEF Init
  <1>2. Holds /\ [Next]_vars => Holds'
    <2> SUFFICES ASSUME Holds, [Next]_vars, part' = "stream" PROVE StreamInv'
      OBVIOUS
    <2>1. part = "stream"
      BY DEF Next, vars
    <2>2. [Stream!Next]_(Stream!vars)
      BY <2>1 DEF Next, vars, streamVars, Stream!vars, Stream!turnVars, Stream!listenerVars,
                  Stream!taskVars, Stream!viewVars
    <2>3. \/ Stream!StartTurn \/ Stream!EmitStarted \/ Stream!EmitItem \/ Stream!EmitEnd
          \/ Stream!ChatReturns \/ Stream!FinishTurn \/ Stream!ChatFails \/ Stream!RefuseTurn
          \/ Stream!TellError \/ Stream!NoteTurnFinished \/ Stream!TaskEnds
          => StreamInv'
      BY <2>1, TurnTaskSteps
    <2>4. \/ Stream!ProjectEvent \/ Stream!ProjectError
          \/ Stream!ListenerFinishes \/ Stream!AnswerSnapshot
          => StreamInv'
      BY <2>1, ListenerSteps
    <2>5. \/ \E n \in 1..MaxEvents :
               Stream!AskSnapshot(n) \/ Stream!SnapshotTimesOut(n) \/ Stream!PutSnapshot(n)
          \/ Stream!ReadView \/ \E w \in Stream!Writers : Stream!Publish(w)
          \/ UNCHANGED Stream!vars
          => StreamInv'
      BY <2>1, TaskSteps
    <2> QED BY <2>2, <2>3, <2>4, <2>5 DEF Stream!Next
  <1> QED BY <1>1, <1>2, PTL DEF Spec

(* TurnStream: the end a client is told of comes once the core has let go of
   the turn, and nothing but another end of the same turn is told behind it.   *)
THEOREM EndStaysLast == Spec => []EndIsToldLast
  <1>1. (part = "stream" => StreamInv) => EndIsToldLast
    <2> SUFFICES ASSUME StreamInv PROVE Stream!EndIsToldLast
      BY DEF EndIsToldLast
    <2>1. DOMAIN told = 1..Len(told) /\ Len(told) \in Nat
      BY DEF StreamInv, StreamTypes
    <2>2. ASSUME NEW i \in DOMAIN told, Ends(told[i]), NEW j \in (i + 1)..Len(told)
          PROVE  told[j].kind = "end"
      <3>1. j \in DOMAIN told /\ i < j
        BY <2>1
      <3> QED BY <2>2, <3>1 DEF StreamInv, TellsEndLast
    <2>3. ASSUME NEW i \in DOMAIN told, Ends(told[i])
          PROVE  pc \notin {"starting"} \cup Stream!Busy
      BY <2>3 DEF StreamInv, EndsWithListener, Stream!Busy
    <2> QED BY <2>2, <2>3 DEF Stream!EndIsToldLast, Ends
  <1> QED BY <1>1, StreamHolds, PTL

(* TurnStream: a client that reads on is shown the view there is, unless the view
   changed between the unlock and the sending of a snapshot.                   *)
THEOREM SettledViewStaysShown == Spec => []SettledViewIsShown
  <1>1. (part = "stream" => StreamInv) => SettledViewIsShown
    BY DEF SettledViewIsShown, Stream!SettledViewIsShown, StreamInv, ViewIsCurrent
  <1> QED BY <1>1, StreamHolds, PTL

(***************************************************************************)
(* NodeSessions                                                            *)
(***************************************************************************)

Unread(q) == \E i \in DOMAIN q : q[i] \in Node!Statuses
(* The last status of a queue is x. *)
Latest(q, x) ==
  \A i \in DOMAIN q :
    /\ q[i] \in Node!Statuses
    /\ \A j \in DOMAIN q : j > i => q[j] \notin Node!Statuses
    => q[i] = x

InboxSeq == Seq(Node!Statuses \cup {"event"})
SessionTypes ==
  /\ pc \in [Sessions -> {"initialize", "initialized", "ready", "subscribe", "deliver",
                          "ask", "answer"}]
  /\ inbox \in [Sessions -> InboxSeq] /\ reply \in [Sessions -> Node!Statuses \cup {"none"}]
  /\ worker \in Workers \cup {NoWorker} /\ turn \in [Workers -> BOOLEAN]
  /\ busy \in BOOLEAN
  /\ \A s \in Sessions : reply[s] # "none" <=> pc[s] = "answer"

Running == \E w \in Workers : turn[w]
CurrentStatus == IF Running THEN "active" ELSE "idle"
(* Nothing was lost, and no worker outside the map runs a turn. *)
Known == ~lost /\ \A w \in Workers \ {worker} : ~turn[w]

(* The last thing each connection has still to apply is the state of the
   conversation; when none has anything the mark is.                         *)
MarkFollows ==
  /\ \A s \in Sessions :
       /\ Latest(inbox[s], CurrentStatus)
       /\ ~Unread(inbox[s]) /\ reply[s] # "none" => reply[s] = CurrentStatus
  /\ (\A s \in Sessions : ~Unread(inbox[s]) /\ reply[s] = "none") => busy = Running
SessionsInv == SessionTypes /\ (Known => MarkFollows)

(* A status behind a queue is its last. *)
LEMMA StatusQueued ==
  ASSUME NEW q \in InboxSeq, NEW x \in Node!Statuses
  PROVE  Append(q, x) \in InboxSeq /\ Latest(Append(q, x), x) /\ Unread(Append(q, x))
  <1>1. /\ Append(q, x) \in InboxSeq
        /\ \A k \in DOMAIN Append(q, x) :
              \/ k \in DOMAIN q /\ Append(q, x)[k] = q[k] /\ k < Len(q) + 1
              \/ k = Len(q) + 1 /\ Append(q, x)[k] = x
        /\ Len(q) + 1 \in DOMAIN Append(q, x) /\ Len(q) \in Nat
    BY AppendPlaces DEF InboxSeq
  <1>2. Append(q, x)[Len(q) + 1] = x
    BY <1>1
  <1>3. Unread(Append(q, x))
    BY <1>1, <1>2 DEF Unread
  <1>4. ASSUME NEW i \in DOMAIN Append(q, x),
               \A j \in DOMAIN Append(q, x) : j > i => Append(q, x)[j] \notin Node!Statuses
        PROVE  Append(q, x)[i] = x
    <2>1. CASE i < Len(q) + 1 /\ i \in DOMAIN q
      <3>1. Len(q) + 1 > i
        BY <1>1, <2>1
      <3> QED BY <1>1, <1>2, <1>4, <3>1
    <2> QED BY <1>1, <2>1
  <1> QED BY <1>1, <1>3, <1>4 DEF Latest

(* Anything else behind a queue changes nothing. *)
LEMMA EventQueued ==
  ASSUME NEW q \in InboxSeq, NEW x
  PROVE  /\ Append(q, "event") \in InboxSeq
         /\ Unread(Append(q, "event")) = Unread(q)
         /\ Latest(q, x) => Latest(Append(q, "event"), x)
  <1> DEFINE r == Append(q, "event")
  <1>1. /\ r \in InboxSeq
        /\ \A k \in DOMAIN r :
              \/ k \in DOMAIN q /\ r[k] = q[k]
              \/ r[k] = "event"
        /\ \A k \in DOMAIN q : k \in DOMAIN r /\ k < Len(q) + 1
        /\ \A k \in DOMAIN r : k < Len(q) + 1 => r[k] = q[k]
    BY AppendPlaces DEF InboxSeq
  <1>2. "event" \notin Node!Statuses
    BY DEF Node!Statuses
  <1> HIDE DEF r
  <1>3. Unread(r) = Unread(q)
    BY <1>1, <1>2 DEF Unread
  <1>4. Latest(q, x) => Latest(r, x)
    <2> SUFFICES ASSUME Latest(q, x), NEW i \in DOMAIN r, r[i] \in Node!Statuses,
                        \A j \in DOMAIN r : j > i => r[j] \notin Node!Statuses
                 PROVE  r[i] = x
      BY DEF Latest
    <2>1. i \in DOMAIN q /\ r[i] = q[i]
      BY <1>1, <1>2
    <2>2. \A j \in DOMAIN q : j > i => q[j] \notin Node!Statuses
      BY <1>1
    <2> QED BY <2>1, <2>2 DEF Latest
  <1> QED BY <1>1, <1>3, <1>4 DEF r

(* The first of a queue is taken. *)
LEMMA FirstTaken ==
  ASSUME NEW q \in InboxSeq, q # <<>>, NEW x
  PROVE  /\ Tail(q) \in InboxSeq
         /\ Latest(q, x) => Latest(Tail(q), x)
         /\ Latest(q, x) /\ Head(q) \in Node!Statuses /\ ~Unread(Tail(q)) => Head(q) = x
         /\ Head(q) \notin Node!Statuses => Unread(Tail(q)) = Unread(q)
  <1>1. /\ Tail(q) \in InboxSeq /\ Head(q) = q[1] /\ 1 \in DOMAIN q
        /\ \A k \in DOMAIN Tail(q) : k + 1 \in DOMAIN q /\ k + 1 # 1 /\ Tail(q)[k] = q[k + 1]
    BY TailPlaces DEF InboxSeq
  <1>2. /\ DOMAIN q = 1..Len(q) /\ Len(q) \in Nat /\ DOMAIN Tail(q) = 1..(Len(q) - 1)
    BY DEF InboxSeq
  <1>3. ASSUME NEW k \in DOMAIN q, k # 1
        PROVE  k - 1 \in DOMAIN Tail(q) /\ Tail(q)[k - 1] = q[k]
    <2>1. k - 1 \in DOMAIN Tail(q) /\ (k - 1) + 1 = k
      BY <1>2, <1>3
    <2> QED BY <1>1, <2>1
  <1>4. Latest(q, x) => Latest(Tail(q), x)
    <2> SUFFICES ASSUME Latest(q, x), NEW i \in DOMAIN Tail(q), Tail(q)[i] \in Node!Statuses,
                        \A j \in DOMAIN Tail(q) : j > i => Tail(q)[j] \notin Node!Statuses
                 PROVE  Tail(q)[i] = x
      BY DEF Latest
    <2>1. ASSUME NEW j \in DOMAIN q, j > i + 1 PROVE q[j] \notin Node!Statuses
      <3>1. j # 1 /\ j - 1 > i
        BY <1>2, <2>1
      <3> QED BY <1>3, <3>1
    <2> QED BY <1>1, <2>1 DEF Latest
  <1>5. ASSUME Latest(q, x), Head(q) \in Node!Statuses, ~Unread(Tail(q)) PROVE Head(q) = x
    <2>1. ASSUME NEW j \in DOMAIN q, j > 1 PROVE q[j] \notin Node!Statuses
      <3>1. j - 1 \in DOMAIN Tail(q) /\ Tail(q)[j - 1] = q[j]
        BY <1>2, <1>3, <2>1
      <3> QED BY <1>5, <3>1 DEF Unread
    <2>2. q[1] \in Node!Statuses /\ \A j \in DOMAIN q : j > 1 => q[j] \notin Node!Statuses
      BY <1>1, <1>5, <2>1
    <2>3. q[1] = x
      BY <1>1, <1>5, <2>2 DEF Latest
    <2> QED BY <1>1, <2>3
  <1>6. ASSUME Head(q) \notin Node!Statuses PROVE Unread(Tail(q)) = Unread(q)
    <2>1. Unread(Tail(q)) => Unread(q)
      BY <1>1 DEF Unread
    <2>2. Unread(q) => Unread(Tail(q))
      BY <1>1, <1>3, <1>6 DEF Unread
    <2>3. Unread(q) \in BOOLEAN /\ Unread(Tail(q)) \in BOOLEAN
      BY DEF Unread
    <2> QED BY <2>1, <2>2, <2>3
  <1> QED BY <1>1, <1>4, <1>5, <1>6

(* A step that applies nothing and tells of nothing. *)
LEMMA SessionsFrame ==
  ASSUME SessionsInv, SessionTypes', UNCHANGED <<reply, busy>>,
         Known' => /\ Known /\ turn' = turn
                   /\ \A s \in Sessions :
                        /\ Unread(inbox'[s]) = Unread(inbox[s])
                        /\ Latest(inbox[s], CurrentStatus) => Latest(inbox'[s], CurrentStatus)
  PROVE  SessionsInv'
  <1> SUFFICES ASSUME Known' PROVE MarkFollows'
    BY DEF SessionsInv
  <1>1. MarkFollows
    BY DEF SessionsInv
  <1>2. CurrentStatus' = CurrentStatus /\ Running' = Running
    BY DEF CurrentStatus, Running
  <1>3. /\ \A s \in Sessions :
             /\ Latest(inbox[s], CurrentStatus)
             /\ ~Unread(inbox[s]) /\ reply[s] # "none" => reply[s] = CurrentStatus
        /\ (\A s \in Sessions : ~Unread(inbox[s]) /\ reply[s] = "none") => busy = Running
    BY <1>1 DEF MarkFollows
  <1>4. \A s \in Sessions :
          /\ Latest(inbox'[s], CurrentStatus)
          /\ ~Unread(inbox'[s]) /\ reply'[s] # "none" => reply'[s] = CurrentStatus
    BY <1>3
  <1>5. (\A s \in Sessions : ~Unread(inbox'[s]) /\ reply'[s] = "none") => busy' = Running
    BY <1>3
  <1>6. \A s \in Sessions :
          /\ Latest(inbox'[s], CurrentStatus')
          /\ ~Unread(inbox'[s]) /\ reply'[s] # "none" => reply'[s] = CurrentStatus'
    BY <1>2, <1>4
  <1> HIDE DEF CurrentStatus, Running
  <1> QED BY <1>2, <1>5, <1>6 DEF MarkFollows, Latest, Unread

(* A status is told: whoever listens to the worker has it last, and who does not
   has none of another worker that would be applied behind it.                 *)
LEMMA StatusTold ==
  ASSUME SessionsInv, NEW w \in Workers, NEW x \in Node!Statuses, Node!Push(w, x),
         UNCHANGED <<reply, busy>>, SessionTypes', w = worker, worker' = worker,
         Known' => x = CurrentStatus'
  PROVE  SessionsInv'
  <1> SUFFICES ASSUME Known' PROVE MarkFollows'
    BY DEF SessionsInv
  <1>0. SessionTypes /\ x = CurrentStatus' /\ ~lost' /\ inbox \in [Sessions -> InboxSeq]
    BY DEF SessionsInv, SessionTypes, Known
  <1>1. /\ \E s \in Sessions : sub[s] = w
        /\ \A s \in Sessions : sub[s] # w => ~Unread(inbox[s]) /\ reply[s] = "none"
    BY <1>0 DEF Node!Push, Node!Obsolete, Node!UnreadStatus, Unread
  <1>2. \A s \in Sessions :
          inbox'[s] = IF sub[s] # w THEN inbox[s]
                      ELSE Append(IF sub[s] = w /\ Len(inbox[s]) = Room THEN Tail(inbox[s])
                                  ELSE inbox[s], x)
    BY DEF Node!Push
  <1>3. ASSUME NEW s \in Sessions, sub[s] # w
        PROVE  ~Unread(inbox'[s]) /\ reply'[s] = "none" /\ Latest(inbox'[s], x)
    BY <1>1, <1>2, <1>3 DEF Latest, Unread
  <1>4. ASSUME NEW s \in Sessions, sub[s] = w
        PROVE  Unread(inbox'[s]) /\ Latest(inbox'[s], x)
    <2>1. inbox[s] \in InboxSeq
      BY <1>0
    <2>2. CASE Len(inbox[s]) = Room
      <3>1. inbox[s] # <<>>
        BY <2>1, <2>2, PartsAssumption DEF InboxSeq
      <3>2. Tail(inbox[s]) \in InboxSeq
        BY <2>1, <3>1, FirstTaken
      <3>3. inbox'[s] = Append(Tail(inbox[s]), x)
        BY <1>2, <1>4, <2>2
      <3> QED BY <3>2, <3>3, StatusQueued
    <2>3. CASE Len(inbox[s]) # Room
      <3>1. inbox'[s] = Append(inbox[s], x)
        BY <1>2, <1>4, <2>3
      <3> QED BY <2>1, <3>1, StatusQueued
    <2> QED BY <2>2, <2>3
  <1>5. \A s \in Sessions : Latest(inbox'[s], x) /\ (Unread(inbox'[s]) \/ reply'[s] = "none")
    BY <1>3, <1>4
  <1>6. \E s \in Sessions : Unread(inbox'[s])
    BY <1>1, <1>4
  <1>7. /\ \A s \in Sessions :
             /\ Latest(inbox'[s], CurrentStatus')
             /\ ~Unread(inbox'[s]) /\ reply'[s] # "none" => reply'[s] = CurrentStatus'
        /\ ~\A s \in Sessions : ~Unread(inbox'[s]) /\ reply'[s] = "none"
    BY <1>0, <1>5, <1>6
  <1> HIDE DEF CurrentStatus, Running
  <1> QED BY <1>7 DEF MarkFollows, Latest, Unread

(* A broadcast keeps the queues what they are. *)
LEMMA PushTypes ==
  ASSUME SessionTypes, NEW w, NEW x \in Node!Statuses \cup {"event"}, Node!Push(w, x)
  PROVE  inbox' \in [Sessions -> InboxSeq]
  <1>1. inbox' = [s \in Sessions |->
                    IF sub[s] # w THEN inbox[s]
                    ELSE Append(IF sub[s] = w /\ Len(inbox[s]) = Room THEN Tail(inbox[s])
                                ELSE inbox[s], x)]
    BY DEF Node!Push
  <1>2. ASSUME NEW s \in Sessions
        PROVE  Append(IF sub[s] = w /\ Len(inbox[s]) = Room THEN Tail(inbox[s])
                      ELSE inbox[s], x) \in InboxSeq
    <2>1. inbox[s] \in InboxSeq
      BY DEF SessionTypes
    <2>2. ASSUME NEW q \in InboxSeq PROVE Append(q, x) \in InboxSeq
      BY <2>2 DEF InboxSeq
    <2>3. CASE sub[s] = w /\ Len(inbox[s]) = Room
      <3>1. inbox[s] # <<>>
        BY <2>1, <2>3, PartsAssumption DEF InboxSeq
      <3>2. Tail(inbox[s]) \in InboxSeq
        BY <2>1, <3>1, FirstTaken
      <3> QED BY <2>2, <2>3, <3>2
    <2>4. CASE ~(sub[s] = w /\ Len(inbox[s]) = Room)
      BY <2>1, <2>2, <2>4
    <2> QED BY <2>3, <2>4
  <1>3. \A s \in Sessions : inbox[s] \in InboxSeq
    BY DEF SessionTypes
  <1> QED BY <1>1, <1>2, <1>3

(* A connection goes on to something that is not the answer of a read. *)
LEMMA GoesOn ==
  ASSUME SessionTypes, NEW s \in Sessions, NEW label, pc[s] # "answer",
         label \in {"initialize", "initialized", "ready", "subscribe", "deliver", "ask"},
         pc' = [pc EXCEPT ![s] = label], UNCHANGED <<reply, turn, busy>>,
         worker' \in Workers \cup {NoWorker}, inbox' \in [Sessions -> InboxSeq]
  PROVE  SessionTypes'
  BY DEF SessionTypes

(* The connections: commands, subscriptions and what the manager answers. *)
LEMMA ConnectionSteps ==
  ASSUME SessionsInv, NEW s \in Sessions,
         \/ Node!Initialize(s) \/ Node!Initialized(s) \/ Node!CallFails(s)
         \/ \E c \in Node!Commands : Node!Receive(s, c)
         \/ Node!Reconnect(s) \/ Node!Subscribe(s) \/ Node!LoseSubscription(s)
  PROVE  SessionsInv'
  <1>0. SessionTypes /\ inbox \in [Sessions -> InboxSeq] /\ worker \in Workers \cup {NoWorker}
    BY DEF SessionsInv, SessionTypes
  <1>1. CASE \/ Node!Initialize(s) \/ Node!Initialized(s) \/ Node!CallFails(s)
             \/ \E c \in Node!Commands : Node!Receive(s, c)
    <2>1. /\ pc[s] # "answer" /\ UNCHANGED <<reply, inbox, worker, turn, busy, lost>>
          /\ \E label \in {"initialized", "ready", "subscribe"} : pc' = [pc EXCEPT ![s] = label]
      BY <1>1 DEF Node!Initialize, Node!Initialized, Node!CallFails, Node!Receive, Node!Goto
    <2>2. SessionTypes'
      BY <1>0, <2>1, GoesOn
    <2>3. Known' => Known
      BY <2>1 DEF Known
    <2> QED BY <2>1, <2>2, <2>3, SessionsFrame
  <1>2. CASE Node!LoseSubscription(s)
    <2>1. UNCHANGED <<pc, reply, inbox, worker, turn, busy, lost>>
      BY <1>2 DEF Node!LoseSubscription, Node!connVars
    <2>2. SessionTypes' /\ (Known' => Known)
      BY <1>0, <2>1 DEF SessionTypes, Known
    <2> QED BY <2>1, <2>2, SessionsFrame
  <1>3. CASE Node!Reconnect(s) \/ Node!Subscribe(s)
    <2>1. /\ pc[s] # "answer" /\ UNCHANGED <<reply, turn, busy>>
          /\ \E label \in {"initialize", "deliver", "ask"} : pc' = [pc EXCEPT ![s] = label]
          /\ inbox' = [inbox EXCEPT ![s] = <<>>]
          /\ lost' = (lost \/ Node!UnreadStatus(s))
      BY <1>3 DEF Node!Reconnect, Node!Subscribe, Node!Goto
    <2>2. \/ worker' = worker
          \/ worker = NoWorker /\ worker' \in Workers /\ ~turn[worker']
      BY <1>3 DEF Node!Reconnect, Node!Subscribe, Node!Ensured
    <2>3. inbox' \in [Sessions -> InboxSeq]
      <3>1. <<>> \in InboxSeq
        BY DEF InboxSeq
      <3> QED BY <1>0, <2>1, <3>1
    <2>4. SessionTypes'
      <3>1. worker' \in Workers \cup {NoWorker}
        BY <1>0, <2>2
      <3> QED BY <1>0, <2>1, <2>3, <3>1, GoesOn
    <2>5. ASSUME Known' PROVE Known /\ ~Unread(inbox[s])
      <3>1. ~lost' /\ ~lost /\ ~Unread(inbox[s])
        BY <2>1, <2>5 DEF Known, Node!UnreadStatus, Unread
      <3>2. \A w \in Workers \ {worker'} : ~turn[w]
        BY <2>1, <2>5 DEF Known
      <3>3. \A w \in Workers \ {worker} : ~turn[w]
        BY <2>2, <3>2, PartsAssumption
      <3> QED BY <3>1, <3>3 DEF Known
    <2>6. \A z \in Sessions : inbox'[z] = IF z = s THEN <<>> ELSE inbox[z]
      BY <1>0, <2>1
    <2>7. ~Unread(<<>>) /\ \A x : Latest(<<>>, x)
      BY DEF Unread, Latest
    <2>8. Unread(inbox[s]) \in BOOLEAN /\ Unread(<<>>) \in BOOLEAN
      BY DEF Unread
    <2>9. ASSUME Known', NEW z \in Sessions
          PROVE  /\ Unread(inbox'[z]) = Unread(inbox[z])
                 /\ Latest(inbox[z], CurrentStatus) => Latest(inbox'[z], CurrentStatus)
      BY <2>5, <2>6, <2>7, <2>8, <2>9
    <2> HIDE DEF CurrentStatus
    <2> QED BY <2>1, <2>4, <2>5, <2>9, SessionsFrame
  <1> QED BY <1>1, <1>2, <1>3

(* What the registry is told: a view that is forwarded, or read. *)
LEMMA RegistrySteps ==
  ASSUME SessionsInv, NEW s \in Sessions,
         Node!ForwardEvent(s) \/ Node!Ask(s) \/ Node!Answer(s)
  PROVE  SessionsInv'
  <1>0. /\ SessionTypes /\ inbox \in [Sessions -> InboxSeq] /\ worker \in Workers \cup {NoWorker}
        /\ turn \in [Workers -> BOOLEAN]
        /\ pc[s] = "ready" => reply[s] = "none"
    BY DEF SessionsInv, SessionTypes
  <1>s. (CurrentStatus = "active") = Running /\ CurrentStatus \in Node!Statuses
    BY DEF CurrentStatus, Running, Node!Statuses
  <1>1. CASE Node!ForwardEvent(s)
    <2>1. /\ pc[s] = "ready" /\ inbox[s] # <<>> /\ inbox' = [inbox EXCEPT ![s] = Tail(@)]
          /\ UNCHANGED <<pc, reply, worker, turn>>
      BY <1>1 DEF Node!ForwardEvent, Node!connVars
    <2>2. inbox' \in [Sessions -> InboxSeq]
          /\ \A z \in Sessions : inbox'[z] = IF z = s THEN Tail(inbox[s]) ELSE inbox[z]
      BY <1>0, <2>1, FirstTaken
    <2>3. /\ \A x : Latest(inbox[s], x) => Latest(Tail(inbox[s]), x)
          /\ \A x : Latest(inbox[s], x) /\ Head(inbox[s]) \in Node!Statuses
                    /\ ~Unread(Tail(inbox[s])) => Head(inbox[s]) = x
          /\ Head(inbox[s]) \notin Node!Statuses => Unread(Tail(inbox[s])) = Unread(inbox[s])
      BY <1>0, <2>1, FirstTaken
    <2>4. CASE Head(inbox[s]) \notin Node!Statuses
      <3>1. UNCHANGED <<busy, lost>>
        BY <1>1, <2>4 DEF Node!ForwardEvent
      <3>2. SessionTypes'
        BY <1>0, <2>1, <2>2, <3>1 DEF SessionTypes
      <3>3. Known' => Known
        BY <2>1, <3>1 DEF Known
      <3>4. ASSUME NEW z \in Sessions
            PROVE  /\ Unread(inbox'[z]) = Unread(inbox[z])
                   /\ Latest(inbox[z], CurrentStatus) => Latest(inbox'[z], CurrentStatus)
        BY <2>2, <2>3, <2>4
      <3> HIDE DEF CurrentStatus
      <3> QED BY <2>1, <3>1, <3>2, <3>3, <3>4, SessionsFrame
    <2>5. CASE Head(inbox[s]) \in Node!Statuses
      <3>1. busy' = (Head(inbox[s]) = "active") /\ lost' = (lost \/ sub[s] # worker)
        BY <1>1, <2>5 DEF Node!ForwardEvent, Node!UpdateConversationView
      <3>2. SessionTypes'
        BY <1>0, <2>1, <2>2, <3>1 DEF SessionTypes
      <3> SUFFICES ASSUME Known' PROVE MarkFollows'
        BY <3>2 DEF SessionsInv
      <3>3. MarkFollows
        BY <2>1, <3>1 DEF SessionsInv, Known
      <3>4. \A z \in Sessions : Latest(inbox'[z], CurrentStatus)
        BY <2>2, <2>3, <3>3 DEF MarkFollows
      <3>5. \A z \in Sessions : ~Unread(inbox'[z]) /\ reply'[z] # "none" =>
                                  reply'[z] = CurrentStatus
        BY <1>0, <2>1, <2>2, <3>3 DEF MarkFollows
      <3>6. ASSUME ~Unread(inbox'[s]) PROVE busy' = Running
        <4>1. Head(inbox[s]) = CurrentStatus
          BY <2>2, <2>3, <2>5, <3>3, <3>6 DEF MarkFollows
        <4> QED BY <1>s, <3>1, <4>1
      <3>7. CurrentStatus' = CurrentStatus /\ Running' = Running
        BY <2>1 DEF CurrentStatus, Running
      <3> QED BY <3>4, <3>5, <3>6, <3>7 DEF MarkFollows, Latest, Unread
    <2> QED BY <2>4, <2>5
  <1>2. CASE Node!Ask(s)
    <2>1. PICK w \in Workers :
            /\ Node!Ensured(w) /\ worker' = w /\ reply' = [reply EXCEPT ![s] = Node!Status(w)]
            /\ lost' = (lost \/ sub[s] # w)
      BY <1>2 DEF Node!Ask
    <2>2. /\ pc[s] = "ask" /\ pc' = [pc EXCEPT ![s] = "answer"]
          /\ UNCHANGED <<inbox, turn, busy>>
      BY <1>2 DEF Node!Ask, Node!Goto
    <2>3. Node!Status(w) \in Node!Statuses /\ Node!Status(w) # "none"
      BY DEF Node!Status, Node!Statuses
    <2>4. SessionTypes'
      BY <1>0, <2>1, <2>2, <2>3 DEF SessionTypes
    <2> SUFFICES ASSUME Known' PROVE MarkFollows'
      BY <2>4 DEF SessionsInv
    <2>5. worker = w \/ (worker = NoWorker /\ ~turn[w])
      BY <2>1 DEF Node!Ensured
    <2>6. ~lost /\ \A x \in Workers \ {w} : ~turn[x]
      BY <2>1, <2>2 DEF Known
    <2>7. MarkFollows
      BY <2>5, <2>6, PartsAssumption DEF SessionsInv, Known
    <2>8. Node!Status(w) = CurrentStatus
      BY <2>6 DEF Node!Status, CurrentStatus, Running
    <2>9. reply' \in [Sessions -> Node!Statuses \cup {"none"}]
          /\ \A z \in Sessions : reply'[z] = IF z = s THEN CurrentStatus ELSE reply[z]
      BY <1>0, <2>1, <2>4, <2>8 DEF SessionTypes
    <2>10. CurrentStatus' = CurrentStatus /\ CurrentStatus # "none"
      BY <2>2 DEF CurrentStatus, Running
    <2>11. \A z \in Sessions :
             /\ Latest(inbox[z], CurrentStatus)
             /\ ~Unread(inbox[z]) /\ reply'[z] # "none" => reply'[z] = CurrentStatus
      BY <2>7, <2>9 DEF MarkFollows
    <2>12. reply'[s] # "none"
      BY <2>9, <2>10
    <2> HIDE DEF CurrentStatus, Running
    <2> QED BY <2>2, <2>10, <2>11, <2>12 DEF MarkFollows, Latest, Unread
  <1>3. CASE Node!Answer(s)
    <2>1. /\ pc[s] = "answer" /\ pc' = [pc EXCEPT ![s] = "ready"]
          /\ busy' = (reply[s] = "active") /\ lost' = (lost \/ sub[s] # worker)
          /\ reply' = [reply EXCEPT ![s] = "none"] /\ UNCHANGED <<inbox, worker, turn>>
      BY <1>3 DEF Node!Answer, Node!UpdateConversationView, Node!Goto
    <2>2. SessionTypes'
      BY <1>0, <2>1 DEF SessionTypes
    <2> SUFFICES ASSUME Known' PROVE MarkFollows'
      BY <2>2 DEF SessionsInv
    <2>3. MarkFollows /\ reply[s] # "none"
      BY <1>0, <2>1 DEF SessionsInv, SessionTypes, Known
    <2>4. \A z \in Sessions : reply'[z] = IF z = s THEN "none" ELSE reply[z]
      BY <1>0, <2>1 DEF SessionTypes
    <2>5. CurrentStatus' = CurrentStatus /\ Running' = Running
      BY <2>1 DEF CurrentStatus, Running
    <2>6. \A z \in Sessions :
            /\ Latest(inbox[z], CurrentStatus)
            /\ ~Unread(inbox[z]) /\ reply'[z] # "none" => reply'[z] = CurrentStatus
      BY <2>3, <2>4 DEF MarkFollows
    <2>7. ASSUME ~Unread(inbox[s]) PROVE busy' = Running
      <3>1. reply[s] = CurrentStatus
        BY <2>3, <2>7 DEF MarkFollows
      <3> QED BY <1>s, <2>1, <3>1
    <2> HIDE DEF CurrentStatus, Running
    <2> QED BY <2>1, <2>5, <2>6, <2>7 DEF MarkFollows, Latest, Unread
  <1> QED BY <1>1, <1>2, <1>3

(* The worker, and the command that reaches it. *)
LEMMA WorkerSteps ==
  ASSUME SessionsInv,
         \/ \E s \in Sessions : Node!Deliver(s)
         \/ \E w \in Workers : Node!StartTurn(w) \/ Node!FinishTurn(w) \/ Node!EmitEvent(w)
                               \/ Node!Kill(w)
         \/ Node!Evict \/ UNCHANGED Node!vars
  PROVE  SessionsInv'
  <1>0. SessionTypes /\ inbox \in [Sessions -> InboxSeq] /\ worker \in Workers \cup {NoWorker}
        /\ turn \in [Workers -> BOOLEAN]
    BY DEF SessionsInv, SessionTypes
  <1>1. ASSUME NEW s \in Sessions, Node!Deliver(s) PROVE SessionsInv'
    <2>1. PICK w \in Workers :
            /\ Node!Ensured(w) /\ worker' = w
            /\ IF command[s] = "switch" /\ w = worker
               THEN Node!Broadcast(w, Node!Status(w)) ELSE UNCHANGED <<inbox, lost>>
      BY <1>1 DEF Node!Deliver
    <2>2. /\ pc[s] = "deliver" /\ pc' = [pc EXCEPT ![s] = "ready"]
          /\ UNCHANGED <<reply, turn, busy>>
      BY <1>1 DEF Node!Deliver, Node!Goto
    <2>3. Node!Status(w) \in Node!Statuses
      BY DEF Node!Status, Node!Statuses
    <2>4. inbox' \in [Sessions -> InboxSeq]
      <3>1. CASE Node!Push(w, Node!Status(w))
        BY <1>0, <2>3, <3>1, PushTypes
      <3> QED BY <1>0, <2>1, <3>1 DEF Node!Broadcast
    <2>5. SessionTypes'
      BY <1>0, <2>1, <2>2, <2>4, GoesOn
    <2>6. CASE command[s] = "switch" /\ w = worker
      <3>1. Node!Push(w, Node!Status(w)) /\ worker' = worker
        BY <2>1, <2>6 DEF Node!Broadcast
      <3>2. ASSUME Known' PROVE Node!Status(w) = CurrentStatus'
        <4>1. \A x \in Workers \ {w} : ~turn'[x]
          BY <2>1, <3>2 DEF Known
        <4>2. turn' = turn
          BY <2>2
        <4> QED BY <4>1, <4>2 DEF Node!Status, CurrentStatus, Running
      <3> HIDE DEF CurrentStatus
      <3> QED BY <2>2, <2>3, <2>5, <2>6, <3>1, <3>2, StatusTold
    <2>7. CASE ~(command[s] = "switch" /\ w = worker)
      <3>1. UNCHANGED <<inbox, lost>> /\ (worker = w \/ (worker = NoWorker /\ ~turn[w]))
        BY <2>1, <2>7 DEF Node!Ensured
      <3>2. Known' => Known
        BY <2>1, <2>2, <3>1, PartsAssumption DEF Known
      <3> QED BY <2>2, <2>5, <3>1, <3>2, SessionsFrame
    <2> QED BY <2>6, <2>7
  <1>2. ASSUME NEW w \in Workers, NEW x \in {"active", "idle"}, Node!Push(w, x),
               turn' = [turn EXCEPT ![w] = (x = "active")],
               UNCHANGED <<pc, reply, worker, busy>>
        PROVE  SessionsInv'
    <2>1. inbox' \in [Sessions -> InboxSeq]
      BY <1>0, <1>2, PushTypes DEF Node!Statuses
    <2>2. SessionTypes'
      BY <1>0, <1>2, <2>1 DEF SessionTypes
    <2>3. CASE w # worker
      <3>1. lost' = TRUE
        BY <1>2, <2>3 DEF Node!Push, Node!Statuses
      <3> QED BY <2>2, <3>1 DEF SessionsInv, Known
    <2>4. CASE w = worker
      <3>1. ASSUME Known' PROVE x = CurrentStatus'
        <4>1. \A y \in Workers \ {w} : ~turn'[y]
          BY <1>2, <2>4, <3>1 DEF Known
        <4>2. turn'[w] = (x = "active")
          BY <1>0, <1>2
        <4> QED BY <4>1, <4>2 DEF CurrentStatus, Running
      <3> HIDE DEF CurrentStatus
      <3> QED BY <1>2, <2>2, <2>4, <3>1, StatusTold DEF Node!Statuses
    <2> QED BY <2>3, <2>4
  <1>3. ASSUME NEW w \in Workers, Node!StartTurn(w) \/ Node!FinishTurn(w) PROVE SessionsInv'
    <2>1. /\ UNCHANGED <<pc, reply, worker, busy>>
          /\ \/ Node!Push(w, "active") /\ turn' = [turn EXCEPT ![w] = TRUE]
             \/ Node!Push(w, "idle") /\ turn' = [turn EXCEPT ![w] = FALSE]
      BY <1>3 DEF Node!StartTurn, Node!FinishTurn, Node!Broadcast, Node!connVars
    <2> QED BY <1>2, <2>1
  <1>4. ASSUME NEW w \in Workers, Node!EmitEvent(w) PROVE SessionsInv'
    <2>1. Node!Push(w, "event") /\ UNCHANGED <<pc, reply, worker, turn, busy>>
      BY <1>4 DEF Node!EmitEvent, Node!Broadcast, Node!connVars
    <2>2. inbox' \in [Sessions -> InboxSeq]
      BY <1>0, <2>1, PushTypes
    <2>3. SessionTypes'
      BY <1>0, <2>1, <2>2 DEF SessionTypes
    <2>4. lost' = (lost \/ \E s \in Sessions :
                      (sub[s] = w /\ Len(inbox[s]) = Room) /\ Head(inbox[s]) \in Node!Statuses)
      BY <2>1 DEF Node!Push, Node!Statuses
    <2>5. ASSUME NEW s \in Sessions, ~lost'
          PROVE  /\ Unread(inbox'[s]) = Unread(inbox[s])
                 /\ Latest(inbox[s], CurrentStatus) => Latest(inbox'[s], CurrentStatus)
      <3>1. inbox'[s] = IF sub[s] # w THEN inbox[s]
                        ELSE Append(IF sub[s] = w /\ Len(inbox[s]) = Room THEN Tail(inbox[s])
                                    ELSE inbox[s], "event")
        BY <2>1 DEF Node!Push
      <3>2. inbox[s] \in InboxSeq
        BY <1>0
      <3>3. CASE sub[s] # w
        BY <3>1, <3>3
      <3>4. CASE sub[s] = w /\ Len(inbox[s]) = Room
        <4>1. inbox[s] # <<>> /\ Head(inbox[s]) \notin Node!Statuses
          BY <2>4, <2>5, <3>2, <3>4, PartsAssumption DEF InboxSeq
        <4>2. /\ Tail(inbox[s]) \in InboxSeq
              /\ Unread(Tail(inbox[s])) = Unread(inbox[s])
              /\ Latest(inbox[s], CurrentStatus) => Latest(Tail(inbox[s]), CurrentStatus)
          BY <3>2, <4>1, FirstTaken
        <4>3. inbox'[s] = Append(Tail(inbox[s]), "event")
          BY <3>1, <3>4
        <4> HIDE DEF CurrentStatus
        <4> QED BY <4>2, <4>3, EventQueued
      <3>5. CASE sub[s] = w /\ Len(inbox[s]) # Room
        <4>1. inbox'[s] = Append(inbox[s], "event")
          BY <3>1, <3>5
        <4> QED BY <3>2, <4>1, EventQueued
      <3> QED BY <3>3, <3>4, <3>5
    <2>6. Known' => Known /\ ~lost'
      BY <2>1, <2>4 DEF Known
    <2> HIDE DEF CurrentStatus
    <2> QED BY <2>1, <2>3, <2>5, <2>6, SessionsFrame
  <1>5. CASE Node!Evict \/ \E w \in Workers : Node!Kill(w)
    <2>1. /\ UNCHANGED <<pc, reply, inbox, busy>>
          /\ worker' = worker \/ worker' = NoWorker
          /\ \/ UNCHANGED <<turn, lost>>
             \/ \E w \in Workers : turn' = [turn EXCEPT ![w] = FALSE] /\ lost' = (lost \/ turn[w])
      BY <1>5 DEF Node!Evict, Node!Kill, Node!connVars
    <2>2. SessionTypes'
      BY <1>0, <2>1 DEF SessionTypes
    <2>3. ASSUME Known' PROVE Known /\ turn' = turn
      <3>1. turn' = turn /\ ~lost
        <4>1. CASE UNCHANGED <<turn, lost>>
          BY <2>3, <4>1 DEF Known
        <4>2. ASSUME NEW w \in Workers, turn' = [turn EXCEPT ![w] = FALSE],
                     lost' = (lost \/ turn[w])
              PROVE  turn' = turn /\ ~lost
          <5>1. ~lost /\ turn[w] = FALSE
            BY <1>0, <2>3, <4>2 DEF Known
          <5> QED BY <1>0, <4>2, <5>1
        <4> QED BY <2>1, <4>1, <4>2
      <3>2. \A x \in Workers \ {worker} : ~turn[x]
        BY <2>1, <2>3, <3>1, PartsAssumption DEF Known
      <3> QED BY <3>1, <3>2 DEF Known
    <2> QED BY <2>1, <2>2, <2>3, SessionsFrame
  <1>6. CASE UNCHANGED Node!vars
    <2>1. UNCHANGED <<pc, reply, inbox, worker, turn, busy, lost>>
      BY <1>6 DEF Node!vars, Node!connVars
    <2>2. SessionTypes' /\ (Known' => Known)
      BY <1>0, <2>1 DEF SessionTypes, Known
    <2> QED BY <2>1, <2>2, SessionsFrame
  <1> QED BY <1>1, <1>3, <1>4, <1>5, <1>6

LEMMA SessionsInit == Node!Init => SessionsInv
  <1> SUFFICES ASSUME Node!Init PROVE SessionsInv
    OBVIOUS
  <1>1. /\ pc = [s \in Sessions |-> "initialize"] /\ inbox = [s \in Sessions |-> <<>>]
        /\ reply = [s \in Sessions |-> "none"] /\ worker = NoWorker
        /\ turn = [w \in Workers |-> FALSE] /\ busy = FALSE
    BY DEF Node!Init
  <1>2. <<>> \in InboxSeq /\ ~Unread(<<>>) /\ \A x : Latest(<<>>, x)
    BY DEF InboxSeq, Unread, Latest
  <1>3. SessionTypes
    BY <1>1, <1>2 DEF SessionTypes
  <1>4. \A s \in Sessions : inbox[s] = <<>> /\ reply[s] = "none"
    BY <1>1
  <1>5. busy = Running
    BY <1>1 DEF Running
  <1>6. MarkFollows
    BY <1>2, <1>4, <1>5 DEF MarkFollows
  <1> QED BY <1>3, <1>6 DEF SessionsInv

LEMMA SessionsHold == Spec => [](part = "sessions" => SessionsInv)
  <1> DEFINE Holds == part = "sessions" => SessionsInv
  <1>1. Init => Holds
    BY SessionsInit DEF Init
  <1>2. Holds /\ [Next]_vars => Holds'
    <2> SUFFICES ASSUME Holds, [Next]_vars, part' = "sessions" PROVE SessionsInv'
      OBVIOUS
    <2>1. part = "sessions"
      BY DEF Next, vars
    <2>2. [Node!Next]_(Node!vars)
      BY <2>1 DEF Next, vars, sessionsVars, Node!vars, Node!connVars
    <2>3. ASSUME NEW s \in Sessions,
                 \/ Node!Initialize(s) \/ Node!Initialized(s) \/ Node!Reconnect(s)
                 \/ Node!ForwardEvent(s) \/ Node!LoseSubscription(s) \/ Node!CallFails(s)
                 \/ Node!Subscribe(s) \/ Node!Deliver(s) \/ Node!Ask(s) \/ Node!Answer(s)
                 \/ \E c \in Node!Commands : Node!Receive(s, c)
          PROVE  SessionsInv'
      <3>1. CASE \/ Node!Initialize(s) \/ Node!Initialized(s) \/ Node!CallFails(s)
                 \/ \E c \in Node!Commands : Node!Receive(s, c)
                 \/ Node!Reconnect(s) \/ Node!Subscribe(s) \/ Node!LoseSubscription(s)
        BY <2>1, <3>1, ConnectionSteps
      <3>2. CASE Node!ForwardEvent(s) \/ Node!Ask(s) \/ Node!Answer(s)
        BY <2>1, <3>2, RegistrySteps
      <3>3. CASE Node!Deliver(s)
        BY <2>1, <3>3, WorkerSteps
      <3> QED BY <2>3, <3>1, <3>2, <3>3
    <2>4. \/ \E w \in Workers : Node!StartTurn(w) \/ Node!FinishTurn(w) \/ Node!EmitEvent(w)
                                \/ Node!Kill(w)
          \/ Node!Evict \/ UNCHANGED Node!vars
          => SessionsInv'
      BY <2>1, WorkerSteps
    <2> QED BY <2>2, <2>3, <2>4 DEF Node!Next
  <1> QED BY <1>1, <1>2, PTL DEF Spec

(* NodeSessions: whichever connections forward the view, read it, hang up or
   subscribe again, the busy mark they share is the state of the conversation
   once nothing is on its way, unless a status was lost.                       *)
THEOREM MarkFollowsView == Spec => []RegistryFollowsView
  <1>1. (part = "sessions" => SessionsInv) => RegistryFollowsView
    <2> SUFFICES ASSUME SessionsInv, ~lost, \A w \in Workers \ {worker} : ~turn[w],
                        \A s \in Sessions : ~Unread(inbox[s]) /\ reply[s] = "none"
                 PROVE  busy = Running
      BY DEF RegistryFollowsView, Node!RegistryFollowsView, Node!UnreadStatus, Unread, Running
    <2>1. MarkFollows
      BY DEF SessionsInv, Known
    <2> QED BY <2>1 DEF MarkFollows
  <1> QED BY <1>1, SessionsHold, PTL

(***************************************************************************)
(* RolloutStore                                                            *)
(***************************************************************************)

Entry == [id : Nat \ {0}, start : BOOLEAN]
PieceOf == [id : Nat, start : BOOLEAN, whole : BOOLEAN]
Command == [op : {"add"}, items : Seq(Entry) \ {<<>>}] \cup [op : {"flush"}]

StoreTypes ==
  /\ next \in Nat \ {0} /\ cmds \in Seq(Command) /\ batch \in Seq(Entry)
  /\ file \in Seq(PieceOf)
  /\ batch # <<>> <=> pc \in {"line", "newline"}

(* A whole line of the item, with its newline, is in the file. *)
Written(id) ==
  \E i \in DOMAIN file :
    /\ file[i].id = id /\ file[i].whole
    /\ i + 1 \in DOMAIN file /\ file[i + 1].id = 0

(* The line of the first item is written when its newline is due. *)
LineBeforeNewline ==
  pc = "newline" =>
    Len(file) \in DOMAIN file /\ file[Len(file)].id = Head(batch).id /\ file[Len(file)].whole

(* What was taken is written, or is still to be written; and the file parses
   once the recorder is done with it.                                        *)
TakenIsWritten ==
  ~error => \A id \in handled : id # 0 /\ (Written(id) \/ \E k \in DOMAIN batch : batch[k].id = id)
ParsesWhenDone == pc = "idle" /\ ~error /\ handled # {} => Rollout!Parses(file)

RolloutInv == StoreTypes /\ LineBeforeNewline /\ TakenIsWritten /\ ParsesWhenDone

(* A step of the recorder's queue, or of a page. *)
LEMMA RolloutFrame ==
  ASSUME RolloutInv, next' \in Nat \ {0}, cmds' \in Seq(Command),
         UNCHANGED <<pc, batch, error, handled, file>>
  PROVE  RolloutInv'
  <1>1. StoreTypes'
    BY DEF RolloutInv, StoreTypes
  <1>2. LineBeforeNewline' /\ TakenIsWritten'
    BY DEF RolloutInv, LineBeforeNewline, TakenIsWritten, Written
  <1>3. ParsesWhenDone'
    BY DEF RolloutInv, ParsesWhenDone, Rollout!Parses, Rollout!Sound, Rollout!IsNewline
  <1> QED BY <1>1, <1>2, <1>3 DEF RolloutInv

(* What is written stays written when more is. *)
LEMMA WrittenStays ==
  ASSUME file \in Seq(PieceOf), NEW x \in PieceOf, file' = Append(file, x), NEW id, Written(id)
  PROVE  Written(id)'
  <1>1. \A k \in DOMAIN file : k \in DOMAIN file' /\ file'[k] = file[k]
    <2>1. DOMAIN file = 1..Len(file) /\ DOMAIN file' = 1..(Len(file) + 1) /\ Len(file) \in Nat
      OBVIOUS
    <2>2. \A k \in 1..Len(file) : file'[k] = file[k]
      OBVIOUS
    <2> QED BY <2>1, <2>2
  <1> QED BY <1>1 DEF Written

LEMMA RecorderSteps ==
  ASSUME RolloutInv,
         \/ Rollout!TakeFlush \/ Rollout!TakeItems \/ Rollout!WriteLine \/ Rollout!WriteNewline
         \/ Rollout!IndexRows \/ Rollout!RefreshSummary
         \/ Rollout!AppendFails \/ Rollout!Crash \/ Rollout!Delete
  PROVE  RolloutInv'
  <1>0. /\ StoreTypes /\ next \in Nat \ {0} /\ cmds \in Seq(Command) /\ batch \in Seq(Entry)
        /\ file \in Seq(PieceOf)
        /\ (batch # <<>>) = (pc \in {"line", "newline"})
    BY DEF RolloutInv, StoreTypes
  <1>1. CASE Rollout!TakeFlush
    <2>1. /\ pc = "idle" /\ cmds # <<>> /\ cmds' = Tail(cmds) /\ handled' = {}
          /\ UNCHANGED <<next, pc, batch, file>>
      BY <1>1 DEF Rollout!TakeFlush
    <2>2. StoreTypes'
      BY <1>0, <2>1, TailPlaces DEF StoreTypes
    <2> QED BY <2>1, <2>2
      DEF RolloutInv, LineBeforeNewline, TakenIsWritten, ParsesWhenDone
  <1>2. CASE Rollout!TakeItems
    <2>1. /\ pc = "idle" /\ cmds # <<>> /\ Head(cmds).op = "add" /\ cmds' = Tail(cmds)
          /\ pc' = "line" /\ batch' = Head(cmds).items
          /\ handled' = handled \cup {e.id : e \in {batch'[i] : i \in DOMAIN batch'}}
          /\ UNCHANGED <<next, error, file>>
      BY <1>2 DEF Rollout!TakeItems
    <2>2. Head(cmds) \in Command /\ Tail(cmds) \in Seq(Command)
      BY <1>0, <2>1, TailPlaces
    <2>3. batch' \in Seq(Entry) /\ batch' # <<>>
      BY <2>1, <2>2 DEF Command
    <2>4. StoreTypes'
      BY <1>0, <2>1, <2>2, <2>3 DEF StoreTypes
    <2>5. \A i \in DOMAIN batch' : batch'[i].id # 0
      <3>1. \A i \in DOMAIN batch' : batch'[i] \in Entry
        BY <2>3
      <3> QED BY <3>1 DEF Entry
    <2>6. ASSUME ~error', NEW id \in handled'
          PROVE  id # 0 /\ (Written(id)' \/ \E k \in DOMAIN batch' : batch'[k].id = id)
      <3>1. CASE id \in handled
        <4>1. batch = <<>> /\ DOMAIN batch = {}
          BY <1>0, <2>1
        <4>2. id # 0 /\ Written(id)
          BY <2>1, <2>6, <3>1, <4>1 DEF RolloutInv, TakenIsWritten
        <4> QED BY <2>1, <4>2 DEF Written
      <3>2. CASE \E i \in DOMAIN batch' : batch'[i].id = id
        BY <2>5, <3>2
      <3> QED BY <2>1, <2>6, <3>1, <3>2
    <2>7. TakenIsWritten'
      BY <2>6 DEF TakenIsWritten, Written
    <2>8. LineBeforeNewline' /\ ParsesWhenDone'
      BY <2>1 DEF LineBeforeNewline, ParsesWhenDone
    <2> QED BY <2>4, <2>7, <2>8 DEF RolloutInv
  <1>3. CASE Rollout!WriteLine
    <2> DEFINE x == [id |-> Head(batch).id, start |-> Head(batch).start, whole |-> TRUE]
    <2>1. /\ pc = "line" /\ pc' = "newline" /\ file' = Append(file, x)
          /\ UNCHANGED <<next, cmds, batch, error, handled>>
      BY <1>3 DEF Rollout!WriteLine, Rollout!Piece
    <2>2. Head(batch) \in Entry
      BY <1>0, <2>1, TailPlaces
    <2>3. x \in PieceOf /\ x.id = Head(batch).id /\ x.whole
      BY <2>2 DEF Entry, PieceOf
    <2> HIDE DEF x
    <2>4. /\ file' \in Seq(PieceOf) /\ Len(file') = Len(file) + 1 /\ Len(file) + 1 \in DOMAIN file'
          /\ file'[Len(file) + 1] = x
      BY <1>0, <2>1, <2>3
    <2>5. StoreTypes'
      BY <1>0, <2>1, <2>4 DEF StoreTypes
    <2>6. LineBeforeNewline'
      BY <2>1, <2>3, <2>4 DEF LineBeforeNewline
    <2>7. \A id : Written(id) => Written(id)'
      BY <1>0, <2>1, <2>3, WrittenStays
    <2>8. TakenIsWritten'
      BY <2>1, <2>7 DEF RolloutInv, TakenIsWritten
    <2>9. ParsesWhenDone'
      BY <2>1 DEF ParsesWhenDone
    <2> QED BY <2>5, <2>6, <2>8, <2>9 DEF RolloutInv
  <1>4. CASE Rollout!WriteNewline
    <2> DEFINE x == [id |-> 0, start |-> FALSE, whole |-> TRUE]
    <2>1. /\ pc = "newline" /\ file' = Append(file, x) /\ batch' = Tail(batch)
          /\ pc' = IF batch' = <<>> THEN "index" ELSE "line"
          /\ UNCHANGED <<next, cmds, error, handled>>
      BY <1>4 DEF Rollout!WriteNewline, Rollout!Newline
    <2>2. x \in PieceOf /\ x.id = 0
      BY DEF PieceOf
    <2> HIDE DEF x
    <2>3. /\ batch # <<>> /\ Tail(batch) \in Seq(Entry) /\ Head(batch) = batch[1]
          /\ Len(batch) \in Nat \ {0} /\ DOMAIN batch = 1..Len(batch)
          /\ DOMAIN Tail(batch) = 1..(Len(batch) - 1)
          /\ \A k \in 1..(Len(batch) - 1) : Tail(batch)[k] = batch[k + 1]
      BY <1>0, <2>1
    <2>4. /\ file' \in Seq(PieceOf) /\ Len(file) \in Nat
          /\ DOMAIN file' = 1..(Len(file) + 1) /\ file'[Len(file) + 1] = x
          /\ \A k \in DOMAIN file : k \in DOMAIN file' /\ file'[k] = file[k]
      BY <1>0, <2>1, <2>2
    <2>5. StoreTypes'
      BY <1>0, <2>1, <2>3, <2>4 DEF StoreTypes
    <2>6. ASSUME NEW id, id = Head(batch).id PROVE Written(id)'
      <3>1. /\ Len(file) \in DOMAIN file /\ file[Len(file)].id = Head(batch).id
            /\ file[Len(file)].whole
        BY <2>1 DEF RolloutInv, LineBeforeNewline
      <3>2. /\ file'[Len(file)].id = Head(batch).id /\ file'[Len(file)].whole
            /\ Len(file) \in DOMAIN file' /\ Len(file) + 1 \in DOMAIN file'
            /\ file'[Len(file) + 1].id = 0
        BY <2>2, <2>4, <3>1
      <3>3. \E i \in DOMAIN file' :
              /\ file'[i].id = id /\ file'[i].whole
              /\ i + 1 \in DOMAIN file' /\ file'[i + 1].id = 0
        BY <2>6, <3>2
      <3> QED BY <3>3 DEF Written
    <2>7. \A id : Written(id) => Written(id)'
      BY <1>0, <2>1, <2>2, WrittenStays
    <2>8. TakenIsWritten'
      <3>1. ASSUME ~error, NEW id \in handled
            PROVE  id # 0 /\ (Written(id)' \/ \E k \in DOMAIN batch' : batch'[k].id = id)
        <4>1. id # 0 /\ (Written(id) \/ \E k \in DOMAIN batch : batch[k].id = id)
          BY <3>1 DEF RolloutInv, TakenIsWritten
        <4>2. ASSUME NEW k \in DOMAIN batch, batch[k].id = id, k # 1
              PROVE  \E j \in DOMAIN batch' : batch'[j].id = id
          <5>1. k - 1 \in 1..(Len(batch) - 1) /\ (k - 1) + 1 = k
            BY <2>3, <4>2
          <5>2. k - 1 \in DOMAIN batch' /\ batch'[k - 1] = batch[k]
            BY <2>1, <2>3, <5>1
          <5> QED BY <4>2, <5>2
        <4>3. batch[1].id = id => Written(id)'
          BY <2>3, <2>6
        <4> QED BY <2>7, <4>1, <4>2, <4>3
      <3> QED BY <2>1, <3>1 DEF TakenIsWritten, Written
    <2>9. LineBeforeNewline' /\ ParsesWhenDone'
      BY <2>1 DEF LineBeforeNewline, ParsesWhenDone
    <2> QED BY <2>5, <2>8, <2>9 DEF RolloutInv
  <1>5. CASE Rollout!IndexRows
    <2>1. pc = "index" /\ pc' = "summary" /\ UNCHANGED <<next, cmds, batch, error, handled, file>>
      BY <1>5 DEF Rollout!IndexRows
    <2>2. StoreTypes'
      BY <1>0, <2>1 DEF StoreTypes
    <2>3. TakenIsWritten'
      BY <2>1 DEF RolloutInv, TakenIsWritten, Written
    <2> QED BY <2>1, <2>2, <2>3 DEF RolloutInv, LineBeforeNewline, ParsesWhenDone
  <1>6. CASE Rollout!RefreshSummary
    <2>1. /\ pc = "summary" /\ pc' = "idle" /\ UNCHANGED <<next, cmds, batch, handled, file>>
          /\ error' = (error \/ ~Rollout!Parses(file))
      BY <1>6 DEF Rollout!RefreshSummary, Rollout!Report
    <2>2. StoreTypes'
      BY <1>0, <2>1 DEF StoreTypes
    <2>3. TakenIsWritten'
      BY <2>1 DEF RolloutInv, TakenIsWritten, Written
    <2>4. Rollout!Parses(file)' = Rollout!Parses(file)
      BY <2>1 DEF Rollout!Parses, Rollout!Sound, Rollout!IsNewline
    <2> QED BY <2>1, <2>2, <2>3, <2>4 DEF RolloutInv, LineBeforeNewline, ParsesWhenDone
  <1>7. CASE Rollout!AppendFails \/ Rollout!Crash
    <2>1. /\ pc' = "idle" /\ batch' = <<>> /\ next' = next /\ cmds' \in {cmds, <<>>}
          /\ error' \/ handled' = {}
          /\ \/ file' = file
             \/ pc = "line" /\ file' = Append(file,
                  [id |-> Head(batch).id, start |-> Head(batch).start, whole |-> FALSE])
      BY <1>7 DEF Rollout!AppendFails, Rollout!Crash, Rollout!Report, Rollout!Interrupted,
                  Rollout!Piece
    <2>2. file' \in Seq(PieceOf)
      <3>1. CASE pc = "line"
        <4>1. Head(batch) \in Entry
          BY <1>0, <3>1, TailPlaces
        <4>2. [id |-> Head(batch).id, start |-> Head(batch).start, whole |-> FALSE] \in PieceOf
          BY <4>1 DEF Entry, PieceOf
        <4> QED BY SMTT(30), <1>0, <2>1, <4>2
      <3> QED BY <1>0, <2>1, <3>1
    <2>3. StoreTypes'
      <3>0. <<>> \in Seq(Command) /\ <<>> \in Seq(Entry)
        OBVIOUS
      <3>1. cmds' \in Seq(Command) /\ batch' \in Seq(Entry)
        BY <1>0, <2>1, <3>0
      <3> QED BY <1>0, <2>1, <2>2, <3>1 DEF StoreTypes
    <2> QED BY <2>1, <2>3
      DEF RolloutInv, LineBeforeNewline, TakenIsWritten, ParsesWhenDone
  <1>8. CASE Rollout!Delete
    <2>1. /\ pc = "idle" /\ file' = <<>> /\ handled' = {}
          /\ UNCHANGED <<next, cmds, pc, batch, error>>
      BY <1>8 DEF Rollout!Delete
    <2>2. StoreTypes'
      BY <1>0, <2>1 DEF StoreTypes
    <2> QED BY <2>1, <2>2
      DEF RolloutInv, LineBeforeNewline, TakenIsWritten, ParsesWhenDone
  <1> QED BY <1>1, <1>2, <1>3, <1>4, <1>5, <1>6, <1>7, <1>8

LEMMA RolloutHolds == Spec => [](part = "rollout" => RolloutInv)
  <1> DEFINE Holds == part = "rollout" => RolloutInv
  <1>1. Init => Holds
    <2> SUFFICES ASSUME Rollout!Init PROVE RolloutInv
      BY DEF Init
    <2>1. /\ next = 1 /\ cmds = <<>> /\ pc = "idle" /\ batch = <<>> /\ file = <<>>
          /\ handled = {}
      BY DEF Rollout!Init
    <2>2. StoreTypes
      BY <2>1 DEF StoreTypes
    <2> QED BY <2>1, <2>2
      DEF RolloutInv, LineBeforeNewline, TakenIsWritten, ParsesWhenDone
  <1>2. Holds /\ [Next]_vars => Holds'
    <2> SUFFICES ASSUME Holds, [Next]_vars, part' = "rollout" PROVE RolloutInv'
      OBVIOUS
    <2>1. part = "rollout" /\ RolloutInv
      BY DEF Next, vars
    <2>2. [Rollout!Next]_(Rollout!vars)
      BY <2>1 DEF Next, vars, rolloutVars, Rollout!vars, Rollout!recorderVars, Rollout!readerVars
    <2>3. next \in Nat \ {0} /\ cmds \in Seq(Command)
      BY <2>1 DEF RolloutInv, StoreTypes
    <2>4. CASE Rollout!Record
      <3>1. PICK n \in {1, 2} :
              /\ \E starts \in [1..n -> BOOLEAN] :
                   cmds' = Append(cmds,
                     [op |-> "add",
                      items |-> [i \in 1..n |-> [id |-> next + i - 1, start |-> starts[i]]]])
              /\ next' = next + n
        BY <2>4 DEF Rollout!Record
      <3>2. PICK starts \in [1..n -> BOOLEAN] :
              cmds' = Append(cmds,
                [op |-> "add",
                 items |-> [i \in 1..n |-> [id |-> next + i - 1, start |-> starts[i]]]])
        BY <3>1
      <3> DEFINE items == [i \in 1..n |-> [id |-> next + i - 1, start |-> starts[i]]]
      <3>3. \A i \in 1..n : [id |-> next + i - 1, start |-> starts[i]] \in Entry
        BY <2>3 DEF Entry
      <3>4. n \in Nat /\ n # 0
        OBVIOUS
      <3>5. items \in Seq(Entry) /\ Len(items) = n
        BY <3>3, <3>4
      <3>6. items # <<>>
        BY <3>4, <3>5
      <3>i. cmds' = Append(cmds, [op |-> "add", items |-> items])
        BY <3>2
      <3> HIDE DEF items
      <3>7. [op |-> "add", items |-> items] \in Command
        BY <3>5, <3>6 DEF Command
      <3>8. cmds' \in Seq(Command)
        BY <2>3, <3>i, <3>7
      <3>9. next' \in Nat \ {0}
        BY <2>3, <3>1
      <3>10. UNCHANGED <<pc, batch, error, handled, file>>
        BY <2>4 DEF Rollout!Record
      <3> QED BY <2>1, <3>8, <3>9, <3>10, RolloutFrame
    <2>5. CASE Rollout!RequestFlush
      <3>1. [op |-> "flush"] \in Command
        BY DEF Command
      <3>2. cmds' = Append(cmds, [op |-> "flush"])
            /\ UNCHANGED <<next, pc, batch, error, handled, file>>
        BY <2>5 DEF Rollout!RequestFlush
      <3>3. cmds' \in Seq(Command)
        BY <2>3, <3>1, <3>2
      <3> QED BY <2>1, <2>3, <3>2, <3>3, RolloutFrame
    <2>6. CASE \/ \E b \in 0..MaxRecords : Rollout!BeginPage(b)
               \/ Rollout!ReadText \/ Rollout!ReplaceIndex \/ UNCHANGED Rollout!vars
      <3>1. UNCHANGED <<next, cmds, pc, batch, error, handled, file>>
        BY <2>6 DEF Rollout!BeginPage, Rollout!ReadText, Rollout!ReplaceIndex, Rollout!vars,
                    Rollout!recorderVars
      <3> QED BY <2>1, <2>3, <3>1, RolloutFrame
    <2>7. \/ Rollout!TakeFlush \/ Rollout!TakeItems \/ Rollout!WriteLine \/ Rollout!WriteNewline
          \/ Rollout!IndexRows \/ Rollout!RefreshSummary
          \/ Rollout!AppendFails \/ Rollout!Crash \/ Rollout!Delete
          => RolloutInv'
      BY <2>1, RecorderSteps
    <2> QED BY <2>2, <2>4, <2>5, <2>6, <2>7 DEF Rollout!Next
  <1> QED BY <1>1, <1>2, PTL DEF Spec

(* RolloutStore: what a flush without a failure reports is in the file, and the
   file can be loaded, whichever writes failed half way since and in whichever
   process; pages and deletions between do not matter.                         *)
THEOREM FlushedIsLoadable == Spec => []FlushMeansLoadable
  <1>1. (part = "rollout" => RolloutInv) => FlushMeansLoadable
    <2> SUFFICES ASSUME RolloutInv, pc = "idle", ~error, NEW id \in handled
                 PROVE  id \in Rollout!Loaded(file)
      BY DEF FlushMeansLoadable, Rollout!FlushMeansLoadable
    <2>1. Rollout!Parses(file)
      BY DEF RolloutInv, ParsesWhenDone
    <2>2. id # 0 /\ Written(id)
      <3>1. batch = <<>> /\ DOMAIN batch = {}
        BY DEF RolloutInv, StoreTypes
      <3> QED BY <3>1 DEF RolloutInv, TakenIsWritten
    <2>3. PICK i \in DOMAIN file :
            /\ file[i].id = id /\ file[i].whole
            /\ i + 1 \in DOMAIN file /\ file[i + 1].id = 0
      BY <2>2 DEF Written
    <2>4. DOMAIN file = 1..Len(file) /\ Len(file) \in Nat
      BY DEF RolloutInv, StoreTypes
    <2>5. Rollout!Sound(file, i)
      <3>1. i + 1 \in i..Len(file)
        BY <2>3, <2>4
      <3> QED BY <2>1, <2>2, <2>3, <3>1 DEF Rollout!Parses, Rollout!IsNewline
    <2> QED BY <2>1, <2>3, <2>5 DEF Rollout!Loaded, Rollout!Items, Rollout!Parsed
  <1> QED BY <1>1, RolloutHolds, PTL

(* The index of turns: items are numbered as they were recorded, in the file as
   in the queue before it.                                                   *)
Ids(q) == {q[k].id : k \in DOMAIN q} \ {0}
Below(S, T) == \A x \in S, y \in T : x < y
Rising(q) ==
  \A i, j \in DOMAIN q : i < j /\ q[i].id # 0 /\ q[j].id # 0 => q[i].id < q[j].id
ItemsOf(c) == IF c.op = "add" THEN c.items ELSE <<>>
Queued(q, done, n) ==
  /\ \A k \in DOMAIN q :
       /\ Rising(ItemsOf(q[k]))
       /\ Below(done, Ids(ItemsOf(q[k]))) /\ Below(Ids(ItemsOf(q[k])), {n})
  /\ \A k, l \in DOMAIN q : k < l => Below(Ids(ItemsOf(q[k])), Ids(ItemsOf(q[l])))
ItemsNumbered ==
  /\ Rising(file) /\ Rising(batch)
  /\ pc = "line" => Below(Ids(file), Ids(batch))
  /\ pc = "newline" => \A x \in Ids(file) : x <= Head(batch).id
  /\ Queued(cmds, Ids(file) \cup Ids(batch), next)
  /\ Below(Ids(file) \cup Ids(batch), {next})

(* Unless rows were lost, every line a scan finds has its row. *)
RowsKnown ==
  /\ pc \in {"idle", "summary"} => newRows = {}
  /\ newRows \subseteq [turn : Nat \ {0}, at : DOMAIN file]
  /\ \A r \in newRows : file[r.at].id = r.turn
  /\ ~gap => Rollout!StartRows(file) \subseteq rows \cup newRows

(* Numbers that rise go on rising with a greater one behind them. *)
LEMMA RisingAppend ==
  ASSUME NEW S, NEW q \in Seq(S), NEW x \in S, \A y \in S : y.id \in Nat, Rising(q),
         x.id = 0 \/ Below(Ids(q), {x.id})
  PROVE  /\ Rising(Append(q, x))
         /\ Ids(Append(q, x)) = Ids(q) \cup ({x.id} \ {0})
  <1>1. /\ DOMAIN q = 1..Len(q) /\ Len(q) \in Nat
        /\ DOMAIN Append(q, x) = 1..(Len(q) + 1) /\ Append(q, x)[Len(q) + 1] = x
        /\ \A k \in 1..Len(q) : Append(q, x)[k] = q[k] /\ q[k] \in S
    OBVIOUS
  <1>2. Ids(Append(q, x)) = Ids(q) \cup ({x.id} \ {0})
    <2>1. ASSUME NEW i \in Ids(Append(q, x)) PROVE i \in Ids(q) \cup ({x.id} \ {0})
      <3>1. PICK k \in 1..(Len(q) + 1) : i = Append(q, x)[k].id /\ i # 0
        BY <1>1, <2>1 DEF Ids
      <3>2. CASE k = Len(q) + 1
        BY <1>1, <3>1, <3>2
      <3>3. CASE k \in 1..Len(q)
        BY <1>1, <3>1, <3>3 DEF Ids
      <3> QED BY <1>1, <3>1, <3>2, <3>3
    <2>2. ASSUME NEW i \in Ids(q) PROVE i \in Ids(Append(q, x))
      <3>1. PICK k \in 1..Len(q) : i = q[k].id /\ i # 0
        BY <1>1, <2>2 DEF Ids
      <3>2. k \in 1..(Len(q) + 1) /\ Append(q, x)[k].id = i
        BY <1>1, <3>1
      <3> QED BY <1>1, <3>1, <3>2 DEF Ids
    <2>3. x.id # 0 => x.id \in Ids(Append(q, x))
      <3>1. Len(q) + 1 \in 1..(Len(q) + 1)
        BY <1>1
      <3> QED BY <1>1, <3>1 DEF Ids
    <2> QED BY <2>1, <2>2, <2>3
  <1>3. ASSUME NEW i \in 1..(Len(q) + 1), NEW j \in 1..(Len(q) + 1), i < j,
               Append(q, x)[i].id # 0, Append(q, x)[j].id # 0
        PROVE  Append(q, x)[i].id < Append(q, x)[j].id
    <2>1. i \in 1..Len(q) /\ Append(q, x)[i] = q[i]
      BY <1>1, <1>3
    <2>2. CASE j = Len(q) + 1
      <3>1. q[i].id \in Ids(q)
        BY <1>1, <1>3, <2>1 DEF Ids
      <3> QED BY <1>1, <1>3, <2>1, <2>2, <3>1 DEF Below
    <2>3. CASE j \in 1..Len(q)
      BY <1>1, <1>3, <2>1, <2>3 DEF Rising
    <2> QED BY <1>1, <2>2, <2>3
  <1>4. Rising(Append(q, x))
    BY <1>1, <1>3 DEF Rising
  <1> QED BY <1>2, <1>4

(* The first goes, the rest is above it. *)
LEMMA RisingTail ==
  ASSUME NEW S, NEW q \in Seq(S), q # <<>>, \A y \in S : y.id \in Nat \ {0}, Rising(q)
  PROVE  /\ Rising(Tail(q)) /\ Ids(Tail(q)) \subseteq Ids(q)
         /\ Head(q).id \in Ids(q) /\ Below({Head(q).id}, Ids(Tail(q)))
  <1>1. /\ Tail(q) \in Seq(S) /\ Head(q) = q[1] /\ Head(q) \in S
        /\ DOMAIN q = 1..Len(q) /\ Len(q) \in Nat \ {0} /\ DOMAIN Tail(q) = 1..(Len(q) - 1)
        /\ \A k \in 1..(Len(q) - 1) : Tail(q)[k] = q[k + 1] /\ k + 1 \in 1..Len(q)
        /\ \A k \in 1..Len(q) : q[k] \in S
    OBVIOUS
  <1>2. Head(q).id \in Ids(q)
    BY <1>1 DEF Ids
  <1>3. ASSUME NEW i \in Ids(Tail(q)) PROVE i \in Ids(q) /\ Head(q).id < i
    <2>1. PICK k \in 1..(Len(q) - 1) : i = q[k + 1].id /\ i # 0
      BY <1>1, <1>3 DEF Ids
    <2>2. k + 1 \in 1..Len(q) /\ 1 \in 1..Len(q) /\ 1 < k + 1 /\ q[1].id # 0
      BY <1>1, <2>1
    <2> QED BY <1>1, <2>1, <2>2 DEF Ids, Rising
  <1>4. Rising(Tail(q))
    <2>1. ASSUME NEW i \in 1..(Len(q) - 1), NEW j \in 1..(Len(q) - 1), i < j,
                 Tail(q)[i].id # 0, Tail(q)[j].id # 0
          PROVE  Tail(q)[i].id < Tail(q)[j].id
      <3>1. /\ i + 1 \in 1..Len(q) /\ j + 1 \in 1..Len(q) /\ i + 1 < j + 1
            /\ Tail(q)[i] = q[i + 1] /\ Tail(q)[j] = q[j + 1]
        BY <1>1, <2>1
      <3> QED BY <1>1, <2>1, <3>1 DEF Rising
    <2> QED BY <1>1, <2>1 DEF Rising
  <1> QED BY <1>2, <1>3, <1>4 DEF Below

(* A line that is added is the only one a scan may find beyond those it found. *)
LEMMA StartsAppended ==
  ASSUME NEW f \in Seq(PieceOf), NEW x \in PieceOf, NEW r \in Rollout!StartRows(Append(f, x))
  PROVE  \/ r \in Rollout!StartRows(f)
         \/ x.id # 0 /\ x.start /\ x.whole /\ r = [turn |-> x.id, at |-> Len(f) + 1]
  <1> DEFINE g == Append(f, x)
  <1>1. /\ DOMAIN f = 1..Len(f) /\ Len(f) \in Nat
        /\ DOMAIN g = 1..(Len(f) + 1) /\ g[Len(f) + 1] = x /\ Len(g) = Len(f) + 1
        /\ \A k \in 1..Len(f) : g[k] = f[k] /\ f[k] \in PieceOf
    OBVIOUS
  <1>2. PICK i \in 1..(Len(f) + 1) :
          Rollout!Sound(g, i) /\ g[i].start /\ r = [turn |-> g[i].id, at |-> i]
    BY <1>1 DEF Rollout!StartRows, Rollout!Parsed
  <1> HIDE DEF g
  <1>3. /\ g[i].id # 0 /\ g[i].whole
        /\ i = 1 \/ g[i - 1].id = 0
        /\ i = Len(f) + 1 \/ g[i + 1].id = 0
    BY <1>1, <1>2 DEF Rollout!Sound, Rollout!IsNewline
  <1>4. CASE i = Len(f) + 1
    BY <1>1, <1>2, <1>3, <1>4
  <1>5. CASE i \in 1..Len(f)
    <2>1. i = 1 \/ f[i - 1].id = 0
      <3>1. i # 1 => i - 1 \in 1..Len(f)
        BY <1>1, <1>5
      <3> QED BY <1>1, <1>3, <3>1
    <2>2. i = Len(f) \/ f[i + 1].id = 0
      <3>1. ASSUME i # Len(f) PROVE i + 1 \in 1..Len(f) /\ i # Len(f) + 1
        <4>1. Len(f) \in Nat /\ i \in Nat /\ i <= Len(f) /\ 1 <= i
          BY <1>1, <1>5
        <4> QED BY <3>1, <4>1
      <3> QED BY <1>1, <1>3, <3>1
    <2>3. Rollout!Sound(f, i) /\ f[i].start /\ r = [turn |-> f[i].id, at |-> i]
      BY <1>1, <1>2, <1>3, <1>5, <2>1, <2>2 DEF Rollout!Sound, Rollout!IsNewline
    <2> QED BY <1>1, <1>5, <2>3 DEF Rollout!StartRows, Rollout!Parsed
  <1> QED BY <1>1, <1>4, <1>5

LEMMA StartsOfNone == Rollout!StartRows(<<>>) = {}
  BY DEF Rollout!StartRows, Rollout!Parsed

(* What waits for the recorder, when the first command is taken ... *)
LEMMA QueuedTail ==
  ASSUME NEW S, NEW q \in Seq(S), q # <<>>, NEW done, NEW n, Queued(q, done, n)
  PROVE  /\ Queued(Tail(q), done \cup Ids(ItemsOf(Head(q))), n)
         /\ Rising(ItemsOf(Head(q)))
         /\ Below(done, Ids(ItemsOf(Head(q)))) /\ Below(Ids(ItemsOf(Head(q))), {n})
  <1>1. /\ Head(q) = q[1] /\ 1 \in DOMAIN q
        /\ \A k \in DOMAIN Tail(q) : k + 1 \in DOMAIN q /\ k + 1 # 1 /\ Tail(q)[k] = q[k + 1]
    BY TailPlaces
  <1>2. DOMAIN q \subseteq Nat \ {0} /\ DOMAIN Tail(q) \subseteq Nat
    OBVIOUS
  <1>3. \A k \in DOMAIN Tail(q) :
          /\ Rising(ItemsOf(Tail(q)[k])) /\ Below(Ids(ItemsOf(Tail(q)[k])), {n})
          /\ Below(done, Ids(ItemsOf(Tail(q)[k])))
          /\ Below(Ids(ItemsOf(q[1])), Ids(ItemsOf(Tail(q)[k])))
    <2>1. \A k \in DOMAIN Tail(q) : 1 < k + 1
      BY <1>1, <1>2
    <2> QED BY <1>1, <2>1 DEF Queued
  <1>4. \A k, l \in DOMAIN Tail(q) : k < l =>
          Below(Ids(ItemsOf(Tail(q)[k])), Ids(ItemsOf(Tail(q)[l])))
    <2>1. \A k, l \in DOMAIN Tail(q) : k < l => k + 1 < l + 1
      BY <1>2
    <2> QED BY <1>1, <2>1 DEF Queued
  <1>5. \A k \in DOMAIN Tail(q) :
          Below(done \cup Ids(ItemsOf(q[1])), Ids(ItemsOf(Tail(q)[k])))
    BY <1>3 DEF Below
  <1> QED BY <1>1, <1>3, <1>4, <1>5 DEF Queued

(* ... and when one is sent, with numbers from n on. *)
LEMMA QueuedAppend ==
  ASSUME NEW S, NEW q \in Seq(S), NEW c \in S, NEW done, done \subseteq Nat,
         NEW n \in Nat, NEW m \in Nat, n <= m, Queued(q, done, n), Below(done, {n}),
         \A k \in DOMAIN q : Ids(ItemsOf(q[k])) \subseteq Nat,
         Rising(ItemsOf(c)), Ids(ItemsOf(c)) \subseteq {x \in Nat : n <= x /\ x < m}
  PROVE  Queued(Append(q, c), done, m)
  <1>1. /\ DOMAIN q = 1..Len(q) /\ Len(q) \in Nat /\ DOMAIN Append(q, c) = 1..(Len(q) + 1)
        /\ Append(q, c)[Len(q) + 1] = c
        /\ \A k \in 1..Len(q) : Append(q, c)[k] = q[k]
    OBVIOUS
  <1>2. \A k \in 1..(Len(q) + 1) : k \in 1..Len(q) \/ k = Len(q) + 1
    BY <1>1
  <1>3. \A k \in 1..Len(q) : /\ Rising(ItemsOf(q[k])) /\ Below(done, Ids(ItemsOf(q[k])))
                             /\ Below(Ids(ItemsOf(q[k])), {n})
                             /\ Ids(ItemsOf(q[k])) \subseteq Nat
    BY <1>1 DEF Queued
  <1>4. /\ Below(done, Ids(ItemsOf(c))) /\ Below(Ids(ItemsOf(c)), {m})
        /\ \A k \in 1..Len(q) : /\ Below(Ids(ItemsOf(q[k])), {m})
                                /\ Below(Ids(ItemsOf(q[k])), Ids(ItemsOf(c)))
    <2>1. \A x \in Nat : x < n => x < m /\ \A y \in Ids(ItemsOf(c)) : x < y
      OBVIOUS
    <2>2. \A x \in done : x \in Nat /\ x < n
      BY DEF Below
    <2>3. \A k \in 1..Len(q) : \A x \in Ids(ItemsOf(q[k])) : x \in Nat /\ x < n
      BY <1>3 DEF Below
    <2> QED BY <2>1, <2>2, <2>3 DEF Below
  <1>5. \A k \in 1..(Len(q) + 1) :
          /\ Rising(ItemsOf(Append(q, c)[k])) /\ Below(done, Ids(ItemsOf(Append(q, c)[k])))
          /\ Below(Ids(ItemsOf(Append(q, c)[k])), {m})
    BY <1>1, <1>2, <1>3, <1>4
  <1>6. \A k, l \in 1..(Len(q) + 1) : k < l =>
          Below(Ids(ItemsOf(Append(q, c)[k])), Ids(ItemsOf(Append(q, c)[l])))
    <2>1. \A k, l \in 1..(Len(q) + 1) : k < l => k \in 1..Len(q)
      BY <1>1
    <2>2. \A k, l \in 1..Len(q) : k < l => Below(Ids(ItemsOf(q[k])), Ids(ItemsOf(q[l])))
      BY <1>1 DEF Queued
    <2> QED BY <1>1, <1>2, <1>4, <2>1, <2>2
  <1> QED BY <1>1, <1>5, <1>6 DEF Queued

LEMMA QueuedBehindFewer ==
  ASSUME NEW q, NEW done, NEW n, Queued(q, done, n), NEW fewer \in SUBSET done
  PROVE  Queued(q, fewer, n)
  BY DEF Queued, Below

LEMMA NoIds == Ids(<<>>) = {} /\ Rising(<<>>)
  BY DEF Ids, Rising

LEMMA CommandItems ==
  ASSUME NEW c \in Command
  PROVE  ItemsOf(c) \in Seq(Entry) /\ Ids(ItemsOf(c)) \subseteq Nat
  <1>1. ItemsOf(c) \in Seq(Entry)
    BY DEF Command, ItemsOf
  <1>2. \A q \in Seq(Entry) : \A k \in DOMAIN q : q[k].id \in Nat
    <2>1. \A q \in Seq(Entry) : \A k \in DOMAIN q : q[k] \in Entry
      OBVIOUS
    <2> QED BY <2>1 DEF Entry
  <1> QED BY <1>1, <1>2 DEF Ids

LEMMA NumberedStep ==
  ASSUME RolloutInv, StoreTypes', ItemsNumbered, [Rollout!Next]_(Rollout!vars)
  PROVE  ItemsNumbered'
  <1> DEFINE done == Ids(file) \cup Ids(batch)
  <1>0. /\ next \in Nat \ {0} /\ cmds \in Seq(Command) /\ batch \in Seq(Entry)
        /\ file \in Seq(PieceOf)
        /\ (batch # <<>>) = (pc \in {"line", "newline"})
    BY DEF RolloutInv, StoreTypes
  <1>1. /\ Rising(file) /\ Rising(batch)
        /\ Queued(cmds, done, next) /\ Below(done, {next})
        /\ pc = "line" => Below(Ids(file), Ids(batch))
        /\ pc = "newline" => \A x \in Ids(file) : x <= Head(batch).id
    BY DEF ItemsNumbered
  <1>2. (\A y \in PieceOf : y.id \in Nat) /\ (\A y \in Entry : y.id \in Nat \ {0})
    BY DEF PieceOf, Entry
  <1>3. done \subseteq Nat
    <2>1. (\A k \in DOMAIN file : file[k] \in PieceOf) /\ (\A k \in DOMAIN batch : batch[k] \in Entry)
      BY <1>0
    <2>2. (\A k \in DOMAIN file : file[k].id \in Nat) /\ (\A k \in DOMAIN batch : batch[k].id \in Nat)
      BY <1>2, <2>1
    <2> QED BY <2>2 DEF Ids
  <1>4. \A k \in DOMAIN cmds : Ids(ItemsOf(cmds[k])) \subseteq Nat
    <2>1. \A k \in DOMAIN cmds : cmds[k] \in Command
      BY <1>0
    <2> QED BY <2>1, CommandItems
  <1> HIDE DEF done
  <1>5. ASSUME UNCHANGED <<file, batch>>, pc' \notin {"line", "newline"} \/ pc' = pc,
               Queued(cmds', done, next'), Below(done, {next'})
        PROVE  ItemsNumbered'
    BY <1>1, <1>5 DEF ItemsNumbered, Ids, Rising, done
  (* Items are dropped with the queue, or left in it. *)
  <1>6. ASSUME cmds' \in {cmds, <<>>}, next' = next, pc' = "idle",
               Rising(file'), Rising(batch'), (Ids(file') \cup Ids(batch')) \subseteq done
        PROVE  ItemsNumbered'
    <2>1. Queued(<<>>, done, next)
      BY DEF Queued
    <2>2. Queued(cmds', done, next)
      BY <1>1, <1>6, <2>1
    <2>3. Queued(cmds', Ids(file') \cup Ids(batch'), next')
      BY <1>6, <2>2, QueuedBehindFewer
    <2>4. Below(Ids(file') \cup Ids(batch'), {next'})
      BY <1>1, <1>6 DEF Below
    <2> QED BY <1>6, <2>3, <2>4 DEF ItemsNumbered, Ids, Rising
  <1>7. CASE Rollout!Record
    <2>1. PICK n \in {1, 2} :
            /\ \E starts \in [1..n -> BOOLEAN] :
                 cmds' = Append(cmds,
                   [op |-> "add",
                    items |-> [i \in 1..n |-> [id |-> next + i - 1, start |-> starts[i]]]])
            /\ next' = next + n
      BY <1>7 DEF Rollout!Record
    <2>2. PICK starts \in [1..n -> BOOLEAN] :
            cmds' = Append(cmds,
              [op |-> "add",
               items |-> [i \in 1..n |-> [id |-> next + i - 1, start |-> starts[i]]]])
      BY <2>1
    <2> DEFINE items == [i \in 1..n |-> [id |-> next + i - 1, start |-> starts[i]]]
               c == [op |-> "add", items |-> items]
    <2>3. \A i \in 1..n : next + i - 1 \in Nat /\ next <= next + i - 1 /\ next + i - 1 < next + n
      BY <1>0
    <2>4. Ids(items) \subseteq {x \in Nat : next <= x /\ x < next + n}
      BY <2>3 DEF Ids
    <2>5. Rising(items)
      <3>1. \A i, j \in 1..n : i < j => next + i - 1 < next + j - 1
        BY <1>0
      <3> QED BY <3>1 DEF Rising
    <2>6. cmds' = Append(cmds, c) /\ ItemsOf(c) = items
      BY <2>2 DEF ItemsOf
    <2> HIDE DEF items, c
    <2>7. Rising(ItemsOf(c)) /\ Ids(ItemsOf(c)) \subseteq {x \in Nat : next <= x /\ x < next + n}
      BY <2>4, <2>5, <2>6
    <2>8. next + n \in Nat /\ next <= next + n /\ next \in Nat
      BY <1>0
    <2>9. cmds \in Seq(Command \cup {c}) /\ c \in Command \cup {c}
      BY <1>0
    <2>10. Queued(cmds', done, next')
      BY <1>1, <1>3, <1>4, <2>1, <2>6, <2>7, <2>8, <2>9, QueuedAppend
    <2>11. Below(done, {next'})
      <3>1. \A x \in done : x \in Nat /\ x < next
        BY <1>1, <1>3 DEF Below
      <3> QED BY <1>0, <2>1, <2>8, <3>1 DEF Below
    <2>12. UNCHANGED <<pc, file, batch>>
      BY <1>7 DEF Rollout!Record
    <2> QED BY <1>5, <2>10, <2>11, <2>12
  <1>8. CASE Rollout!RequestFlush
    <2> DEFINE c == [op |-> "flush"]
    <2>1. cmds' = Append(cmds, c) /\ UNCHANGED <<next, pc, batch, file>>
      BY <1>8 DEF Rollout!RequestFlush
    <2>2. c \in Command /\ ItemsOf(c) = <<>>
      BY DEF Command, ItemsOf
    <2> HIDE DEF c
    <2>3. Rising(ItemsOf(c)) /\ Ids(ItemsOf(c)) = {}
      BY <2>2, NoIds
    <2>4. Ids(ItemsOf(c)) \subseteq {x \in Nat : next <= x /\ x < next} /\ next \in Nat /\ next <= next
      BY <1>0, <2>3
    <2>5. Queued(cmds', done, next)
      BY <1>0, <1>1, <1>3, <1>4, <2>1, <2>2, <2>3, <2>4, QueuedAppend
    <2> QED BY <1>1, <1>5, <2>1, <2>5
  <1>9. CASE Rollout!TakeFlush
    <2>1. /\ cmds # <<>> /\ Head(cmds).op = "flush" /\ cmds' = Tail(cmds)
          /\ UNCHANGED <<next, pc, batch, file>>
      BY <1>9 DEF Rollout!TakeFlush
    <2>2. ItemsOf(Head(cmds)) = <<>>
      BY <2>1 DEF ItemsOf
    <2>3. Queued(Tail(cmds), done \cup Ids(<<>>), next)
      BY <1>0, <1>1, <2>1, <2>2, QueuedTail
    <2>4. Queued(cmds', done, next')
      BY <2>1, <2>3, NoIds
    <2> QED BY <1>1, <1>5, <2>1, <2>4
  <1>10. CASE Rollout!TakeItems
    <2>1. /\ pc = "idle" /\ cmds # <<>> /\ Head(cmds).op = "add" /\ cmds' = Tail(cmds)
          /\ pc' = "line" /\ batch' = Head(cmds).items /\ UNCHANGED <<next, file>>
      BY <1>10 DEF Rollout!TakeItems
    <2>2. batch' = ItemsOf(Head(cmds))
      BY <2>1 DEF ItemsOf
    <2>3. /\ Queued(Tail(cmds), done \cup Ids(ItemsOf(Head(cmds))), next)
          /\ Rising(ItemsOf(Head(cmds)))
          /\ Below(done, Ids(ItemsOf(Head(cmds)))) /\ Below(Ids(ItemsOf(Head(cmds))), {next})
      BY <1>0, <1>1, <2>1, QueuedTail
    <2>4. /\ Queued(cmds', done \cup Ids(batch'), next') /\ Rising(batch')
          /\ Below(done, Ids(batch')) /\ Below(Ids(batch'), {next'})
      BY <2>1, <2>2, <2>3
    <2>5. Ids(file') = Ids(file) /\ Ids(file) \subseteq done /\ Rising(file')
      BY <1>1, <2>1 DEF done
    <2>6. Queued(cmds', Ids(file') \cup Ids(batch'), next')
      <3>1. Ids(file') \cup Ids(batch') \in SUBSET (done \cup Ids(batch'))
        BY <2>5
      <3> QED BY <2>4, <3>1, QueuedBehindFewer
    <2>7. Below(Ids(file'), Ids(batch')) /\ Below(Ids(file') \cup Ids(batch'), {next'})
      BY <1>1, <2>1, <2>4, <2>5 DEF Below
    <2> QED BY <2>1, <2>4, <2>5, <2>6, <2>7 DEF ItemsNumbered, Ids, Rising
  <1>11. CASE Rollout!WriteLine
    <2> DEFINE x == [id |-> Head(batch).id, start |-> Head(batch).start, whole |-> TRUE]
    <2>1. /\ pc = "line" /\ pc' = "newline" /\ file' = Append(file, x)
          /\ UNCHANGED <<next, cmds, batch>>
      BY <1>11 DEF Rollout!WriteLine, Rollout!Piece
    <2>2. Head(batch) \in Entry /\ batch # <<>>
      BY <1>0, <2>1, TailPlaces
    <2>3. x \in PieceOf /\ x.id = Head(batch).id /\ x.id # 0
      BY <2>2 DEF Entry, PieceOf
    <2> HIDE DEF x
    <2>4. Head(batch).id \in Ids(batch)
      BY <1>0, <1>1, <1>2, <2>2, RisingTail
    <2>5. Below(Ids(file), {x.id})
      BY <1>1, <2>1, <2>3, <2>4 DEF Below
    <2>6. Rising(file') /\ Ids(file') = Ids(file) \cup {x.id}
      BY <1>0, <1>1, <1>2, <2>1, <2>3, <2>5, RisingAppend
    <2>7. Ids(file') \cup Ids(batch') = done
      BY <2>1, <2>3, <2>4, <2>6 DEF done
    <2>8. \A y \in Ids(file') : y <= Head(batch').id
      <3>1. \A y \in Ids(file) : y \in Nat /\ y < x.id
        BY <1>3, <2>5 DEF Below, done
      <3>2. x.id \in Nat
        BY <1>2, <2>3
      <3>3. \A y \in Ids(file) \cup {x.id} : y <= x.id
        BY <3>1, <3>2
      <3> QED BY <2>1, <2>3, <2>6, <3>3
    <2>9. Queued(cmds', Ids(file') \cup Ids(batch'), next') /\ Below(Ids(file') \cup Ids(batch'), {next'})
      BY <1>1, <2>1, <2>7
    <2>10. Rising(batch')
      BY <1>1, <2>1
    <2> QED BY <2>1, <2>6, <2>8, <2>9, <2>10 DEF ItemsNumbered, Ids, Rising
  <1>12. CASE Rollout!WriteNewline
    <2> DEFINE x == [id |-> 0, start |-> FALSE, whole |-> TRUE]
    <2>1. /\ pc = "newline" /\ file' = Append(file, x) /\ batch' = Tail(batch)
          /\ pc' = IF batch' = <<>> THEN "index" ELSE "line"
          /\ UNCHANGED <<next, cmds>>
      BY <1>12 DEF Rollout!WriteNewline, Rollout!Newline
    <2>2. x \in PieceOf /\ x.id = 0
      BY DEF PieceOf
    <2> HIDE DEF x
    <2>3. Rising(file') /\ Ids(file') = Ids(file)
      <3>1. x.id = 0 \/ Below(Ids(file), {x.id})
        BY <2>2
      <3>2. /\ Rising(Append(file, x))
            /\ Ids(Append(file, x)) = Ids(file) \cup ({x.id} \ {0})
        <4>1. file \in Seq(PieceOf) /\ Rising(file) /\ x \in PieceOf /\ \A y \in PieceOf : y.id \in Nat
          BY <1>0, <1>1, <1>2, <2>2
        <4> QED BY <3>1, <4>1, RisingAppend
      <3>3. Ids(file) \cup ({x.id} \ {0}) = Ids(file)
        BY <2>2
      <3> QED BY <2>1, <3>2, <3>3
    <2>4. batch # <<>>
      BY <1>0, <2>1
    <2>5. /\ Rising(batch') /\ Ids(batch') \subseteq Ids(batch) /\ Head(batch).id \in Ids(batch)
          /\ Below({Head(batch).id}, Ids(batch'))
      BY <1>0, <1>1, <1>2, <2>1, <2>4, RisingTail
    <2>6. Below(Ids(file'), Ids(batch'))
      <3>1. \A y \in Ids(file) : y \in Nat /\ y <= Head(batch).id
        BY <1>1, <1>3, <2>1 DEF done
      <3>2. Head(batch).id \in Nat /\ \A z \in Ids(batch') : z \in Nat /\ Head(batch).id < z
        BY <1>3, <2>5 DEF Below, done
      <3>3. \A y \in Ids(file), z \in Ids(batch') : y < z
        BY <3>1, <3>2
      <3> QED BY <2>3, <3>3 DEF Below
    <2>7. Ids(file') \cup Ids(batch') \in SUBSET done
      BY <2>3, <2>5 DEF done
    <2>8. Queued(cmds', Ids(file') \cup Ids(batch'), next')
      BY <1>1, <2>1, <2>7, QueuedBehindFewer
    <2>9. Below(Ids(file') \cup Ids(batch'), {next'})
      BY <1>1, <2>1, <2>7 DEF Below
    <2> QED BY <2>1, <2>3, <2>5, <2>6, <2>8, <2>9 DEF ItemsNumbered, Ids, Rising
  <1>13. CASE Rollout!AppendFails \/ Rollout!Crash
    <2>1. /\ pc' = "idle" /\ batch' = <<>> /\ next' = next /\ cmds' \in {cmds, <<>>}
          /\ \/ file' = file
             \/ pc = "line" /\ file' = Append(file,
                  [id |-> Head(batch).id, start |-> Head(batch).start, whole |-> FALSE])
      BY <1>13 DEF Rollout!AppendFails, Rollout!Crash, Rollout!Interrupted, Rollout!Piece
    <2>2. CASE file' = file
      <3>1. Rising(file') /\ Ids(file') = Ids(file) /\ Rising(batch') /\ Ids(batch') = {}
        BY <1>1, <2>1, <2>2, NoIds
      <3>2. (Ids(file') \cup Ids(batch')) \subseteq done
        BY <3>1 DEF done
      <3> QED BY <1>6, <2>1, <3>1, <3>2
    <2>3. CASE pc = "line" /\ file' = Append(file,
                  [id |-> Head(batch).id, start |-> Head(batch).start, whole |-> FALSE])
      <3> DEFINE x == [id |-> Head(batch).id, start |-> Head(batch).start, whole |-> FALSE]
      <3>1. Head(batch) \in Entry /\ batch # <<>>
        BY <1>0, <2>3, TailPlaces
      <3>2. x \in PieceOf /\ x.id = Head(batch).id /\ file' = Append(file, x)
        BY <2>3, <3>1 DEF Entry, PieceOf
      <3> HIDE DEF x
      <3>3. Head(batch).id \in Ids(batch)
        BY <1>0, <1>1, <1>2, <3>1, RisingTail
      <3>4. Below(Ids(file), {x.id})
        BY <1>1, <2>3, <3>2, <3>3 DEF Below
      <3>5. Rising(file') /\ Ids(file') = Ids(file) \cup ({x.id} \ {0})
        BY <1>0, <1>1, <1>2, <3>2, <3>4, RisingAppend
      <3>6. Rising(batch') /\ Ids(batch') = {}
        BY <2>1, NoIds
      <3>7. (Ids(file') \cup Ids(batch')) \subseteq done
        BY <3>2, <3>3, <3>5, <3>6 DEF done
      <3> QED BY <1>6, <2>1, <3>5, <3>6, <3>7
    <2> QED BY <2>1, <2>2, <2>3
  <1>14. CASE Rollout!Delete
    <2>1. /\ pc = "idle" /\ file' = <<>> /\ UNCHANGED <<next, cmds, pc, batch>>
      BY <1>14 DEF Rollout!Delete
    <2>2. Rising(file') /\ Ids(file') = {} /\ Rising(batch') /\ Ids(batch') = Ids(batch)
      BY <1>1, <2>1, NoIds
    <2>3. (Ids(file') \cup Ids(batch')) \subseteq done
      BY <2>2 DEF done
    <2> QED BY <1>6, <2>1, <2>2, <2>3
  <1>15. CASE \/ Rollout!IndexRows \/ Rollout!RefreshSummary
              \/ \E b \in 0..MaxRecords : Rollout!BeginPage(b)
              \/ Rollout!ReadText \/ Rollout!ReplaceIndex \/ UNCHANGED Rollout!vars
    <2>1. /\ UNCHANGED <<next, cmds, batch, file>>
          /\ pc' \notin {"line", "newline"} \/ pc' = pc
      BY <1>15 DEF Rollout!IndexRows, Rollout!RefreshSummary, Rollout!BeginPage, Rollout!ReadText,
                  Rollout!ReplaceIndex, Rollout!vars, Rollout!recorderVars
    <2> QED BY <1>1, <1>5, <2>1
  <1> QED BY <1>7, <1>8, <1>9, <1>10, <1>11, <1>12, <1>13, <1>14, <1>15 DEF Rollout!Next

LEMMA RowsStep ==
  ASSUME RolloutInv, StoreTypes', ItemsNumbered, RowsKnown, [Rollout!Next]_(Rollout!vars)
  PROVE  RowsKnown'
  <1>0. /\ next \in Nat \ {0} /\ cmds \in Seq(Command) /\ batch \in Seq(Entry)
        /\ file \in Seq(PieceOf)
        /\ (batch # <<>>) = (pc \in {"line", "newline"})
    BY DEF RolloutInv, StoreTypes
  <1>1. /\ pc \in {"idle", "summary"} => newRows = {}
        /\ newRows \subseteq [turn : Nat \ {0}, at : DOMAIN file]
        /\ \A r \in newRows : file[r.at].id = r.turn
        /\ ~gap => Rollout!StartRows(file) \subseteq rows \cup newRows
    BY DEF RowsKnown
  (* Rows and file are as before, or nothing is claimed of them. *)
  <1>2. ASSUME UNCHANGED <<file, rows>>, newRows' \in {newRows, {}}, pc' # pc => newRows' = {},
               gap' = gap \/ gap' = TRUE, newRows' = newRows \/ newRows = {} \/ gap'
        PROVE  RowsKnown'
    BY <1>1, <1>2 DEF RowsKnown, Rollout!StartRows, Rollout!Parsed, Rollout!Sound,
                      Rollout!IsNewline
  <1>3. CASE \/ Rollout!Record \/ Rollout!RequestFlush \/ Rollout!TakeFlush
             \/ \E b \in 0..MaxRecords : Rollout!BeginPage(b)
             \/ Rollout!ReadText \/ UNCHANGED Rollout!vars
    <2>1. UNCHANGED <<pc, newRows, file, rows, gap>>
      BY <1>3 DEF Rollout!Record, Rollout!RequestFlush, Rollout!TakeFlush, Rollout!BeginPage,
                  Rollout!ReadText, Rollout!vars, Rollout!recorderVars
    <2> QED BY <1>2, <2>1
  <1>4. CASE Rollout!TakeItems \/ Rollout!RefreshSummary
    <2>1. /\ pc \in {"idle", "summary"} /\ newRows' \in {newRows, {}}
          /\ UNCHANGED <<file, rows, gap>>
      BY <1>4 DEF Rollout!TakeItems, Rollout!RefreshSummary
    <2>2. newRows = {}
      BY <1>1, <2>1
    <2> QED BY <1>2, <2>1, <2>2
  <1>5. CASE Rollout!WriteLine
    <2> DEFINE x == [id |-> Head(batch).id, start |-> Head(batch).start, whole |-> TRUE]
               r0 == [turn |-> Head(batch).id, at |-> Len(file')]
    <2>1. /\ pc = "line" /\ pc' = "newline" /\ file' = Append(file, x)
          /\ newRows' = IF Head(batch).start THEN newRows \cup {r0} ELSE newRows
          /\ UNCHANGED <<rows, gap>>
      BY <1>5 DEF Rollout!WriteLine, Rollout!Piece
    <2>2. Head(batch) \in Entry
      BY <1>0, <2>1, TailPlaces
    <2>3. x \in PieceOf /\ x.id = Head(batch).id /\ x.start = Head(batch).start
          /\ x.id \in Nat \ {0}
      BY <2>2 DEF Entry, PieceOf
    <2>4. r0 = [turn |-> x.id, at |-> Len(file')]
      OBVIOUS
    <2> HIDE DEF x, r0
    <2>5. /\ DOMAIN file' = 1..(Len(file) + 1) /\ DOMAIN file = 1..Len(file) /\ Len(file) \in Nat
          /\ Len(file') = Len(file) + 1 /\ file'[Len(file) + 1] = x
          /\ \A k \in DOMAIN file : k \in DOMAIN file' /\ file'[k] = file[k]
      BY <1>0, <2>1, <2>3
    <2>6. /\ r0 \in [turn : Nat \ {0}, at : DOMAIN file'] /\ file'[r0.at].id = r0.turn
      BY <2>3, <2>4, <2>5
    <2>7. newRows' \subseteq [turn : Nat \ {0}, at : DOMAIN file']
      BY <1>1, <2>1, <2>5, <2>6
    <2>8. \A r \in newRows' : file'[r.at].id = r.turn
      <3>1. \A r \in newRows : r.at \in DOMAIN file
        BY <1>1
      <3> QED BY <1>1, <2>1, <2>5, <2>6, <3>1
    <2>9. ASSUME ~gap PROVE Rollout!StartRows(file') \subseteq rows' \cup newRows'
      <3>1. ASSUME NEW r \in Rollout!StartRows(Append(file, x)) PROVE r \in rows' \cup newRows'
        <4>1. \/ r \in Rollout!StartRows(file)
              \/ x.start /\ r = [turn |-> x.id, at |-> Len(file) + 1]
          BY <1>0, <2>3, <3>1, StartsAppended
        <4> QED BY <1>1, <2>1, <2>3, <2>4, <2>5, <2>9, <4>1
      <3> QED BY <2>1, <3>1
    <2>10. Rollout!StartRows(file)' = Rollout!StartRows(file')
      BY DEF Rollout!StartRows, Rollout!Parsed, Rollout!Sound, Rollout!IsNewline
    <2> QED BY <2>1, <2>7, <2>8, <2>9, <2>10 DEF RowsKnown

  (* A newline or a torn line is no line a scan finds. *)
  <1>6. ASSUME NEW x \in PieceOf, file' = Append(file, x), x.id = 0 \/ ~x.whole
        PROVE  Rollout!StartRows(file)' \subseteq Rollout!StartRows(file)
    <2>1. \A r \in Rollout!StartRows(Append(file, x)) : r \in Rollout!StartRows(file)
      BY <1>0, <1>6, StartsAppended
    <2>2. Rollout!StartRows(file)' = Rollout!StartRows(file')
      BY DEF Rollout!StartRows, Rollout!Parsed, Rollout!Sound, Rollout!IsNewline
    <2> QED BY <1>6, <2>1, <2>2
  <1>7. CASE Rollout!WriteNewline
    <2> DEFINE x == [id |-> 0, start |-> FALSE, whole |-> TRUE]
    <2>1. /\ file' = Append(file, x) /\ pc' \in {"index", "line"}
          /\ UNCHANGED <<newRows, rows, gap>>
      BY <1>7 DEF Rollout!WriteNewline, Rollout!Newline
    <2>2. x \in PieceOf /\ x.id = 0
      BY DEF PieceOf
    <2> HIDE DEF x
    <2>3. \A k \in DOMAIN file : k \in DOMAIN file' /\ file'[k] = file[k]
      BY <1>0, <2>1, <2>2
    <2>4. newRows' \subseteq [turn : Nat \ {0}, at : DOMAIN file']
      BY <1>1, <2>1, <2>3
    <2>5. \A r \in newRows' : file'[r.at].id = r.turn
      <3>1. \A r \in newRows : r.at \in DOMAIN file
        BY <1>1
      <3> QED BY <1>1, <2>1, <2>3, <3>1
    <2>6. Rollout!StartRows(file)' \subseteq Rollout!StartRows(file)
      BY <1>6, <2>1, <2>2
    <2> QED BY <1>1, <2>1, <2>4, <2>5, <2>6 DEF RowsKnown
  <1>8. CASE Rollout!IndexRows
    <2>1. /\ pc' = "summary" /\ newRows' = {}
          /\ rows' = {r \in rows : \A q \in newRows : q.turn # r.turn} \cup newRows
          /\ UNCHANGED <<file, gap>>
      BY <1>8 DEF Rollout!IndexRows
    <2>2. ASSUME ~gap, NEW r \in Rollout!StartRows(file) PROVE r \in rows'
      <3>1. r \in rows \cup newRows
        BY <1>1, <2>2
      <3>2. ASSUME r \in rows, NEW q \in newRows, q.turn = r.turn PROVE r = q
        <4>1. /\ q \in [turn : Nat \ {0}, at : DOMAIN file] /\ file[q.at].id = q.turn
          BY <1>1, <3>2
        <4>2. PICK i \in DOMAIN file : r = [turn |-> file[i].id, at |-> i]
          BY <2>2 DEF Rollout!StartRows, Rollout!Parsed
        <4>3. file[q.at].id = file[i].id /\ file[i].id \in Nat \ {0} /\ q.at \in DOMAIN file
          BY <3>2, <4>1, <4>2
        <4>4. i \in Nat /\ q.at \in Nat
          BY <1>0, <4>3
        <4>5. q.at = i
          <5>1. ~(i < q.at) /\ ~(q.at < i)
            BY <4>3 DEF ItemsNumbered, Rising
          <5> QED BY <4>4, <5>1
        <4> QED BY <3>2, <4>1, <4>2, <4>5
      <3> QED BY <2>1, <3>1, <3>2
    <2>3. Rollout!StartRows(file)' = Rollout!StartRows(file)
      BY <2>1 DEF Rollout!StartRows, Rollout!Parsed, Rollout!Sound, Rollout!IsNewline
    <2> QED BY <2>1, <2>2, <2>3 DEF RowsKnown
  <1>9. CASE Rollout!AppendFails \/ Rollout!Crash
    <2>1. /\ newRows' = {} /\ rows' = rows /\ gap' = (gap \/ newRows # {})
          /\ \/ file' = file
             \/ pc = "line" /\ file' = Append(file,
                  [id |-> Head(batch).id, start |-> Head(batch).start, whole |-> FALSE])
      BY <1>9 DEF Rollout!AppendFails, Rollout!Crash, Rollout!Interrupted, Rollout!Piece
    <2>2. Rollout!StartRows(file)' \subseteq Rollout!StartRows(file)
      <3>1. CASE file' = file
        BY <3>1 DEF Rollout!StartRows, Rollout!Parsed, Rollout!Sound, Rollout!IsNewline
      <3>2. CASE pc = "line" /\ file' = Append(file,
                  [id |-> Head(batch).id, start |-> Head(batch).start, whole |-> FALSE])
        <4> DEFINE x == [id |-> Head(batch).id, start |-> Head(batch).start, whole |-> FALSE]
        <4>1. Head(batch) \in Entry
          BY <1>0, <3>2, TailPlaces
        <4>2. x \in PieceOf /\ ~x.whole
          BY <4>1 DEF Entry, PieceOf
        <4> HIDE DEF x
        <4>3. file' = Append(file, x)
          BY <3>2 DEF x
        <4> QED BY <1>6, <4>2, <4>3
      <3> QED BY <2>1, <3>1, <3>2
    <2> QED BY <1>1, <2>1, <2>2 DEF RowsKnown
  <1>10. CASE Rollout!Delete
    <2>1. pc = "idle" /\ file' = <<>> /\ UNCHANGED <<pc, newRows>>
      BY <1>10 DEF Rollout!Delete
    <2>2. newRows' = {}
      BY <1>1, <2>1
    <2>3. Rollout!StartRows(file)' = {}
      BY <2>1 DEF Rollout!StartRows, Rollout!Parsed
    <2> QED BY <2>1, <2>2, <2>3 DEF RowsKnown
  <1>11. CASE Rollout!ReplaceIndex
    <2>1. /\ UNCHANGED <<pc, newRows, file>>
          /\ gap' = (rows' \cup newRows # Rollout!StartRows(file) \cup newRows)
      BY <1>11 DEF Rollout!ReplaceIndex, Rollout!recorderVars
    <2>2. Rollout!StartRows(file)' = Rollout!StartRows(file)
      BY <2>1 DEF Rollout!StartRows, Rollout!Parsed, Rollout!Sound, Rollout!IsNewline
    <2> QED BY <1>1, <2>1, <2>2 DEF RowsKnown
  <1> QED BY <1>3, <1>4, <1>5, <1>7, <1>8, <1>9, <1>10, <1>11 DEF Rollout!Next

LEMMA RowsHold == Spec => [](part = "rollout" => ItemsNumbered /\ RowsKnown)
  <1> DEFINE Holds == part = "rollout" => ItemsNumbered /\ RowsKnown
             Stored == part = "rollout" => RolloutInv
  <1>1. Init => Holds
    <2> SUFFICES ASSUME Rollout!Init PROVE ItemsNumbered /\ RowsKnown
      BY DEF Init
    <2>1. /\ pc = "idle" /\ cmds = <<>> /\ batch = <<>> /\ file = <<>> /\ newRows = {}
      BY DEF Rollout!Init
    <2>2. RowsKnown
      BY <2>1, StartsOfNone DEF RowsKnown
    <2>3. Queued(<<>>, {}, next) /\ Below({}, {next})
      BY DEF Queued, Below
    <2> QED BY <2>1, <2>2, <2>3, NoIds DEF ItemsNumbered
  <1>2. Holds /\ Stored /\ Stored' /\ [Next]_vars => Holds'
    <2> SUFFICES ASSUME Holds, Stored, Stored', [Next]_vars, part' = "rollout"
                 PROVE  ItemsNumbered' /\ RowsKnown'
      OBVIOUS
    <2>1. part = "rollout" /\ RolloutInv /\ ItemsNumbered /\ RowsKnown /\ StoreTypes'
      BY DEF Next, vars, RolloutInv
    <2>2. [Rollout!Next]_(Rollout!vars)
      BY <2>1 DEF Next, vars, rolloutVars, Rollout!vars, Rollout!recorderVars, Rollout!readerVars
    <2> QED BY <2>1, <2>2, NumberedStep, RowsStep
  <1> QED BY <1>1, <1>2, RolloutHolds, PTL DEF Spec

(* A set of numbers has a least one, a bounded one a greatest. *)
LEMMA LeastIs ==
  ASSUME NEW S \in SUBSET Nat, S # {}
  PROVE  Rollout!Least(S) \in S /\ \A j \in S : Rollout!Least(S) <= j
  <1>1. PICK x \in S : \A y \in S : ~(<<y, x>> \in OpToRel(<, Nat))
    BY NatLessThanWellFounded, WFMin
  <1>2. \A y \in S : x <= y
    <2>1. ASSUME NEW y \in S, y < x PROVE FALSE
      <3>1. <<y, x>> \in {ss \in Nat \X Nat : ss[1] < ss[2]}
        BY <2>1
      <3> QED BY <1>1, <3>1 DEF OpToRel
    <2>2. \A y \in S : y \in Nat /\ x \in Nat
      OBVIOUS
    <2> QED BY <2>1, <2>2
  <1> QED BY <1>2 DEF Rollout!Least
LEMMA GreatestOf ==
  ASSUME NEW n \in Nat, NEW S \in SUBSET (1..n), S # {}
  PROVE  \E m \in S : \A j \in S : j <= m
  <1> DEFINE D == {n - i : i \in S}
  <1>1. D \in SUBSET Nat /\ D # {}
    <2>1. \A i \in S : i \in Nat /\ i <= n /\ n - i \in Nat
      OBVIOUS
    <2> QED BY <2>1
  <1> HIDE DEF D
  <1>2. Rollout!Least(D) \in D /\ \A j \in D : Rollout!Least(D) <= j
    BY <1>1, LeastIs
  <1>3. PICK m \in S : Rollout!Least(D) = n - m
    BY <1>2 DEF D
  <1>4. \A j \in S : n - m <= n - j
    BY <1>2, <1>3 DEF D
  <1>5. \A j \in S : j \in Nat
    OBVIOUS
  <1> QED BY <1>4, <1>5

LEMMA LastOfSome ==
  ASSUME NEW n \in Nat, NEW S \in SUBSET (1..n), S # {}
  PROVE  Rollout!Last(S, Limit) # {} /\ Rollout!Last(S, Limit) \subseteq S
  <1>1. PICK m \in S : \A j \in S : j <= m
    BY GreatestOf
  <1>2. {j \in S : j > m} = {}
    <2>1. \A j \in S : j \in Nat /\ m \in Nat
      OBVIOUS
    <2>2. \A j \in S : ~(j > m)
      BY <1>1, <2>1
    <2> QED BY <2>2
  <1>3. 1 \in 1..Limit
    BY PartsAssumption
  <1>4. [1..Limit -> {}] = {}
    BY <1>3
  <1>5. Rollout!Injection(1..Limit, {}) = {}
    BY <1>4 DEF Rollout!Injection
  <1>6. m \in Rollout!Last(S, Limit)
    BY <1>2, <1>5 DEF Rollout!Last
  <1> QED BY <1>6 DEF Rollout!Last

(* A slice from one line to another parses when the file does. *)
LEMMA SliceParses ==
  ASSUME NEW f \in Seq(PieceOf), Rollout!Parses(f), NEW a \in DOMAIN f,
         a = 1 \/ f[a - 1].id = 0, NEW e \in Nat, a < e, e <= Len(f) + 1
  PROVE  Rollout!Parses(SubSeq(f, a, e - 1))
  <1> DEFINE g == SubSeq(f, a, e - 1)
  <1>1. /\ DOMAIN f = 1..Len(f) /\ Len(f) \in Nat /\ a \in Nat /\ 1 <= a
        /\ \A k \in 1..Len(f) : f[k] \in PieceOf
    OBVIOUS
  <1>2. /\ DOMAIN g = 1..(e - a) /\ Len(g) = e - a
        /\ \A i \in 1..(e - a) : g[i] = f[i + a - 1] /\ i + a - 1 \in 1..Len(f)
    BY <1>1
  <1> HIDE DEF g
  <1>3. ASSUME NEW i \in 1..(e - a), NEW p, p = i + a - 1, p \in 1..Len(f)
        PROVE  \/ g[i].id = 0 \/ Rollout!Sound(g, i)
               \/ \A j \in i..(e - a) : g[j].id # 0
    <2>0. g[i] = f[p]
      BY <1>2, <1>3
    <2>1. CASE f[p].id = 0
      BY <2>0, <2>1
    <2>2. CASE Rollout!Sound(f, p)
      <3>1. f[p].id # 0 /\ f[p].whole /\ (p = 1 \/ f[p - 1].id = 0) /\ (p = Len(f) \/ f[p + 1].id = 0)
        BY <2>2 DEF Rollout!Sound, Rollout!IsNewline
      <3>2. i = 1 \/ g[i - 1].id = 0
        <4>1. ASSUME i # 1 PROVE g[i - 1] = f[p - 1] /\ p # 1
          <5>1. i - 1 \in 1..(e - a) /\ (i - 1) + a - 1 = p - 1 /\ p # 1
            BY <1>1, <1>3, <4>1
          <5> QED BY <1>2, <5>1
        <4> QED BY <3>1, <4>1
      <3>3. i = e - a \/ g[i + 1].id = 0
        <4>1. ASSUME i # e - a PROVE g[i + 1] = f[p + 1] /\ p # Len(f)
          <5>1. i + 1 \in 1..(e - a) /\ (i + 1) + a - 1 = p + 1
            BY <1>1, <1>3, <4>1
          <5>2. p + 1 \in 1..Len(f)
            BY <1>2, <5>1
          <5> QED BY <1>1, <1>2, <5>1, <5>2
        <4> QED BY <3>1, <4>1
      <3> QED BY <1>2, <2>0, <3>1, <3>2, <3>3 DEF Rollout!Sound, Rollout!IsNewline
    <2>3. CASE \A j \in p..Len(f) : f[j].id # 0
      <3>1. ASSUME NEW j \in i..(e - a) PROVE g[j].id # 0
        <4>1. j \in 1..(e - a) /\ j + a - 1 \in p..Len(f)
          BY <1>1, <1>3, <3>1
        <4> QED BY <1>2, <2>3, <4>1
      <3> QED BY <3>1
    <2> QED BY <1>1, <1>3, <2>1, <2>2, <2>3 DEF Rollout!Parses, Rollout!IsNewline
  <1>4. \A i \in 1..(e - a) : \/ g[i].id = 0 \/ Rollout!Sound(g, i)
                              \/ \A j \in i..(e - a) : g[j].id # 0
    BY <1>2, <1>3
  <1>5. Rollout!Parses(g)
    BY <1>2, <1>4 DEF Rollout!Parses, Rollout!IsNewline
  <1> QED BY <1>5 DEF g

LEMMA PagesAre ==
  ASSUME RolloutInv, ItemsNumbered, RowsKnown, pc = "idle", ~gap, Rollout!Parses(file),
         rows \subseteq Rollout!StartRows(file), NEW page,
         Rollout!IndexedPage(page).kind # "none"
  PROVE  Rollout!IndexedPage(page) = Rollout!ScannedPage(page)
  <1> DEFINE starts == {r.at : r \in Rollout!StartRows(file)}
             offset == {r.at : r \in {q \in rows : q.turn = page}}
             end == Rollout!Least({Len(file) + 1} \cup offset)
             known == {r.at : r \in {q \in rows :
                                       offset # {} => q.at < Rollout!Least(offset)}}
             found == {i \in starts : i < end}
             first == Rollout!Least(Rollout!Last(known, Limit))
             slice == SubSeq(file, first, end - 1)
  <1>1. rows = Rollout!StartRows(file)
    BY DEF RowsKnown
  <1>2. /\ file \in Seq(PieceOf) /\ DOMAIN file = 1..Len(file) /\ Len(file) \in Nat
    BY DEF RolloutInv, StoreTypes
  <1>3. \A r \in rows : /\ r.at \in DOMAIN file /\ r.turn = file[r.at].id /\ r.turn # 0
                        /\ r.at = 1 \/ file[r.at - 1].id = 0
    BY <1>1 DEF Rollout!StartRows, Rollout!Parsed, Rollout!Sound, Rollout!IsNewline
  <1>4. \A i \in starts : i \in DOMAIN file /\ (i = 1 \/ file[i - 1].id = 0)
    BY <1>1, <1>3
  <1>5. {i \in starts : file[i].id = page} = offset
    BY <1>1, <1>3
  <1>6. \A i, j \in offset : i = j
    <2>1. ASSUME NEW i \in offset, NEW j \in offset PROVE i = j
      <3>1. /\ i \in DOMAIN file /\ j \in DOMAIN file /\ file[i].id = page
            /\ file[j].id = page /\ page # 0
        BY <1>3, <2>1
      <3>2. file[i].id \in Nat
        <4>1. file[i] \in PieceOf
          BY <1>2, <3>1
        <4> QED BY <4>1 DEF PieceOf
      <3>3. ~(i < j) /\ ~(j < i)
        BY <3>1, <3>2 DEF ItemsNumbered, Rising
      <3> QED BY <1>2, <3>1, <3>3
    <2> QED BY <2>1
  <1>7. /\ end \in Nat /\ end <= Len(file) + 1
        /\ found = known
    <2>1. \A i \in offset : i \in 1..Len(file)
      BY <1>2, <1>3
    <2>2. ({Len(file) + 1} \cup offset) \in SUBSET Nat /\ {Len(file) + 1} \cup offset # {}
      BY <1>2, <2>1
    <2>3. end \in {Len(file) + 1} \cup offset /\ \A j \in {Len(file) + 1} \cup offset : end <= j
      BY <2>2, LeastIs
    <2>4. CASE offset = {}
      <3>1. end = Len(file) + 1
        BY <2>3, <2>4
      <3>2. known = starts
        BY <1>1, <2>4
      <3>3. \A i \in starts : i \in Nat /\ i <= Len(file)
        <4>1. \A i \in 1..Len(file) : i \in Nat /\ i <= Len(file)
          BY <1>2
        <4>2. \A i \in starts : i \in 1..Len(file)
          BY <1>2, <1>4
        <4> HIDE DEF starts
        <4> QED BY <4>1, <4>2
      <3> HIDE DEF starts, end, known
      <3>4. \A i \in starts : i < end
        BY <1>2, <3>1, <3>3
      <3>5. found = known
        BY <3>2, <3>4
      <3> QED BY <1>2, <3>1, <3>5
    <2>5. CASE offset # {}
      <3>1. PICK k \in offset : TRUE
        BY <2>5
      <3>2. offset = {k} /\ k \in 1..Len(file)
        BY <1>6, <2>1, <3>1
      <3>3. end = k
        BY <1>2, <2>3, <3>2
      <3>4. Rollout!Least(offset) = k
        <4> HIDE DEF offset
        <4>1. offset \in SUBSET Nat
          BY <3>2
        <4> QED BY <2>5, <3>2, <4>1, LeastIs
      <3>5. known = {i \in starts : i < k}
        BY <1>1, <2>5, <3>4
      <3> HIDE DEF starts, end, known
      <3> QED BY <1>2, <3>2, <3>3, <3>5
    <2> QED BY <2>4, <2>5
  <1>8. Rollout!IndexedPage(page) =
          IF known = {} \/ first >= end THEN [kind |-> "none"]
          ELSE IF ~Rollout!Parses(slice) THEN [kind |-> "error"]
          ELSE [kind |-> "page", items |-> Rollout!Items(slice),
                more |-> Rollout!Cardinality(known) > Limit]
    BY DEF Rollout!IndexedPage, Rollout!PageStart, Rollout!Slice
  <1>9. Rollout!ScannedPage(page) =
          [kind |-> "page", more |-> Rollout!Cardinality(found) > Limit,
           items |-> Rollout!Items(SubSeq(file,
             IF found = {} THEN 1 ELSE Rollout!Least(Rollout!Last(found, Limit)), end - 1))]
    BY <1>5 DEF Rollout!ScannedPage, Rollout!Slice
  <1>10. known # {} /\ ~(first >= end)
    <2> HIDE DEF known, first, end, slice
    <2>1. [kind |-> "none"].kind = "none"
      OBVIOUS
    <2> QED BY <1>8, <2>1
  <1>11. first \in known
    <2>1. known \in SUBSET (1..Len(file))
      BY <1>2, <1>3
    <2> HIDE DEF known
    <2>2. Rollout!Last(known, Limit) # {} /\ Rollout!Last(known, Limit) \subseteq known
      BY <1>2, <1>10, <2>1, LastOfSome
    <2>3. Rollout!Last(known, Limit) \in SUBSET Nat
      <3>1. \A i \in 1..Len(file) : i \in Nat
        BY <1>2
      <3>2. Rollout!Last(known, Limit) \subseteq 1..Len(file)
        BY <2>1, <2>2
      <3> QED BY <3>1, <3>2
    <2> QED BY <2>2, <2>3, LeastIs
  <1>12. Rollout!Parses(slice)
    <2>1. first \in DOMAIN file /\ (first = 1 \/ file[first - 1].id = 0) /\ first < end
      <3>1. first \in starts
        BY <1>1, <1>11
      <3>2. first \in DOMAIN file /\ (first = 1 \/ file[first - 1].id = 0)
        BY <1>4, <3>1
      <3>3. first \in Nat
        BY <1>2, <3>2
      <3> HIDE DEF first, end
      <3> QED BY <1>7, <1>10, <3>2, <3>3
    <2> QED BY <1>2, <1>7, <2>1, SliceParses
  <1> QED BY <1>7, <1>8, <1>9, <1>10, <1>12

(* RolloutStore: a page taken from the index is the one a scan of the file gives,
   whatever failed, crashed or was deleted before, as long as no row was lost and
   none is of a line torn since.                                               *)
THEOREM IndexServesPages == Spec => []PagesAgree
  <1>1. (part = "rollout" => RolloutInv)
          /\ (part = "rollout" => ItemsNumbered /\ RowsKnown) => PagesAgree
    BY PagesAre DEF PagesAgree, Rollout!PagesAgree
  <1> QED BY <1>1, RolloutHolds, RowsHold, PTL

(***************************************************************************)
(* TurnRecord                                                              *)
(***************************************************************************)

Call == Nat \X Nat
Outcomes == {"done", "refused", "aborted"}
Ways == {"completed", "failed", "cancelled"}
Entries == [kind : {"user", "started"}, turn : Nat] \cup [kind : {"marker"}]
             \cup [kind : {"assistant"}, answer : Nat, calls : Seq(Call)]
             \cup [kind : {"tool"}, call : Call, what : Outcomes]
             \cup [kind : {"ended"}, turn : Nat, how : Ways]
Lines == Seq(Entries)

(* What is said of the turns' endings in a rollout s. *)
EndsTurn(x, t) == x.kind = "ended" /\ x.turn = t
Agree(s) ==
  \A i, j \in DOMAIN s :
    i < j /\ s[i].kind = "ended" /\ EndsTurn(s[j], s[i].turn) =>
      s[i].how = s[j].how /\ \A k \in DOMAIN s : i < k /\ k < j => s[k].kind = "marker"
(* No turn above t has ended; turn t has not; turn t ended that way, if it did,
   and nothing but markers came since.                                       *)
NoneAbove(s, t) == \A i \in DOMAIN s : s[i].kind = "ended" => s[i].turn \leq t
NotEnded(s, t) == \A i \in DOMAIN s : ~EndsTurn(s[i], t)
Closing(s, t, how) ==
  \A i \in DOMAIN s : EndsTurn(s[i], t) =>
    s[i].how = how /\ \A k \in DOMAIN s : i < k => s[k].kind = "marker"

RecordTypes ==
  /\ turns \in Nat /\ answers \in Nat /\ calls \in Seq(Call) /\ ready \in Seq(Call)
  /\ log \in Lines /\ queued \in Lines
Over == {"idle", "flush", "reread"}
RecordInv ==
  /\ RecordTypes
  /\ Agree(log \o queued) /\ NoneAbove(log \o queued, turns)
  /\ pc = "interrupted" => Closing(log \o queued, turns, "cancelled")
  /\ pc \notin Over \cup {"interrupted"} => NotEnded(log \o queued, turns)

(* The places of one sequence behind another. *)
LEMMA Places ==
  ASSUME NEW s \in Lines, NEW q \in Lines
  PROVE  /\ s \o q \in Lines
         /\ \A k \in DOMAIN (s \o q) :
              \/ k \in DOMAIN s /\ (s \o q)[k] = s[k]
              \/ k - Len(s) \in DOMAIN q /\ (s \o q)[k] = q[k - Len(s)] /\ k > Len(s)
         /\ \A k \in DOMAIN s : k \in DOMAIN (s \o q) /\ k <= Len(s) /\ (s \o q)[k] = s[k]
         /\ DOMAIN (s \o q) \subseteq Nat /\ Len(s) \in Nat
  <1>1. /\ s \o q \in Seq(Entries) /\ Len(s \o q) = Len(s) + Len(q) /\ Len(s) \in Nat
        /\ Len(q) \in Nat
        /\ \A i \in 1..(Len(s) + Len(q)) :
             (s \o q)[i] = IF i <= Len(s) THEN s[i] ELSE q[i - Len(s)]
    BY ConcatProperties DEF Lines
  <1>2. /\ DOMAIN s = 1..Len(s) /\ DOMAIN q = 1..Len(q)
        /\ DOMAIN (s \o q) = 1..(Len(s) + Len(q))
    BY <1>1 DEF Lines
  <1>3. ASSUME NEW k \in 1..(Len(s) + Len(q))
        PROVE  \/ k \in 1..Len(s) /\ (s \o q)[k] = s[k]
               \/ k - Len(s) \in 1..Len(q) /\ (s \o q)[k] = q[k - Len(s)] /\ k > Len(s)
    BY <1>1
  <1>4. ASSUME NEW k \in 1..Len(s)
        PROVE  k \in 1..(Len(s) + Len(q)) /\ k <= Len(s) /\ (s \o q)[k] = s[k]
    BY <1>1
  <1> QED BY <1>1, <1>2, <1>3, <1>4 DEF Lines

LEMMA Regrouped ==
  ASSUME NEW s \in Lines, NEW q \in Lines, NEW r \in Lines
  PROVE  (s \o q) \o r = s \o (q \o r)
  BY ConcatAssociative DEF Lines

(* What ends nothing changes nothing of what is said. *)
LEMMA QuietAdds ==
  ASSUME NEW s \in Lines, NEW q \in Lines, \A k \in DOMAIN q : q[k].kind # "ended", NEW t
  PROVE  /\ s \o q \in Lines
         /\ Agree(s) => Agree(s \o q)
         /\ NoneAbove(s, t) => NoneAbove(s \o q, t)
         /\ NotEnded(s, t) => NotEnded(s \o q, t)
  <1> DEFINE r == s \o q
  <1>1. /\ r \in Lines
        /\ \A k \in DOMAIN r : r[k].kind = "ended" => k \in DOMAIN s /\ r[k] = s[k]
        /\ \A k \in DOMAIN s : k \in DOMAIN r /\ k <= Len(s) /\ r[k] = s[k]
        /\ \A k \in DOMAIN r : k \in DOMAIN s \/ k > Len(s)
        /\ DOMAIN r \subseteq Nat /\ Len(s) \in Nat
    <2>1. /\ r \in Lines
          /\ \A k \in DOMAIN r :
               \/ k \in DOMAIN s /\ r[k] = s[k]
               \/ k - Len(s) \in DOMAIN q /\ r[k] = q[k - Len(s)] /\ k > Len(s)
          /\ \A k \in DOMAIN s : k \in DOMAIN r /\ k <= Len(s) /\ r[k] = s[k]
          /\ DOMAIN r \subseteq Nat /\ Len(s) \in Nat
      BY Places
    <2> HIDE DEF r
    <2> QED BY <2>1
  <1> HIDE DEF r
  <1>2. Agree(s) => Agree(r)
    <2> SUFFICES ASSUME Agree(s), NEW i \in DOMAIN r, NEW j \in DOMAIN r, i < j,
                        r[i].kind = "ended", EndsTurn(r[j], r[i].turn)
                 PROVE  /\ r[i].how = r[j].how
                        /\ \A k \in DOMAIN r : i < k /\ k < j => r[k].kind = "marker"
      BY DEF Agree
    <2>1. i \in DOMAIN s /\ j \in DOMAIN s /\ r[i] = s[i] /\ r[j] = s[j]
      BY <1>1 DEF EndsTurn
    <2>2. \A k \in DOMAIN r : i < k /\ k < j => k \in DOMAIN s /\ r[k] = s[k]
      BY <1>1, <2>1
    <2>3. s[i].how = s[j].how /\ \A k \in DOMAIN s : i < k /\ k < j => s[k].kind = "marker"
      BY <2>1 DEF Agree
    <2> QED BY <2>1, <2>2, <2>3
  <1>3. NoneAbove(s, t) => NoneAbove(r, t)
    BY <1>1 DEF NoneAbove
  <1>4. NotEnded(s, t) => NotEnded(r, t)
    BY <1>1 DEF NotEnded, EndsTurn
  <1> QED BY <1>1, <1>2, <1>3, <1>4 DEF r

(* A marker behind the end of a turn. *)
LEMMA MarkerAdds ==
  ASSUME NEW s \in Lines, NEW m \in Entries, m.kind = "marker", NEW t, NEW how, Closing(s, t, how)
  PROVE  Closing(Append(s, m), t, how)
  <1>1. \A k \in DOMAIN Append(s, m) :
          \/ k \in DOMAIN s /\ Append(s, m)[k] = s[k]
          \/ Append(s, m)[k] = m
    BY AppendPlaces DEF Lines
  <1> QED BY <1>1 DEF Closing, EndsTurn

(* One more ending of a turn that has none, or of one that closes that way. *)
LEMMA EndAdds ==
  ASSUME NEW s \in Lines, NEW t \in Nat, NEW how \in Ways, Agree(s), NoneAbove(s, t),
         Closing(s, t, how), NEW x, x = [kind |-> "ended", turn |-> t, how |-> how]
  PROVE  /\ Append(s, x) \in Lines /\ Agree(Append(s, x)) /\ NoneAbove(Append(s, x), t)
         /\ NotEnded(s, t) => Closing(Append(s, x), t, how)
  <1> DEFINE r == Append(s, x)
  <1>1. x \in Entries
    BY DEF Entries
  <1>2. /\ r \in Lines
        /\ \A k \in DOMAIN r :
              \/ k \in DOMAIN s /\ r[k] = s[k] /\ k < Len(s) + 1
              \/ k = Len(s) + 1 /\ r[k] = x
        /\ \A k \in DOMAIN r : k \in Nat /\ k <= Len(s) + 1
        /\ Len(s) \in Nat
    <2>1. /\ r \in Seq(Entries) /\ Len(s) \in Nat
          /\ \A k \in DOMAIN r :
                \/ k \in DOMAIN s /\ r[k] = s[k] /\ k < Len(s) + 1
                \/ k = Len(s) + 1 /\ r[k] = x
      BY <1>1, AppendPlaces DEF Lines
    <2>2. DOMAIN r = 1..(Len(s) + 1)
      BY <1>1 DEF Lines
    <2> QED BY <2>1, <2>2 DEF Lines
  <1> HIDE DEF r
  <1>3. Agree(r)
    <2> SUFFICES ASSUME NEW i \in DOMAIN r, NEW j \in DOMAIN r, i < j,
                        r[i].kind = "ended", EndsTurn(r[j], r[i].turn)
                 PROVE  /\ r[i].how = r[j].how
                        /\ \A k \in DOMAIN r : i < k /\ k < j => r[k].kind = "marker"
      BY DEF Agree
    <2>1. i \in DOMAIN s /\ r[i] = s[i] /\ i < Len(s) + 1
      BY <1>2
    <2>2. CASE j \in DOMAIN s /\ r[j] = s[j] /\ j < Len(s) + 1
      <3>1. \A k \in DOMAIN r : i < k /\ k < j => k \in DOMAIN s /\ r[k] = s[k]
        BY <1>2, <2>2
      <3>2. s[i].how = s[j].how /\ \A k \in DOMAIN s : i < k /\ k < j => s[k].kind = "marker"
        BY <2>1, <2>2 DEF Agree
      <3> QED BY <2>1, <2>2, <3>1, <3>2
    <2>3. CASE j = Len(s) + 1 /\ r[j] = x
      <3>1. EndsTurn(s[i], t)
        BY <2>1, <2>3 DEF EndsTurn
      <3>2. s[i].how = how /\ \A k \in DOMAIN s : i < k => s[k].kind = "marker"
        BY <2>1, <3>1 DEF Closing
      <3>3. \A k \in DOMAIN r : i < k /\ k < j => k \in DOMAIN s /\ r[k] = s[k]
        BY <1>2, <2>3
      <3> QED BY <2>1, <2>3, <3>2, <3>3
    <2> QED BY <1>2, <2>2, <2>3
  <1>4. NoneAbove(r, t)
    BY <1>2 DEF NoneAbove
  <1>5. NotEnded(s, t) => Closing(r, t, how)
    <2> SUFFICES ASSUME NotEnded(s, t), NEW i \in DOMAIN r, EndsTurn(r[i], t)
                 PROVE  r[i].how = how /\ \A k \in DOMAIN r : i < k => r[k].kind = "marker"
      BY DEF Closing
    <2>1. i = Len(s) + 1 /\ r[i] = x
      BY <1>2 DEF NotEnded
    <2> QED BY <1>2, <2>1
  <1> QED BY <1>2, <1>3, <1>4, <1>5 DEF r

(* A step that writes nothing, or only moves what was written. *)
LEMMA RecordStays ==
  ASSUME RecordInv, RecordTypes', turns' = turns, log' \o queued' = log \o queued,
         pc' = "interrupted" => pc \notin Over,
         pc' \notin Over \cup {"interrupted"} => pc \notin Over \cup {"interrupted"}
  PROVE  RecordInv'
  <1>1. pc' = "interrupted" => Closing(log \o queued, turns, "cancelled")
    BY DEF RecordInv, NotEnded, Closing
  <1>2. pc' \notin Over \cup {"interrupted"} => NotEnded(log \o queued, turns)
    BY DEF RecordInv
  <1> DEFINE entries == log \o queued
  <1>3. Agree(entries) /\ NoneAbove(entries, turns)
    BY DEF RecordInv
  <1>4. Agree(log' \o queued') /\ NoneAbove(log' \o queued', turns')
    BY <1>3
  <1>5. /\ pc' = "interrupted" => Closing(log' \o queued', turns', "cancelled")
        /\ pc' \notin Over \cup {"interrupted"} => NotEnded(log' \o queued', turns')
    BY <1>1, <1>2
  <1> QED BY <1>4, <1>5 DEF RecordInv, Agree, NoneAbove, Closing, NotEnded, Over

(* The turn goes on, and records what ends nothing. *)
LEMMA RecordGrows ==
  ASSUME RecordInv, pc \notin Over \cup {"interrupted"}, turns' = turns, log' = log,
         NEW q \in Lines, \A k \in DOMAIN q : q[k].kind # "ended",
         queued' = queued \o q, answers' \in Nat, calls' \in Seq(Call), ready' \in Seq(Call)
  PROVE  RecordInv'
  <1> DEFINE entries == log \o queued
  <1>1. RecordTypes /\ log \in Lines /\ queued \in Lines /\ turns \in Nat
    BY DEF RecordInv, RecordTypes
  <1>2. entries \in Lines /\ queued' \in Lines /\ log' \o queued' = entries \o q
    <2>1. entries \in Lines
      BY <1>1, Places
    <2>2. queued' \in Lines
      BY <1>1, Places
    <2>3. (log \o queued) \o q = log \o (queued \o q)
      BY <1>1, Regrouped
    <2> QED BY <2>1, <2>2, <2>3
  <1>3. Agree(entries) /\ NoneAbove(entries, turns) /\ NotEnded(entries, turns)
    BY DEF RecordInv
  <1> HIDE DEF entries
  <1>4. Agree(entries \o q) /\ NoneAbove(entries \o q, turns) /\ NotEnded(entries \o q, turns)
    BY <1>2, <1>3, QuietAdds
  <1>5. /\ Agree(log' \o queued') /\ NoneAbove(log' \o queued', turns')
        /\ NotEnded(log' \o queued', turns')
    BY <1>2, <1>4
  <1>6. RecordTypes'
    BY <1>1, <1>2 DEF RecordTypes
  <1> QED BY <1>5, <1>6 DEF RecordInv, Agree, NoneAbove, Closing, NotEnded

(* It ends, behind more of the same. *)
LEMMA RecordEnds ==
  ASSUME RecordInv, pc \notin Over \cup {"interrupted"}, turns' = turns, log' = log,
         NEW q \in Lines, \A k \in DOMAIN q : q[k].kind # "ended",
         NEW how \in Ways, queued' = (queued \o q) \o <<Record!Ended(how)>>,
         pc' \in Over \/ (pc' = "interrupted" /\ how = "cancelled"),
         answers' \in Nat, calls' \in Seq(Call), ready' \in Seq(Call)
  PROVE  RecordInv'
  <1> DEFINE entries == log \o queued
             x == Record!Ended(how)
  <1>1. RecordTypes /\ log \in Lines /\ queued \in Lines /\ turns \in Nat
    BY DEF RecordInv, RecordTypes
  <1>2. x = [kind |-> "ended", turn |-> turns, how |-> how] /\ x \in Entries
    BY <1>1 DEF Record!Ended, Entries
  <1> HIDE DEF x
  <1>3. /\ entries \in Lines /\ queued \o q \in Lines /\ log \o (queued \o q) = entries \o q
    <2>1. entries \in Lines
      BY <1>1, Places
    <2>2. queued \o q \in Lines
      BY <1>1, Places
    <2>3. (log \o queued) \o q = log \o (queued \o q)
      BY <1>1, Regrouped
    <2> QED BY <2>1, <2>2, <2>3
  <1>4. /\ queued' = Append(queued \o q, x) /\ queued' \in Lines
        /\ log' \o queued' = Append(entries \o q, x)
    <2>1. <<x>> \in Lines
      BY <1>2 DEF Lines
    <2>2. queued' = (queued \o q) \o <<x>>
      BY DEF x
    <2>3. (queued \o q) \o <<x>> = Append(queued \o q, x)
      BY <1>2, <1>3, AppendIsConcat DEF Lines
    <2>4. log \o ((queued \o q) \o <<x>>) = (log \o (queued \o q)) \o <<x>>
      BY ZenonT(60), <1>1, <1>3, <2>1, Regrouped
    <2>5. entries \o q \in Lines
      BY <1>3, Places
    <2>6. (entries \o q) \o <<x>> = Append(entries \o q, x)
      BY <1>2, <2>5, AppendIsConcat DEF Lines
    <2>7. (queued \o q) \o <<x>> \in Lines
      BY <1>3, <2>1, Places
    <2> HIDE DEF entries
    <2> QED BY <1>3, <2>2, <2>3, <2>4, <2>6, <2>7
  <1>5. Agree(entries) /\ NoneAbove(entries, turns) /\ NotEnded(entries, turns)
    BY DEF RecordInv
  <1> HIDE DEF entries
  <1>6. /\ entries \o q \in Lines
        /\ Agree(entries \o q) /\ NoneAbove(entries \o q, turns) /\ NotEnded(entries \o q, turns)
    BY <1>3, <1>5, QuietAdds
  <1>7. Closing(entries \o q, turns, how)
    BY <1>6 DEF Closing, NotEnded
  <1>8. /\ Agree(Append(entries \o q, x)) /\ NoneAbove(Append(entries \o q, x), turns)
        /\ Closing(Append(entries \o q, x), turns, how)
    BY <1>1, <1>2, <1>6, <1>7, EndAdds
  <1>9. /\ Agree(log' \o queued') /\ NoneAbove(log' \o queued', turns')
        /\ Closing(log' \o queued', turns', how)
    BY <1>4, <1>8
  <1>10. RecordTypes'
    BY <1>1, <1>4 DEF RecordTypes
  <1> QED BY <1>9, <1>10 DEF RecordInv, Agree, NoneAbove, Closing, NotEnded, Over

(* Two entries at once are one behind the other. *)
LEMMA PairAdds ==
  ASSUME NEW s \in Lines, NEW x \in Entries, NEW y \in Entries
  PROVE  s \o <<x, y>> = (s \o <<x>>) \o <<y>>
  <1>1. <<x>> \in Lines /\ <<y>> \in Lines
    BY DEF Lines
  <1>2. (s \o <<x>>) \o <<y>> = s \o (<<x>> \o <<y>>)
    BY <1>1, Regrouped
  <1>3. <<x>> \o <<y>> = <<x, y>>
    <2>1. <<x>> \o <<y>> = Append(<<x>>, y)
      BY <1>1, AppendIsConcat DEF Lines
    <2>2. Append(<<x>>, y) = <<x, y>>
      <3> DEFINE p == Append(<<x>>, y)
                 r == <<x, y>>
      <3>1. p \in Lines /\ r \in Lines
        BY DEF Lines
      <3>2. Len(p) = 2 /\ p[1] = x /\ p[2] = y
        BY <1>1 DEF Lines
      <3>3. Len(r) = 2 /\ r[1] = x /\ r[2] = y
        OBVIOUS
      <3> HIDE DEF p, r
      <3>4. ASSUME NEW i \in 1..Len(p) PROVE p[i] = r[i]
        BY <3>2, <3>3
      <3> QED BY <3>1, <3>2, <3>3, <3>4, SeqEqual DEF Lines, p, r
    <2> QED BY <2>1, <2>2
  <1> QED BY <1>2, <1>3

(* The entries a step adds are entries. *)
LEMMA SomeEntries ==
  /\ Record!Marker \in Entries /\ Record!Marker.kind # "ended"
  /\ \A t \in Nat : /\ Record!User(t) \in Entries /\ Record!User(t).kind # "ended"
                    /\ Record!Started(t) \in Entries /\ Record!Started(t).kind # "ended"
  /\ \A n \in Nat, cs \in Seq(Call) :
       Record!Assistant(n, cs) \in Entries /\ Record!Assistant(n, cs).kind # "ended"
  /\ \A c \in Call, what \in Outcomes :
       Record!Output(c, what) \in Entries /\ Record!Output(c, what).kind # "ended"
  BY DEF Entries, Record!Marker, Record!User, Record!Started, Record!Assistant, Record!Output

LEMMA OneEntry ==
  ASSUME NEW x \in Entries, x.kind # "ended"
  PROVE  <<x>> \in Lines /\ \A k \in DOMAIN <<x>> : <<x>>[k].kind # "ended"
  BY DEF Lines

(* The turn goes on, or ends, as Record puts it. *)
LEMMA Recorded ==
  ASSUME RecordInv, pc \notin Over \cup {"interrupted"}, turns' = turns, log' = log,
         NEW items, NEW events, NEW label, Record!Record(items, events, label),
         items \in Lines, \A k \in DOMAIN items : items[k].kind # "ended",
         answers' \in Nat, calls' \in Seq(Call), ready' \in Seq(Call),
         \/ events = <<>>
         \/ \E how \in Ways :
              /\ events = <<Record!Ended(how)>>
              /\ label \in Over \/ (label = "interrupted" /\ how = "cancelled")
  PROVE  RecordInv'
  <1>1. queued' = queued \o items \o events /\ pc' = label
    BY DEF Record!Record
  <1>2. queued \in Lines
    BY DEF RecordInv, RecordTypes
  <1>3. CASE events = <<>>
    <2>1. queued \o items \in Lines
      BY <1>2, Places
    <2>2. queued' = queued \o items
      BY <1>1, <1>3, <2>1, ConcatEmptySeq DEF Lines
    <2> QED BY <2>2, RecordGrows
  <1>4. ASSUME NEW how \in Ways, events = <<Record!Ended(how)>>,
               label \in Over \/ (label = "interrupted" /\ how = "cancelled")
        PROVE  RecordInv'
    <2>1. queued' = (queued \o items) \o <<Record!Ended(how)>>
      BY <1>1, <1>4
    <2>2. pc' \in Over \/ (pc' = "interrupted" /\ how = "cancelled")
      BY <1>1, <1>4
    <2> QED BY <2>1, <2>2, RecordEnds
  <1> QED BY <1>3, <1>4

(* A cancelled turn ends behind what came in time. *)
LEMMA Cancelled ==
  ASSUME RecordInv, pc \notin Over \cup {"interrupted"}, turns' = turns, log' = log,
         pc' = "flush", answers' \in Nat, calls' \in Seq(Call), ready' \in Seq(Call),
         \/ queued' = queued \o <<Record!Marker, Record!Ended("cancelled")>>
         \/ \E q \in Lines :
              /\ \A k \in DOMAIN q : q[k].kind # "ended"
              /\ queued' = queued \o q \o <<Record!Marker, Record!Ended("cancelled")>>
  PROVE  RecordInv'
  <1> DEFINE m == Record!Marker
             x == Record!Ended("cancelled")
  <1>1. queued \in Lines /\ turns \in Nat
    BY DEF RecordInv, RecordTypes
  <1>2. m \in Entries /\ m.kind # "ended" /\ x \in Entries
    BY <1>1, SomeEntries DEF Record!Ended, Entries, Ways
  <1>3. <<m>> \in Lines /\ \A k \in DOMAIN <<m>> : <<m>>[k].kind # "ended"
    BY <1>2, OneEntry
  <1>4. pc' \in Over /\ "cancelled" \in Ways
    BY DEF Over, Ways
  <1> HIDE DEF m
  <1>5. CASE queued' = queued \o <<m, x>>
    <2>1. queued' = (queued \o <<m>>) \o <<x>>
      BY <1>1, <1>2, <1>5, PairAdds
    <2> QED BY <1>3, <1>4, <2>1, RecordEnds
  <1>6. ASSUME NEW q \in Lines, \A k \in DOMAIN q : q[k].kind # "ended",
               queued' = (queued \o q) \o <<m, x>>
        PROVE  RecordInv'
    <2> DEFINE r == q \o <<m>>
    <2>1. r \in Lines /\ queued \o q \in Lines
      BY <1>1, <1>3, Places
    <2>2. \A k \in DOMAIN r : r[k].kind # "ended"
      <3>1. \A k \in DOMAIN r :
               \/ k \in DOMAIN q /\ r[k] = q[k]
               \/ k - Len(q) \in DOMAIN <<m>> /\ r[k] = <<m>>[k - Len(q)]
        BY <1>3, Places
      <3> QED BY <1>3, <1>6, <3>1
    <2>3. queued' = ((queued \o q) \o <<m>>) \o <<x>>
      BY <1>2, <1>6, <2>1, PairAdds
    <2>4. (queued \o q) \o <<m>> = queued \o r
      BY <1>1, <1>3, Regrouped
    <2>5. queued' = (queued \o r) \o <<x>>
      BY <2>3, <2>4
    <2> HIDE DEF r
    <2> QED BY <1>4, <2>1, <2>2, <2>5, RecordEnds
  <1> QED BY <1>5, <1>6 DEF m

(* The turn: it asks the model, looks at the calls and runs them. *)
LEMMA TurnSteps ==
  ASSUME RecordInv,
         \/ Record!CheckCancelled \/ Record!StopWithMessage \/ Record!ModelResponds
         \/ Record!ModelFails \/ Record!BatchCancelled \/ Record!Refuse \/ Record!Admit
         \/ Record!CancelFromPrompt \/ Record!PromptInterrupted
         \/ Record!RunNext \/ Record!RunOutpaced \/ Record!RunFails \/ Record!BatchDone
         \/ Record!Advance \/ Record!EndFailed
  PROVE  RecordInv'
  <1>0. /\ RecordTypes /\ turns \in Nat /\ answers \in Nat /\ calls \in Seq(Call)
        /\ ready \in Seq(Call) /\ log \in Lines /\ queued \in Lines
        /\ <<>> \in Seq(Call) /\ <<>> \in Lines /\ DOMAIN <<>> = {}
    BY DEF RecordInv, RecordTypes, Lines
  <1>1. turns' = turns /\ log' = log /\ pc \notin Over \cup {"interrupted"}
    BY DEF Record!CheckCancelled, Record!StopWithMessage, Record!ModelResponds,
           Record!ModelFails, Record!BatchCancelled, Record!Refuse, Record!Admit,
           Record!CancelFromPrompt, Record!PromptInterrupted,
           Record!RunNext, Record!RunOutpaced, Record!RunFails, Record!BatchDone,
           Record!Advance, Record!EndFailed, Over
  <1>2. ASSUME UNCHANGED <<answers, queued>>, calls' \in Seq(Call), ready' \in Seq(Call)
        PROVE  RecordInv'
    <2>1. RecordTypes' /\ log' \o queued' = log \o queued
      BY <1>0, <1>1, <1>2 DEF RecordTypes
    <2> QED BY <1>1, <2>1, RecordStays
  <1>3. ASSUME Record!RecordMarker("flush"), answers' = answers PROVE RecordInv'
    <2>1. /\ queued' = queued \o <<Record!Marker, Record!Ended("cancelled")>>
          /\ pc' = "flush" /\ calls' = <<>> /\ ready' = <<>>
      BY <1>3 DEF Record!RecordMarker
    <2>2. answers' \in Nat /\ calls' \in Seq(Call) /\ ready' \in Seq(Call)
      BY <1>0, <1>3, <2>1
    <2> QED BY <1>1, <2>1, <2>2, Cancelled
  <1>4. ASSUME NEW x \in Entries, x.kind # "ended", NEW events, NEW label,
               Record!Record(<<x>>, events, label),
               answers' \in Nat, calls' \in Seq(Call), ready' \in Seq(Call),
               \/ events = <<>>
               \/ \E how \in Ways : events = <<Record!Ended(how)>> /\ label = "flush"
        PROVE  RecordInv'
    <2>1. <<x>> \in Lines /\ \A k \in DOMAIN <<x>> : <<x>>[k].kind # "ended"
      BY <1>4, OneEntry
    <2>2. "flush" \in Over
      BY DEF Over
    <2> QED BY <1>1, <1>4, <2>1, <2>2, Recorded
  <1>5. ASSUME NEW how \in Ways, NEW label, Record!Record(<<>>, <<Record!Ended(how)>>, label),
               answers' \in Nat, calls' \in Seq(Call), ready' \in Seq(Call),
               label \in Over \/ (label = "interrupted" /\ how = "cancelled")
        PROVE  RecordInv'
    BY <1>0, <1>1, <1>5, Recorded
  <1>6. CASE Record!CheckCancelled
    <2>1. /\ answers' = answers
          /\ Record!RecordMarker("flush") \/ UNCHANGED <<queued, calls, ready>>
      BY <1>6 DEF Record!CheckCancelled
    <2> QED BY <1>0, <1>2, <1>3, <2>1
  <1>7. CASE Record!BatchCancelled \/ Record!CancelFromPrompt
    <2>1. answers' = answers /\ Record!RecordMarker("flush")
      BY <1>7 DEF Record!BatchCancelled, Record!CancelFromPrompt
    <2> QED BY <1>3, <2>1
  <1>8. CASE \/ Record!ModelFails \/ Record!Admit \/ Record!PromptInterrupted
             \/ Record!RunFails \/ Record!BatchDone
    <2>1. /\ UNCHANGED <<answers, queued>>
          /\ \/ calls' = calls /\ ready' = ready
             \/ calls # <<>> /\ calls' = Tail(calls) /\ ready' = Append(ready, Head(calls))
             \/ calls' \in {calls, <<>>} /\ ready' = <<>>
      BY <1>8 DEF Record!ModelFails, Record!Admit, Record!PromptInterrupted, Record!RunFails,
                  Record!BatchDone
    <2>2. calls # <<>> => Tail(calls) \in Seq(Call) /\ Append(ready, Head(calls)) \in Seq(Call)
      BY <1>0
    <2>3. UNCHANGED <<answers, queued>> /\ calls' \in Seq(Call) /\ ready' \in Seq(Call)
      BY <1>0, <2>1, <2>2
    <2> QED BY <1>2, <2>3
  <1>9. CASE Record!StopWithMessage \/ Record!Advance
    <2>1. /\ UNCHANGED <<calls, ready>>
          /\ \/ UNCHANGED <<answers, queued>>
             \/ /\ answers' = answers + 1
                /\ \E how \in Ways :
                     Record!Record(<<Record!Assistant(answers', <<>>)>>, <<Record!Ended(how)>>,
                                   "flush")
      BY <1>9 DEF Record!StopWithMessage, Record!Advance, Ways
    <2>2. CASE UNCHANGED <<answers, queued>>
      BY <1>0, <1>2, <2>1, <2>2
    <2>3. ASSUME NEW how \in Ways, answers' = answers + 1,
                 Record!Record(<<Record!Assistant(answers', <<>>)>>, <<Record!Ended(how)>>,
                               "flush")
          PROVE  RecordInv'
      <3>1. answers' \in Nat /\ calls' \in Seq(Call) /\ ready' \in Seq(Call)
        BY <1>0, <2>1, <2>3
      <3>2. /\ Record!Assistant(answers', <<>>) \in Entries
            /\ Record!Assistant(answers', <<>>).kind # "ended"
        BY <1>0, <3>1, SomeEntries
      <3> QED BY <1>4, <2>3, <3>1, <3>2
    <2> QED BY <2>1, <2>2, <2>3
  <1>10. CASE Record!ModelResponds
    <2>1. PICK n \in 0..MaxCalls :
            /\ calls' = [i \in 1..n |-> <<answers', i>>]
            /\ \/ n > 0 /\ Record!Record(<<Record!Assistant(answers', calls')>>, <<>>, "batch")
               \/ n = 0 /\ Record!Record(<<Record!Assistant(answers', calls')>>,
                                         <<Record!Ended("completed")>>, "flush")
               \/ n = 0 /\ Record!Record(<<Record!Assistant(answers', calls')>>, <<>>, "top")
      BY <1>10 DEF Record!ModelResponds
    <2>2. answers' = answers + 1 /\ ready' = ready /\ answers' \in Nat /\ n \in Nat
      BY <1>0, <1>10, PartsAssumption DEF Record!ModelResponds
    <2>3. calls' \in Seq(Call)
      <3>1. \A i \in 1..n : <<answers', i>> \in Call
        BY <2>2 DEF Call
      <3> QED BY <2>1, <2>2, <3>1
    <2>4. /\ Record!Assistant(answers', calls') \in Entries
          /\ Record!Assistant(answers', calls').kind # "ended"
      BY <2>2, <2>3, SomeEntries
    <2>5. ready' \in Seq(Call) /\ "completed" \in Ways
      BY <1>0, <2>2 DEF Ways
    <2> QED BY <1>4, <2>1, <2>2, <2>3, <2>4, <2>5
  <1>11. CASE Record!Refuse \/ Record!RunNext
    <2>1. \E c \in Call, what \in Outcomes :
            /\ Record!Record(<<Record!Output(c, what)>>, <<>>, "batch")
            /\ answers' = answers /\ calls' \in Seq(Call) /\ ready' \in Seq(Call)
      <3>1. CASE Record!Refuse
        <4>1. /\ calls # <<>> /\ calls' = Tail(calls) /\ UNCHANGED <<answers, ready>>
              /\ Record!Record(<<Record!Output(Head(calls), "refused")>>, <<>>, "batch")
          BY <3>1 DEF Record!Refuse
        <4>2. Head(calls) \in Call /\ Tail(calls) \in Seq(Call)
          BY <1>0, <4>1
        <4>3. "refused" \in Outcomes
          BY DEF Outcomes
        <4> QED BY <1>0, <4>1, <4>2, <4>3
      <3>2. CASE Record!RunNext
        <4>1. /\ ready # <<>> /\ ready' = Tail(ready) /\ UNCHANGED <<answers, calls>>
              /\ Record!Record(<<Record!Output(Head(ready), "done")>>, <<>>, "batch")
          BY <3>2 DEF Record!RunNext
        <4>2. Head(ready) \in Call /\ Tail(ready) \in Seq(Call)
          BY <1>0, <4>1
        <4>3. "done" \in Outcomes
          BY DEF Outcomes
        <4> QED BY <1>0, <4>1, <4>2, <4>3
      <3> QED BY <1>11, <3>1, <3>2
    <2> QED BY <1>0, <1>4, <2>1, SomeEntries
  <1>12. CASE Record!RunOutpaced \/ Record!EndFailed
    <2>1. /\ UNCHANGED <<answers, calls>> /\ ready' \in {ready, <<>>}
          /\ \/ Record!Record(<<>>, <<Record!Ended("cancelled")>>, "interrupted")
             \/ Record!Record(<<>>, <<Record!Ended("failed")>>, "reread")
      BY <1>12 DEF Record!RunOutpaced, Record!EndFailed
    <2>2. answers' \in Nat /\ calls' \in Seq(Call) /\ ready' \in Seq(Call)
      BY <1>0, <2>1
    <2>3. "reread" \in Over /\ "cancelled" \in Ways /\ "failed" \in Ways
      BY DEF Over, Ways
    <2> QED BY <1>5, <2>1, <2>2, <2>3
  <1> QED BY <1>6, <1>7, <1>8, <1>9, <1>10, <1>11, <1>12

(* The calls that run side by side. *)
LEMMA TogetherStep == ASSUME RecordInv, Record!RunTogether PROVE RecordInv'
  <1>0. /\ turns \in Nat /\ answers \in Nat /\ calls \in Seq(Call)
        /\ ready \in Seq(Call) /\ queued \in Lines
        /\ pc = "batch" /\ pc \notin Over \cup {"interrupted"}
        /\ ready' = <<>> /\ UNCHANGED <<turns, answers, calls, log>>
    BY DEF RecordInv, RecordTypes, Record!RunTogether, Over
  <1>1. PICK n \in 0..Len(ready) : \E chosen \in [1..n -> DOMAIN ready] :
          LET outputs == [k \in 1..n |-> Record!Output(ready[chosen[k]], "done")]
          IN  \/ Record!Record(outputs, <<>>, "batch")
              \/ /\ queued' = queued \o outputs \o <<Record!Marker, Record!Ended("cancelled")>>
                 /\ pc' = "flush"
    BY DEF Record!RunTogether
  <1>2. PICK chosen \in [1..n -> DOMAIN ready] :
          LET outputs == [k \in 1..n |-> Record!Output(ready[chosen[k]], "done")]
          IN  \/ Record!Record(outputs, <<>>, "batch")
              \/ /\ queued' = queued \o outputs \o <<Record!Marker, Record!Ended("cancelled")>>
                 /\ pc' = "flush"
    BY <1>1
  <1> DEFINE outputs == [k \in 1..n |-> Record!Output(ready[chosen[k]], "done")]
  <1>3. \/ Record!Record(outputs, <<>>, "batch")
        \/ /\ queued' = queued \o outputs \o <<Record!Marker, Record!Ended("cancelled")>>
           /\ pc' = "flush"
    BY <1>2
  <1>4. n \in Nat
    BY <1>0
  <1>5. \A k \in 1..n : /\ Record!Output(ready[chosen[k]], "done") \in Entries
                        /\ Record!Output(ready[chosen[k]], "done").kind # "ended"
    <2>1. ASSUME NEW k \in 1..n PROVE ready[chosen[k]] \in Call
      BY <1>0, <1>2
    <2>2. "done" \in Outcomes
      BY DEF Outcomes
    <2> QED BY <2>1, <2>2, SomeEntries
  <1>6. outputs \in Lines /\ \A k \in DOMAIN outputs : outputs[k].kind # "ended"
    <2>1. outputs \in [1..n -> Entries]
      BY <1>5
    <2>2. outputs \in Seq(Entries)
      BY <1>4, <2>1
    <2>3. \A k \in DOMAIN outputs : outputs[k].kind # "ended"
      BY <1>5
    <2> QED BY <2>2, <2>3 DEF Lines
  <1>7. answers' \in Nat /\ calls' \in Seq(Call) /\ ready' \in Seq(Call)
    BY <1>0
  <1> HIDE DEF outputs
  <1>8. CASE Record!Record(outputs, <<>>, "batch")
    BY <1>0, <1>6, <1>7, <1>8, Recorded
  <1>9. CASE /\ queued' = queued \o outputs \o <<Record!Marker, Record!Ended("cancelled")>>
             /\ pc' = "flush"
    BY <1>0, <1>6, <1>7, <1>9, Cancelled
  <1> QED BY <1>3, <1>8, <1>9

(* The next turn, the end of an interrupted one, the recorder and a crash. *)
LEMMA OtherSteps ==
  ASSUME RecordInv,
         \/ Record!StartTurn \/ Record!Interrupt \/ Record!EndInterrupted \/ Record!Reread
         \/ Record!FinishTurn \/ Record!Write \/ Record!Crash \/ UNCHANGED Record!vars
  PROVE  RecordInv'
  <1> DEFINE entries == log \o queued
  <1>0. /\ RecordTypes /\ turns \in Nat /\ answers \in Nat /\ calls \in Seq(Call)
        /\ ready \in Seq(Call) /\ log \in Lines /\ queued \in Lines
        /\ <<>> \in Seq(Call) /\ <<>> \in Lines
    BY DEF RecordInv, RecordTypes, Lines
  <1>1. entries \in Lines
    BY <1>0, Places
  <1>2. Agree(entries) /\ NoneAbove(entries, turns)
    BY DEF RecordInv
  <1>3. CASE Record!StartTurn
    <2> DEFINE u == Record!User(turns')
               b == Record!Started(turns')
               q == <<u, b>>
    <2>1. /\ turns' = turns + 1 /\ queued' = queued \o q /\ pc' = "started"
          /\ UNCHANGED <<answers, calls, ready, log>>
      BY <1>3 DEF Record!StartTurn
    <2>2. turns' \in Nat
      BY <1>0, <2>1
    <2>3. u \in Entries /\ b \in Entries /\ u.kind # "ended" /\ b.kind # "ended"
      BY <2>2, SomeEntries
    <2> HIDE DEF u, b
    <2>4. q \in Lines /\ \A k \in DOMAIN q : q[k].kind # "ended"
      BY <2>3 DEF Lines
    <2> HIDE DEF q
    <2>5. queued' \in Lines /\ log' \o queued' = entries \o q
      BY ZenonT(60), <1>0, <2>1, <2>4, Places, Regrouped
    <2> HIDE DEF entries
    <2>6. NoneAbove(entries, turns') /\ NotEnded(entries, turns')
      <3>1. \A i \in DOMAIN entries : entries[i].kind = "ended" => entries[i].turn \in Nat
        <4>1. \A i \in DOMAIN entries : entries[i] \in Entries
          BY <1>1 DEF Lines
        <4> QED BY <4>1 DEF Entries
      <3> QED BY <1>0, <1>2, <2>1, <3>1 DEF NoneAbove, NotEnded, EndsTurn
    <2>7. /\ Agree(entries \o q) /\ NoneAbove(entries \o q, turns') /\ NotEnded(entries \o q, turns')
      BY <1>1, <1>2, <2>4, <2>6, QuietAdds
    <2>8. /\ Agree(log' \o queued') /\ NoneAbove(log' \o queued', turns')
          /\ NotEnded(log' \o queued', turns')
      BY <2>5, <2>7
    <2>9. RecordTypes'
      BY <1>0, <2>1, <2>2, <2>5 DEF RecordTypes
    <2> QED BY <2>1, <2>8, <2>9 DEF RecordInv, Agree, NoneAbove, Closing, NotEnded
  <1>4. CASE Record!EndInterrupted
    <2> DEFINE m == Record!Marker
               x == Record!Ended("cancelled")
    <2>1. /\ pc = "interrupted" /\ pc' = "flush" /\ queued' = queued \o <<m, x>>
          /\ UNCHANGED <<turns, answers, calls, ready, log>>
      BY <1>4 DEF Record!EndInterrupted
    <2>2. /\ m \in Entries /\ m.kind = "marker" /\ "cancelled" \in Ways
          /\ x = [kind |-> "ended", turn |-> turns, how |-> "cancelled"] /\ x \in Entries
      BY <1>0, SomeEntries DEF Record!Marker, Record!Ended, Entries, Ways
    <2> HIDE DEF m, x
    <2>3. <<m>> \in Lines /\ <<x>> \in Lines /\ <<m, x>> \in Lines
      BY <2>2 DEF Lines
    <2>4. Closing(entries, turns, "cancelled")
      BY <2>1 DEF RecordInv
    <2>5. /\ queued' \in Lines
          /\ log' \o queued' = Append(Append(entries, m), x)
      <3>1. queued' \in Lines
        BY <1>0, <2>1, <2>3, Places
      <3>2. log' \o queued' = entries \o <<m, x>>
        BY ZenonT(60), <1>0, <2>1, <2>3, Regrouped
      <3> HIDE DEF entries
      <3>3. entries \o <<m, x>> = (entries \o <<m>>) \o <<x>>
        BY <1>1, <2>2, PairAdds
      <3>4. entries \o <<m>> = Append(entries, m) /\ Append(entries, m) \in Lines
        BY <1>1, <2>2, AppendIsConcat, AppendPlaces DEF Lines
      <3>5. Append(entries, m) \o <<x>> = Append(Append(entries, m), x)
        BY <2>2, <3>4, AppendIsConcat DEF Lines
      <3> QED BY <3>1, <3>2, <3>3, <3>4, <3>5
    <2> HIDE DEF entries
    <2>6. /\ Append(entries, m) \in Lines
          /\ Agree(Append(entries, m)) /\ NoneAbove(Append(entries, m), turns)
          /\ Closing(Append(entries, m), turns, "cancelled")
      <3>1. <<m>> \in Lines /\ \A k \in DOMAIN <<m>> : <<m>>[k].kind # "ended"
        BY <2>2, OneEntry
      <3>2. Append(entries, m) = entries \o <<m>>
        BY <1>1, <2>2, AppendIsConcat DEF Lines
      <3>3. /\ entries \o <<m>> \in Lines /\ Agree(entries \o <<m>>)
            /\ NoneAbove(entries \o <<m>>, turns)
        BY <1>1, <1>2, <3>1, QuietAdds
      <3>4. Closing(Append(entries, m), turns, "cancelled")
        BY <1>1, <2>2, <2>4, MarkerAdds
      <3> QED BY <3>2, <3>3, <3>4
    <2>7. /\ Agree(Append(Append(entries, m), x)) /\ NoneAbove(Append(Append(entries, m), x), turns)
      BY <1>0, <2>2, <2>6, EndAdds
    <2>8. Agree(log' \o queued') /\ NoneAbove(log' \o queued', turns')
      BY <2>1, <2>5, <2>7
    <2>9. RecordTypes'
      BY <1>0, <2>1, <2>5 DEF RecordTypes
    <2> QED BY <2>1, <2>8, <2>9 DEF RecordInv, Agree, NoneAbove, Over
  <1>5. CASE Record!Interrupt \/ Record!Reread \/ Record!FinishTurn \/ UNCHANGED Record!vars
    <2>1. /\ UNCHANGED <<turns, answers, calls, ready, log, queued>>
          /\ pc' = pc \/ pc' \in Over
      BY <1>5 DEF Record!Interrupt, Record!Reread, Record!FinishTurn, Record!vars, Over
    <2>2. RecordTypes' /\ log' \o queued' = log \o queued
      BY <1>0, <2>1 DEF RecordTypes
    <2> HIDE DEF Over
    <2>3. pc' \in Over => pc' # "interrupted"
      BY DEF Over
    <2>4. pc = "interrupted" => pc \notin Over
      BY DEF Over
    <2> QED BY <2>1, <2>2, <2>3, <2>4, RecordStays
  <1>6. CASE Record!Write
    <2>1. /\ queued # <<>> /\ log' = Append(log, Head(queued)) /\ queued' = Tail(queued)
          /\ UNCHANGED <<pc, turns, answers, calls, ready>>
      BY <1>6 DEF Record!Write
    <2> DEFINE h == Head(queued)
    <2>2. h \in Entries /\ Tail(queued) \in Lines
      BY <1>0, <2>1 DEF Lines
    <2>3. <<h>> \o Tail(queued) = queued
      <3>1. <<h>> \in Lines /\ Len(<<h>>) = 1 /\ <<h>>[1] = h
        BY <2>2 DEF Lines
      <3>2. /\ Len(queued) \in Nat \ {0} /\ Len(Tail(queued)) = Len(queued) - 1
            /\ h = queued[1]
            /\ \A k \in 1..(Len(queued) - 1) : Tail(queued)[k] = queued[k + 1]
        BY <1>0, <2>1 DEF Lines
      <3> HIDE DEF h
      <3>3. /\ Len(<<h>> \o Tail(queued)) = Len(queued)
            /\ <<h>> \o Tail(queued) \in Lines
            /\ \A i \in 1..Len(queued) :
                 (<<h>> \o Tail(queued))[i] = IF i <= 1 THEN <<h>>[i] ELSE Tail(queued)[i - 1]
        BY <2>2, <3>1, <3>2, ConcatProperties DEF Lines
      <3>4. ASSUME NEW i \in 1..Len(queued) PROVE (<<h>> \o Tail(queued))[i] = queued[i]
        <4>1. CASE i = 1
          BY <3>1, <3>2, <3>3, <4>1
        <4>2. CASE i # 1
          <5>1. i - 1 \in 1..(Len(queued) - 1) /\ (i - 1) + 1 = i /\ ~(i <= 1)
            BY <3>2, <4>2
          <5> QED BY <3>2, <3>3, <5>1
        <4> QED BY <4>1, <4>2
      <3> QED BY <1>0, <3>3, <3>4, SeqEqual DEF Lines
    <2> HIDE DEF h
    <2>4. log' = log \o <<h>> /\ log' \in Lines /\ <<h>> \in Lines
      BY <1>0, <2>1, <2>2, AppendIsConcat, AppendPlaces DEF Lines, h
    <2>5. (log \o <<h>>) \o Tail(queued) = log \o (<<h>> \o Tail(queued))
      BY ZenonT(60), <1>0, <2>2, <2>4, Regrouped
    <2>6. log' \o queued' = log \o queued
      BY <2>1, <2>3, <2>4, <2>5
    <2>7. RecordTypes'
      BY <1>0, <2>1, <2>2, <2>4 DEF RecordTypes
    <2>8. pc = "interrupted" => pc \notin Over
      BY DEF Over
    <2> QED BY <2>1, <2>6, <2>7, <2>8, RecordStays
  <1>7. CASE Record!Crash
    <2>1. /\ pc' = "idle" /\ calls' = <<>> /\ ready' = <<>> /\ queued' = <<>>
          /\ UNCHANGED <<turns, answers, log>>
      BY <1>7 DEF Record!Crash
    <2>2. log' \o queued' = log
      BY <1>0, <2>1, ConcatEmptySeq DEF Lines
    <2>3. Agree(log) /\ NoneAbove(log, turns)
      <3>1. \A k \in DOMAIN log : k \in DOMAIN entries /\ entries[k] = log[k]
        BY <1>0, Places
      <3> HIDE DEF entries
      <3>2. NoneAbove(log, turns)
        BY <1>2, <3>1 DEF NoneAbove
      <3>3. Agree(log)
        BY <1>2, <3>1 DEF Agree, EndsTurn
      <3> QED BY <3>2, <3>3
    <2>4. Agree(log' \o queued') /\ NoneAbove(log' \o queued', turns')
      BY <2>1, <2>2, <2>3
    <2>5. RecordTypes'
      BY <1>0, <2>1 DEF RecordTypes
    <2> QED BY <2>1, <2>4, <2>5 DEF RecordInv, Agree, NoneAbove, Over
  <1> QED BY <1>3, <1>4, <1>5, <1>6, <1>7

LEMMA RecordHolds == Spec => [](part = "record" => RecordInv)
  <1> DEFINE Holds == part = "record" => RecordInv
  <1>1. Init => Holds
    <2> SUFFICES ASSUME Record!Init PROVE RecordInv
      BY DEF Init
    <2>1. /\ pc = "idle" /\ turns = 0 /\ answers = 0 /\ calls = <<>> /\ ready = <<>>
          /\ queued = <<>> /\ log = <<>>
      BY DEF Record!Init
    <2>2. RecordTypes
      BY <2>1 DEF RecordTypes, Lines
    <2>3. log \o queued = <<>>
      <3>1. <<>> \in Lines
        BY DEF Lines
      <3> QED BY <2>1, <3>1, ConcatEmptySeq DEF Lines
    <2>4. Agree(log \o queued) /\ NoneAbove(log \o queued, turns)
      BY <2>3 DEF Agree, NoneAbove
    <2> QED BY <2>1, <2>2, <2>4 DEF RecordInv, Over
  <1>2. Holds /\ [Next]_vars => Holds'
    <2> SUFFICES ASSUME Holds, [Next]_vars, part' = "record" PROVE RecordInv'
      OBVIOUS
    <2>1. part = "record"
      BY DEF Next, vars
    <2>2. [Record!Next]_(Record!vars)
      BY <2>1 DEF Next, vars, recordVars, Record!vars
    <2>3. \/ Record!CheckCancelled \/ Record!StopWithMessage \/ Record!ModelResponds
          \/ Record!ModelFails \/ Record!BatchCancelled \/ Record!Refuse \/ Record!Admit
          \/ Record!CancelFromPrompt \/ Record!PromptInterrupted
          \/ Record!RunNext \/ Record!RunOutpaced \/ Record!RunFails \/ Record!BatchDone
          \/ Record!Advance \/ Record!EndFailed
          => RecordInv'
      BY <2>1, TurnSteps
    <2>4. Record!RunTogether => RecordInv'
      BY <2>1, TogetherStep
    <2>5. \/ Record!StartTurn \/ Record!Interrupt \/ Record!EndInterrupted \/ Record!Reread
          \/ Record!FinishTurn \/ Record!Write \/ Record!Crash \/ UNCHANGED Record!vars
          => RecordInv'
      BY <2>1, OtherSteps
    <2> QED BY <2>2, <2>3, <2>4, <2>5 DEF Record!Next
  <1> QED BY <1>1, <1>2, PTL DEF Spec

(* TurnRecord: the ending of an interrupted turn, told twice or not, is one and
   the same on the rollout, with nothing but its marker between, through crashes
   and whatever else ends a turn.                                              *)
THEOREM EndingsStayOne == Spec => []EndingsAgree
  <1>1. (part = "record" => RecordInv) => EndingsAgree
    <2> SUFFICES ASSUME RecordInv, NEW i \in DOMAIN log, NEW j \in DOMAIN log, i < j,
                        log[i].kind = "ended", log[j].kind = "ended", log[i].turn = log[j].turn
                 PROVE  /\ log[i].how = log[j].how
                        /\ \A k \in (i + 1)..(j - 1) : log[k] = Record!Marker
      BY DEF EndingsAgree, Record!EndingsAgree
    <2> DEFINE entries == log \o queued
    <2>1. log \in Lines /\ queued \in Lines /\ Agree(entries)
      BY DEF RecordInv, RecordTypes
    <2>2. \A k \in DOMAIN log : k \in DOMAIN entries /\ entries[k] = log[k]
      BY <2>1, Places
    <2> HIDE DEF entries
    <2>3. /\ log[i].how = log[j].how
          /\ \A k \in DOMAIN entries : i < k /\ k < j => entries[k].kind = "marker"
      BY <2>1, <2>2 DEF Agree, EndsTurn
    <2>4. ASSUME NEW k \in (i + 1)..(j - 1) PROVE log[k] = Record!Marker
      <3>1. DOMAIN log = 1..Len(log) /\ Len(log) \in Nat
        BY <2>1 DEF Lines
      <3>2. k \in DOMAIN log /\ i < k /\ k < j
        BY <3>1
      <3>3. log[k].kind = "marker" /\ log[k] \in Entries
        BY <2>1, <2>2, <2>3, <3>2 DEF Lines
      <3> QED BY <3>3 DEF Entries, Record!Marker
    <2> QED BY <2>3, <2>4
  <1> QED BY <1>1, RecordHolds, PTL
===============================================================================
