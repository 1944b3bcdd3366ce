--------------------------- MODULE WorkerLinkProofs ---------------------------
(***************************************************************************)
(* What holds of a worker link for every capacity of the event queue and   *)
(* every number of events: type correctness (the bound of the queue in     *)
(* it), and that the events the worker task is told of form a LossyStream. *)
(***************************************************************************)
EXTENDS WorkerLinkInv, TLAPS

USE DEF pipeVars, readerVars, writerVars, workerVars, history

-----------------------------------------------------------------------------
(* Queues.                                                                  *)

LEMMA NumberedAppend ==
  ASSUME NEW q \in Seq(Entry), NEW from \in Nat, NEW e \in Entry,
         Numbered(q, from), e.n = LastOf(q, from) + Size(e)
  PROVE  /\ Append(q, e) \in Seq(Entry)
         /\ Numbered(Append(q, e), from)
         /\ LastOf(Append(q, e), from) = e.n
  <1> DEFINE p == Append(q, e)
  <1>1. /\ p \in Seq(Entry) /\ Len(p) = Len(q) + 1 /\ p[Len(p)] = e
        /\ \A i \in 1 .. Len(q) : p[i] = q[i]
    OBVIOUS
  <1>2. ASSUME NEW i \in 1 .. Len(p)
        PROVE  p[i].n = (IF i = 1 THEN from ELSE p[i - 1].n) + Size(p[i])
    <2>1. CASE i \in 1 .. Len(q)
      <3>1. i # 1 => i - 1 \in 1 .. Len(q)
        BY <2>1
      <3> QED BY <1>1, <2>1, <3>1 DEF Numbered
    <2>2. CASE i = Len(p)
      <3>1. CASE Len(q) = 0
        BY <1>1, <2>2, <3>1 DEF LastOf
      <3>2. CASE Len(q) # 0
        <4>1. Len(q) \in 1 .. Len(q) /\ i - 1 = Len(q) /\ i # 1
          BY <1>1, <2>2, <3>2
        <4> QED BY <1>1, <2>2, <3>2, <4>1 DEF LastOf
      <3> QED BY <3>1, <3>2
    <2> QED BY <1>1, <2>1, <2>2
  <1>3. Len(p) # 0
    BY <1>1
  <1> QED BY <1>1, <1>2, <1>3 DEF Numbered, LastOf

LEMMA NumberedTail ==
  ASSUME NEW q \in Seq(Entry), NEW from \in Nat, q # <<>>, Numbered(q, from)
  PROVE  /\ Head(q) \in Entry /\ Tail(q) \in Seq(Entry)
         /\ Len(Tail(q)) = Len(q) - 1
         /\ Head(q).n = from + Size(Head(q))
         /\ Numbered(Tail(q), Head(q).n)
         /\ LastOf(Tail(q), Head(q).n) = LastOf(q, from)
  <1> DEFINE p == Tail(q)
  <1>1. /\ Head(q) \in Entry /\ p \in Seq(Entry) /\ Len(p) = Len(q) - 1
        /\ Head(q) = q[1] /\ 1 \in 1 .. Len(q)
        /\ \A i \in 1 .. Len(p) : p[i] = q[i + 1] /\ i + 1 \in 1 .. Len(q)
    OBVIOUS
  <1> HIDE DEF p
  <1>2. Head(q).n = from + Size(Head(q))
    BY <1>1 DEF Numbered
  <1>3. ASSUME NEW i \in 1 .. Len(p)
        PROVE  p[i].n = (IF i = 1 THEN q[1].n ELSE p[i - 1].n) + Size(p[i])
    <2>1. q[i + 1].n = (IF i + 1 = 1 THEN from ELSE q[i + 1 - 1].n) + Size(q[i + 1])
      BY <1>1 DEF Numbered
    <2>2. i + 1 # 1 /\ i + 1 - 1 = i
      OBVIOUS
    <2>3. i # 1 => p[i - 1] = q[i]
      BY <1>1
    <2> QED BY <1>1, <2>1, <2>2, <2>3
  <1>4. LastOf(p, q[1].n) = LastOf(q, from)
    <2>1. CASE Len(p) = 0
      <3>1. Len(q) = 1
        BY <1>1, <2>1, Len(q) \in Nat
      <3>2. LastOf(q, from) = q[1].n
        BY <3>1 DEF LastOf
      <3> QED BY <2>1, <3>2 DEF LastOf
    <2>2. CASE Len(p) # 0
      <3>1. Len(p) \in 1 .. Len(p) /\ Len(p) + 1 = Len(q)
        BY <1>1, <2>2
      <3> QED BY <1>1, <2>2, <3>1 DEF LastOf
    <2> QED BY <2>1, <2>2
  <1> QED BY <1>1, <1>2, <1>3, <1>4 DEF Numbered, p

(* The last event accounted for was read.                                  *)
LEMMA LastRead ==
  ASSUME IInv
  PROVE  LastOf(queue, told) \in 0 .. read
  <1>1. queue \in Seq(Entry) /\ told \in Nat /\ read \in Nat /\ told <= read
    BY DEF IInv, TypeOK
  <1>2. CASE Len(queue) = 0
    BY <1>1, <1>2 DEF LastOf
  <1>3. CASE Len(queue) # 0
    <2>1. Len(queue) \in 1 .. Len(queue)
      BY <1>1, <1>3
    <2>2. queue[Len(queue)] \in Entry /\ queue[Len(queue)].n <= read
      BY <1>1, <2>1 DEF IInv, EntriesRead
    <2> QED BY <1>1, <1>3, <2>2 DEF LastOf, Entry
  <1> QED BY <1>2, <1>3

-----------------------------------------------------------------------------
(* Types.                                                                   *)

LEMMA GoneType ==
  ASSUME TypeOK, Gone
  PROVE  /\ child' \in {"running", "exited"}
         /\ written' \in read .. written /\ written' \in Nat /\ read \in 0 .. written'
         /\ lossless' = lossless \cap 1 .. written'
         /\ lossless' \in SUBSET (1 .. written')
         /\ response' \in {NoResponse} \cup [at : 0 .. written', result : {"ok", "error"}]
  <1>1. CASE child = "exited"
    <2>1. UNCHANGED <<written, lossless, response>> /\ child' = "exited"
      BY <1>1 DEF Gone
    <2>2. written \in Nat /\ read \in 0 .. written /\ lossless \in SUBSET (1 .. written)
      BY DEF TypeOK
    <2>3. written \in read .. written
      BY <2>2
    <2>4. lossless = lossless \cap 1 .. written
      BY <2>2
    <2>5. /\ written \in Nat /\ read \in 0 .. written /\ lossless \in SUBSET (1 .. written)
          /\ response \in {NoResponse} \cup [at : 0 .. written, result : {"ok", "error"}]
      BY DEF TypeOK
    <2> QED BY <2>1, <2>3, <2>4, <2>5
  <1>2. CASE child # "exited"
    <2>1. written' \in read .. written /\ read \in 0 .. written /\ written \in Nat
          /\ lossless' = lossless \cap 1 .. written'
      BY <1>2 DEF TypeOK, Gone
    <2>2. response' = NoResponse \/ (response.at <= written' /\ response' = response)
      BY <1>2 DEF Gone
    <2>3. ASSUME response # NoResponse, response.at <= written'
          PROVE  response \in [at : 0 .. written', result : {"ok", "error"}]
      <3>1. response \in [at : 0 .. written, result : {"ok", "error"}]
        BY <2>3 DEF TypeOK
      <3>2. response.at \in 0 .. written'
        BY <2>1, <2>3, <3>1
      <3> QED BY <3>1, <3>2
    <2> QED BY <2>1, <2>2, <2>3 DEF Gone
  <1> QED BY <1>1, <1>2

LEMMA StopType ==
  ASSUME TypeOK, Stop, UNCHANGED history
  PROVE  TypeOK'
  <1>1. queue' \in Seq(Entry) /\ Len(queue') = 0 /\ inbox' \in Seq(Requests)
    BY DEF Stop
  <1>2. outcome' \in [Requests -> {"unasked", "asked", "ok", "failed"}]
    BY DEF Stop, TypeOK
  <1>3. Len(queue') <= Capacity
    BY <1>1, WorkerLinkAssumption
  <1>4. Gone
    BY DEF Stop
  <1> QED BY <1>1, <1>2, <1>3, <1>4, GoneType DEF Stop, TypeOK

LEMMA TypeInit == Init => TypeOK
  <1> SUFFICES ASSUME Init PROVE TypeOK
    OBVIOUS
  <1>1. queue \in Seq(Entry) /\ Len(queue) = 0 /\ outbound \in Seq({"command", "call"})
        /\ inbox \in Seq(Requests)
    BY DEF Init
  <1>2. Len(queue) <= Capacity
    BY <1>1, WorkerLinkAssumption
  <1>3. read \in 0 .. written /\ lossless \in SUBSET (1 .. written) /\ received \in SUBSET Nat
        /\ written \in Nat /\ skipped \in Nat /\ told \in Nat
    BY DEF Init
  <1>4. outcome \in [Requests -> {"unasked", "asked", "ok", "failed"}] /\ evicted \in BOOLEAN
    BY DEF Init
  <1> QED BY <1>1, <1>2, <1>3, <1>4 DEF Init, TypeOK

LEMMA TypePipe ==
  ASSUME TypeOK, EmitEvent \/ Respond \/ ChildExits
  PROVE  TypeOK'
  <1>1. CASE EmitEvent
    <2>1. written' = written + 1 /\ written \in Nat
      BY <1>1 DEF EmitEvent, TypeOK
    <2>2. read \in 0 .. written' /\ lossless' \in SUBSET (1 .. written')
      <3>1. read \in 0 .. written /\ lossless \in SUBSET (1 .. written)
        BY DEF TypeOK
      <3>2. 1 .. written \subseteq 1 .. written' /\ written' \in 1 .. written'
        BY <2>1
      <3>3. lossless' = lossless \/ lossless' = lossless \cup {written'}
        BY <1>1 DEF EmitEvent
      <3>4. read \in 0 .. written'
        BY <2>1, <3>1
      <3>5. lossless' \in SUBSET (1 .. written')
        BY <3>1, <3>2, <3>3
      <3> QED BY <3>4, <3>5
    <2>3. response' \in {NoResponse} \cup [at : 0 .. written', result : {"ok", "error"}]
      BY <1>1, <2>1 DEF EmitEvent, TypeOK
    <2> QED BY <1>1, <2>1, <2>2, <2>3 DEF EmitEvent, TypeOK
  <1>2. CASE Respond
    BY <1>2 DEF Respond, TypeOK
  <1>3. CASE ChildExits
    BY <1>3, GoneType DEF ChildExits, TypeOK
  <1> QED BY <1>1, <1>2, <1>3

(* The marker stands for everything between the queue and what is in the   *)
(* hands of the reader.                                                    *)
LEMMA SkippedLast ==
  ASSUME IInv, Open, reader \in {"mark", "send"}
  PROVE  /\ LastSkipped \in Nat /\ LastSkipped <= read
         /\ LastSkipped = LastOf(queue, told) + skipped
         /\ LastSkipped + Held = read
  <1> DEFINE last == LastOf(queue, told)
  <1>1. last \in 0 .. read /\ read \in Nat /\ skipped \in Nat
    BY LastRead DEF IInv, TypeOK
  <1>2. last + skipped + Held = read
    BY DEF IInv, ReaderAccounts
  <1>3. holding \in {"none", "event", "eof"}
    BY DEF IInv, TypeOK
  <1> HIDE DEF last
  <1>4. CASE holding = "event"
    <2>1. Held = 1 /\ LastSkipped = read - 1
      BY <1>4 DEF Held, LastSkipped
    <2>2. read - 1 = last + skipped
      BY <1>1, <1>2, <2>1
    <2> QED BY <1>1, <2>1, <2>2 DEF last
  <1>5. CASE holding # "event"
    <2>1. Held = 0 /\ LastSkipped = read
      BY <1>5 DEF Held, LastSkipped
    <2>2. read = last + skipped
      BY <1>1, <1>2, <2>1
    <2> QED BY <1>1, <2>1, <2>2 DEF last
  <1> QED BY <1>4, <1>5

LEMMA TypeReader ==
  ASSUME IInv, ReaderStep \/ ReaderFails
  PROVE  TypeOK'
  <1> USE DEF TypeOK
  <1> TypeOK
    BY DEF IInv
  <1>1. CASE ReadResponse
    BY <1>1 DEF ReadResponse, ResponseNext
  <1>2. CASE ReadEvent
    BY <1>2 DEF ReadEvent, Forward
  <1>3. CASE ReadEof
    BY <1>3 DEF ReadEof, Forward
  <1>4. ASSUME NEW e \in Entry, queue' = Append(queue, e), Room
        PROVE  queue' \in Seq(Entry) /\ Len(queue') <= Capacity
    BY <1>4, WorkerLinkAssumption DEF Room
  <1>5. CASE Mark
    <2>1. LastSkipped \in Nat
      BY <1>5, SkippedLast DEF Mark, Room
    <2>2. [op |-> "lagged", n |-> LastSkipped, skipped |-> skipped] \in Entry
      BY <2>1 DEF Entry
    <2> QED BY <1>4, <1>5, <2>2 DEF Mark
  <1>6. CASE Deliver
    <2>1. [op |-> IF holding = "eof" THEN "disconnected" ELSE "message",
           n |-> read, skipped |-> 0] \in Entry
      BY DEF Entry
    <2> QED BY <1>4, <1>6, <2>1 DEF Deliver, Forwarded
  <1>7. CASE SkipHeld
    BY <1>7 DEF SkipHeld, Forwarded
  <1>8. CASE ForwardFails
    BY <1>8 DEF ForwardFails
  <1>9. CASE ReaderFails
    BY <1>9 DEF ReaderFails
  <1> QED BY <1>1, <1>2, <1>3, <1>5, <1>6, <1>7, <1>8, <1>9 DEF ReaderStep

LEMMA TypeWorker ==
  ASSUME IInv, WorkerStep
  PROVE  TypeOK'
  <1> USE DEF TypeOK
  <1> TypeOK
    BY DEF IInv
  <1>1. CASE ReceiveEvent
    <2>1. Head(queue) \in Entry /\ Tail(queue) \in Seq(Entry) /\ Len(Tail(queue)) <= Capacity
      BY <1>1, WorkerLinkAssumption DEF ReceiveEvent
    <2>2. Head(queue).n \in Nat /\ Head(queue).skipped \in Nat
      BY <2>1 DEF Entry
    <2>3. \/ told' = told + 1 /\ received' = received \cup {Head(queue).n}
          \/ told' = told + Head(queue).skipped /\ received' = received
      BY <1>1 DEF ReceiveEvent
    <2>4. told' \in Nat
      BY <2>2, <2>3
    <2>5. received' \in SUBSET Nat
      BY <2>2, <2>3
    <2> QED BY <1>1, <2>1, <2>4, <2>5 DEF ReceiveEvent
  <1>2. CASE ReceiveDisconnected \/ ReceiveNone \/ JoinReader
    <2>1. Stop /\ UNCHANGED history
      BY <1>2 DEF ReceiveDisconnected, ReceiveNone, JoinReader
    <2> QED BY <2>1, StopType
  <1>3. CASE TakeRequest
    <2>1. outbound' \in Seq({"command", "call"})
      <3>1. Append(outbound, "call") \in Seq({"command", "call"})
        OBVIOUS
      <3> QED BY <1>3, <3>1 DEF TakeRequest
    <2> QED BY <1>3, <2>1 DEF TakeRequest
  <1>4. ASSUME NEW result \in {"ok", "failed"}, NEW next \in {"select", "exit"},
               Answer(result, next)
        PROVE  TypeOK'
    <2>1. inbox # <<>> /\ inbox' = Tail(inbox)
      BY <1>4 DEF Answer, IInv
    <2>2. inbox' \in Seq(Requests)
      BY <2>1
    <2>3. outcome' \in [Requests -> {"unasked", "asked", "ok", "failed"}]
      BY <1>4 DEF Answer
    <2> QED BY <1>4, <2>2, <2>3 DEF Answer
  <1>5. CASE Answered \/ Timeout
    BY <1>4, <1>5 DEF Answered, Timeout
  <1>6. CASE EvictionNoticed
    BY <1>6 DEF EvictionNoticed
  <1>7. CASE AwaitChild
    BY <1>7, GoneType DEF AwaitChild
  <1> QED BY <1>1, <1>2, <1>3, <1>5, <1>6, <1>7 DEF WorkerStep, Select

LEMMA TypeOthers ==
  ASSUME TypeOK, WriteLine \/ Evict \/ TakeCommand \/ \E r \in Requests : Ask(r)
  PROVE  TypeOK'
  <1> USE DEF TypeOK
  <1>1. CASE WriteLine
    <2>1. outbound' \in Seq({"command", "call"})
      <3>1. <<>> \in Seq({"command", "call"}) /\ outbound # <<>>
        BY <1>1 DEF WriteLine
      <3>2. Tail(outbound) \in Seq({"command", "call"})
        BY <3>1
      <3> QED BY <1>1, <3>1, <3>2 DEF WriteLine
    <2> QED BY <1>1, <2>1 DEF WriteLine
  <1>2. CASE Evict
    BY <1>2 DEF Evict
  <1>3. CASE TakeCommand
    <2>1. CASE Stop /\ UNCHANGED history
      BY <2>1, StopType
    <2>2. CASE ~(Stop /\ UNCHANGED history)
      <3>1. Append(outbound, "command") \in Seq({"command", "call"})
        OBVIOUS
      <3> QED BY <1>3, <2>2, <3>1 DEF TakeCommand
    <2> QED BY <2>1, <2>2
  <1>4. ASSUME NEW r \in Requests, Ask(r) PROVE TypeOK'
    <2>1. Append(inbox, r) \in Seq(Requests)
      OBVIOUS
    <2>2. inbox' \in Seq(Requests)
      BY <1>4, <2>1 DEF Ask
    <2>3. outcome' \in [Requests -> {"unasked", "asked", "ok", "failed"}]
      BY <1>4 DEF Ask
    <2> QED BY <1>4, <2>2, <2>3 DEF Ask
  <1> QED BY <1>1, <1>2, <1>3, <1>4

LEMMA TypeStep ==
  ASSUME IInv, [Next]_vars
  PROVE  TypeOK'
  <1>1. TypeOK
    BY DEF IInv
  <1>2. CASE UNCHANGED vars
    BY <1>1, <1>2 DEF vars, TypeOK
  <1>3. CASE Next
    BY <1>1, <1>3, TypePipe, TypeReader, TypeWorker, TypeOthers DEF Next
  <1> QED BY <1>2, <1>3

-----------------------------------------------------------------------------
(* The inductive invariant.                                                *)

LEMMA InvInit == Init => IInv
  <1> SUFFICES ASSUME Init PROVE IInv
    OBVIOUS
  <1>1. Len(queue) = 0 /\ lossless = {} /\ told = 0 /\ read = 0
    BY DEF Init
  <1>2. Numbered(queue, told) /\ MarkersSound(queue) /\ EntriesRead(queue)
    BY <1>1 DEF Numbered, MarkersSound, EntriesRead
  <1>3. LastOf(queue, told) = 0
    BY <1>1 DEF LastOf
  <1> QED BY <1>1, <1>2, <1>3, TypeInit DEF Init, IInv, ReaderInv, ReaderAccounts, Held

(* The lossless events among those already read are never added to.        *)
NoneAdded == \A k \in lossless' : k > read \/ k \in lossless

(* What leaves the queue and the reader alone keeps the invariant.         *)
LEMMA LinkFrame ==
  ASSUME IInv, TypeOK', NoneAdded, UNCHANGED <<readerVars, queue, told>>,
         worker' = "request" => inbox' # <<>>, Open' => Open
  PROVE  IInv'
  <1>1. /\ queue \in Seq(Entry) /\ told \in Nat /\ read \in Nat /\ skipped \in Nat
        /\ holding \in {"none", "event", "eof"}
    BY DEF IInv, TypeOK
  <1>2. MarkersSound(queue)'
    <2>1. ASSUME NEW i \in 1 .. Len(queue), queue[i].op = "lagged"
          PROVE  lossless' \cap (queue[i].n - queue[i].skipped + 1) .. queue[i].n = {}
      <3>1. lossless \cap (queue[i].n - queue[i].skipped + 1) .. queue[i].n = {}
            /\ queue[i].n <= read
        BY <2>1 DEF IInv, MarkersSound, EntriesRead
      <3>2. queue[i] \in Entry
        BY <1>1
      <3>3. queue[i].n \in Nat /\ queue[i].skipped \in Nat
        BY <3>2 DEF Entry
      <3> QED BY <1>1, <3>1, <3>3 DEF NoneAdded
    <2> QED BY <2>1 DEF IInv, MarkersSound
  <1>3. ReaderAccounts'
    <2> SUFFICES ASSUME Open, reader # "done"
                 PROVE  lossless' \cap (LastOf(queue, told) + 1) .. (LastOf(queue, told) + skipped) = {}
      BY DEF IInv, ReaderAccounts, Held, LastOf
    <2> DEFINE last == LastOf(queue, told)
    <2>1. last + skipped + Held = read /\ lossless \cap (last + 1) .. (last + skipped) = {}
      BY DEF IInv, ReaderAccounts
    <2>2. last \in Nat /\ Held \in Nat
      BY LastRead, <1>1 DEF Held
    <2> HIDE DEF last
    <2>3. last + skipped <= read
      BY <1>1, <2>1, <2>2
    <2>4. lossless' \cap (last + 1) .. (last + skipped) = {}
      BY <1>1, <2>1, <2>2, <2>3 DEF NoneAdded
    <2> QED BY <2>4 DEF last
  <1> QED BY <1>2, <1>3 DEF IInv, Numbered, EntriesRead, ReaderInv, Size

LEMMA StopKeeps ==
  ASSUME IInv, TypeOK', Stop, UNCHANGED history
  PROVE  IInv'
  <1>1. Len(queue') = 0 /\ ~Open' /\ UNCHANGED <<read, reader, holding, skipped, told>>
    BY DEF Stop, Open
  <1> QED BY <1>1 DEF IInv, Numbered, MarkersSound, EntriesRead, ReaderInv, ReaderAccounts, Stop

(* What the worker process does changes no event that was read already.    *)
LEMMA GoneAddsNone ==
  ASSUME TypeOK, Gone
  PROVE  NoneAdded
  BY GoneType DEF NoneAdded

LEMMA InvPipe ==
  ASSUME IInv, EmitEvent \/ Respond \/ ChildExits
  PROVE  IInv'
  <1>1. TypeOK /\ TypeOK'
    BY TypePipe DEF IInv
  <1>2. NoneAdded
    <2>1. CASE EmitEvent
      BY <1>1, <2>1 DEF EmitEvent, TypeOK, NoneAdded
    <2>2. CASE Respond
      BY <2>2 DEF Respond, NoneAdded
    <2>3. CASE ChildExits
      BY <1>1, <2>3, GoneAddsNone DEF ChildExits
    <2> QED BY <2>1, <2>2, <2>3
  <1>3. UNCHANGED <<readerVars, queue, told>> /\ UNCHANGED <<worker, inbox>>
    BY DEF EmitEvent, Respond, ChildExits
  <1> QED BY <1>1, <1>2, <1>3, LinkFrame DEF Open, IInv

LEMMA InvReader ==
  ASSUME IInv, ReaderStep \/ ReaderFails
  PROVE  IInv'
  <1>1. /\ TypeOK /\ TypeOK' /\ queue \in Seq(Entry)
        /\ told \in Nat /\ read \in Nat /\ skipped \in Nat
    BY TypeReader DEF IInv, TypeOK
  <1> DEFINE last == LastOf(queue, told)
  <1>2. last \in 0 .. read
    BY LastRead
  <1>3. Open /\ reader # "done" =>
          last + skipped + Held = read /\ lossless \cap (last + 1) .. (last + skipped) = {}
    BY DEF IInv, ReaderAccounts
  <1> HIDE DEF last
  <1>4. CASE ReadResponse
    <2>1. NoneAdded /\ UNCHANGED <<readerVars, queue, told>> /\ UNCHANGED <<worker, inbox>>
      BY <1>4 DEF ReadResponse, NoneAdded
    <2> QED BY <1>1, <2>1, LinkFrame DEF Open, IInv
  <1>5. ASSUME UNCHANGED <<queue, lossless, told, worker, inbox>>,
               read' >= read, read' \in Nat, ReaderInv',
               Open' /\ reader' # "done" =>
                 /\ last + skipped' + Held' = read'
                 /\ lossless \cap (last + 1) .. (last + skipped') = {}
        PROVE  IInv'
    <2>1. EntriesRead(queue)'
      <3>1. ASSUME NEW i \in 1 .. Len(queue) PROVE queue[i].n <= read'
        <4>1. queue[i] \in Entry /\ queue[i].n <= read
          BY <1>1 DEF IInv, EntriesRead
        <4> QED BY <1>1, <1>5, <4>1 DEF Entry
      <3> QED BY <1>5, <3>1 DEF EntriesRead
    <2>2. ReaderAccounts'
      BY <1>5 DEF ReaderAccounts, LastOf, last
    <2>3. told' <= read'
      BY <1>1, <1>5 DEF IInv
    <2> QED BY <1>1, <1>5, <2>1, <2>2, <2>3 DEF IInv, Numbered, MarkersSound, Size
  <1>6. ASSUME reader = "read" PROVE Held = 0 /\ holding = "none"
    BY <1>6 DEF IInv, ReaderInv, Held
  <1>7. CASE ReadEvent
    <2>1. Held = 0 /\ Held' = 1 /\ read' = read + 1 /\ skipped' = skipped
          /\ UNCHANGED <<queue, lossless, told, worker, inbox>>
      BY <1>6, <1>7 DEF ReadEvent, Forward, Held
    <2>2. ReaderInv'
      BY <1>1, <1>7 DEF ReadEvent, Forward, ReaderInv
    <2>3. Open' => last + skipped' + Held' = read'
                   /\ lossless \cap (last + 1) .. (last + skipped') = {}
      BY <1>1, <1>2, <1>3, <1>7, <2>1 DEF ReadEvent, Open
    <2> QED BY <1>1, <1>5, <2>1, <2>2, <2>3
  <1>8. CASE ReadEof
    <2>1. Held = 0 /\ Held' = 0 /\ read' = read /\ skipped' = skipped
          /\ UNCHANGED <<queue, lossless, told, worker, inbox>>
      BY <1>6, <1>8 DEF ReadEof, Forward, Held
    <2>2. ReaderInv'
      BY <1>1, <1>8 DEF ReadEof, Forward, ReaderInv
    <2>3. Open' => last + skipped' + Held' = read'
                   /\ lossless \cap (last + 1) .. (last + skipped') = {}
      BY <1>1, <1>2, <1>3, <1>8, <2>1 DEF ReadEof, Open
    <2> QED BY <1>1, <1>5, <2>1, <2>2, <2>3
  <1>9. CASE SkipHeld
    <2>1. UNCHANGED <<read, queue, lossless, told, worker, inbox>> /\ skipped' = skipped + 1
          /\ Held' = 0 /\ Open /\ reader \in {"mark", "send"}
      BY <1>9 DEF SkipHeld, Forwarded, Held
    <2>2. ReaderInv'
      BY <1>9 DEF SkipHeld, Forwarded, ReaderInv
    <2>3. CASE holding = "event"
      <3>1. Held = 1 /\ read \notin lossless
        BY <1>9, <2>3 DEF SkipHeld, RequiresDelivery, Held
      <3>2. last + skipped' + Held' = read'
        BY <1>1, <1>2, <1>3, <2>1, <3>1
      <3>3. lossless \cap (last + 1) .. (last + skipped') = {}
        BY <1>1, <1>2, <1>3, <2>1, <3>1
      <3> QED BY <1>1, <1>5, <2>1, <2>2, <3>2, <3>3
    <2>4. CASE holding # "event"
      <3>1. reader' = "done"
        BY <1>9, <2>1, <2>4 DEF SkipHeld, Forwarded, IInv, ReaderInv, TypeOK
      <3> QED BY <1>1, <1>5, <2>1, <2>2, <3>1
    <2> QED BY <2>3, <2>4
  <1>10. CASE ForwardFails
    <2>1. UNCHANGED <<read, queue, lossless, told, worker, inbox>> /\ ~Open'
      BY <1>10 DEF ForwardFails, Open
    <2>2. ReaderInv'
      BY <1>10 DEF ForwardFails, ReaderInv
    <2> QED BY <1>1, <1>5, <2>1, <2>2
  <1>11. CASE ReaderFails
    <2>1. UNCHANGED <<read, skipped, queue, lossless, told, worker, inbox>> /\ Held' = Held
          /\ Open' = Open
      BY <1>11 DEF ReaderFails, Held, Open
    <2>2. ReaderInv'
      BY <1>6, <1>11 DEF ReaderFails, ReaderInv
    <2>3. Open' => last + skipped' + Held' = read'
                   /\ lossless \cap (last + 1) .. (last + skipped') = {}
      BY <1>3, <1>11, <2>1 DEF ReaderFails
    <2> QED BY <1>1, <1>5, <2>1, <2>2, <2>3
  <1>12. ASSUME NEW e \in Entry, queue' = Append(queue, e), Open, reader \in {"mark", "send"},
                e.n = last + Size(e), e.n <= read,
                e.op = "lagged" => /\ e.skipped > 0
                                   /\ lossless \cap (e.n - e.skipped + 1) .. e.n = {},
                UNCHANGED <<read, lossless, told, worker, inbox>>, ReaderInv',
                skipped' = 0, reader' # "done" => e.n + Held' = read
         PROVE  IInv'
    <2>1. Numbered(queue', told) /\ LastOf(queue', told) = e.n
      BY <1>1, <1>12, NumberedAppend DEF IInv, last
    <2>2. /\ Len(queue') = Len(queue) + 1 /\ queue'[Len(queue')] = e
          /\ \A i \in 1 .. Len(queue) : queue'[i] = queue[i]
          /\ Len(queue) \in Nat
      BY <1>1, <1>12
    <2>3. MarkersSound(queue)'
      BY <1>12, <2>2 DEF IInv, MarkersSound
    <2>4. EntriesRead(queue)'
      BY <1>12, <2>2 DEF IInv, EntriesRead
    <2>5. ReaderAccounts'
      <3>1. e.n \in Nat
        BY DEF Entry
      <3>2. lossless \cap (e.n + 1) .. (e.n + 0) = {}
        BY <3>1
      <3>3. LastOf(queue, told)' = e.n
        BY <1>12, <2>1
      <3>4. reader' # "done" => e.n + 0 + Held' = read'
        BY <1>12, <3>1 DEF Held
      <3> QED BY <1>12, <3>2, <3>3, <3>4 DEF ReaderAccounts
    <2>6. Numbered(queue, told)'
      BY <1>12, <2>1
    <2> QED BY <1>1, <1>12, <2>3, <2>4, <2>5, <2>6 DEF IInv
  <1>13. CASE Mark
    <2> DEFINE e == [op |-> "lagged", n |-> LastSkipped, skipped |-> skipped]
    <2>1. Open /\ reader = "mark" /\ skipped > 0
      BY <1>13 DEF Mark, Room, IInv, ReaderInv
    <2>2. LastSkipped \in Nat /\ LastSkipped <= read /\ LastSkipped = last + skipped
          /\ LastSkipped + Held = read
      BY <2>1, SkippedLast DEF last
    <2>3. e \in Entry /\ Size(e) = skipped
      BY <1>1, <2>2 DEF Entry, Size
    <2>4. LastSkipped - skipped + 1 = last + 1
      BY <1>1, <1>2, <2>2
    <2>5. lossless \cap (LastSkipped - skipped + 1) .. LastSkipped = {}
      BY <1>3, <2>1, <2>2, <2>4
    <2>6. Held' = Held /\ ReaderInv' /\ UNCHANGED <<read, lossless, told, worker, inbox>>
          /\ skipped' = 0 /\ queue' = Append(queue, e)
      BY <1>13, <2>1 DEF Mark, Held, ReaderInv, IInv
    <2> QED BY <1>12, <2>1, <2>2, <2>3, <2>5, <2>6
  <1>14. CASE Deliver
    <2> DEFINE e == [op |-> IF holding = "eof" THEN "disconnected" ELSE "message",
                     n |-> read, skipped |-> 0]
    <2>1. Open /\ reader = "send" /\ skipped = 0 /\ holding \in {"event", "eof"}
      BY <1>14 DEF Deliver, Room, IInv, ReaderInv, TypeOK
    <2>2. last + Held = read
      BY <1>1, <1>2, <1>3, <2>1 DEF Held
    <2>3. e \in Entry /\ Size(e) = Held /\ e.n = read /\ e.op # "lagged"
      BY <1>1, <2>1 DEF Entry, Size, Held
    <2>4. Held' = 0 /\ ReaderInv' /\ UNCHANGED <<read, lossless, told, worker, inbox>>
          /\ skipped' = 0 /\ queue' = Append(queue, e)
      BY <1>14, <2>1 DEF Deliver, Forwarded, Held, ReaderInv
    <2> QED BY <1>1, <1>12, <2>1, <2>2, <2>3, <2>4
  <1> QED BY <1>4, <1>7, <1>8, <1>9, <1>10, <1>11, <1>13, <1>14 DEF ReaderStep

(* The entry at the head of the queue is the next thing to be told.        *)
LEMMA NextEntry ==
  ASSUME IInv, ReceiveEvent
  PROVE  /\ Head(queue) \in Entry /\ Head(queue).n = told + Size(Head(queue))
         /\ Head(queue).n <= read
         /\ Head(queue).op \in {"message", "lagged"} /\ told' = Head(queue).n
  <1>1. queue \in Seq(Entry) /\ queue # <<>> /\ told \in Nat /\ Numbered(queue, told)
    BY DEF IInv, TypeOK, ReceiveEvent
  <1>2. Head(queue) \in Entry /\ Head(queue).n = told + Size(Head(queue))
    BY <1>1, NumberedTail
  <1>3. Head(queue) = queue[1] /\ 1 \in 1 .. Len(queue)
    BY <1>1
  <1>4. Head(queue).n <= read
    BY <1>3 DEF IInv, EntriesRead
  <1> QED BY <1>2, <1>4 DEF ReceiveEvent, Size

LEMMA InvReceive ==
  ASSUME IInv, ReceiveEvent
  PROVE  IInv'
  <1>1. /\ TypeOK /\ TypeOK' /\ queue \in Seq(Entry) /\ queue # <<>>
        /\ told \in Nat /\ read \in Nat /\ Numbered(queue, told)
    BY TypeWorker DEF IInv, TypeOK, WorkerStep, Select, ReceiveEvent
  <1>2. told' = Head(queue).n /\ told' <= read /\ queue' = Tail(queue)
        /\ UNCHANGED <<readerVars, lossless, worker, inbox>>
    BY NextEntry DEF ReceiveEvent
  <1>3. Numbered(queue', told') /\ LastOf(queue', told') = LastOf(queue, told)
        /\ Len(queue') = Len(queue) - 1
    BY <1>1, <1>2, NumberedTail
  <1>4. \A i \in 1 .. Len(queue') : queue'[i] = queue[i + 1] /\ i + 1 \in 1 .. Len(queue)
    BY <1>1, <1>2
  <1>5. MarkersSound(queue)' /\ EntriesRead(queue)'
    BY <1>2, <1>4 DEF IInv, MarkersSound, EntriesRead
  <1>6. LastOf(queue, told)' = LastOf(queue, told) /\ Numbered(queue, told)'
    BY <1>3
  <1>7. ReaderAccounts' /\ ReaderInv'
    BY <1>2, <1>6 DEF IInv, ReaderAccounts, ReaderInv, Open, Held
  <1> QED BY <1>1, <1>2, <1>5, <1>6, <1>7 DEF IInv

LEMMA InvWorker ==
  ASSUME IInv, WorkerStep
  PROVE  IInv'
  <1>1. TypeOK /\ TypeOK' /\ (worker = "request" => inbox # <<>>)
    BY TypeWorker DEF IInv
  <1>2. CASE ReceiveDisconnected \/ ReceiveNone \/ JoinReader
    <2>1. Stop /\ UNCHANGED history
      BY <1>2 DEF ReceiveDisconnected, ReceiveNone, JoinReader
    <2> QED BY <1>1, <2>1, StopKeeps
  <1>3. CASE TakeRequest \/ Answered \/ Timeout \/ EvictionNoticed
    <2>1. UNCHANGED <<readerVars, queue, told, lossless>>
          /\ (worker' = "request" => inbox' # <<>>) /\ (Open' => Open)
      BY <1>3 DEF TakeRequest, Answered, Timeout, EvictionNoticed, Answer, Open
    <2>2. NoneAdded
      BY <2>1 DEF NoneAdded
    <2> QED BY <1>1, <2>1, <2>2, LinkFrame
  <1>4. CASE AwaitChild
    <2>1. UNCHANGED <<readerVars, queue, told>> /\ worker' # "request" /\ (Open' => Open) /\ Gone
      BY <1>4 DEF AwaitChild, Open
    <2>2. NoneAdded
      BY <1>1, <2>1, GoneAddsNone
    <2> QED BY <1>1, <2>1, <2>2, LinkFrame
  <1> QED BY <1>2, <1>3, <1>4, InvReceive DEF WorkerStep, Select

LEMMA InvOthers ==
  ASSUME IInv, WriteLine \/ Evict \/ TakeCommand \/ \E r \in Requests : Ask(r)
  PROVE  IInv'
  <1>1. TypeOK /\ TypeOK'
    BY TypeOthers DEF IInv
  <1>2. CASE Stop /\ UNCHANGED history
    BY <1>1, <1>2, StopKeeps
  <1>3. CASE ~(Stop /\ UNCHANGED history)
    <2>1. UNCHANGED <<readerVars, queue, told, lossless, worker>>
      BY <1>3 DEF WriteLine, Evict, TakeCommand, Ask
    <2>2. inbox' = inbox \/ \E r \in Requests : inbox' = Append(inbox, r)
      BY <1>3 DEF WriteLine, Evict, TakeCommand, Ask
    <2>3. inbox # <<>> => inbox' # <<>>
      <3>1. inbox \in Seq(Requests)
        BY <1>1 DEF TypeOK
      <3> QED BY <2>2, <3>1
    <2>4. NoneAdded
      BY <2>1 DEF NoneAdded
    <2> QED BY <1>1, <2>1, <2>3, <2>4, LinkFrame DEF IInv, Open
  <1> QED BY <1>2, <1>3

LEMMA InvStep == IInv /\ [Next]_vars => IInv'
  <1> SUFFICES ASSUME IInv, [Next]_vars PROVE IInv'
    OBVIOUS
  <1>1. CASE UNCHANGED vars
    BY <1>1, TypeStep DEF vars, IInv, Numbered, MarkersSound, EntriesRead, ReaderInv,
       ReaderAccounts, LastOf, Held, Open, Size
  <1>2. CASE Next
    BY <1>2, InvPipe, InvReader, InvWorker, InvOthers DEF Next
  <1> QED BY <1>1, <1>2

(* The inductive invariant of the link.                                    *)
THEOREM Invariance == Spec => []IInv
  BY InvInit, InvStep, PTL DEF Spec

(* Every variable keeps its type, and the event queue never holds more     *)
(* than its capacity although three different sends fill it.               *)
THEOREM TypeCorrect == Spec => []TypeOK
  <1>1. IInv => TypeOK
    BY DEF IInv
  <1> QED BY <1>1, Invariance, PTL

-----------------------------------------------------------------------------
(* The link implements a LossyStream.                                      *)

LEMMA StreamInit == Init => Stream!Init
  BY DEF Init, Stream!Init

(* A worker process that goes takes along unwritten events at most.        *)
LEMMA GoneDies ==
  ASSUME IInv, Gone, UNCHANGED history
  PROVE  Stream!Die
  <1>1. /\ written' \in read .. written /\ lossless' = lossless \cap 1 .. written'
        /\ read \in Nat /\ told \in Nat /\ told <= read /\ written \in Nat
    BY GoneType DEF IInv, TypeOK
  <1>2. written' \in told .. written
    BY <1>1
  <1> QED BY <1>1, <1>2 DEF Stream!Die

LEMMA ReceiveDelivers ==
  ASSUME IInv, ReceiveEvent
  PROVE  Stream!Deliver \/ Stream!Skip
  <1>1. /\ told \in Nat /\ read \in Nat /\ written \in Nat /\ read <= written
        /\ queue \in Seq(Entry) /\ queue # <<>>
    BY DEF IInv, TypeOK, ReceiveEvent
  <1>2. /\ Head(queue) \in Entry /\ told' = Head(queue).n /\ told' <= read
        /\ told' = told + Size(Head(queue)) /\ Head(queue).op \in {"message", "lagged"}
    BY NextEntry
  <1>3. UNCHANGED <<written, lossless>>
    BY DEF ReceiveEvent
  <1>4. CASE Head(queue).op = "message"
    <2>1. told' = told + 1
      BY <1>2, <1>4 DEF Size
    <2>2. received' = received \cup {told'}
      BY <1>2, <1>4 DEF ReceiveEvent
    <2>3. told < written
      BY <1>1, <1>2, <2>1
    <2> QED BY <1>3, <2>1, <2>2, <2>3 DEF Stream!Deliver
  <1>5. CASE Head(queue).op = "lagged"
    <2>1. Head(queue) = queue[1] /\ 1 \in 1 .. Len(queue)
      BY <1>1
    <2>2. /\ Head(queue).skipped > 0
          /\ lossless \cap (Head(queue).n - Head(queue).skipped + 1) .. Head(queue).n = {}
      BY <1>5, <2>1 DEF IInv, MarkersSound
    <2>3. told' = told + Head(queue).skipped /\ Head(queue).skipped \in Nat
      BY <1>2, <1>5 DEF Size, Entry
    <2>4. told' \in (told + 1) .. written
      BY <1>1, <1>2, <2>2, <2>3
    <2>5. Head(queue).n - Head(queue).skipped + 1 = told + 1
      BY <1>1, <1>2, <2>3
    <2>6. lossless \cap (told + 1) .. told' = {}
      BY <1>2, <2>2, <2>5
    <2>7. UNCHANGED received
      BY <1>5 DEF ReceiveEvent
    <2> QED BY <1>3, <2>4, <2>6, <2>7 DEF Stream!Skip
  <1> QED BY <1>2, <1>4, <1>5

LEMMA StreamStep == IInv /\ [Next]_vars => [Stream!Next]_(Stream!vars)
  <1> SUFFICES ASSUME IInv, [Next]_vars PROVE [Stream!Next]_(Stream!vars)
    OBVIOUS
  <1> USE DEF Stream!vars
  <1>1. CASE UNCHANGED <<written, lossless, told, received>>
    BY <1>1
  <1>2. CASE EmitEvent
    BY <1>2 DEF EmitEvent, Stream!Emit, Stream!Next
  <1>3. CASE ReceiveEvent
    BY <1>3, ReceiveDelivers DEF Stream!Next
  <1>4. CASE Gone /\ UNCHANGED history
    BY <1>4, GoneDies DEF Stream!Next
  <1>5. CASE \/ Respond \/ ReaderStep \/ ReaderFails \/ WriteLine \/ Evict
             \/ TakeRequest \/ Answered \/ Timeout \/ EvictionNoticed
             \/ \E r \in Requests : Ask(r)
    <2>1. UNCHANGED <<written, lossless, told, received>>
      BY <1>5 DEF Respond, ReaderStep, ReadResponse, ReadEvent, ReadEof, Mark, Deliver, SkipHeld,
         ForwardFails, ReaderFails, WriteLine, Evict, TakeRequest, Answered, Timeout, Answer,
         EvictionNoticed, Ask
    <2> QED BY <2>1
  <1>6. CASE ChildExits \/ AwaitChild \/ ReceiveDisconnected \/ ReceiveNone \/ JoinReader
    <2>1. Gone /\ UNCHANGED history
      BY <1>6 DEF ChildExits, AwaitChild, ReceiveDisconnected, ReceiveNone, JoinReader, Stop
    <2> QED BY <1>4, <2>1
  <1>7. CASE TakeCommand
    <2>1. (Gone /\ UNCHANGED history) \/ UNCHANGED <<written, lossless, told, received>>
      BY <1>7 DEF TakeCommand, Stop
    <2> QED BY <1>1, <1>4, <2>1
  <1>8. UNCHANGED vars => UNCHANGED <<written, lossless, told, received>>
    BY DEF vars
  <1> QED BY <1>1, <1>2, <1>3, <1>5, <1>6, <1>7, <1>8 DEF Next, WorkerStep, Select

(* Whatever the capacity and whatever fails, the worker task learns of the *)
(* events in order, of every gap with its length, and of every event that  *)
(* requires delivery up to where it got.                                   *)
THEOREM RefinesStream == Spec => ImplementsLossyStream
  BY StreamInit, StreamStep, Invariance, PTL DEF Spec, ImplementsLossyStream, Stream!Spec

(* Every event that requires delivery and that the worker task has got     *)
(* past was given to it: no marker and no crash hides one.                 *)
THEOREM NothingLost == Spec => []Stream!NothingLost
  <1>1. Init => Stream!NothingLost
    BY DEF Init, Stream!NothingLost
  <1>2. ASSUME IInv, Stream!NothingLost, [Stream!Next]_(Stream!vars)
        PROVE  Stream!NothingLost'
    <2>1. told \in Nat /\ written \in Nat /\ lossless \in SUBSET Nat /\ told <= written
      BY <1>2 DEF IInv, TypeOK
    <2>2. CASE UNCHANGED Stream!vars
      BY <1>2, <2>2 DEF Stream!NothingLost, Stream!vars
    <2>3. CASE Stream!Emit
      BY <1>2, <2>1, <2>3 DEF Stream!NothingLost, Stream!Emit
    <2>4. CASE Stream!Deliver
      BY <1>2, <2>1, <2>4 DEF Stream!NothingLost, Stream!Deliver
    <2>5. CASE Stream!Skip
      BY <1>2, <2>1, <2>5 DEF Stream!NothingLost, Stream!Skip
    <2>6. CASE Stream!Die
      BY <1>2, <2>1, <2>6 DEF Stream!NothingLost, Stream!Die
    <2> QED BY <1>2, <2>2, <2>3, <2>4, <2>5, <2>6 DEF Stream!Next
  <1> QED BY <1>1, <1>2, StreamStep, Invariance, PTL DEF Spec
==============================================================================
