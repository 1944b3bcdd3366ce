----------------------------- MODULE GatewayReply -----------------------------
(***************************************************************************)
(* How a messaging platform's bot answers: a handler per message, one at a *)
(* time on the connection to the node, which submits the message, picks    *)
(* the events of its turn out of the stream and tells them in the chat;    *)
(* and the approvals a turn asks for meanwhile, answered by a text or by a *)
(* button of a card.  A turn asks at most once, so that its number also    *)
(* names its request.                                                      *)
(***************************************************************************)
EXTENDS Naturals, Sequences

CONSTANTS
  Chats, NoChat,
  MaxMessages,  \* bound: messages that come in
  MaxTurns,     \* bound: turns started
  MaxStream     \* bound: events on their way to the handlers

VARIABLES
  pc, chat,     \* the handler's step, and the session_key of its message
  line,         \* handlers that wait for stream_client; the first holds it
  bound,        \* RuntimeSessionState::active_turn_id; 0 for none
  stream,       \* events stream_client has not given out
  nodeTurns,    \* the chat of each turn, and who submitted it
  phase,        \* how far each turn is
  held,         \* chats the node takes for busy
  trailing,     \* turns that ended before an item of theirs was told
  pending,      \* ApprovalState: the request of each chat; 0 for none
  cards,        \* of each card sent: the chat it stands for, or NoChat
  withCards,    \* enable_cards
  shown,        \* history: turns whose events were told in answer to a message
  prompted, clicked, strayed   \* history: see the properties
turnVars == <<nodeTurns, phase, held, trailing>>
approvalVars == <<pending, cards, prompted>>
vars == <<pc, chat, line, bound, stream, turnVars, approvalVars, withCards, shown,
          clicked, strayed>>

Messages == 1..MaxMessages
Turns == DOMAIN nodeTurns
Cards == DOMAIN cards
Events == [kind : {"started", "item", "request", "end", "refused"}, chat : Chats,
           turn : 0..MaxTurns]

TypeOK ==
  /\ pc \in [Messages -> {"new", "waiting", "listening", "gone"}]
  /\ chat \in [Messages -> Chats \cup {NoChat}]
  /\ \A m \in Messages : (pc[m] \in {"waiting", "listening"}) =
       (\E i \in DOMAIN line : line[i] = m)
  /\ \A m \in Messages : pc[m] = "listening" => m = Head(line)
  /\ bound \in [Messages -> {0} \cup Turns]
  /\ stream \in Seq(Events) /\ Len(stream) <= MaxStream
  /\ phase \in [Turns -> {"submitted", "running", "asking", "asked", "over"}]
  /\ trailing \subseteq {t \in Turns : phase[t] = "over"} /\ held \subseteq Chats
  /\ pending \in [Chats -> {0} \cup Turns]
  /\ withCards \in BOOLEAN /\ \A k \in Cards : cards[k] \in Chats \cup {NoChat}

Init ==
  /\ pc = [m \in Messages |-> "new"] /\ chat = [m \in Messages |-> NoChat]
  /\ line = <<>> /\ bound = [m \in Messages |-> 0] /\ stream = <<>>
  /\ nodeTurns = <<>> /\ phase = <<>> /\ held = {} /\ trailing = {}
  /\ pending = [c \in Chats |-> 0] /\ cards = <<>> /\ withCards \in BOOLEAN
  /\ shown = [m \in Messages |-> {}]
  /\ prompted = <<>> /\ clicked = {} /\ strayed = {}

-------------------------------------------------------------------------------
Emit(kind, c, t) ==
  /\ Len(stream) < MaxStream
  /\ stream' = Append(stream, [kind |-> kind, chat |-> c, turn |-> t])

(* The node takes a submission unless the conversation is busy.  who is the
   message, or 0 for another client. *)
StartTurn(c, who) ==
  /\ c \notin held /\ Len(nodeTurns) < MaxTurns
  /\ nodeTurns' = Append(nodeTurns, [chat |-> c, by |-> who])
  /\ phase' = Append(phase, "submitted") /\ held' = held \cup {c}

Arrive(m, c) ==
  /\ pc[m] = "new" /\ \A n \in 1..(m - 1) : pc[n] # "new"
  /\ pc' = [pc EXCEPT ![m] = "waiting"]
  /\ chat' = [chat EXCEPT ![m] = c] /\ line' = Append(line, m)
  /\ UNCHANGED <<bound, stream, turnVars, approvalVars, withCards, shown, clicked,
                 strayed>>

(* handle_message up to its loop: the lock, the subscription, the submission. *)
Submit(m) ==
  /\ pc[m] = "waiting" /\ m = Head(line) /\ pc' = [pc EXCEPT ![m] = "listening"]
  /\ \/ StartTurn(chat[m], m) /\ UNCHANGED <<stream, trailing>>
     \/ chat[m] \in held /\ Emit("refused", chat[m], 0) /\ UNCHANGED turnVars
  /\ UNCHANGED <<chat, line, bound, approvalVars, withCards, shown, clicked, strayed>>

(* Another client of the node runs a turn in a chat's conversation. *)
ForeignTurn(c) ==
  /\ StartTurn(c, 0) /\ strayed' = strayed \cup {c}
  /\ UNCHANGED <<pc, chat, line, bound, stream, trailing, approvalVars, withCards, shown,
                 clicked>>

(* What the stream tells of a turn: its start, items, a request, its end.  The
   end of a turn that fails half way overtakes its last items. *)
TurnMoves(t) ==
  /\ \/ /\ phase[t] = "submitted" /\ phase' = [phase EXCEPT ![t] = "running"]
        /\ Emit("started", nodeTurns[t].chat, t) /\ UNCHANGED trailing
     \/ /\ phase[t] \in {"running", "asked"} /\ UNCHANGED <<phase, trailing>>
        /\ Emit("item", nodeTurns[t].chat, t)
     \/ /\ phase[t] = "running" /\ phase' = [phase EXCEPT ![t] = "asking"]
        /\ Emit("request", nodeTurns[t].chat, t) /\ UNCHANGED trailing
     \/ /\ phase[t] \notin {"submitted", "over"}
        /\ phase' = [phase EXCEPT ![t] = "over"]
        /\ Emit("end", nodeTurns[t].chat, t)
        /\ trailing' \in {trailing, trailing \cup {t}}
     \/ /\ t \in trailing /\ trailing' = trailing \ {t} /\ UNCHANGED phase
        /\ Emit("item", nodeTurns[t].chat, t)
  /\ UNCHANGED <<pc, chat, line, bound, nodeTurns, held, approvalVars, withCards,
                 shown, clicked, strayed>>

(* The node learns that a conversation is idle again. *)
Settle(c) ==
  /\ c \in held /\ \A t \in Turns : nodeTurns[t].chat = c => phase[t] = "over"
  /\ held' = held \ {c}
  /\ UNCHANGED <<pc, chat, line, bound, stream, nodeTurns, phase, trailing, approvalVars,
                 withCards, shown, clicked, strayed>>

Decided(r) ==
  phase' = IF phase[r] = "asking" THEN [phase EXCEPT ![r] = "asked"] ELSE phase
DecideElsewhere(r) ==
  /\ phase[r] = "asking" /\ Decided(r)
  /\ UNCHANGED <<pc, chat, line, bound, stream, nodeTurns, held, trailing, approvalVars,
                 withCards, shown, clicked, strayed>>

-------------------------------------------------------------------------------
(* event_turn_id: requests and refusals name no turn. *)
TurnOf(e) == IF e.kind \in {"started", "item", "end"} THEN e.turn ELSE 0

(* gate_event: the events the handler of m lets through. *)
GateBinding(m, e) ==   \* Mutant: any event of a turn binds the handler to it.
  e.chat = chat[m] /\ (bound[m] # 0 => TurnOf(e) \in {0, bound[m]})
Gate(m, e) ==
  /\ e.chat = chat[m]
  /\ IF bound[m] # 0 THEN TurnOf(e) \in {0, bound[m]}
     ELSE TurnOf(e) = 0 \/ e.kind = "started"

(* register_pending: a request takes the place of the one before in its chat;
   that one's card stands for nothing any more. *)
NewCard(table, c) == IF withCards THEN Append(table, c) ELSE table
RegisterKeepingCard(c, r) ==   \* Mutant: the old card stays valid.
  /\ pending' = [pending EXCEPT ![c] = r] /\ cards' = NewCard(cards, c)
RegisterFirst(c, r) ==   \* Mutant: the request that is there stays.
  /\ pending' = [pending EXCEPT ![c] = IF @ = 0 THEN r ELSE @]
  /\ cards' = NewCard([k \in Cards |-> IF cards[k] = c THEN NoChat ELSE cards[k]], c)
Register(c, r) ==
  /\ pending' = [pending EXCEPT ![c] = r]
  /\ cards' = NewCard([k \in Cards |-> IF cards[k] = c THEN NoChat ELSE cards[k]], c)

Leave(m) == pc' = [pc EXCEPT ![m] = "gone"] /\ line' = Tail(line)

(* One round of the handler's loop. *)
ReadEvent(m) ==
  /\ pc[m] = "listening" /\ stream # <<>> /\ stream' = Tail(stream)
  /\ LET e == Head(stream) IN
       \/ /\ ~Gate(m, e)
          /\ UNCHANGED <<pc, line, bound, approvalVars, shown>>
       \/ /\ Gate(m, e)
          /\ bound' = [bound EXCEPT ![m] = IF TurnOf(e) # 0 THEN TurnOf(e) ELSE @]
          /\ shown' = [shown EXCEPT ![m] = @ \cup ({e.turn} \ {0})]
          /\ IF e.kind = "request"
             THEN Register(e.chat, e.turn) /\ prompted' = Append(prompted, e.turn)
             ELSE UNCHANGED approvalVars
          /\ IF e.kind = "end" THEN Leave(m) ELSE UNCHANGED <<pc, line>>
  /\ UNCHANGED <<chat, turnVars, withCards, clicked, strayed>>

(* No event comes for as long as the handler waits, or what it has to tell
   cannot be sent: it ends, and leaves the rest of its turn in the stream. *)
GiveUp(m) ==
  /\ pc[m] = "listening" /\ Leave(m) /\ strayed' = strayed \cup {chat[m]}
  /\ UNCHANGED <<chat, bound, stream, turnVars, approvalVars, withCards, shown, clicked>>

(* resolve_inner: the request is taken out, its card too, and decided. *)
Resolve(c) ==
  /\ pending[c] # 0 /\ Decided(pending[c])
  /\ pending' = [pending EXCEPT ![c] = 0]
  /\ cards' = [k \in Cards |-> IF cards[k] = c THEN NoChat ELSE cards[k]]
  /\ UNCHANGED <<pc, chat, line, bound, stream, nodeTurns, held, trailing, prompted,
                 withCards, shown, strayed>>
AnswerByText(c) == ~withCards /\ Resolve(c) /\ UNCHANGED clicked
AnswerByCard(k) ==
  /\ cards[k] # NoChat /\ Resolve(cards[k])
  /\ clicked' = clicked \cup {[card |-> k, request |-> pending[cards[k]]]}

Next ==
  \/ \E m \in Messages :
       \/ \E c \in Chats : Arrive(m, c)
       \/ Submit(m) \/ ReadEvent(m) \/ GiveUp(m)
  \/ \E c \in Chats : ForeignTurn(c) \/ Settle(c) \/ AnswerByText(c)
  \/ \E t \in Turns : TurnMoves(t) \/ DecideElsewhere(t)
  \/ \E k \in Cards : AnswerByCard(k)

Spec == Init /\ [][Next]_vars

-------------------------------------------------------------------------------
(* What a message is answered with belongs to its own turn: neither items an
   earlier turn tells after its end nor the turns of other chats come through
   the gate.  This takes a chat whose handlers have not given up, and in which
   no other client runs turns: what those leave in the stream, the next
   handler takes for its own. *)
ReplyIsOfItsMessage ==
  \A m \in Messages :
    chat[m] \notin strayed => \A t \in shown[m] : nodeTurns[t].by = m

(* A card decides the request it was sent for, however late or often its
   buttons are pressed: after another answer, or after the next request. *)
CardDecidesItsRequest ==
  \A click \in clicked : prompted[click.card] = click.request

(* As long as a request told in a chat is undecided, the answer of the user
   reaches it: the handler that told it may be gone, and an earlier request
   that was decided elsewhere may have been left in the way. *)
PromptStaysAnswerable ==
  \A i \in DOMAIN prompted :
    LET r == prompted[i] IN
    phase[r] = "asking" =>
      /\ pending[nodeTurns[r].chat] = r
      /\ withCards => cards[i] = nodeTurns[r].chat
===============================================================================
