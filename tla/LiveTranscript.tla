---------------------------- MODULE LiveTranscript ----------------------------
(***************************************************************************)
(* The transcript of the CLI while turns run: the events of a turn, in the *)
(* order they arrive, move what is live, what is streamed and what is      *)
(* committed.  A text is only known by its item and by whether a cell      *)
(* holds a piece of it or the whole; how cells look, the aggregation of    *)
(* equal tool cards, the status line and the composer are left out.  The   *)
(* server is there to send events in an order it can send them.            *)
(***************************************************************************)
EXTENDS Naturals, Sequences, SequencesExt

CONSTANTS
  MaxTurns,   \* bound: turns, of this client's user or of another's
  MaxShown,   \* bound: items over all turns
  MaxCells,   \* bound: cells committed when another delta is told
  MaxLocal    \* bound: submissions of this client's user

VARIABLES
  pc,         \* what the server sends next
  current,    \* number of the turn
  late,       \* its failure has been told, before the last of its events
  streaming,  \* items of the reply that are streamed
  announced,  \* items of the calls not done yet
  count,      \* items so far
  local,      \* submissions of this client so far
  client,
  finished    \* history: items whose completion was told
serverVars == <<pc, current, late, streaming, announced, count>>
vars == <<serverVars, local, client, finished>>

Tools == {"read", "list"}                   \* shown by name; no two share one
CallKinds == Tools \cup {"patch", "command"}
Kinds == CallKinds \cup {"text", "reasoning"}
NoItem == [turn |-> 0, n |-> 0, kind |-> "none"]
Items == [turn : 1..MaxTurns, n : 1..MaxShown, kind : Kinds]

(* A card that is not committed: still blank ("running"), or of a completed item *)
Card(i, blank, final) == [item |-> i, blank |-> blank, final |-> final]
NoCard == Card(NoItem, FALSE, FALSE)

(* A committed cell: whose piece it is, or whose whole; body tells the items
   of the whole texts that were joined in it.                                *)
Cell(i, whole) == [item |-> i, whole |-> whole, body |-> <<i>>]
Notice == Cell(NoItem, TRUE)

TypeOK ==
  /\ pc \in {"idle", "reply", "replied", "calls", "denied", "work"}
  /\ current \in 0..MaxTurns /\ late \in BOOLEAN /\ local \in 0..MaxLocal
  /\ announced \in Seq(Items)
  /\ streaming \cup finished \cup client.replayed \cup client.cut
       \cup ({client.live.item, client.stream} \ {NoItem}) \subseteq Items
  /\ \A i, j \in streaming : i.kind = j.kind => i = j
  /\ client.turn \in 0..current
  /\ \A k \in DOMAIN client.cells : client.cells[k].item \in Items \cup {NoItem}

Init ==
  /\ pc = "idle" /\ current = 0 /\ late = FALSE /\ streaming = {} /\ announced = <<>>
  /\ count = 0 /\ local = 0 /\ finished = {}
  /\ client = [turn |-> 0, live |-> NoCard, stream |-> NoItem, replayed |-> {},
               cells |-> <<>>, cut |-> {}]

-------------------------------------------------------------------------------
(* What is committed *)

Piece(cell, i) == ~cell.whole /\ cell.item = i

(* append_cell: agent texts next to each other are joined, pieces with pieces
   and wholes with wholes                                                    *)
Commit(c, cell) ==
  IF /\ c.cells # <<>> /\ cell.item.kind = "text"
     /\ Last(c.cells).item.kind = "text" /\ Last(c.cells).whole = cell.whole
  THEN IF cell.whole THEN [c EXCEPT !.cells[Len(c.cells)].body = @ \o cell.body] ELSE c
  ELSE [c EXCEPT !.cells = Append(@, cell)]

(* Mutant: only the first piece of the message is replaced.                  *)
ConsolidateFirst(c, i) ==
  LET pieces == {k \in DOMAIN c.cells : Piece(c.cells[k], i)}
  IN IF pieces = {} THEN Commit(c, Cell(i, TRUE))
     ELSE [c EXCEPT !.cells[Min(pieces)] = Cell(i, TRUE)]

(* The cells without those that are gone *)
Kept(cells, gone) ==
  LET kept[k \in 0..Len(cells)] ==
        IF k = 0 THEN <<>>
        ELSE IF k \in gone THEN kept[k - 1] ELSE Append(kept[k - 1], cells[k])
  IN  kept[Len(cells)]

(* consolidate_agent_message: the whole where the first of its pieces was *)
Consolidate(c, i) ==
  LET pieces == {k \in DOMAIN c.cells : Piece(c.cells[k], i)}
  IN IF pieces = {} THEN Commit(c, Cell(i, TRUE))
     ELSE [c EXCEPT !.cells = InsertAt(Kept(@, pieces), Min(pieces), Cell(i, TRUE))]

-------------------------------------------------------------------------------
(* What is live.  cut: the items the client lets go of before they are done,
   or, at an end that is no completion, before they are committed.           *)

(* Mutant: a card of a tool goes whether it has come to its result or not.   *)
DiscardableByKind(card) == card.item.kind \in Tools
Discardable(card) == card.item.kind \in Tools /\ card.blank /\ ~card.final

CommitCard(c, card) ==
  IF card = NoCard \/ Discardable(card) THEN c ELSE Commit(c, Cell(card.item, card.final))

Cut(c, items) == [c EXCEPT !.cut = @ \cup (items \ {NoItem})]

Forget(c) ==
  [Cut(c, {c.live.item, c.stream}) EXCEPT
     !.turn = 0, !.live = NoCard, !.stream = NoItem, !.replayed = {}]

(* ensure_turn *)
Bind(c, t) == [(IF c.turn \in {0, t} THEN c ELSE Forget(c)) EXCEPT !.turn = t]

(* flush_live_tail_if_different: also a card that is discarded counts as shown *)
Flush(c, i) ==
  LET card == c.live
  IN IF card.item \in {NoItem, i} THEN c
     ELSE [CommitCard(Cut(c, IF card.final THEN {} ELSE {card.item}), card) EXCEPT
             !.live = NoCard,
             !.replayed = @ \cup {card.item},
             !.stream = IF @ = card.item THEN NoItem ELSE @]

Turned(c, i) == Flush(Bind(c, i.turn), i)

StartItem(c, i) ==
  IF i.kind = "command" THEN Turned(c, i)
  ELSE [Turned(c, i) EXCEPT !.live = Card(i, TRUE, FALSE)]

(* A delta that ends a paragraph commits what the stream holds back *)
AppendAgentDelta(c, i, closed) ==
  LET streamed == [Turned(c, i) EXCEPT !.live = NoCard, !.stream = i]
  IN IF closed THEN Commit(streamed, Cell(i, FALSE)) ELSE streamed

AppendReasoningDelta(c, i) == [Turned(c, i) EXCEPT !.live = Card(i, FALSE, FALSE)]

(* The output of a tool; of a patch or a command only the metrics *)
AppendToolDelta(c, i) ==
  LET t == Turned(c, i)
  IN IF i.kind \in Tools /\ t.live.item = i THEN [t EXCEPT !.live.blank = FALSE] ELSE t

(* should_replace_live_tool_placeholder: of another call of the same tool *)
Replaces(card, i) == Discardable(card) /\ card.item.kind = i.kind

CompleteAgent(c, i) ==
  LET done == [c EXCEPT !.stream = IF @ = i THEN NoItem ELSE @,
                        !.live = IF @.item = i THEN NoCard ELSE @,
                        !.replayed = @ \cup {i}]
  IN IF c.stream = i \/ i \in c.replayed THEN Consolidate(done, i)
     ELSE Commit(done, Cell(i, TRUE))

CompleteOther(c, i) ==
  IF c.live.item = i \/ Replaces(c.live, i)
  THEN IF i.kind \in Tools \cup {"patch"} THEN [c EXCEPT !.live = Card(i, FALSE, TRUE)]
       ELSE [Commit(c, Cell(i, TRUE)) EXCEPT !.live = NoCard]
  ELSE IF i \in c.replayed THEN c
       ELSE [Commit(c, Cell(i, TRUE)) EXCEPT !.replayed = @ \cup {i}]

CompleteItem(c, i) ==
  LET b == Bind(c, i.turn)
  IN IF i.kind = "text" THEN CompleteAgent(b, i) ELSE CompleteOther(b, i)

(* A turn that completes leaves its last card to the transcript ... *)
CompleteTurn(c) ==
  Forget([CommitCard(Cut(c, IF c.live.final THEN {} ELSE {c.live.item}), c.live) EXCEPT
            !.live = NoCard])

(* ... and one that fails or is cancelled does not *)
AbandonTurn(c) == Commit(Forget(c), Notice)

StartLocalUser(c) == Commit(Forget(c), Notice)

-------------------------------------------------------------------------------
(* The user submits while the view shows no turn, which may be a view of before
   a turn of another client; a refusal is a notice beside the transcript.    *)
Submit ==
  /\ local < MaxLocal
  /\ local' = local + 1 /\ client' = StartLocalUser(client)
  /\ UNCHANGED <<serverVars, finished>>

TurnStarted ==
  /\ pc = "idle" /\ current < MaxTurns
  /\ pc' = "reply" /\ current' = current + 1 /\ client' = Bind(client, current')
  /\ UNCHANGED <<late, streaming, announced, count, local, finished>>

NewItem(kind) == [turn |-> current, n |-> count + 1, kind |-> kind]

(* on_text_delta and on_reasoning_delta: the first one starts the item; a reply
   that is tried again goes on with the items it has                         *)
StartStream(kind) ==
  /\ pc = "reply" /\ kind \notin {i.kind : i \in streaming} /\ count < MaxShown
  /\ streaming' = streaming \cup {NewItem(kind)} /\ count' = count + 1
  /\ client' = StartItem(client, NewItem(kind))
  /\ UNCHANGED <<pc, current, late, announced, local, finished>>

Text(closed) ==
  /\ pc = "reply" /\ Len(client.cells) < MaxCells
  /\ \E i \in streaming : i.kind = "text" /\ client' = AppendAgentDelta(client, i, closed)
  /\ UNCHANGED <<serverVars, local, finished>>

Reasoning ==
  /\ pc = "reply" /\ Len(client.cells) < MaxCells
  /\ \E i \in streaming : i.kind = "reasoning" /\ client' = AppendReasoningDelta(client, i)
  /\ UNCHANGED <<serverVars, local, finished>>

ReplyEnds ==
  /\ pc = "reply"
  /\ pc' = "replied"
  /\ UNCHANGED <<current, late, streaming, announced, count, local, client, finished>>

Complete(i) == finished' = finished \cup {i} /\ client' = CompleteItem(client, i)

(* The text first *)
CompleteStream(i) ==
  /\ pc = "replied" /\ i \in streaming
  /\ i.kind = "text" \/ \A j \in streaming : j.kind # "text"
  /\ streaming' = streaming \ {i} /\ Complete(i)
  /\ UNCHANGED <<pc, current, late, announced, count, local>>

CallsFollow ==
  /\ pc = "replied" /\ streaming = {} /\ count < MaxShown
  /\ pc' = "calls"
  /\ UNCHANGED <<current, late, streaming, announced, count, local, client, finished>>

(* Every call of the reply is announced before the first one runs; one that is
   denied, or that no tool answers, is over at once                          *)
Announce(kind) ==
  /\ pc = "calls" /\ count < MaxShown
  /\ announced' = Append(announced, NewItem(kind)) /\ count' = count + 1
  /\ client' = StartItem(client, NewItem(kind))
  /\ pc' \in {"calls", "denied"}
  /\ UNCHANGED <<current, late, streaming, local, finished>>

Work ==
  /\ pc = "calls"
  /\ pc' = IF announced = <<>> THEN "reply" ELSE "work"
  /\ UNCHANGED <<current, late, streaming, announced, count, local, client, finished>>

(* The calls that run are done in the order they were announced in *)
Running ==
  CASE pc = "denied" -> {Last(announced)} [] pc = "work" -> {Head(announced)} [] OTHER -> {}

Output(i) ==
  /\ i \in Running
  /\ client' = AppendToolDelta(client, i)
  /\ UNCHANGED <<serverVars, local, finished>>

CompleteCall(i) ==
  /\ i \in Running
  /\ announced' = IF pc = "denied" THEN Front(announced) ELSE Tail(announced)
  /\ pc' = CASE pc = "denied" -> "calls" [] announced' = <<>> -> "reply" [] OTHER -> "work"
  /\ Complete(i)
  /\ UNCHANGED <<current, late, streaming, count, local>>

Over == pc' = "idle" /\ late' = FALSE /\ streaming' = {} /\ announced' = <<>>

TurnCompleted ==
  /\ pc = "replied" /\ streaming = {} /\ ~late
  /\ Over /\ client' = CompleteTurn(client)
  /\ UNCHANGED <<current, count, local, finished>>

TurnCancelled ==
  /\ pc # "idle" /\ ~late
  /\ Over /\ client' = AbandonTurn(client)
  /\ UNCHANGED <<current, count, local, finished>>

(* A failure may be told before the last events of the turn *)
TurnFailed ==
  /\ pc # "idle" /\ ~late
  /\ late' = TRUE /\ client' = AbandonTurn(client)
  /\ UNCHANGED <<pc, current, streaming, announced, count, local, finished>>

NothingLeft ==
  /\ late /\ Over
  /\ UNCHANGED <<current, count, local, client, finished>>

Next ==
  \/ Submit \/ TurnStarted \/ Reasoning \/ ReplyEnds \/ CallsFollow \/ Work
  \/ TurnCompleted \/ TurnCancelled \/ TurnFailed \/ NothingLeft
  \/ \E kind \in {"text", "reasoning"} : StartStream(kind)
  \/ \E closed \in BOOLEAN : Text(closed)
  \/ \E i \in streaming : CompleteStream(i)
  \/ \E kind \in CallKinds : Announce(kind)
  \/ \E i \in Running : Output(i) \/ CompleteCall(i)

Spec == Init /\ [][Next]_vars

-------------------------------------------------------------------------------
(* Where an item is told whole: the cell, and the place in it *)
Places(cells, i) ==
  UNION {{k} \X {n \in DOMAIN cells[k].body : cells[k].body[n] = i} :
           k \in {l \in DOMAIN cells : cells[l].whole}}
Once(cells, i) == \E p \in Places(cells, i) : Places(cells, i) = {p}

(* A message that was streamed and completed is in the transcript once, whole,
   and no piece of it stays behind: whatever reasoning, cards or retries came
   between its pieces.                                                       *)
AgentMessageShownOnce ==
  \A i \in finished \ client.cut : i.kind = "text" =>
    /\ Once(client.cells, i)
    /\ \A k \in DOMAIN client.cells : ~Piece(client.cells[k], i)

(* A completed card is shown once, live or committed. *)
CompletedCardShownOnce ==
  \A i \in finished \ client.cut : i.kind # "text" =>
    IF client.live.final /\ client.live.item = i THEN Places(client.cells, i) = {}
    ELSE Once(client.cells, i)
===============================================================================
