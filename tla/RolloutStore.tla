----------------------------- MODULE RolloutStore -----------------------------
(***************************************************************************)
(* The rollout of one conversation on disk: the recorder task that appends *)
(* queued items to the file and rows to the turn index, the flush that     *)
(* reports what went wrong, the loads that parse the file, and the pages   *)
(* that trust the index and rebuild it beside the recorder.  Writes may    *)
(* fail half way and the process may crash at any point.                   *)
(***************************************************************************)
EXTENDS Naturals, Sequences, FiniteSets, Functions

CONSTANTS
  MaxRecords,   \* bound: items recorded
  MaxQueue,   \* bound: commands waiting for the recorder
  Limit       \* turns of a page

VARIABLES
  next,      \* the number of the next item
  cmds,     \* the recorder's commands
  pc, batch, \* append_rollout_items: its step and the items still to write
  newRows,   \* turn_index_rows of this append
  error,     \* last_error
  file,      \* what is on disk: pieces of lines, and newlines
  rows,      \* conversation_turn_index
  readerPc,  \* a page that found no row: it rebuilds the index
  text,      \* the file as that reader saw it
  handled,   \* history: items taken from the queue since the last flush
  gap        \* history: a row was lost, or belongs to an older file
recorderVars == <<next, cmds, pc, batch, newRows, error, handled>>
readerVars == <<readerPc, text>>
vars == <<recorderVars, readerVars, file, rows, gap>>

-------------------------------------------------------------------------------
(* Lines.  A piece is what one write_all got to the disk; the place of a piece
   stands for its byte offset.                                               *)
Item == [id : 1..MaxRecords, start : BOOLEAN]
Newline == [id |-> 0, start |-> FALSE, whole |-> TRUE]
Piece(item, whole) == [id |-> item.id, start |-> item.start, whole |-> whole]
IsNewline(f, i) == f[i].id = 0

(* One item and nothing else is on the line of piece i *)
Sound(f, i) ==
  /\ ~IsNewline(f, i) /\ f[i].whole
  /\ i = 1 \/ IsNewline(f, i - 1)
  /\ i = Len(f) \/ IsNewline(f, i + 1)

(* Only the last line, and only without a newline, may be malformed *)
Parses(f) ==
  \A i \in DOMAIN f :
    \/ IsNewline(f, i) \/ Sound(f, i)
    \/ \A j \in i..Len(f) : ~IsNewline(f, j)

(* The places of the items parse_lines_with_offsets returns *)
Parsed(f) == {i \in DOMAIN f : Sound(f, i)}
Items(f) == {f[i].id : i \in Parsed(f)}
Loaded(f) == IF Parses(f) THEN Items(f) ELSE {}
StartRows(f) == {[turn |-> f[i].id, at |-> i] : i \in {j \in Parsed(f) : f[j].start}}

-------------------------------------------------------------------------------
(* Pages: Limit turns before a turn, or the last ones.  "none" is an index of
   no use, "error" a line that does not parse.                               *)
(* The last n places of S: no n others lie beyond one of them. *)
Last(S, n) == {i \in S : Injection(1..n, {j \in S : j > i}) = {}}
Least(S) == CHOOSE i \in S : \A j \in S : i <= j
Slice(from, to) == SubSeq(file, from, to - 1)

(* Mutant: the row beyond the page, read to know whether there is more, stays. *)
PageStartKeepingExtra(S) == Least(Last(S, Limit + 1))
PageStart(S) == Least(Last(S, Limit))

IndexedPage(before) ==
  LET offset == {r.at : r \in {q \in rows : q.turn = before}}
      S == {r.at : r \in {q \in rows : offset # {} => q.at < Least(offset)}}
      end == Least({Len(file) + 1} \cup offset)
      slice == Slice(PageStart(S), end)
  IN  IF S = {} \/ PageStart(S) >= end THEN [kind |-> "none"]
      ELSE IF ~Parses(slice) THEN [kind |-> "error"]
      ELSE [kind |-> "page", items |-> Items(slice), more |-> Cardinality(S) > Limit]

ScannedPage(before) ==
  LET starts == {r.at : r \in StartRows(file)}
      cut == {i \in starts : file[i].id = before}
      end == Least({Len(file) + 1} \cup cut)
      S == {i \in starts : i < end}
  IN  IF ~Parses(file) THEN [kind |-> "error"]
      ELSE [kind |-> "page", more |-> Cardinality(S) > Limit,
            items |-> Items(Slice(IF S = {} THEN 1 ELSE Least(Last(S, Limit)), end))]

-------------------------------------------------------------------------------
TypeOK ==
  /\ next \in 1..MaxRecords + 1
  /\ cmds \in Seq([op : {"add"}, items : Seq(Item)] \cup [op : {"flush"}])
  /\ pc \in {"idle", "line", "newline", "index", "summary"}
  /\ batch \in Seq(Item) /\ (pc \in {"line", "newline"}) = (batch # <<>>)
  /\ \A r \in newRows : r.at \in DOMAIN file /\ file[r.at].id = r.turn
  /\ error \in BOOLEAN /\ gap \in BOOLEAN
  /\ file \in Seq([id : 0..MaxRecords, start : BOOLEAN, whole : BOOLEAN])
  /\ rows \subseteq [turn : 1..MaxRecords, at : Nat]
  /\ readerPc \in {"idle", "read", "replace"}
  /\ handled \subseteq 1..MaxRecords

Init ==
  /\ next = 1 /\ cmds = <<>> /\ pc = "idle" /\ batch = <<>> /\ newRows = {}
  /\ error = FALSE /\ file = <<>> /\ rows = {}
  /\ readerPc = "idle" /\ text = <<>> /\ handled = {} /\ gap = FALSE

(* record_items: one or two items, a turn starting at any of them *)
Record ==
  /\ Len(cmds) < MaxQueue
  /\ \E n \in {1, 2} :
       /\ next + n <= MaxRecords + 1
       /\ \E starts \in [1..n -> BOOLEAN] :
            cmds' = Append(cmds,
              [op |-> "add",
               items |-> [i \in 1..n |-> [id |-> next + i - 1, start |-> starts[i]]]])
       /\ next' = next + n
  /\ UNCHANGED <<pc, batch, newRows, error, handled, readerVars, file, rows, gap>>

RequestFlush ==
  /\ Len(cmds) < MaxQueue
  /\ cmds' = Append(cmds, [op |-> "flush"])
  /\ UNCHANGED <<next, pc, batch, newRows, error, handled, readerVars, file, rows, gap>>

(* Mutant: an append that goes well forgets the failure of an earlier one.   *)
ReportForgetting(failed) == error' = failed
Report(failed) == error' = (error \/ failed)

(* RolloutCmd::Flush: the failure is told once *)
TakeFlush ==
  /\ pc = "idle" /\ cmds # <<>> /\ Head(cmds).op = "flush"
  /\ cmds' = Tail(cmds)
  /\ error' = FALSE /\ handled' = {}
  /\ UNCHANGED <<next, pc, batch, newRows, readerVars, file, rows, gap>>

(* RolloutCmd::AddItems: append_rollout_items begins *)
TakeItems ==
  /\ pc = "idle" /\ cmds # <<>> /\ Head(cmds).op = "add"
  /\ cmds' = Tail(cmds)
  /\ pc' = "line" /\ batch' = Head(cmds).items /\ newRows' = {}
  /\ handled' = handled \cup {item.id : item \in {batch'[i] : i \in DOMAIN batch'}}
  /\ UNCHANGED <<next, error, readerVars, file, rows, gap>>

WriteLine ==
  /\ pc = "line"
  /\ file' = Append(file, Piece(Head(batch), TRUE))
  /\ newRows' = IF Head(batch).start
                THEN newRows \cup {[turn |-> Head(batch).id, at |-> Len(file')]}
                ELSE newRows
  /\ pc' = "newline"
  /\ UNCHANGED <<next, cmds, batch, error, handled, readerVars, rows, gap>>

WriteNewline ==
  /\ pc = "newline"
  /\ file' = Append(file, Newline)
  /\ batch' = Tail(batch)
  /\ pc' = IF batch' = <<>> THEN "index" ELSE "line"
  /\ UNCHANGED <<next, cmds, newRows, error, handled, readerVars, rows, gap>>

(* append_turn_index_rows: a row replaces that of the same turn *)
IndexRows ==
  /\ pc = "index"
  /\ rows' = {r \in rows : \A q \in newRows : q.turn # r.turn} \cup newRows
  /\ newRows' = {} /\ pc' = "summary"
  /\ UNCHANGED <<next, cmds, batch, error, handled, readerVars, file, gap>>

(* refresh_session_summary_locked parses the whole file again *)
RefreshSummary ==
  /\ pc = "summary"
  /\ pc' = "idle"
  /\ Report(~Parses(file))
  /\ UNCHANGED <<next, cmds, batch, newRows, handled, readerVars, file, rows, gap>>

(* What a failed write, or a crash, leaves of the line that is being written *)
Interrupted ==
  \/ file' = file
  \/ pc = "line" /\ file' = Append(file, Piece(Head(batch), FALSE))

(* An I/O error, or one of the index: append_rollout_items returns it, and
   the rows it did not write never come back                                 *)
AppendFails ==
  /\ pc # "idle"
  /\ Interrupted
  /\ pc' = "idle" /\ batch' = <<>> /\ newRows' = {}
  /\ Report(TRUE)
  /\ gap' = (gap \/ newRows # {})
  /\ UNCHANGED <<next, cmds, handled, readerVars, rows>>

(* The process is killed and started again: queue and error are gone *)
Crash ==
  /\ Interrupted
  /\ cmds' = <<>> /\ pc' = "idle" /\ batch' = <<>> /\ newRows' = {}
  /\ error' = FALSE /\ handled' = {}
  /\ readerPc' = "idle" /\ text' = <<>>
  /\ gap' = (gap \/ newRows # {})
  /\ UNCHANGED <<next, rows>>

(* delete_conversation, under the lock, while items may still be queued *)
Delete ==
  /\ pc = "idle"
  /\ file' = <<>> /\ rows' = {}
  /\ handled' = {}
  /\ gap' = (readerPc # "idle")
  /\ UNCHANGED <<next, cmds, pc, batch, newRows, error, readerVars>>

-------------------------------------------------------------------------------
(* load_rollout_items_page, without the lock: the index was of no use *)
BeginPage(before) ==
  /\ readerPc = "idle"
  /\ IndexedPage(before).kind = "none"
  /\ readerPc' = "read"
  /\ UNCHANGED <<recorderVars, text, file, rows, gap>>

(* rebuild_turn_index_from_path: the text is read and parsed ... *)
ReadText ==
  /\ readerPc = "read"
  /\ IF Parses(file) THEN readerPc' = "replace" /\ text' = file
     ELSE readerPc' = "idle" /\ UNCHANGED text
  /\ UNCHANGED <<recorderVars, file, rows, gap>>

(* ... and the rows in it replace all there are by then *)
ReplaceIndex ==
  /\ readerPc = "replace"
  /\ rows' = StartRows(text)
  /\ gap' = (rows' \cup newRows # StartRows(file) \cup newRows)
  /\ readerPc' = "idle" /\ text' = <<>>
  /\ UNCHANGED <<recorderVars, file>>

Next ==
  \/ Record \/ RequestFlush \/ TakeFlush \/ TakeItems
  \/ WriteLine \/ WriteNewline \/ IndexRows \/ RefreshSummary
  \/ AppendFails \/ Crash \/ Delete
  \/ \E before \in 0..MaxRecords : BeginPage(before)
  \/ ReadText \/ ReplaceIndex

Spec == Init /\ [][Next]_vars

-------------------------------------------------------------------------------
(* A flush that reports no failure has everything recorded since the flush
   before it on disk, where a load finds it, whatever writes failed half way
   since, in this process or an earlier one.                                 *)
FlushMeansLoadable == pc = "idle" /\ ~error => handled \subseteq Loaded(file)

(* As long as no row was lost, or is that of a line torn since, a page taken
   from the index is the one a scan of the file would give.                  *)
PagesAgree ==
  pc = "idle" /\ ~gap /\ Parses(file) /\ rows \subseteq StartRows(file) =>
    \A before \in 0..MaxRecords :
      IndexedPage(before).kind # "none" => IndexedPage(before) = ScannedPage(before)

(* What a load has returned once, later loads return too, until the
   conversation is deleted.  A torn end breaks it: the next append goes on in
   the same line, which is then a malformed line in the middle.              *)
StaysLoadable == [][file' = <<>> \/ Loaded(file) \subseteq Loaded(file')]_vars
===============================================================================
