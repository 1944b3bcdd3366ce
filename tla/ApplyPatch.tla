------------------------------ MODULE ApplyPatch ------------------------------
(***************************************************************************)
(* The apply_patch tool: a parsed patch is checked, every section is        *)
(* planned against the file it names, and only then are the planned files   *)
(* written, one at a time.  A line is a word and the form it is written in: *)
(* 0 plain, 1 with blanks behind it, 2 with blanks around it, 3 with other  *)
(* glyphs for the same characters; the four matchers forgive one form more  *)
(* each.  The text of the patch, directories and encodings are left out.    *)
(***************************************************************************)
EXTENDS Integers, Sequences, FiniteSets, SequencesExt

CONSTANTS
  Words,     \* bound: the words of lines, "" that of a blank line
  MaxLines,  \* bound: lines of a file
  MaxHunk    \* bound: lines of a hunk

VARIABLES
  pc,
  before,    \* history: the files as the tool found them
  disk,
  sections,  \* sections of the patch
  unplanned, \* those of them not planned yet
  plan,      \* PlannedFileChanges not carried out yet
  changed,   \* AppliedPatchDelta.changed_paths
  exact      \* AppliedPatchDelta.exact
vars == <<pc, before, disk, sections, unplanned, plan, changed, exact>>

Plain(w) == [word |-> w, form |-> 0]
Blank == Plain("")
PlainLines == {Plain(w) : w \in Words}
Lines == [word : Words, form : 0..1]

(* The lines of a text, and whether it ends in a newline *)
Text(lines, nl) == [lines |-> lines, nl |-> nl]
EmptyText == Text(<<>>, FALSE)
IsText(t) == IF t.nl THEN t.lines # <<>> ELSE t.lines = <<>> \/ Last(t.lines) # Blank
Texts == {t \in {Text(l, nl) : l \in BoundedSeq(Lines, MaxLines), nl \in BOOLEAN} : IsText(t)}
Absent == Text(<<>>, TRUE)

(* Two names are the same file; a patch compares names *)
Names == {"f", "./f", "g"}
Files == {"f", "g"}
FileOf(name) == IF name = "g" THEN "g" ELSE "f"

-------------------------------------------------------------------------------
(* Finding the lines of a hunk *)
Same(tolerance, l, m) ==
  l.word = m.word /\ (l.form = m.form \/ (l.form <= tolerance /\ m.form <= tolerance))
MatchesAt(tolerance, lines, pattern, i) ==
  \A j \in DOMAIN pattern : Same(tolerance, lines[i + j], pattern[j])

NotFound == -1
Least(S) == CHOOSE i \in S : \A j \in S : i <= j
Lower(i, j) == IF i < j THEN i ELSE j

seek_sequence(lines, pattern, start, eof) ==
  LET last == Len(lines) - Len(pattern)
      first == IF eof THEN last ELSE Lower(start, last)
      At(k) == {i \in first..last : MatchesAt(k, lines, pattern, i)}
      tolerances == {k \in 0..3 : At(k) # {}}
  IN  IF pattern = <<>> THEN Lower(start, Len(lines))
      ELSE IF last < 0 \/ tolerances = {} THEN NotFound
      ELSE Least(At(Least(tolerances)))

(* hunk_blocks: the lines a hunk replaces and what it puts there *)
Block(hunk, ops) ==
  LET kept == SelectSeq(hunk.lines, LAMBDA l : l.op \in ops)
  IN  [i \in DOMAIN kept |-> kept[i].line]
OldBlock(hunk) == Block(hunk, {"", " ", "-"})
NewBlock(hunk) == Block(hunk, {"", " ", "+"})

EndsBlank(block) == block # <<>> /\ Last(block) = Blank
WithoutBlank(block) == IF EndsBlank(block) THEN Front(block) ELSE block

NoContext == [word |-> "no context", form |-> 0]

(* The replacement of one hunk, searched for from line_index on *)
Placed(lines, hunk, line_index) ==
  LET old == OldBlock(hunk)
      whole == seek_sequence(lines, old, line_index, hunk.eof)
      short == seek_sequence(lines, WithoutBlank(old), line_index, hunk.eof)
  IN  IF old = <<>>
      THEN [start |-> Len(lines), len |-> 0, new |-> NewBlock(hunk)]
      ELSE IF whole # NotFound \/ ~EndsBlank(old)
      THEN [start |-> whole, len |-> Len(old), new |-> NewBlock(hunk)]
      ELSE [start |-> short, len |-> Len(old) - 1, new |-> WithoutBlank(NewBlock(hunk))]

(* Mutant: the next hunk is searched for where this one began. *)
AfterStart(hunk, line_index, r) ==
  IF OldBlock(hunk) = <<>> THEN line_index ELSE r.start
After(hunk, line_index, r) ==
  IF OldBlock(hunk) = <<>> THEN line_index ELSE r.start + r.len

compute_replacements(lines, hunks) ==
  LET Add(s, hunk) ==
        LET context == seek_sequence(lines, <<hunk.context>>, s.line_index, FALSE)
            from == IF hunk.context = NoContext THEN s.line_index ELSE context + 1
            r == Placed(lines, hunk, from)
            found == /\ hunk.context = NoContext \/ context # NotFound
                     /\ r.start # NotFound
        IN  IF ~s.ok \/ ~found THEN [s EXCEPT !.ok = FALSE]
            ELSE [ok |-> TRUE, line_index |-> After(hunk, from, r),
                  list |-> Append(s.list, r)]
  IN  FoldLeft(Add, [ok |-> TRUE, line_index |-> 0, list |-> <<>>], hunks)

(* sort_by_key is stable; the last replacement is made first *)
SortedByStart(list, len) ==
  FlattenSeq([i \in 1..(len + 1) |-> SelectSeq(list, LAMBDA r : r.start = i - 1)])
Splice(r, lines) ==
  SubSeq(lines, 1, r.start) \o r.new \o SubSeq(lines, r.start + r.len + 1, Len(lines))
apply_replacements(lines, list) ==
  FoldRight(Splice, SortedByStart(list, Len(lines)), lines)

(* apply_hunks: joining lines whose last is blank gives a newline in its place *)
Joined(lines) ==
  IF ~EndsBlank(lines) THEN Text(lines, FALSE)
  ELSE Text(Front(lines), Len(lines) > 1)
apply_hunks(text, list) ==
  LET next == apply_replacements(text.lines, list)
  IN  Joined(IF text.nl /\ ~EndsBlank(next) THEN Append(next, Blank) ELSE next)

(* render_hunks_as_new_file: lines that are not added are passed over *)
NewText(hunks) ==
  LET added == FlattenSeq([i \in DOMAIN hunks |-> Block(hunks[i], {"+"})])
  IN  Text(added, added # <<>>)
HasBareLine(hunks) == \E i \in DOMAIN hunks :
                         \E j \in DOMAIN hunks[i].lines : hunks[i].lines[j].op = ""

-------------------------------------------------------------------------------
(* Parsed patches *)
Line(op, word) == [op |-> op, line |-> Plain(word)]
Hunk(context, eof, lines) == [context |-> context, eof |-> eof, lines |-> lines]
Simple(lines) == Hunk(NoContext, FALSE, lines)
Section(kind, from, to, hunks) == [kind |-> kind, from |-> from, to |-> to, hunks |-> hunks]

(* One update of one hunk or two, the second shorter, or one line for another,
   with a context or an end of file                                          *)
Bodies == BoundedSeq([op : {" ", "-", "+"}, line : PlainLines], MaxHunk)
Shorter ==
  {l \in Bodies : Len(l) < MaxHunk}
    \cup {<<Line("-", v), Line("+", w)>> : v, w \in Words}
Seconds ==
  {Simple(l) : l \in Shorter} \cup {Hunk(NoContext, TRUE, l) : l \in Shorter}
    \cup {Hunk(Plain(w), FALSE, l) : w \in Words \ {""}, l \in Shorter}
Edits ==
  {<<Section("update", "f", "f", <<Simple(l)>> \o t)>> :
     l \in Bodies \ {<<>>}, t \in {<<>>} \cup {<<h>> : h \in Seconds}}

(* Sections over several names: a hunk that fits a line "a", one that adds a
   line, and one of a line with nothing on it, not even a mark               *)
Swap == Simple(<<Line("-", "a"), Line("+", "")>>)
More == Simple(<<Line("+", "a")>>)
Bare == Simple(<<Line("", "")>>)
SmallSections ==
  {Section("add", n, n, h) : n \in Names, h \in {<<>>, <<More>>, <<Bare>>}}
    \cup {Section("delete", n, n, <<>>) : n \in Names}
    \cup {Section("update", n, m, h) : n, m \in Names, h \in {<<Swap>>, <<More>>, <<Bare>>}}
SmallTexts == {Absent, Text(<<Plain("a")>>, TRUE), Text(<<Plain("a"), Blank>>, TRUE)}

Init ==
  /\ \/ sections \in Edits /\ before \in [Files -> Texts] /\ before["g"] = EmptyText
     \/ sections \in {<<s, t>> : s \in SmallSections, t \in SmallSections}
        /\ before \in [Files -> SmallTexts]
  /\ pc = "check" /\ disk = before
  /\ unplanned = sections /\ plan = <<>> /\ changed = {} /\ exact = TRUE

TypeOK ==
  /\ pc \in {"check", "plan", "write", "refused", "failed", "done", "dropped"}
  /\ \A f \in Files : disk[f] = Absent \/ IsText(disk[f])
  /\ changed \subseteq Names /\ exact \in BOOLEAN
  /\ pc \in {"check", "plan", "refused"} => changed = {} /\ exact

-------------------------------------------------------------------------------
NamesOf(s) == {s.from, s.to}

(* validate_file_patches: no name in two sections *)
Clashing == \E i, j \in DOMAIN sections : i # j /\ NamesOf(sections[i]) \cap NamesOf(sections[j]) # {}
Validate ==
  /\ pc = "check" /\ pc' = IF Clashing THEN "refused" ELSE "plan"
  /\ UNCHANGED <<before, disk, sections, unplanned, plan, changed, exact>>

Write(name, text, source) == [kind |-> "write", name |-> name, text |-> text, source |-> source]
Delete(name) == [kind |-> "delete", name |-> name, text |-> Absent, source |-> name]

(* What plan_file_changes makes of a section: refused, or the changes to make *)
Refusal == [ok |-> FALSE, changes |-> <<>>]
Planned(changes) == [ok |-> TRUE, changes |-> changes]

PlanAdd(s) ==
  IF disk[FileOf(s.to)] # Absent \/ HasBareLine(s.hunks) THEN Refusal
  ELSE Planned(<<Write(s.to, NewText(s.hunks), s.to)>>)
PlanDelete(s) ==
  IF disk[FileOf(s.from)] = Absent THEN Refusal ELSE Planned(<<Delete(s.from)>>)
PlanUpdate(s) ==
  LET text == disk[FileOf(s.from)]
      found == compute_replacements(text.lines, s.hunks)
      next == apply_hunks(text, found.list)
  IN  IF text = Absent \/ ~found.ok THEN Refusal
      ELSE IF next = text /\ FileOf(s.from) = FileOf(s.to) THEN Planned(<<>>)
      ELSE Planned(<<Write(s.to, next, s.from)>>)

PlanSection ==
  /\ pc = "plan" /\ unplanned # <<>>
  /\ LET s == Head(unplanned)
         p == CASE s.kind = "add" -> PlanAdd(s)
                [] s.kind = "delete" -> PlanDelete(s)
                [] s.kind = "update" -> PlanUpdate(s)
     IN  /\ plan' = plan \o p.changes
         /\ pc' = IF p.ok THEN pc ELSE "refused"
  /\ unplanned' = Tail(unplanned)
  /\ UNCHANGED <<before, disk, sections, changed, exact>>
PlanComplete ==
  /\ pc = "plan" /\ unplanned = <<>> /\ pc' = "write"
  /\ UNCHANGED <<before, disk, sections, unplanned, plan, changed, exact>>

Fail == pc' = "failed" /\ UNCHANGED plan
Carry == plan' = Tail(plan) /\ UNCHANGED pc

(* fs::write fails, with any part of the text written *)
(* Mutant: the report stays exact. *)
WriteFailsExactly(f, text) ==
  /\ Fail /\ UNCHANGED <<changed, exact>>
  /\ \E t \in {disk[f], EmptyText, text} : disk' = [disk EXCEPT ![f] = t]
WriteFails(f, text) ==
  /\ Fail /\ exact' = FALSE /\ UNCHANGED changed
  /\ \E t \in {disk[f], EmptyText, text} : disk' = [disk EXCEPT ![f] = t]

(* apply_one_planned_change, a write: the directories, the text, the source *)
Moves(c) == c.kind = "write" /\ FileOf(c.source) # FileOf(c.name)
WriteFile ==
  /\ pc = "write" /\ plan # <<>> /\ Head(plan).kind = "write"
  /\ LET c == Head(plan)
         f == FileOf(c.name)
         src == FileOf(c.source)
     IN  \/ \* create_dir_all fails
            Fail /\ UNCHANGED <<disk, changed, exact>>
         \/ WriteFails(f, c.text)
         \/ /\ changed' = changed \cup {c.name}
            /\ \/ \* remove_file fails
                  /\ Moves(c) /\ Fail /\ exact' = FALSE
                  /\ disk' = [disk EXCEPT ![f] = c.text]
               \/ /\ Moves(c) => disk[src] # Absent
                  /\ Carry /\ UNCHANGED exact
                  /\ disk' = IF Moves(c) THEN [disk EXCEPT ![f] = c.text, ![src] = Absent]
                             ELSE [disk EXCEPT ![f] = c.text]
  /\ UNCHANGED <<before, sections, unplanned>>
DeleteFile ==
  /\ pc = "write" /\ plan # <<>> /\ Head(plan).kind = "delete"
  /\ LET f == FileOf(Head(plan).name)
     IN  \/ Fail /\ UNCHANGED <<disk, changed>>
         \/ /\ disk[f] = Absent /\ Fail /\ UNCHANGED <<disk, changed>>
         \/ /\ disk[f] # Absent /\ Carry
            /\ disk' = [disk EXCEPT ![f] = Absent]
            /\ changed' = changed \cup {Head(plan).name}
  /\ UNCHANGED <<before, sections, unplanned, exact>>
Complete ==
  /\ pc = "write" /\ plan = <<>> /\ pc' = "done"
  /\ UNCHANGED <<before, disk, sections, unplanned, plan, changed, exact>>

(* The turn is interrupted: the call is dropped between two changes *)
Drop ==
  /\ pc \in {"plan", "write"} /\ pc' = "dropped"
  /\ UNCHANGED <<before, disk, sections, unplanned, plan, changed, exact>>

Next == Validate \/ PlanSection \/ PlanComplete \/ WriteFile \/ DeleteFile \/ Complete \/ Drop
Spec == Init /\ [][Next]_vars

-------------------------------------------------------------------------------
(* What a patch asks for *)

(* Where the block of a hunk stands in the lines, every matcher allowed: at
   their end if it says so, and not all before its context.  The code drops a
   blank last line it does not find; if that was the whole block, the hunk is
   taken to stand anywhere.                                                   *)
Places(lines, hunk) ==
  LET Here(old, new) ==
        {[start |-> i, len |-> Len(old), new |-> new] :
           i \in {j \in 0..(Len(lines) - Len(old)) :
                    /\ MatchesAt(3, lines, old, j)
                    /\ hunk.eof /\ old # <<>> => j + Len(old) = Len(lines)
                    /\ hunk.context # NoContext /\ old # <<>> =>
                         \E c \in 1..Lower(j + Len(old), Len(lines)) :
                            Same(3, hunk.context, lines[c])}}
      old == OldBlock(hunk)
  IN  IF old = <<>> THEN {[start |-> Len(lines), len |-> 0, new |-> NewBlock(hunk)]}
      ELSE Here(old, NewBlock(hunk))
             \cup Here(WithoutBlank(old), WithoutBlank(NewBlock(hunk)))

(* Hunks that replace lines do so one behind the other *)
OneBehindTheOther(r) ==
  \A i, j \in DOMAIN r :
    i < j /\ r[i].len > 0 /\ r[j].len > 0 => r[i].start + r[i].len <= r[j].start

(* The lines with every replacement made where it belongs *)
Replaced(lines, r) ==
  FlattenSeq([i \in 1..(Len(lines) + 1) |->
    FlattenSeq([k \in DOMAIN r |-> IF r[k].start = i - 1 THEN r[k].new ELSE <<>>])
      \o IF i > Len(lines) \/ \E k \in DOMAIN r : r[k].start < i /\ i <= r[k].start + r[k].len
         THEN <<>> ELSE <<lines[i]>>])

(* The code takes a newline for the last of the lines when that is blank *)
UpToFinalBlank(lines, wanted) ==
  lines = wanted \/ (EndsBlank(wanted) /\ lines = Front(wanted))

IsSubstitution(text, hunks, result) ==
  \E r \in {f \in [DOMAIN hunks -> UNION {Places(text.lines, hunks[i]) : i \in DOMAIN hunks}] :
              \A i \in DOMAIN hunks : f[i] \in Places(text.lines, hunks[i])} :
     /\ OneBehindTheOther(r)
     /\ UpToFinalBlank(result.lines, Replaced(text.lines, r))

(* A hunk near the end may be found among the lines an earlier one replaces:
   the search starts no later than the last place it can match.              *)
Overlapping(list) ==
  \E i, j \in DOMAIN list : i < j /\ list[j].len > 0 /\ list[j].start < list[i].start + list[i].len

Alone(i) ==
  \A j \in DOMAIN sections : i # j =>
     {FileOf(n) : n \in NamesOf(sections[i])} \cap {FileOf(n) : n \in NamesOf(sections[j])} = {}

(* An update reported done has put every hunk's new lines in the place of its
   old ones, in the hunks' order, and nothing else into the file: the search
   under four matchers, the context and end-of-file rules, the retry without a
   blank line, the sort and the replacement from the back agree.  Hunks that
   overlap and sections that name one file twice are excluded: the code
   accepts both and loses lines.                                             *)
DoneMeansSubstituted ==
  pc = "done" => \A i \in DOMAIN sections :
    LET s == sections[i]
        text == before[FileOf(s.from)]
    IN  s.kind = "update" /\ Alone(i)
          /\ ~Overlapping(compute_replacements(text.lines, s.hunks).list) =>
          /\ IsSubstitution(text, s.hunks, disk[FileOf(s.to)])
          /\ FileOf(s.from) # FileOf(s.to) => disk[FileOf(s.from)] = Absent

(* Until something fails, and after a failure reported exact, a file that is
   not what it was belongs to a reported path or is the source of a reported
   move, and a refused patch has changed nothing; so a turn dropped half way
   leaves whole files.                                                       *)
ReportIsTheDisk ==
  /\ pc \in {"check", "plan", "refused"} => disk = before
  /\ exact => \A f \in Files : disk[f] # before[f] =>
       \E i \in DOMAIN sections : f \in {FileOf(n) : n \in NamesOf(sections[i])}
                                    /\ sections[i].to \in changed
===============================================================================
