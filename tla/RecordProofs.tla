------------------------------ MODULE RecordProofs -----------------------------
(***************************************************************************)
(* Proofs about the history a turn leaves (TurnRecord): what the provider  *)
(* is sent pairs each call of a tool with its output, and a restart tells  *)
(* the model the same.                                                     *)
(***************************************************************************)
EXTENDS ConversationProofs

(***************************************************************************)
(* TurnRecord: requests are paired                                         *)
(***************************************************************************)

(* x is an answer that made call c; what is behind place p are outputs; c has
   no output yet and one put at the end would be read as its answer's.       *)
Made(x, c) == x.kind = "assistant" /\ \E k \in DOMAIN x.calls : x.calls[k] = c
Behind(s, p) == \A q \in DOMAIN s : p < q => s[q].kind = "tool"
Awaits(s, c) ==
  ~Record!HasOutput(s, c) /\ \E p \in DOMAIN s : Made(s[p], c) /\ Behind(s, p)

(* Each output stands in the run behind the answer that made its call; a call
   has one output; answers are numbered, up to n, and number their calls.    *)
Owned(s) ==
  \A i \in DOMAIN s : s[i].kind = "tool" =>
    \E j \in DOMAIN s : /\ j < i /\ Made(s[j], s[i].call)
                        /\ \A k \in DOMAIN s : j < k /\ k < i => s[k].kind = "tool"
OneOutput(s) ==
  \A i, j \in DOMAIN s :
    s[i].kind = "tool" /\ s[j].kind = "tool" /\ s[i].call = s[j].call => i = j
Numbered(x, n) == x.answer <= n /\ \A k \in DOMAIN x.calls : x.calls[k] = <<x.answer, k>>
Counted(s, n) == \A i \in DOMAIN s : s[i].kind = "assistant" => Numbered(s[i], n)
OneAnswer(s) ==
  \A i, j \in DOMAIN s :
    s[i].kind = "assistant" /\ s[j].kind = "assistant" /\ s[i].answer = s[j].answer => i = j
Paired(s, n) == s \in Lines /\ Owned(s) /\ OneOutput(s) /\ Counted(s, n) /\ OneAnswer(s)

(* The places of outputs behind a sequence, and what has an output then. *)
LEMMA BehindPlaces ==
  ASSUME NEW s \in Lines, NEW q \in Lines
  PROVE  \A k \in DOMAIN q : /\ Len(s) + k \in DOMAIN (s \o q) /\ (s \o q)[Len(s) + k] = q[k]
                             /\ k \in Nat
  <1>1. /\ Len(s \o q) = Len(s) + Len(q) /\ Len(s) \in Nat /\ Len(q) \in Nat
        /\ s \o q \in Seq(Entries)
        /\ \A i \in 1..(Len(s) + Len(q)) :
             (s \o q)[i] = IF i <= Len(s) THEN s[i] ELSE q[i - Len(s)]
    BY ConcatProperties DEF Lines
  <1>2. DOMAIN q = 1..Len(q) /\ DOMAIN (s \o q) = 1..(Len(s) + Len(q))
    BY <1>1 DEF Lines
  <1>3. ASSUME NEW k \in 1..Len(q)
        PROVE  /\ Len(s) + k \in 1..(Len(s) + Len(q)) /\ ~(Len(s) + k <= Len(s))
               /\ (Len(s) + k) - Len(s) = k /\ k \in Nat
    BY <1>1
  <1> QED BY <1>1, <1>2, <1>3

LEMMA OutputsTell ==
  ASSUME NEW s \in Lines, NEW q \in Lines, NEW c
  PROVE  Record!HasOutput(s \o q, c) <=> Record!HasOutput(s, c) \/ Record!HasOutput(q, c)
  <1> DEFINE r == s \o q
  <1>1. /\ \A k \in DOMAIN r : \/ k \in DOMAIN s /\ r[k] = s[k]
                               \/ k - Len(s) \in DOMAIN q /\ r[k] = q[k - Len(s)]
        /\ \A k \in DOMAIN s : k \in DOMAIN r /\ r[k] = s[k]
        /\ \A k \in DOMAIN q : Len(s) + k \in DOMAIN r /\ r[Len(s) + k] = q[k]
    BY Places, BehindPlaces
  <1> HIDE DEF r
  <1>2. Record!HasOutput(r, c) => Record!HasOutput(s, c) \/ Record!HasOutput(q, c)
    BY <1>1 DEF Record!HasOutput
  <1>3. Record!HasOutput(s, c) \/ Record!HasOutput(q, c) => Record!HasOutput(r, c)
    BY <1>1 DEF Record!HasOutput
  <1> QED BY <1>2, <1>3 DEF r

(* Outputs of calls that await theirs pair. *)
LEMMA OutputsPair ==
  ASSUME NEW n, NEW s, Paired(s, n), NEW q \in Lines,
         \A i \in DOMAIN q : q[i].kind = "tool" /\ Awaits(s, q[i].call),
         OneOutput(q)
  PROVE  /\ Paired(s \o q, n)
         /\ \A p \in DOMAIN s : Behind(s, p) => Behind(s \o q, p)
         /\ \A c : Awaits(s, c) /\ ~Record!HasOutput(q, c) => Awaits(s \o q, c)
  <1> DEFINE r == s \o q
  <1>0. s \in Lines /\ Owned(s) /\ OneOutput(s) /\ Counted(s, n) /\ OneAnswer(s)
    BY DEF Paired
  <1>1. /\ r \in Lines /\ DOMAIN r \subseteq Nat /\ Len(s) \in Nat
        /\ \A k \in DOMAIN r : \/ k \in DOMAIN s /\ r[k] = s[k]
                               \/ /\ k - Len(s) \in DOMAIN q /\ r[k] = q[k - Len(s)] /\ k > Len(s)
                                  /\ r[k].kind = "tool" /\ Awaits(s, r[k].call)
        /\ \A k \in DOMAIN s : k \in DOMAIN r /\ k <= Len(s) /\ r[k] = s[k]
    <2>1. /\ r \in Lines /\ DOMAIN r \subseteq Nat /\ Len(s) \in Nat
          /\ \A k \in DOMAIN r :
               \/ k \in DOMAIN s /\ r[k] = s[k]
               \/ k - Len(s) \in DOMAIN q /\ r[k] = q[k - Len(s)] /\ k > Len(s)
          /\ \A k \in DOMAIN s : k \in DOMAIN r /\ k <= Len(s) /\ r[k] = s[k]
      BY <1>0, Places
    <2> HIDE DEF r
    <2> QED BY <2>1
  <1>2. \A c : Record!HasOutput(r, c) <=> Record!HasOutput(s, c) \/ Record!HasOutput(q, c)
    BY <1>0, OutputsTell
  <1> HIDE DEF r
  <1>3. \A p \in DOMAIN s : Behind(s, p) => Behind(r, p)
    BY <1>1 DEF Behind
  <1>4. Owned(r)
    <2> SUFFICES ASSUME NEW i \in DOMAIN r, r[i].kind = "tool"
                 PROVE  \E j \in DOMAIN r :
                          /\ j < i /\ Made(r[j], r[i].call)
                          /\ \A k \in DOMAIN r : j < k /\ k < i => r[k].kind = "tool"
      BY DEF Owned
    <2>1. CASE i \in DOMAIN s /\ r[i] = s[i]
      <3>1. PICK j \in DOMAIN s :
              /\ j < i /\ Made(s[j], s[i].call)
              /\ \A k \in DOMAIN s : j < k /\ k < i => s[k].kind = "tool"
        BY <1>0, <2>1 DEF Owned
      <3>2. \A k \in DOMAIN r : k < i => k \in DOMAIN s /\ r[k] = s[k]
        BY <1>1, <2>1
      <3> QED BY <1>1, <2>1, <3>1, <3>2
    <2>2. CASE i > Len(s) /\ Awaits(s, r[i].call)
      <3>1. PICK j \in DOMAIN s : Made(s[j], r[i].call) /\ Behind(s, j)
        BY <2>2 DEF Awaits
      <3>2. Behind(r, j) /\ j \in DOMAIN r /\ r[j] = s[j] /\ j < i
        BY <1>1, <1>3, <2>2, <3>1
      <3> QED BY <3>1, <3>2 DEF Behind
    <2> QED BY <1>1, <2>1, <2>2
  <1>5. OneOutput(r)
    <2> SUFFICES ASSUME NEW i \in DOMAIN r, NEW j \in DOMAIN r,
                        r[i].kind = "tool", r[j].kind = "tool", r[i].call = r[j].call
                 PROVE  i = j
      BY DEF OneOutput
    <2>1. CASE i \in DOMAIN s /\ r[i] = s[i] /\ j \in DOMAIN s /\ r[j] = s[j]
      BY <1>0, <2>1 DEF OneOutput
    <2>2. CASE /\ i - Len(s) \in DOMAIN q /\ r[i] = q[i - Len(s)]
               /\ j - Len(s) \in DOMAIN q /\ r[j] = q[j - Len(s)]
      <3>1. i - Len(s) = j - Len(s)
        BY <2>2 DEF OneOutput
      <3> QED BY <1>1, <3>1
    <2>3. CASE i \in DOMAIN s /\ r[i] = s[i] /\ Awaits(s, r[j].call)
      BY <2>3 DEF Awaits, Record!HasOutput
    <2>4. CASE j \in DOMAIN s /\ r[j] = s[j] /\ Awaits(s, r[i].call)
      BY <2>4 DEF Awaits, Record!HasOutput
    <2> QED BY <1>1, <2>1, <2>2, <2>3, <2>4
  <1>6. \A i \in DOMAIN r : r[i].kind = "assistant" => i \in DOMAIN s /\ r[i] = s[i]
    BY <1>1
  <1>7. Counted(r, n) /\ OneAnswer(r)
    BY <1>0, <1>6 DEF Counted, OneAnswer
  <1>8. ASSUME NEW c, Awaits(s, c), ~Record!HasOutput(q, c) PROVE Awaits(r, c)
    <2>1. PICK p \in DOMAIN s : Made(s[p], c) /\ Behind(s, p)
      BY <1>8 DEF Awaits
    <2>2. p \in DOMAIN r /\ r[p] = s[p] /\ Behind(r, p)
      BY <1>1, <1>3, <2>1
    <2>3. ~Record!HasOutput(r, c)
      BY <1>2, <1>8 DEF Awaits
    <2> QED BY <2>1, <2>2, <2>3 DEF Awaits
  <1> QED BY <1>1, <1>3, <1>4, <1>5, <1>7, <1>8 DEF Paired, r

LEMMA AppendedAt ==
  ASSUME NEW s \in Lines, NEW x \in Entries
  PROVE  /\ Append(s, x) \in Lines /\ DOMAIN Append(s, x) \subseteq Nat /\ Len(s) \in Nat
         /\ \A k \in DOMAIN Append(s, x) :
               \/ k \in DOMAIN s /\ Append(s, x)[k] = s[k] /\ k < Len(s) + 1
               \/ k = Len(s) + 1 /\ Append(s, x)[k] = x
         /\ \A k \in DOMAIN s : k \in DOMAIN Append(s, x) /\ Append(s, x)[k] = s[k]
         /\ Len(s) + 1 \in DOMAIN Append(s, x) /\ Append(s, x)[Len(s) + 1] = x
  <1> DEFINE r == Append(s, x)
  <1>1. /\ s \in Seq(Entries) /\ r \in Seq(Entries) /\ Len(s) \in Nat
        /\ \A k \in DOMAIN r :
              \/ k \in DOMAIN s /\ r[k] = s[k] /\ k < Len(s) + 1
              \/ k = Len(s) + 1 /\ r[k] = x
    BY AppendPlaces DEF Lines
  <1>2. DOMAIN r = 1..(Len(s) + 1) /\ DOMAIN s = 1..Len(s) /\ r[Len(s) + 1] = x
    BY DEF Lines
  <1>3. \A k \in 1..Len(s) : k \in 1..(Len(s) + 1) /\ k # Len(s) + 1
    BY <1>1
  <1>4. Len(s) + 1 \in 1..(Len(s) + 1)
    BY <1>1
  <1> HIDE DEF r
  <1> QED BY <1>1, <1>2, <1>3, <1>4 DEF Lines, r

(* One more entry that is no output, an answer with a number of its own. *)
Fresh(s, x, n) ==
  x.kind = "assistant" =>
    Numbered(x, n) /\ \A i \in DOMAIN s : s[i].kind = "assistant" => s[i].answer # x.answer

LEMMA EntryPairs ==
  ASSUME NEW n, NEW s, Paired(s, n), NEW x \in Entries, x.kind # "tool", Fresh(s, x, n)
  PROVE  /\ Paired(Append(s, x), n)
         /\ \A c : Record!HasOutput(Append(s, x), c) <=> Record!HasOutput(s, c)
         /\ \A c : Made(x, c) => Awaits(Append(s, x), c)
  <1> DEFINE r == Append(s, x)
  <1>0. s \in Lines /\ Owned(s) /\ OneOutput(s) /\ Counted(s, n) /\ OneAnswer(s)
    BY DEF Paired
  <1>1. /\ r \in Lines /\ DOMAIN r \subseteq Nat /\ Len(s) \in Nat
        /\ \A k \in DOMAIN r : \/ k \in DOMAIN s /\ r[k] = s[k] /\ k < Len(s) + 1
                               \/ k = Len(s) + 1 /\ r[k] = x
        /\ \A k \in DOMAIN s : k \in DOMAIN r /\ r[k] = s[k]
        /\ Len(s) + 1 \in DOMAIN r /\ r[Len(s) + 1] = x
    BY <1>0, AppendedAt
  <1> HIDE DEF r
  <1>2. \A c : Record!HasOutput(r, c) <=> Record!HasOutput(s, c)
    BY <1>1 DEF Record!HasOutput
  <1>3. Owned(r)
    <2> SUFFICES ASSUME NEW i \in DOMAIN r, r[i].kind = "tool"
                 PROVE  \E j \in DOMAIN r :
                          /\ j < i /\ Made(r[j], r[i].call)
                          /\ \A k \in DOMAIN r : j < k /\ k < i => r[k].kind = "tool"
      BY DEF Owned
    <2>1. i \in DOMAIN s /\ r[i] = s[i] /\ i < Len(s) + 1
      BY <1>1
    <2>2. PICK j \in DOMAIN s :
            /\ j < i /\ Made(s[j], s[i].call)
            /\ \A k \in DOMAIN s : j < k /\ k < i => s[k].kind = "tool"
      BY <1>0, <2>1 DEF Owned
    <2>3. \A k \in DOMAIN r : k < i => k \in DOMAIN s /\ r[k] = s[k]
      BY <1>1, <2>1
    <2> QED BY <1>1, <2>1, <2>2, <2>3
  <1>4. OneOutput(r)
    BY <1>0, <1>1 DEF OneOutput
  <1>5. Counted(r, n)
    BY <1>0, <1>1 DEF Counted, Fresh
  <1>6. OneAnswer(r)
    BY <1>0, <1>1 DEF OneAnswer, Fresh
  <1>7. ASSUME NEW c, Made(x, c) PROVE Awaits(r, c)
    <2>1. ASSUME NEW i \in DOMAIN s, s[i].kind = "tool", s[i].call = c PROVE FALSE
      <3>1. PICK j \in DOMAIN s : Made(s[j], c)
        BY <1>0, <2>1 DEF Owned
      <3>2. \E k : c = <<s[j].answer, k>>
        BY <1>0, <3>1 DEF Made, Counted, Numbered
      <3>3. \E k : c = <<x.answer, k>>
        BY <1>7 DEF Made, Fresh, Numbered
      <3>4. s[j].answer = x.answer
        BY <3>2, <3>3
      <3> QED BY <1>7, <3>1, <3>4 DEF Made, Fresh
    <2>2. ~Record!HasOutput(r, c)
      BY <1>2, <2>1 DEF Record!HasOutput
    <2>3. Behind(r, Len(s) + 1)
      BY <1>1 DEF Behind
    <2> QED BY <1>1, <1>7, <2>2, <2>3 DEF Awaits
  <1> QED BY <1>1, <1>2, <1>3, <1>4, <1>5, <1>6, <1>7 DEF Paired, r

LEMMA PrefixPairs ==
  ASSUME NEW n, NEW s \in Lines, NEW q \in Lines, Paired(s \o q, n)
  PROVE  Paired(s, n)
  <1> DEFINE r == s \o q
  <1>0. Owned(r) /\ OneOutput(r) /\ Counted(r, n) /\ OneAnswer(r)
    BY DEF Paired
  <1>1. /\ \A k \in DOMAIN s : k \in DOMAIN r /\ k <= Len(s) /\ r[k] = s[k]
        /\ \A k \in DOMAIN r : k \in DOMAIN s \/ k > Len(s)
        /\ DOMAIN r \subseteq Nat /\ Len(s) \in Nat
    BY Places
  <1> HIDE DEF r
  <1>2. Owned(s)
    <2> SUFFICES ASSUME NEW i \in DOMAIN s, s[i].kind = "tool"
                 PROVE  \E j \in DOMAIN s :
                          /\ j < i /\ Made(s[j], s[i].call)
                          /\ \A k \in DOMAIN s : j < k /\ k < i => s[k].kind = "tool"
      BY DEF Owned
    <2>1. PICK j \in DOMAIN r :
            /\ j < i /\ Made(r[j], r[i].call)
            /\ \A k \in DOMAIN r : j < k /\ k < i => r[k].kind = "tool"
      BY <1>0, <1>1 DEF Owned
    <2>2. j \in DOMAIN s
      BY <1>1, <2>1
    <2> QED BY <1>1, <2>1, <2>2
  <1> QED BY <1>0, <1>1, <1>2 DEF Paired, OneOutput, Counted, OneAnswer

LEMMA MorePairs ==
  ASSUME NEW n \in Nat, NEW s, Paired(s, n)
  PROVE  Paired(s, n + 1) /\ \A i \in DOMAIN s : s[i].kind = "assistant" => s[i].answer # n + 1
  <1>1. \A i \in DOMAIN s : s[i].kind = "assistant" => s[i].answer \in Nat
    <2>1. \A i \in DOMAIN s : s[i] \in Entries
      BY DEF Paired, Lines
    <2> QED BY <2>1 DEF Entries
  <1>2. Counted(s, n)
    BY DEF Paired
  <1>3. \A a \in Nat : a <= n => a <= n + 1 /\ a # n + 1
    OBVIOUS
  <1> QED BY <1>1, <1>2, <1>3 DEF Paired, Counted, Numbered

LEMMA NonePair == \A n : Paired(<<>>, n)
  BY DEF Paired, Lines, Owned, OneOutput, Counted, OneAnswer

LEMMA MarkerPairs ==
  ASSUME NEW n, NEW s, Paired(s, n)
  PROVE  Paired(Record!Marked(s), n) /\ Paired(Append(s, Record!Marker), n)
  <1>1. Record!Marker \in Entries /\ Record!Marker.kind = "marker"
    BY SomeEntries DEF Record!Marker
  <1>2. Paired(Append(s, Record!Marker), n)
    BY <1>1, EntryPairs DEF Fresh
  <1> QED BY <1>2 DEF Record!Marked

(* The recursions, as they are defined. *)
MissingOf(s, cs) ==
  CHOOSE f : f = [k \in 0..Len(cs) |->
                    IF k = 0 THEN <<>>
                    ELSE IF Record!HasOutput(s, cs[k]) THEN f[k - 1]
                    ELSE Append(f[k - 1], Record!Output(cs[k], "aborted"))]
FilledOf(s) ==
  CHOOSE f : f = [k \in 0..Len(s) |->
                    IF k = 0 THEN <<>>
                    ELSE IF s[k].kind = "assistant"
                    THEN Append(f[k - 1], s[k]) \o Record!Missing(s, s[k].calls)
                    ELSE Append(f[k - 1], s[k])]
NoAcc == [msgs |-> <<>>, turn |-> <<>>]
ReplayedOf(s) ==
  CHOOSE f : f = [k \in 0..Len(s) |->
                    IF k = 0 THEN NoAcc ELSE Record!Replay(f[k - 1], s[k])]

LEMMA RecordFolds ==
  ASSUME NEW s, NEW cs
  PROVE  /\ Record!Missing(s, cs) = MissingOf(s, cs)[Len(cs)]
         /\ Record!EnsureOutputs(s) = FilledOf(s)[Len(s)]
         /\ Record!Reconstructed(s) =
              Record!EnsureOutputs(Record!FlushTurn(ReplayedOf(s)[Len(s)], "open").msgs)
  BY DEF Record!Missing, MissingOf, Record!EnsureOutputs, FilledOf, Record!Reconstructed,
         ReplayedOf, NoAcc

(* What is chosen is a solution, as there is one. *)
LEMMA MissingUnfolds ==
  ASSUME NEW s, NEW cs \in Seq(Call)
  PROVE  /\ MissingOf(s, cs)[0] = <<>>
         /\ \A k \in 1..Len(cs) :
              MissingOf(s, cs)[k] =
                IF Record!HasOutput(s, cs[k]) THEN MissingOf(s, cs)[k - 1]
                ELSE Append(MissingOf(s, cs)[k - 1], Record!Output(cs[k], "aborted"))
  <1> DEFINE n == Len(cs)
             V == Lines
             nil == <<>>
             Step(v, k) == IF Record!HasOutput(s, cs[k]) THEN v
                           ELSE Append(v, Record!Output(cs[k], "aborted"))
             step == [k \in 1..n |-> [v \in V |-> Step(v, k)]]
             Full(f) == f = [k \in 0..n |-> IF k = 0 THEN nil ELSE Step(f[k - 1], k)]
             F == MissingOf(s, cs)
  <1>1. n \in Nat /\ nil \in V
    BY DEF Lines
  <1>2. \A k \in 1..n : \A v \in V : Step(v, k) \in V
    <2>1. "aborted" \in Outcomes /\ \A k \in 1..n : cs[k] \in Call
      BY DEF Outcomes
    <2>2. \A k \in 1..n : Record!Output(cs[k], "aborted") \in Entries
      BY <2>1, SomeEntries
    <2> QED BY <2>2 DEF Lines
  <1>3. F = CHOOSE f : Full(f)
    BY DEF MissingOf
  <1> HIDE DEF n, V, nil, Step, F
  <1>4. \E f : Full(f)
    <2>1. step \in [1..n -> [V -> V]]
      BY <1>2
    <2>2. PICK f : Solves(f, V, n, nil, step)
      <3> HIDE DEF step
      <3> QED BY <1>1, <2>1, RecursionHasOne
    <2>3. /\ f \in [0..n -> V] /\ f[0] = nil
          /\ \A k \in 1..n : k - 1 \in 0..n /\ f[k] = step[k][f[k - 1]]
      BY <1>1, <2>2 DEF Solves
    <2>4. \A k \in 1..n : f[k] = Step(f[k - 1], k)
      BY <2>3
    <2>5. \A k \in 0..n : k = 0 \/ k \in 1..n
      BY <1>1
    <2>6. Full(f)
      BY <2>3, <2>4, <2>5
    <2> QED BY <2>6
  <1>5. Full(F)
    <2> HIDE DEF Full
    <2> QED BY <1>3, <1>4
  <1>6. 0 \in 0..n /\ \A k \in 1..n : k \in 0..n /\ k # 0
    BY <1>1
  <1>7. F[0] = nil /\ \A k \in 1..n : F[k] = Step(F[k - 1], k)
    BY <1>5, <1>6
  <1> QED BY <1>7 DEF n, nil, Step, F

(* m completes the first k of the calls cs for which s holds no output. *)
Differ(cs) == \A k, l \in DOMAIN cs : cs[k] = cs[l] => k = l
Fills(s, cs, k, m) ==
  /\ m \in Lines /\ (Differ(cs) => OneOutput(m))
  /\ \A i \in DOMAIN m : /\ m[i].kind = "tool" /\ ~Record!HasOutput(s, m[i].call)
                         /\ \E l \in 1..k : cs[l] = m[i].call
  /\ \A l \in 1..k : Record!HasOutput(s, cs[l]) \/ Record!HasOutput(m, cs[l])

LEMMA MissingFills ==
  ASSUME NEW s, NEW cs \in Seq(Call)
  PROVE  Fills(s, cs, Len(cs), Record!Missing(s, cs))
  <1> DEFINE n == Len(cs)
             F == MissingOf(s, cs)
             Good == {k \in 0..n : Fills(s, cs, k, F[k])}
  <1>1. /\ n \in Nat /\ DOMAIN cs = 1..n
        /\ F[0] = <<>>
        /\ \A k \in 1..n :
             F[k] = IF Record!HasOutput(s, cs[k]) THEN F[k - 1]
                    ELSE Append(F[k - 1], Record!Output(cs[k], "aborted"))
    BY MissingUnfolds
  <1> HIDE DEF n, F
  <1>2. 0 \in Good
    <2>1. <<>> \in Lines /\ DOMAIN <<>> = {} /\ 1..0 = {} /\ 0 \in 0..n
      BY <1>1 DEF Lines
    <2>2. Fills(s, cs, 0, <<>>)
      BY <2>1 DEF Fills, OneOutput
    <2> QED BY <1>1, <2>1, <2>2
  <1>3. ASSUME NEW k \in 1..n, k - 1 \in Good PROVE k \in Good
    <2> DEFINE m == F[k - 1]
               x == Record!Output(cs[k], "aborted")
    <2>1. /\ k \in 0..n /\ k \in Nat /\ k \in 1..k
          /\ \A l \in 1..(k - 1) : l \in 1..k /\ l # k /\ l \in DOMAIN cs
          /\ \A l \in 1..k : l = k \/ l \in 1..(k - 1)
      BY <1>1
    <2>2. Fills(s, cs, k - 1, m)
      BY <1>3
    <2>3. x \in Entries /\ x.kind = "tool" /\ x.call = cs[k]
      <3>1. "aborted" \in Outcomes /\ cs[k] \in Call
        BY <1>1 DEF Outcomes
      <3> QED BY <3>1, SomeEntries DEF Record!Output
    <2> HIDE DEF m, x
    <2>4. CASE Record!HasOutput(s, cs[k])
      <3>1. F[k] = m
        BY <1>1, <2>4 DEF m
      <3>2. Fills(s, cs, k, m)
        BY <2>1, <2>2, <2>4 DEF Fills
      <3> QED BY <2>1, <3>1, <3>2
    <2>5. CASE ~Record!HasOutput(s, cs[k])
      <3> DEFINE r == Append(m, x)
      <3>1. F[k] = r
        BY <1>1, <2>5 DEF m, x
      <3>2. /\ m \in Lines /\ (Differ(cs) => OneOutput(m))
            /\ \A i \in DOMAIN m : /\ m[i].kind = "tool" /\ ~Record!HasOutput(s, m[i].call)
                                   /\ \E l \in 1..(k - 1) : cs[l] = m[i].call
            /\ \A l \in 1..(k - 1) : Record!HasOutput(s, cs[l]) \/ Record!HasOutput(m, cs[l])
        BY <2>2 DEF Fills
      <3>3. /\ r \in Lines
            /\ \A i \in DOMAIN r : \/ i \in DOMAIN m /\ r[i] = m[i]
                                   \/ i = Len(m) + 1 /\ r[i] = x
            /\ \A i \in DOMAIN m : i \in DOMAIN r /\ r[i] = m[i]
            /\ Len(m) + 1 \in DOMAIN r /\ r[Len(m) + 1] = x
        BY <2>3, <3>2, AppendedAt
      <3> HIDE DEF r
      <3>4. \A i \in DOMAIN r : /\ r[i].kind = "tool" /\ ~Record!HasOutput(s, r[i].call)
                                /\ \E l \in 1..k : cs[l] = r[i].call
        BY <2>1, <2>3, <2>5, <3>2, <3>3
      <3>5. \A l \in 1..k : Record!HasOutput(s, cs[l]) \/ Record!HasOutput(r, cs[l])
        BY <2>1, <2>3, <3>2, <3>3 DEF Record!HasOutput
      <3>6. ASSUME Differ(cs) PROVE OneOutput(r)
        <4>1. \A i \in DOMAIN m : m[i].call # cs[k]
          <5>1. k \in DOMAIN cs
            BY <1>1
          <5> QED BY <2>1, <3>2, <3>6, <5>1 DEF Differ
        <4> QED BY <2>3, <3>2, <3>3, <3>6, <4>1 DEF OneOutput
      <3>7. Fills(s, cs, k, r)
        BY <3>3, <3>4, <3>5, <3>6 DEF Fills
      <3> QED BY <2>1, <3>1, <3>7
    <2> QED BY <2>4, <2>5
  <1>4. n \in Good
    <2>1. \A k \in 1..n : k - 1 \in Good => k \in Good
      BY <1>3
    <2>2. n \in 0..n
      BY <1>1
    <2> HIDE DEF Good
    <2> QED BY <1>1, <1>2, <2>1, <2>2, UpTo
  <1> QED BY <1>4, RecordFolds DEF n, F

LEMMA FilledUnfolds ==
  ASSUME NEW s \in Lines
  PROVE  /\ FilledOf(s)[0] = <<>>
         /\ \A k \in 1..Len(s) :
              FilledOf(s)[k] =
                IF s[k].kind = "assistant"
                THEN Append(FilledOf(s)[k - 1], s[k]) \o Record!Missing(s, s[k].calls)
                ELSE Append(FilledOf(s)[k - 1], s[k])
  <1> DEFINE n == Len(s)
             V == Lines
             nil == <<>>
             Step(v, k) == IF s[k].kind = "assistant"
                           THEN Append(v, s[k]) \o Record!Missing(s, s[k].calls)
                           ELSE Append(v, s[k])
             step == [k \in 1..n |-> [v \in V |-> Step(v, k)]]
             Full(f) == f = [k \in 0..n |-> IF k = 0 THEN nil ELSE Step(f[k - 1], k)]
             F == FilledOf(s)
  <1>1. n \in Nat /\ nil \in V
    BY DEF Lines
  <1>2. \A k \in 1..n : \A v \in V : Step(v, k) \in V
    <2> SUFFICES ASSUME NEW k \in 1..n, NEW v \in Lines PROVE Step(v, k) \in Lines
      OBVIOUS
    <2>1. s[k] \in Entries
      BY DEF Lines
    <2>2. Append(v, s[k]) \in Lines
      BY <2>1 DEF Lines
    <2>3. ASSUME s[k].kind = "assistant" PROVE Record!Missing(s, s[k].calls) \in Lines
      <3>1. s[k].calls \in Seq(Call)
        BY <2>1, <2>3 DEF Entries
      <3> QED BY <3>1, MissingFills DEF Fills
    <2> QED BY <2>2, <2>3, Places
  <1>3. F = CHOOSE f : Full(f)
    BY DEF FilledOf
  <1> HIDE DEF n, V, nil, Step, F
  <1>4. \E f : Full(f)
    <2>1. step \in [1..n -> [V -> V]]
      BY <1>2
    <2>2. PICK f : Solves(f, V, n, nil, step)
      <3> HIDE DEF step
      <3> QED BY <1>1, <2>1, RecursionHasOne
    <2>3. /\ f \in [0..n -> V] /\ f[0] = nil
          /\ \A k \in 1..n : k - 1 \in 0..n /\ f[k] = step[k][f[k - 1]]
      BY <1>1, <2>2 DEF Solves
    <2>4. \A k \in 1..n : f[k] = Step(f[k - 1], k)
      BY <2>3
    <2>5. \A k \in 0..n : k = 0 \/ k \in 1..n
      BY <1>1
    <2>6. Full(f)
      BY <2>3, <2>4, <2>5
    <2> QED BY <2>6
  <1>5. Full(F)
    <2> HIDE DEF Full
    <2> QED BY <1>3, <1>4
  <1>6. 0 \in 0..n /\ \A k \in 1..n : k \in 0..n /\ k # 0
    BY <1>1
  <1>7. F[0] = nil /\ \A k \in 1..n : F[k] = Step(F[k - 1], k)
    BY <1>5, <1>6
  <1> QED BY <1>7 DEF n, nil, Step, F

(* What replaying has gathered so far, and what it holds as a whole. *)
Accs == [msgs : Lines, turn : Lines]
Whole(acc) == acc.msgs \o acc.turn

LEMMA MarkedIsLines == \A s \in Lines : Record!Marked(s) \in Lines
  <1>1. Record!Marker \in Entries
    BY SomeEntries
  <1> QED BY <1>1 DEF Record!Marked, Lines

(* A flush keeps the whole, marks it, or drops what the turn has so far. *)
LEMMA FlushIs ==
  ASSUME NEW acc \in Accs, NEW how
  PROVE  /\ Record!FlushTurn(acc, how) \in Accs
         /\ Record!FlushTurn(acc, how).turn = <<>>
         /\ Record!FlushTurn(acc, how).msgs \in {acc.msgs, Whole(acc), Record!Marked(Whole(acc))}
         /\ how = "open" => Record!FlushTurn(acc, how).msgs = Whole(acc)
  <1> DEFINE all == acc.msgs \o acc.turn
             r == Record!FlushTurn(acc, how)
  <1>1. acc.msgs \in Lines /\ acc.turn \in Lines /\ all \in Lines
    BY Places DEF Accs
  <1>2. acc.turn = <<>> => all = acc.msgs
    BY <1>1, ConcatEmptySeq DEF Lines
  <1>3. Record!Marked(all) \in Lines /\ <<>> \in Lines
    <2>1. Record!Marked(all) \in Lines
      BY <1>1, MarkedIsLines
    <2> QED BY <2>1 DEF Lines
  <1> HIDE DEF all
  <1>4. /\ r = [turn |-> <<>>, msgs |-> r.msgs]
        /\ r.msgs \in {acc.msgs, all, Record!Marked(all)}
        /\ how = "open" => r.msgs = all
    BY <1>2 DEF Record!FlushTurn, all
  <1>5. r \in Accs
    BY <1>1, <1>3, <1>4 DEF Accs
  <1> HIDE DEF r
  <1>6. r \in Accs /\ r.turn = <<>> /\ r.msgs \in {acc.msgs, all, Record!Marked(all)}
        /\ (how = "open" => r.msgs = all)
    BY <1>4, <1>5
  <1> QED BY <1>6 DEF Whole, all, r

LEMMA AppendsWhole ==
  ASSUME NEW s \in Lines, NEW q \in Lines, NEW x \in Entries
  PROVE  s \o Append(q, x) = Append(s \o q, x)
  <1>1. <<x>> \in Lines /\ s \o q \in Lines
    BY Places DEF Lines
  <1>2. Append(q, x) = q \o <<x>> /\ Append(s \o q, x) = (s \o q) \o <<x>>
    BY <1>1, AppendIsConcat DEF Lines
  <1> QED BY <1>1, <1>2, Regrouped

(* One entry replayed. *)
LEMMA ReplayIs ==
  ASSUME NEW acc \in Accs, NEW x \in Entries
  PROVE  /\ Record!Replay(acc, x) \in Accs
         /\ IF Record!IsItem(x)
            THEN Whole(Record!Replay(acc, x)) = Append(Whole(acc), x)
            ELSE Whole(Record!Replay(acc, x))
                   \in {acc.msgs, Whole(acc), Record!Marked(Whole(acc))}
  <1> DEFINE W == Whole(acc)
             r == Record!Replay(acc, x)
  <1>1. /\ acc.msgs \in Lines /\ acc.turn \in Lines /\ W \in Lines
        /\ acc = [msgs |-> acc.msgs, turn |-> acc.turn]
    BY Places DEF Accs, Whole
  <1>2. <<x>> \in Lines /\ <<>> \in Lines
    BY DEF Lines
  <1>3. \A s \in Lines : s \o <<>> = s
    BY ConcatEmptySeq DEF Lines
  <1>4. acc.turn = <<>> => W = acc.msgs
    BY <1>1, <1>3 DEF Whole
  <1>5. \A m, t \in Lines : [msgs |-> m, turn |-> t] \in Accs
    BY DEF Accs
  <1>6. \A m, t : Whole([msgs |-> m, turn |-> t]) = m \o t
    BY DEF Whole
  <1>7. W \o <<x>> = Append(W, x) /\ Append(W, x) \in Lines
    BY <1>1, AppendIsConcat DEF Lines
  <1>8. x.kind \in {"user", "started", "marker", "assistant", "tool", "ended"}
    BY DEF Entries
  <1>9. CASE x.kind \in {"user", "marker"}
    <2> DEFINE v == Record!FlushTurn(acc, "open")
    <2>1. r = [v EXCEPT !.turn = <<x>>]
      BY <1>9 DEF Record!Replay
    <2>2. v \in Accs /\ v.msgs = W
      BY FlushIs
    <2> HIDE DEF v
    <2>3. r = [msgs |-> W, turn |-> <<x>>]
      BY <2>1, <2>2 DEF Accs
    <2>4. Record!IsItem(x)
      BY <1>9 DEF Record!IsItem
    <2>5. r \in Accs
      BY <1>1, <1>2, <1>5, <2>3
    <2>6. Whole(r) = W \o <<x>>
      BY <1>6, <2>3
    <2> QED BY <1>7, <2>4, <2>5, <2>6
  <1>10. CASE x.kind \in {"assistant", "tool"}
    <2>1. r = IF acc.turn # <<>> THEN [acc EXCEPT !.turn = Append(@, x)]
              ELSE [acc EXCEPT !.msgs = Append(@, x)]
      BY <1>10 DEF Record!Replay
    <2>2. Record!IsItem(x)
      BY <1>10 DEF Record!IsItem
    <2>3. Append(acc.msgs, x) \in Lines /\ Append(acc.turn, x) \in Lines
      BY <1>1, AppendedAt
    <2> HIDE DEF r
    <2>4. CASE acc.turn # <<>>
      <3>1. r = [msgs |-> acc.msgs, turn |-> Append(acc.turn, x)]
        BY <1>1, <2>1, <2>4
      <3>2. Whole(r) = acc.msgs \o Append(acc.turn, x)
        BY <1>6, <3>1
      <3>3. Whole(r) = Append(W, x)
        BY <1>1, <3>2, AppendsWhole DEF Whole
      <3>4. r \in Accs
        BY <1>1, <1>5, <2>3, <3>1
      <3> QED BY <2>2, <3>3, <3>4 DEF r
    <2>5. CASE acc.turn = <<>>
      <3>1. r = [msgs |-> Append(acc.msgs, x), turn |-> <<>>]
        BY <1>1, <2>1, <2>5
      <3>2. Whole(r) = Append(acc.msgs, x) \o <<>>
        BY <1>6, <3>1
      <3>3. Whole(r) = Append(W, x)
        BY <1>3, <1>4, <2>3, <2>5, <3>2
      <3>4. r \in Accs
        BY <1>2, <1>5, <2>3, <3>1
      <3> QED BY <2>2, <3>3, <3>4 DEF r
    <2> QED BY <2>4, <2>5
  <1>11. CASE x.kind = "ended"
    <2>1. r = IF acc.turn = <<>> /\ x.how = "cancelled"
              THEN [acc EXCEPT !.msgs = Record!Marked(@)]
              ELSE Record!FlushTurn(acc, x.how)
      BY <1>11 DEF Record!Replay
    <2>2. ~Record!IsItem(x)
      BY <1>11 DEF Record!IsItem
    <2> HIDE DEF r
    <2>3. CASE acc.turn = <<>> /\ x.how = "cancelled"
      <3>1. r = [msgs |-> Record!Marked(acc.msgs), turn |-> <<>>]
        BY <1>1, <2>1, <2>3
      <3>2. Record!Marked(acc.msgs) \in Lines
        BY <1>1, MarkedIsLines
      <3>3. Whole(r) = Record!Marked(acc.msgs) \o <<>>
        BY <1>6, <3>1
      <3>4. Whole(r) = Record!Marked(W)
        BY <1>3, <1>4, <2>3, <3>2, <3>3
      <3>5. r \in Accs
        BY <1>2, <1>5, <3>1, <3>2
      <3> QED BY <2>2, <3>4, <3>5 DEF r
    <2>4. CASE ~(acc.turn = <<>> /\ x.how = "cancelled")
      <3>1. r = Record!FlushTurn(acc, x.how)
        BY <2>1, <2>4
      <3>2. r \in Accs /\ r.turn = <<>> /\ r.msgs \in {acc.msgs, W, Record!Marked(W)}
        BY <3>1, FlushIs
      <3>3. Whole(r) = r.msgs
        BY <1>3, <3>2 DEF Whole, Accs
      <3> QED BY <2>2, <3>2, <3>3 DEF r
    <2> QED BY <2>3, <2>4
  <1>12. CASE x.kind = "started"
    <2>1. r = acc
      BY <1>12 DEF Record!Replay
    <2>2. ~Record!IsItem(x)
      BY <1>12 DEF Record!IsItem
    <2> QED BY <2>1, <2>2
  <1> QED BY <1>8, <1>9, <1>10, <1>11, <1>12

LEMMA ReplayedUnfolds ==
  ASSUME NEW s \in Lines
  PROVE  /\ ReplayedOf(s)[0] = NoAcc
         /\ \A k \in 1..Len(s) : ReplayedOf(s)[k] = Record!Replay(ReplayedOf(s)[k - 1], s[k])
         /\ \A k \in 0..Len(s) : ReplayedOf(s)[k] \in Accs
  <1> DEFINE n == Len(s)
             V == Accs
             Step(v, k) == Record!Replay(v, s[k])
             step == [k \in 1..n |-> [v \in V |-> Step(v, k)]]
             Full(f) == f = [k \in 0..n |-> IF k = 0 THEN NoAcc ELSE Step(f[k - 1], k)]
             F == ReplayedOf(s)
  <1>1. n \in Nat /\ NoAcc \in V
    BY DEF Lines, NoAcc, Accs
  <1>2. \A k \in 1..n : \A v \in V : Step(v, k) \in V
    <2>1. \A k \in 1..n : s[k] \in Entries
      BY DEF Lines
    <2> QED BY <2>1, ReplayIs
  <1>3. F = CHOOSE f : Full(f)
    BY DEF ReplayedOf
  <1> HIDE DEF n, V, Step, F
  <1>4. \E f : Full(f)
    <2>1. step \in [1..n -> [V -> V]]
      BY <1>2
    <2>2. PICK f : Solves(f, V, n, NoAcc, step)
      <3> HIDE DEF step
      <3> QED BY <1>1, <2>1, RecursionHasOne
    <2>3. /\ f \in [0..n -> V] /\ f[0] = NoAcc
          /\ \A k \in 1..n : k - 1 \in 0..n /\ f[k] = step[k][f[k - 1]]
      BY <1>1, <2>2 DEF Solves
    <2>4. \A k \in 1..n : f[k] = Step(f[k - 1], k)
      BY <2>3
    <2>5. \A k \in 0..n : k = 0 \/ k \in 1..n
      BY <1>1
    <2>6. Full(f)
      BY <2>3, <2>4, <2>5
    <2> QED BY <2>6
  <1>5. Full(F)
    <2> HIDE DEF Full
    <2> QED BY <1>3, <1>4
  <1>6. 0 \in 0..n /\ \A k \in 1..n : k \in 0..n /\ k # 0
    BY <1>1
  <1>7. F[0] = NoAcc /\ \A k \in 1..n : F[k] = Step(F[k - 1], k)
    BY <1>5, <1>6
  <1>8. \A k \in 0..n : F[k] \in V
    <2> DEFINE Good == {k \in 0..n : F[k] \in V}
    <2>1. 0 \in Good
      BY <1>1, <1>6, <1>7
    <2>2. \A k \in 1..n : k - 1 \in Good => k \in Good
      BY <1>2, <1>6, <1>7
    <2>3. \A k \in 0..n : k \in Good
      <3> HIDE DEF Good
      <3> QED BY <1>1, <2>1, <2>2, UpTo
    <2> QED BY <2>3
  <1> QED BY <1>7, <1>8 DEF n, V, Step, F

(* w pairs; its answers are among the first k entries of s, its outputs too, or
   of calls that have none in s; and the answer the next output of s would be
   behind is behind nothing but outputs.                                      *)
AnswersFrom(s, k, w) ==
  \A p \in DOMAIN w : w[p].kind = "assistant" => \E j \in 1..k : s[j] = w[p]
OutputsFrom(s, k, w) ==
  \A p \in DOMAIN w : w[p].kind = "tool" =>
    (\E j \in 1..k : s[j] = w[p]) \/ ~Record!HasOutput(s, w[p].call)
LastBehind(s, k, w) ==
  \A j \in 1..k :
    s[j].kind = "assistant" /\ (\A l \in 1..k : j < l => s[l].kind = "tool") =>
      \E p \in DOMAIN w : w[p] = s[j] /\ Behind(w, p)
Gathers(s, k, n, w) ==
  Paired(w, n) /\ AnswersFrom(s, k, w) /\ OutputsFrom(s, k, w) /\ LastBehind(s, k, w)

LEMMA OneGathers ==
  ASSUME NEW n, NEW s, Paired(s, n), NEW k \in 1..Len(s), NEW w, Gathers(s, k - 1, n, w)
  PROVE  /\ Gathers(s, k, n, Append(w, s[k]))
         /\ \A c : Made(s[k], c) => Awaits(Append(w, s[k]), c)
  <1> DEFINE x == s[k]
             r == Append(w, x)
  <1>1. /\ s \in Lines /\ DOMAIN s = 1..Len(s) /\ Len(s) \in Nat /\ x \in Entries
        /\ Owned(s) /\ OneOutput(s) /\ Counted(s, n) /\ OneAnswer(s)
    BY DEF Paired, Lines
  <1>2. /\ Paired(w, n) /\ AnswersFrom(s, k - 1, w) /\ OutputsFrom(s, k - 1, w)
        /\ LastBehind(s, k - 1, w) /\ w \in Lines
    BY DEF Gathers, Paired
  <1>3. /\ k \in Nat /\ k \in DOMAIN s /\ k \in 1..k
        /\ \A j \in 1..(k - 1) : j \in 1..k /\ j \in DOMAIN s /\ j < k
        /\ \A j \in 1..k : j = k \/ j \in 1..(k - 1)
        /\ \A j \in 1..k : j <= k
        /\ \A j \in DOMAIN s : j < k => j \in 1..(k - 1)
    BY <1>1
  <1>4. /\ r \in Lines /\ DOMAIN r \subseteq Nat /\ Len(w) \in Nat
        /\ \A p \in DOMAIN r : \/ p \in DOMAIN w /\ r[p] = w[p] /\ p < Len(w) + 1
                               \/ p = Len(w) + 1 /\ r[p] = x
        /\ \A p \in DOMAIN w : p \in DOMAIN r /\ r[p] = w[p]
        /\ Len(w) + 1 \in DOMAIN r /\ r[Len(w) + 1] = x
    BY <1>1, <1>2, AppendedAt
  <1>5. s[k] = x
    OBVIOUS
  <1> HIDE DEF r, x
  <1>6. AnswersFrom(s, k, r)
    BY <1>2, <1>3, <1>4, <1>5 DEF AnswersFrom
  <1>7. OutputsFrom(s, k, r)
    BY <1>2, <1>3, <1>4, <1>5 DEF OutputsFrom
  <1>8. Behind(r, Len(w) + 1)
    BY <1>4 DEF Behind
  <1>9. LastBehind(s, k, r)
    <2> SUFFICES ASSUME NEW j \in 1..k, s[j].kind = "assistant",
                        \A l \in 1..k : j < l => s[l].kind = "tool"
                 PROVE  \E p \in DOMAIN r : r[p] = s[j] /\ Behind(r, p)
      BY DEF LastBehind
    <2>1. CASE j = k
      BY <1>4, <1>5, <1>8, <2>1
    <2>2. CASE j \in 1..(k - 1)
      <3>1. \A l \in 1..(k - 1) : j < l => s[l].kind = "tool"
        BY <1>3
      <3>2. PICK p \in DOMAIN w : w[p] = s[j] /\ Behind(w, p)
        BY <1>2, <2>2, <3>1 DEF LastBehind
      <3>3. x.kind = "tool"
        BY <1>3, <1>5, <2>2
      <3>4. Behind(r, p)
        BY <1>4, <3>2, <3>3 DEF Behind
      <3> QED BY <1>4, <3>2, <3>4
    <2> QED BY <1>3, <2>1, <2>2
  <1>10. CASE x.kind = "tool"
    <2> DEFINE q == <<x>>
    <2>1. q \in Lines /\ DOMAIN q = {1} /\ q[1] = x
      BY <1>1 DEF Lines
    <2>2. PICK j \in DOMAIN s : /\ j < k /\ Made(s[j], x.call)
                                /\ \A l \in DOMAIN s : j < l /\ l < k => s[l].kind = "tool"
      BY <1>1, <1>3, <1>5, <1>10 DEF Owned
    <2>3. j \in 1..(k - 1) /\ s[j].kind = "assistant"
          /\ \A l \in 1..(k - 1) : j < l => s[l].kind = "tool"
      BY <1>3, <2>2 DEF Made
    <2>4. PICK p \in DOMAIN w : w[p] = s[j] /\ Behind(w, p)
      BY <1>2, <2>3 DEF LastBehind
    <2>5. ASSUME NEW i \in DOMAIN w, w[i].kind = "tool", w[i].call = x.call PROVE FALSE
      <3>1. Record!HasOutput(s, x.call)
        BY <1>3, <1>5, <1>10 DEF Record!HasOutput
      <3>2. PICK l \in 1..(k - 1) : s[l] = w[i]
        BY <1>2, <2>5, <3>1 DEF OutputsFrom
      <3>3. l = k
        BY <1>1, <1>3, <1>5, <1>10, <2>5, <3>2 DEF OneOutput
      <3> QED BY <1>3, <3>2, <3>3
    <2>6. Awaits(w, x.call)
      BY <2>2, <2>4, <2>5 DEF Awaits, Record!HasOutput
    <2>7. OneOutput(q) /\ \A i \in DOMAIN q : q[i].kind = "tool" /\ Awaits(w, q[i].call)
      BY <1>10, <2>1, <2>6 DEF OneOutput
    <2>8. w \o q = r
      BY <1>1, <1>2, AppendIsConcat DEF Lines, r, x
    <2> HIDE DEF q
    <2>9. Paired(r, n)
      BY <1>2, <2>1, <2>7, <2>8, OutputsPair
    <2>10. \A c : ~Made(x, c)
      BY <1>10 DEF Made
    <2> QED BY <1>6, <1>7, <1>9, <2>9, <2>10 DEF Gathers, r, x
  <1>11. CASE x.kind # "tool"
    <2>1. Fresh(w, x, n)
      <3> SUFFICES ASSUME x.kind = "assistant"
                   PROVE  /\ Numbered(x, n)
                          /\ \A i \in DOMAIN w : w[i].kind = "assistant" => w[i].answer # x.answer
        BY DEF Fresh
      <3>1. Numbered(x, n)
        BY <1>1, <1>3, <1>5 DEF Counted
      <3>2. ASSUME NEW i \in DOMAIN w, w[i].kind = "assistant", w[i].answer = x.answer
            PROVE  FALSE
        <4>1. PICK j \in 1..(k - 1) : s[j] = w[i]
          BY <1>2, <3>2 DEF AnswersFrom
        <4>2. j = k
          BY <1>1, <1>3, <1>5, <3>2, <4>1 DEF OneAnswer
        <4> QED BY <1>3, <4>1, <4>2
      <3> QED BY <3>1, <3>2
    <2>2. Paired(r, n) /\ \A c : Made(x, c) => Awaits(r, c)
      BY <1>1, <1>2, <1>11, <2>1, EntryPairs DEF r
    <2> QED BY <1>6, <1>7, <1>9, <2>2 DEF Gathers, r, x
  <1> QED BY <1>10, <1>11

(* The outputs that are missing behind it. *)
LEMMA OutputsGather ==
  ASSUME NEW n, NEW s, NEW k, NEW w, Gathers(s, k, n, w), NEW q \in Lines, OneOutput(q),
         \A i \in DOMAIN q : /\ q[i].kind = "tool" /\ Awaits(w, q[i].call)
                             /\ ~Record!HasOutput(s, q[i].call)
  PROVE  Gathers(s, k, n, w \o q)
  <1> DEFINE r == w \o q
  <1>1. /\ Paired(w, n) /\ AnswersFrom(s, k, w) /\ OutputsFrom(s, k, w) /\ LastBehind(s, k, w)
        /\ w \in Lines
    BY DEF Gathers, Paired
  <1>2. Paired(r, n) /\ \A p \in DOMAIN w : Behind(w, p) => Behind(r, p)
    BY <1>1, OutputsPair
  <1>3. /\ \A p \in DOMAIN r : \/ p \in DOMAIN w /\ r[p] = w[p]
                               \/ r[p].kind = "tool" /\ ~Record!HasOutput(s, r[p].call)
        /\ \A p \in DOMAIN w : p \in DOMAIN r /\ r[p] = w[p]
    <2>1. /\ \A p \in DOMAIN r : \/ p \in DOMAIN w /\ r[p] = w[p]
                                 \/ p - Len(w) \in DOMAIN q /\ r[p] = q[p - Len(w)]
          /\ \A p \in DOMAIN w : p \in DOMAIN r /\ r[p] = w[p]
      BY <1>1, Places
    <2> HIDE DEF r
    <2> QED BY <2>1
  <1> HIDE DEF r
  <1>4. AnswersFrom(s, k, r)
    BY <1>1, <1>3 DEF AnswersFrom
  <1>5. OutputsFrom(s, k, r)
    BY <1>1, <1>3 DEF OutputsFrom
  <1>6. LastBehind(s, k, r)
    BY <1>1, <1>2, <1>3 DEF LastBehind
  <1> QED BY <1>2, <1>4, <1>5, <1>6 DEF Gathers, r

(* An entry after which no output comes. *)
LEMMA OtherGathers ==
  ASSUME NEW n, NEW s, NEW k \in Nat \ {0}, s[k].kind \notin {"assistant", "tool"},
         NEW w, Gathers(s, k - 1, n, w), NEW r, Paired(r, n),
         \A p \in DOMAIN r : r[p].kind \in {"assistant", "tool"} =>
           \E j \in DOMAIN w : w[j] = r[p]
  PROVE  Gathers(s, k, n, r)
  <1>1. AnswersFrom(s, k - 1, w) /\ OutputsFrom(s, k - 1, w)
    BY DEF Gathers
  <1>2. /\ \A j \in 1..(k - 1) : j \in 1..k /\ j < k
        /\ \A j \in 1..k : j = k \/ j \in 1..(k - 1)
        /\ k \in 1..k
    OBVIOUS
  <1>3. AnswersFrom(s, k, r)
    BY <1>1, <1>2 DEF AnswersFrom
  <1>4. OutputsFrom(s, k, r)
    <2> SUFFICES ASSUME NEW p \in DOMAIN r, r[p].kind = "tool"
                 PROVE  (\E j \in 1..k : s[j] = r[p]) \/ ~Record!HasOutput(s, r[p].call)
      BY DEF OutputsFrom
    <2>1. PICK i \in DOMAIN w : w[i] = r[p]
      OBVIOUS
    <2> QED BY <1>1, <1>2, <2>1 DEF OutputsFrom
  <1>5. LastBehind(s, k, r)
    BY <1>2 DEF LastBehind
  <1> QED BY <1>3, <1>4, <1>5 DEF Gathers

(* The outputs among the first k entries of s are in w, and each call w holds
   has an output there or further on in s.                                    *)
Finishes(s, k, w) ==
  /\ \A j \in 1..k : s[j].kind = "tool" => Record!HasOutput(w, s[j].call)
  /\ \A p \in DOMAIN w : \A c :
       Made(w[p], c) => Record!HasOutput(w, c) \/ Record!HasOutput(s, c)
Answered(s) == \A p \in DOMAIN s : \A c : Made(s[p], c) => Record!HasOutput(s, c)

LEMMA OneCompletes ==
  ASSUME NEW s \in Lines, NEW k \in 1..Len(s), NEW w \in Lines, Finishes(s, k - 1, w),
         NEW q \in Lines, \A i \in DOMAIN q : q[i].kind = "tool",
         \A c : Made(s[k], c) => Record!HasOutput(s, c) \/ Record!HasOutput(q, c)
  PROVE  Finishes(s, k, Append(w, s[k]) \o q)
  <1> DEFINE x == s[k]
             a == Append(w, x)
             r == a \o q
  <1>1. x \in Entries /\ k \in Nat /\ \A j \in 1..k : j = k \/ j \in 1..(k - 1)
    BY DEF Lines
  <1>2. /\ a \in Lines
        /\ \A p \in DOMAIN a : \/ p \in DOMAIN w /\ a[p] = w[p]
                               \/ a[p] = x
        /\ \A p \in DOMAIN w : p \in DOMAIN a /\ a[p] = w[p]
        /\ Len(w) + 1 \in DOMAIN a /\ a[Len(w) + 1] = x
    BY ZenonT(60), <1>1, AppendedAt
  <1> HIDE DEF a
  <1>3. \A p \in DOMAIN r : \/ p \in DOMAIN a /\ r[p] = a[p]
                            \/ p - Len(a) \in DOMAIN q /\ r[p] = q[p - Len(a)]
    BY <1>2, Places
  <1>4. \A c : Record!HasOutput(r, c) <=> Record!HasOutput(a, c) \/ Record!HasOutput(q, c)
    BY <1>2, OutputsTell
  <1> HIDE DEF r
  <1>5. \A c : Record!HasOutput(w, c) => Record!HasOutput(a, c)
    BY <1>2 DEF Record!HasOutput
  <1>6. x.kind = "tool" => Record!HasOutput(a, x.call)
    BY <1>2 DEF Record!HasOutput
  <1>7. \A p \in DOMAIN r : r[p].kind = "tool" \/ r[p] = x \/ \E i \in DOMAIN w : r[p] = w[i]
    BY <1>2, <1>3
  <1>8. \A p \in DOMAIN r : \A c :
          Made(r[p], c) => Made(x, c) \/ \E i \in DOMAIN w : Made(w[i], c)
    BY <1>7 DEF Made
  <1>9. \A c : Made(x, c) => Record!HasOutput(s, c) \/ Record!HasOutput(q, c)
    OBVIOUS
  <1> HIDE DEF x
  <1>10. ASSUME NEW j \in 1..k, s[j].kind = "tool" PROVE Record!HasOutput(r, s[j].call)
    BY <1>1, <1>4, <1>5, <1>6, <1>10 DEF Finishes, x
  <1>11. ASSUME NEW p \in DOMAIN r, NEW c, Made(r[p], c)
         PROVE  Record!HasOutput(r, c) \/ Record!HasOutput(s, c)
    BY <1>4, <1>5, <1>8, <1>9, <1>11 DEF Finishes
  <1> QED BY <1>10, <1>11 DEF Finishes, r, a, x

(* ensure_tool_outputs_present keeps what pairs, and leaves no call without. *)
LEMMA EnsurePairs ==
  ASSUME NEW n, NEW s, Paired(s, n)
  PROVE  Paired(Record!EnsureOutputs(s), n) /\ Answered(Record!EnsureOutputs(s))
  <1> DEFINE F == FilledOf(s)
             m == Len(s)
             Good == {k \in 0..m : Gathers(s, k, n, F[k]) /\ Finishes(s, k, F[k])}
  <1>1. s \in Lines /\ DOMAIN s = 1..m /\ m \in Nat
    BY DEF Paired, Lines
  <1>2. /\ F[0] = <<>>
        /\ \A k \in 1..m :
             F[k] = IF s[k].kind = "assistant"
                    THEN Append(F[k - 1], s[k]) \o Record!Missing(s, s[k].calls)
                    ELSE Append(F[k - 1], s[k])
    BY <1>1, FilledUnfolds
  <1>3. \A k \in 1..m : k \in 0..m /\ k \in 1..Len(s) /\ s[k] \in Entries
    BY <1>1 DEF Lines
  <1> HIDE DEF F, m
  <1>4. 0 \in Good
    <2>1. Paired(<<>>, n) /\ DOMAIN <<>> = {} /\ 1..0 = {} /\ 0 \in 0..m
      BY <1>1, NonePair
    <2>2. Gathers(s, 0, n, <<>>)
      BY <2>1 DEF Gathers, AnswersFrom, OutputsFrom, LastBehind
    <2>3. Finishes(s, 0, <<>>)
      BY <2>1 DEF Finishes
    <2> QED BY <1>2, <2>1, <2>2, <2>3
  <1>5. ASSUME NEW k \in 1..m, k - 1 \in Good PROVE k \in Good
    <2> DEFINE w == F[k - 1]
               x == s[k]
    <2>1. Gathers(s, k - 1, n, w) /\ Finishes(s, k - 1, w)
      BY <1>5
    <2>2. w \in Lines /\ k \in 1..Len(s) /\ x \in Entries /\ k \in DOMAIN s /\ k \in 0..m
      BY <1>1, <1>3, <2>1 DEF Gathers, Paired
    <2>3. x = s[k]
      OBVIOUS
    <2> HIDE DEF w, x
    <2>4. Gathers(s, k, n, Append(w, x)) /\ \A c : Made(x, c) => Awaits(Append(w, x), c)
      BY <2>1, <2>2, <2>3, OneGathers
    <2>5. CASE x.kind = "assistant"
      <3> DEFINE q == Record!Missing(s, x.calls)
                 a == Append(w, x)
      <3>1. x.calls \in Seq(Call)
        BY <2>2, <2>5 DEF Entries
      <3>2. Differ(x.calls)
        BY <2>2, <2>3, <2>5 DEF Paired, Counted, Numbered, Differ
      <3>3. Fills(s, x.calls, Len(x.calls), q) /\ DOMAIN x.calls = 1..Len(x.calls)
        BY <3>1, MissingFills
      <3> HIDE DEF q
      <3>4. /\ q \in Lines /\ OneOutput(q)
            /\ \A i \in DOMAIN q : /\ q[i].kind = "tool" /\ ~Record!HasOutput(s, q[i].call)
                                   /\ Made(x, q[i].call)
            /\ \A c : Made(x, c) => Record!HasOutput(s, c) \/ Record!HasOutput(q, c)
        BY <2>5, <3>2, <3>3 DEF Fills, Made
      <3>5. Gathers(s, k, n, a \o q)
        <4>1. Gathers(s, k, n, a) /\ \A c : Made(x, c) => Awaits(a, c)
          BY <2>4
        <4> HIDE DEF a
        <4> QED BY <3>4, <4>1, OutputsGather
      <3>6. Finishes(s, k, a \o q)
        BY <1>1, <2>1, <2>2, <2>3, <3>4, OneCompletes
      <3>7. F[k] = a \o q
        BY <1>2, <2>3, <2>5 DEF q, w
      <3> QED BY <2>2, <3>5, <3>6, <3>7
    <2>6. CASE x.kind # "assistant"
      <3> DEFINE a == Append(w, x)
      <3>1. F[k] = a
        BY <1>2, <2>3, <2>6 DEF w
      <3>2. <<>> \in Lines /\ DOMAIN <<>> = {} /\ a \in Lines
        BY <2>2, AppendedAt DEF Lines
      <3>3. \A c : ~Made(x, c)
        BY <2>6 DEF Made
      <3>4. Finishes(s, k, a \o <<>>)
        BY <1>1, <2>1, <2>2, <2>3, <3>2, <3>3, OneCompletes
      <3>5. a \o <<>> = a
        BY <3>2, ConcatEmptySeq DEF Lines
      <3> QED BY <2>2, <2>4, <3>1, <3>4, <3>5
    <2> QED BY <2>5, <2>6
  <1>6. m \in Good
    <2>1. \A k \in 1..m : k - 1 \in Good => k \in Good
      BY <1>5
    <2>2. m \in 0..m
      BY <1>1
    <2> HIDE DEF Good
    <2> QED BY <1>1, <1>4, <2>1, <2>2, UpTo
  <1> DEFINE r == F[m]
  <1>7. Paired(r, n) /\ Finishes(s, m, r)
    BY <1>6 DEF Gathers
  <1>8. Record!EnsureOutputs(s) = r
    BY RecordFolds DEF F, m
  <1> HIDE DEF r
  <1>9. \A c : Record!HasOutput(s, c) => Record!HasOutput(r, c)
    <2>1. \A j \in DOMAIN s : s[j].kind = "tool" => Record!HasOutput(r, s[j].call)
      BY <1>1, <1>7 DEF Finishes
    <2> QED BY <2>1 DEF Record!HasOutput
  <1>10. Answered(r)
    BY <1>7, <1>9 DEF Finishes, Answered
  <1> QED BY <1>7, <1>8, <1>10

(* What the rollout rebuilds pairs, with no call left without an output. *)
(* What is gathered from a whole rollout is what rebuilding completes. *)
Gathered(s) == ReplayedOf(s)[Len(s)]
Heard(s) == Whole(Gathered(s))

LEMMA HeardPairs ==
  ASSUME NEW n, NEW s, Paired(s, n)
  PROVE  Paired(Heard(s), n) /\ Record!Reconstructed(s) = Record!EnsureOutputs(Heard(s))
  <1> DEFINE F == ReplayedOf(s)
             m == Len(s)
             Good == {k \in 0..m : Gathers(s, k, n, Whole(F[k]))}
  <1>1. s \in Lines /\ DOMAIN s = 1..m /\ m \in Nat
    BY DEF Paired, Lines
  <1>2. /\ F[0] = NoAcc
        /\ \A k \in 1..m : F[k] = Record!Replay(F[k - 1], s[k])
        /\ \A k \in 0..m : F[k] \in Accs
    BY <1>1, ReplayedUnfolds
  <1>3. \A k \in 1..m : k \in 0..m /\ k - 1 \in 0..m /\ k \in 1..Len(s) /\ s[k] \in Entries
                        /\ k \in Nat \ {0}
    BY <1>1 DEF Lines
  <1> HIDE DEF F, m
  <1>4. 0 \in Good
    <2>1. Paired(<<>>, n) /\ DOMAIN <<>> = {} /\ 1..0 = {} /\ 0 \in 0..m /\ <<>> \in Lines
      BY <1>1, NonePair DEF Lines
    <2>2. Gathers(s, 0, n, <<>>)
      BY <2>1 DEF Gathers, AnswersFrom, OutputsFrom, LastBehind
    <2>3. Whole(NoAcc) = <<>>
      <3>1. <<>> \o <<>> = <<>>
        BY <2>1, ConcatEmptySeq DEF Lines
      <3> QED BY <3>1 DEF Whole, NoAcc
    <2> QED BY <1>2, <2>1, <2>2, <2>3
  <1>5. ASSUME NEW k \in 1..m, k - 1 \in Good PROVE k \in Good
    <2> DEFINE acc == F[k - 1]
               x == s[k]
               w == Whole(acc)
               r == Whole(F[k])
    <2>1. /\ Gathers(s, k - 1, n, w) /\ acc \in Accs /\ F[k] = Record!Replay(acc, x)
          /\ x \in Entries /\ k \in 1..Len(s) /\ k \in 0..m /\ k \in Nat \ {0} /\ x = s[k]
      BY <1>2, <1>3, <1>5
    <2>2. /\ acc.msgs \in Lines /\ acc.turn \in Lines /\ w = acc.msgs \o acc.turn
      BY <2>1 DEF Accs, Whole
    <2>3. IF Record!IsItem(x) THEN r = Append(w, x)
          ELSE r \in {acc.msgs, w, Record!Marked(w)}
      BY <2>1, ReplayIs
    <2> HIDE DEF acc, x, w, r
    <2>4. Gathers(s, k, n, r)
      <3>1. CASE Record!IsItem(x)
        BY <2>1, <2>3, <3>1, OneGathers
      <3>2. CASE ~Record!IsItem(x)
        <4>1. x.kind \notin {"assistant", "tool"}
          BY <3>2 DEF Record!IsItem
        <4>2. Paired(w, n) /\ w \in Lines
          BY <2>1 DEF Gathers, Paired
        <4>3. Paired(r, n)
          <5>1. Paired(acc.msgs, n)
            BY <2>2, <4>2, PrefixPairs
          <5> QED BY <2>3, <3>2, <4>2, <5>1, MarkerPairs
        <4>4. \A p \in DOMAIN r : r[p].kind \in {"assistant", "tool"} =>
                \E j \in DOMAIN w : w[j] = r[p]
          <5>1. \A p \in DOMAIN acc.msgs : p \in DOMAIN w /\ w[p] = acc.msgs[p]
            BY <2>2, Places
          <5>2. \A p \in DOMAIN Append(w, Record!Marker) :
                  \/ p \in DOMAIN w /\ Append(w, Record!Marker)[p] = w[p]
                  \/ Append(w, Record!Marker)[p].kind = "marker"
            <6>1. Record!Marker \in Entries /\ Record!Marker.kind = "marker"
              BY SomeEntries DEF Record!Marker
            <6> QED BY <4>2, <6>1, AppendedAt
          <5>3. r \in {acc.msgs, w, Append(w, Record!Marker)}
            BY <2>3, <3>2 DEF Record!Marked
          <5> DEFINE a == Append(w, Record!Marker)
          <5>4. r \in {acc.msgs, w, a}
            BY <5>3
          <5> HIDE DEF a
          <5>5. CASE r = acc.msgs
            BY <5>1, <5>5
          <5>6. CASE r = w
            BY <5>6
          <5>7. CASE r = a
            <6>1. \A p \in DOMAIN a : \/ p \in DOMAIN w /\ a[p] = w[p]
                                      \/ a[p].kind = "marker"
              BY <5>2 DEF a
            <6> QED BY <5>7, <6>1
          <5> QED BY <5>4, <5>5, <5>6, <5>7
        <4>5. s[k].kind \notin {"assistant", "tool"}
          BY <2>1, <4>1
        <4> QED BY ZenonT(60), <2>1, <4>3, <4>4, <4>5, OtherGathers
      <3> QED BY <3>1, <3>2
    <2> QED BY <2>1, <2>4 DEF r
  <1>6. m \in Good
    <2>1. \A k \in 1..m : k - 1 \in Good => k \in Good
      BY <1>5
    <2>2. m \in 0..m
      BY <1>1
    <2> HIDE DEF Good
    <2> QED BY <1>1, <1>4, <2>1, <2>2, UpTo
  <1> DEFINE all == Record!FlushTurn(F[m], "open").msgs
  <1>7. Paired(Whole(F[m]), n) /\ F[m] \in Accs
    BY <1>2, <1>6 DEF Gathers
  <1>8. all = Whole(F[m])
    BY <1>7, FlushIs
  <1>9. Record!Reconstructed(s) = Record!EnsureOutputs(all)
    BY RecordFolds DEF F, m
  <1> HIDE DEF all
  <1> QED BY <1>7, <1>8, <1>9 DEF Heard, Gathered, F, m

LEMMA ReconstructedPairs ==
  ASSUME NEW n, NEW s, Paired(s, n)
  PROVE  Paired(Record!Reconstructed(s), n) /\ Answered(Record!Reconstructed(s))
  BY HeardPairs, EnsurePairs

(* The calls of the batch that are not looked at yet, and those that are not
   run: each is there once, and awaits its output.                           *)
Apart(cs, rs) == Differ(cs) /\ Differ(rs) /\ \A i \in DOMAIN cs, j \in DOMAIN rs : cs[i] # rs[j]
AwaitThem(s, cs, rs) ==
  (\A i \in DOMAIN cs : Awaits(s, cs[i])) /\ (\A i \in DOMAIN rs : Awaits(s, rs[i]))

PairInv ==
  /\ mem = Record!Unloaded \/ Paired(mem, answers)
  /\ pc # "idle" => Paired(mem, answers)
  /\ Paired(log \o queued, answers)
  /\ pc # "batch" => ready = <<>>
  /\ pc = "batch" => /\ Apart(calls, ready)
                     /\ AwaitThem(mem, calls, ready)
                     /\ AwaitThem(log \o queued, calls, ready)

Quiet(e) == e \in Lines /\ \A k \in DOMAIN e : e[k].kind \notin {"assistant", "tool"}

LEMMA QuietPairs ==
  ASSUME NEW n, NEW s, Paired(s, n), NEW e, Quiet(e)
  PROVE  Paired(s \o e, n)
  <1> DEFINE r == s \o e
  <1>0. s \in Lines /\ Owned(s) /\ OneOutput(s) /\ Counted(s, n) /\ OneAnswer(s)
    BY DEF Paired
  <1>1. /\ r \in Lines /\ DOMAIN r \subseteq Nat /\ Len(s) \in Nat
        /\ \A k \in DOMAIN r : \/ k \in DOMAIN s /\ r[k] = s[k]
                               \/ k > Len(s) /\ r[k].kind \notin {"assistant", "tool"}
        /\ \A k \in DOMAIN s : k \in DOMAIN r /\ k <= Len(s) /\ r[k] = s[k]
    <2>1. /\ r \in Lines /\ DOMAIN r \subseteq Nat /\ Len(s) \in Nat
          /\ \A k \in DOMAIN r :
               \/ k \in DOMAIN s /\ r[k] = s[k]
               \/ k - Len(s) \in DOMAIN e /\ r[k] = e[k - Len(s)] /\ k > Len(s)
          /\ \A k \in DOMAIN s : k \in DOMAIN r /\ k <= Len(s) /\ r[k] = s[k]
      BY <1>0, Places DEF Quiet
    <2> HIDE DEF r
    <2> QED BY <2>1 DEF Quiet
  <1> HIDE DEF r
  <1>2. Owned(r)
    <2> SUFFICES ASSUME NEW i \in DOMAIN r, r[i].kind = "tool"
                 PROVE  \E j \in DOMAIN r :
                          /\ j < i /\ Made(r[j], r[i].call)
                          /\ \A k \in DOMAIN r : j < k /\ k < i => r[k].kind = "tool"
      BY DEF Owned
    <2>1. i \in DOMAIN s /\ r[i] = s[i] /\ i <= Len(s)
      BY <1>1
    <2>2. PICK j \in DOMAIN s :
            /\ j < i /\ Made(s[j], s[i].call)
            /\ \A k \in DOMAIN s : j < k /\ k < i => s[k].kind = "tool"
      BY <1>0, <2>1 DEF Owned
    <2>3. \A k \in DOMAIN r : k < i => k \in DOMAIN s /\ r[k] = s[k]
      BY <1>1, <2>1
    <2> QED BY <1>1, <2>1, <2>2, <2>3
  <1>3. OneOutput(r)
    BY <1>0, <1>1 DEF OneOutput
  <1>4. Counted(r, n)
    BY <1>0, <1>1 DEF Counted
  <1>5. OneAnswer(r)
    BY <1>0, <1>1 DEF OneAnswer
  <1> QED BY <1>1, <1>2, <1>3, <1>4, <1>5 DEF Paired, r

LEMMA QuietNone == Quiet(<<>>)
  BY DEF Quiet, Lines

LEMMA QuietOne ==
  ASSUME NEW x \in Entries, x.kind \notin {"assistant", "tool"}
  PROVE  Quiet(<<x>>)
  BY DEF Quiet, Lines

LEMMA QuietTwo ==
  ASSUME NEW x \in Entries, x.kind \notin {"assistant", "tool"},
         NEW y \in Entries, y.kind \notin {"assistant", "tool"}
  PROVE  Quiet(<<x, y>>)
  BY DEF Quiet, Lines

LEMMA EventsAreQuiet ==
  ASSUME turns \in Nat
  PROVE  /\ \A how \in Ways : Quiet(<<Record!Ended(how)>>)
         /\ Quiet(<<Record!Marker, Record!Ended("cancelled")>>)
         /\ \A t \in Nat : Quiet(<<Record!User(t)>>)
                           /\ Quiet(<<Record!User(t), Record!Started(t)>>)
  <1>1. \A how \in Ways : Record!Ended(how) \in Entries /\ Record!Ended(how).kind = "ended"
    BY DEF Record!Ended, Entries
  <1>2. /\ Record!Marker \in Entries /\ Record!Marker.kind = "marker" /\ "cancelled" \in Ways
        /\ \A t \in Nat : /\ Record!User(t) \in Entries /\ Record!User(t).kind = "user"
                          /\ Record!Started(t) \in Entries /\ Record!Started(t).kind = "started"
    BY SomeEntries DEF Record!Marker, Record!User, Record!Started, Ways
  <1>3. \A how \in Ways : Quiet(<<Record!Ended(how)>>)
    BY <1>1, QuietOne
  <1>4. Quiet(<<Record!Marker, Record!Ended("cancelled")>>)
    BY <1>1, <1>2, QuietTwo
  <1>5. \A t \in Nat : Quiet(<<Record!User(t)>>) /\ Quiet(<<Record!User(t), Record!Started(t)>>)
    BY <1>2, QuietOne, QuietTwo
  <1> QED BY <1>3, <1>4, <1>5

(* What a step records: q, which pairs, and the events e. *)
LEMMA PairGrows ==
  ASSUME RecordInv, PairInv, log' = log, Paired(mem', answers'),
         NEW q \in Lines, NEW e, Quiet(e), queued' = queued \o q \o e,
         Paired((log \o queued) \o q, answers'),
         pc' # "batch" => ready' = <<>>,
         pc' = "batch" => /\ e = <<>> /\ Apart(calls', ready')
                          /\ AwaitThem(mem', calls', ready')
                          /\ AwaitThem((log \o queued) \o q, calls', ready')
  PROVE  PairInv'
  <1> DEFINE r == (log \o queued) \o q
  <1>1. log \in Lines /\ queued \in Lines /\ e \in Lines
    BY DEF RecordInv, RecordTypes, Quiet
  <1>2. log' \o queued' = r \o e /\ r \in Lines
    <2>1. queued \o q \in Lines /\ log \o queued \in Lines
      BY <1>1, Places
    <2>2. log \o (queued \o q) = r
      BY <1>1, Regrouped
    <2>3. log \o ((queued \o q) \o e) = (log \o (queued \o q)) \o e
      BY ZenonT(60), <1>1, <2>1, Regrouped
    <2>4. r \in Lines
      BY <2>1, Places
    <2> QED BY <2>2, <2>3, <2>4
  <1> HIDE DEF r
  <1>3. Paired(log' \o queued', answers')
    BY <1>2, QuietPairs DEF r
  <1>4. e = <<>> => log' \o queued' = r
    BY <1>2, ConcatEmptySeq DEF Lines
  <1>5. pc' = "batch" => AwaitThem(log' \o queued', calls', ready')
    BY <1>4 DEF r
  <1> QED BY <1>3, <1>5 DEF PairInv

(* One call gets its output, and the others still await theirs. *)
LEMMA HeadAnswered ==
  ASSUME NEW n, NEW s, Paired(s, n), NEW cs \in Seq(Call), cs # <<>>, NEW rs \in Seq(Call),
         Apart(cs, rs), AwaitThem(s, cs, rs), NEW what \in Outcomes
  PROVE  /\ <<Record!Output(Head(cs), what)>> \in Lines
         /\ Paired(s \o <<Record!Output(Head(cs), what)>>, n)
         /\ Apart(Tail(cs), rs)
         /\ AwaitThem(s \o <<Record!Output(Head(cs), what)>>, Tail(cs), rs)
  <1> DEFINE c == Head(cs)
             x == Record!Output(c, what)
             q == <<x>>
             r == s \o q
             ds == Tail(cs)
  <1>1. /\ c \in Call /\ c = cs[1] /\ 1 \in DOMAIN cs
        /\ \A i \in DOMAIN ds : i + 1 \in DOMAIN cs /\ ds[i] = cs[i + 1] /\ i + 1 # 1 /\ i \in Nat
    <2>1. /\ Len(cs) \in Nat \ {0} /\ Len(ds) = Len(cs) - 1 /\ ds \in Seq(Call)
          /\ DOMAIN cs = 1..Len(cs)
      OBVIOUS
    <2>2. DOMAIN ds = 1..(Len(cs) - 1)
      BY <2>1
    <2>3. \A i \in 1..(Len(cs) - 1) : i + 1 \in 1..Len(cs) /\ i + 1 # 1 /\ i \in Nat
      BY <2>1
    <2>4. \A i \in 1..(Len(cs) - 1) : ds[i] = cs[i + 1]
      BY <2>1
    <2> QED BY <2>1, <2>2, <2>3, <2>4
  <1>2. x \in Entries /\ x.kind = "tool" /\ x.call = c
    BY <1>1, SomeEntries DEF Record!Output
  <1>3. q \in Lines /\ DOMAIN q = {1} /\ q[1] = x
    BY <1>2 DEF Lines
  <1> HIDE DEF c, x, q, r, ds
  <1>4. Differ(cs) /\ Differ(rs) /\ \A i \in DOMAIN cs, j \in DOMAIN rs : cs[i] # rs[j]
    BY DEF Apart
  <1>5. Awaits(s, c)
    BY <1>1 DEF AwaitThem
  <1>6. OneOutput(q) /\ \A i \in DOMAIN q : q[i].kind = "tool" /\ Awaits(s, q[i].call)
    BY <1>2, <1>3, <1>5 DEF OneOutput
  <1>7. \A d : Record!HasOutput(q, d) <=> d = c
    BY <1>2, <1>3 DEF Record!HasOutput
  <1>8. Paired(r, n) /\ \A d : Awaits(s, d) /\ d # c => Awaits(r, d)
    BY <1>3, <1>6, <1>7, OutputsPair DEF r
  <1>9. \A i \in DOMAIN ds : ds[i] # c
    BY <1>1, <1>4 DEF Differ
  <1>10. Differ(ds)
    BY <1>1, <1>4 DEF Differ
  <1>11. Apart(ds, rs)
    BY <1>1, <1>4, <1>10 DEF Apart
  <1>12. AwaitThem(r, ds, rs)
    BY <1>1, <1>4, <1>8, <1>9 DEF AwaitThem
  <1> QED BY <1>3, <1>8, <1>11, <1>12 DEF c, x, q, r, ds

LEMMA ApartSwaps ==
  ASSUME NEW s, NEW cs, NEW rs
  PROVE  Apart(cs, rs) => Apart(rs, cs) /\ (AwaitThem(s, cs, rs) => AwaitThem(s, rs, cs))
  BY DEF Apart, AwaitThem

(* A call is admitted: it moves to those that are ready. *)
LEMMA HeadAdmitted ==
  ASSUME NEW cs \in Seq(Call), cs # <<>>, NEW rs \in Seq(Call), Apart(cs, rs)
  PROVE  /\ Apart(Tail(cs), Append(rs, Head(cs)))
         /\ \A s : AwaitThem(s, cs, rs) => AwaitThem(s, Tail(cs), Append(rs, Head(cs)))
  <1> DEFINE c == Head(cs)
             ds == Tail(cs)
             es == Append(rs, c)
  <1>1. /\ c \in Call /\ c = cs[1] /\ 1 \in DOMAIN cs
        /\ \A i \in DOMAIN ds : i + 1 \in DOMAIN cs /\ ds[i] = cs[i + 1] /\ i + 1 # 1 /\ i \in Nat
    <2>1. /\ Len(cs) \in Nat \ {0} /\ Len(ds) = Len(cs) - 1 /\ ds \in Seq(Call)
          /\ DOMAIN cs = 1..Len(cs)
      OBVIOUS
    <2>2. DOMAIN ds = 1..(Len(cs) - 1)
      BY <2>1
    <2>3. \A i \in 1..(Len(cs) - 1) : i + 1 \in 1..Len(cs) /\ i + 1 # 1 /\ i \in Nat
      BY <2>1
    <2>4. \A i \in 1..(Len(cs) - 1) : ds[i] = cs[i + 1]
      BY <2>1
    <2> QED BY <2>1, <2>2, <2>3, <2>4
  <1>2. \A i \in DOMAIN es : \/ i \in DOMAIN rs /\ es[i] = rs[i]
                             \/ i = Len(rs) + 1 /\ es[i] = c
    BY <1>1, AppendPlaces
  <1> HIDE DEF c, ds, es
  <1>3. Differ(cs) /\ Differ(rs) /\ \A i \in DOMAIN cs, j \in DOMAIN rs : cs[i] # rs[j]
    BY DEF Apart
  <1>4. Differ(ds) /\ \A i \in DOMAIN ds : ds[i] # c
    BY <1>1, <1>3 DEF Differ
  <1>5. Differ(es)
    BY <1>1, <1>2, <1>3 DEF Differ
  <1>6. \A i \in DOMAIN ds, j \in DOMAIN es : ds[i] # es[j]
    BY <1>1, <1>2, <1>3, <1>4
  <1>7. ASSUME NEW s, AwaitThem(s, cs, rs) PROVE AwaitThem(s, ds, es)
    BY <1>1, <1>2, <1>7 DEF AwaitThem
  <1> QED BY <1>4, <1>5, <1>6, <1>7 DEF Apart, c, ds, es

(* The model answers: its calls, if any, await their outputs. *)
LEMMA AnswerPairs ==
  ASSUME NEW n \in Nat, NEW s, Paired(s, n), NEW cs \in Seq(Call),
         \A k \in DOMAIN cs : cs[k] = <<n + 1, k>>
  PROVE  /\ Paired(s \o <<Record!Assistant(n + 1, cs)>>, n + 1)
         /\ Apart(cs, <<>>)
         /\ AwaitThem(s \o <<Record!Assistant(n + 1, cs)>>, cs, <<>>)
  <1> DEFINE x == Record!Assistant(n + 1, cs)
  <1>1. x \in Entries /\ x.kind = "assistant" /\ x.answer = n + 1 /\ x.calls = cs
    <2>1. n + 1 \in Nat
      OBVIOUS
    <2> QED BY <2>1, SomeEntries DEF Record!Assistant
  <1> HIDE DEF x
  <1>2. Paired(s, n + 1) /\ \A i \in DOMAIN s : s[i].kind = "assistant" => s[i].answer # n + 1
    BY MorePairs
  <1>3. Fresh(s, x, n + 1)
    BY <1>1, <1>2 DEF Fresh, Numbered
  <1>4. Paired(Append(s, x), n + 1) /\ \A c : Made(x, c) => Awaits(Append(s, x), c)
    BY <1>1, <1>2, <1>3, EntryPairs
  <1>5. s \o <<x>> = Append(s, x)
    BY <1>1, <1>2, AppendIsConcat DEF Paired, Lines
  <1>6. \A k \in DOMAIN cs : Made(x, cs[k])
    BY <1>1 DEF Made
  <1>7. AwaitThem(Append(s, x), cs, <<>>)
    BY <1>4, <1>6 DEF AwaitThem
  <1>8. Apart(cs, <<>>)
    BY DEF Apart, Differ
  <1> QED BY <1>4, <1>5, <1>7, <1>8 DEF x

(* The outputs of those of the ready calls that came in time. *)
Together(rs, m, chosen) == [k \in 1..m |-> Record!Output(rs[chosen[k]], "done")]

LEMMA TogetherOutputs ==
  ASSUME NEW rs \in Seq(Call), Differ(rs), NEW m \in Nat, NEW chosen \in [1..m -> DOMAIN rs],
         \A k, l \in 1..m : k < l => chosen[k] < chosen[l]
  PROVE  /\ Together(rs, m, chosen) \in Lines /\ OneOutput(Together(rs, m, chosen))
         /\ \A i \in DOMAIN Together(rs, m, chosen) :
              /\ Together(rs, m, chosen)[i].kind = "tool"
              /\ \E j \in DOMAIN rs : Together(rs, m, chosen)[i].call = rs[j]
  <1> DEFINE q == Together(rs, m, chosen)
  <1>1. \A k \in 1..m : chosen[k] \in DOMAIN rs /\ rs[chosen[k]] \in Call /\ chosen[k] \in Nat
    OBVIOUS
  <1>2. \A k \in 1..m : /\ Record!Output(rs[chosen[k]], "done") \in Entries
                        /\ Record!Output(rs[chosen[k]], "done").kind = "tool"
                        /\ Record!Output(rs[chosen[k]], "done").call = rs[chosen[k]]
    <2>1. "done" \in Outcomes
      BY DEF Outcomes
    <2> QED BY <1>1, <2>1, SomeEntries DEF Record!Output
  <1>3. q \in Lines /\ DOMAIN q = 1..m /\ \A k \in 1..m : q[k].kind = "tool" /\ q[k].call = rs[chosen[k]]
    BY <1>2 DEF Lines, Together
  <1> HIDE DEF q
  <1>4. \A k, l \in 1..m : chosen[k] = chosen[l] => k = l
    BY <1>1
  <1>5. OneOutput(q)
    BY <1>1, <1>3, <1>4 DEF OneOutput, Differ
  <1> QED BY <1>1, <1>3, <1>5 DEF q

LEMMA TogetherPairs ==
  ASSUME NEW n, NEW s, Paired(s, n), NEW rs \in Seq(Call), Differ(rs),
         \A i \in DOMAIN rs : Awaits(s, rs[i]), NEW m \in Nat, NEW chosen \in [1..m -> DOMAIN rs],
         \A k, l \in 1..m : k < l => chosen[k] < chosen[l]
  PROVE  Together(rs, m, chosen) \in Lines /\ Paired(s \o Together(rs, m, chosen), n)
  <1> DEFINE q == Together(rs, m, chosen)
  <1>1. /\ q \in Lines /\ OneOutput(q)
        /\ \A i \in DOMAIN q : q[i].kind = "tool" /\ \E j \in DOMAIN rs : q[i].call = rs[j]
    BY TogetherOutputs
  <1> HIDE DEF q
  <1>2. \A i \in DOMAIN q : q[i].kind = "tool" /\ Awaits(s, q[i].call)
    BY <1>1
  <1>3. Paired(s \o q, n)
    BY <1>1, <1>2, OutputsPair
  <1> QED BY <1>1, <1>3 DEF q

(* A step that records nothing. *)
LEMMA PairStays ==
  ASSUME PairInv, UNCHANGED <<answers, mem, log, queued>>,
         pc' # "idle" => pc # "idle",
         pc' # "batch" => ready' = <<>>,
         pc' = "batch" =>
           /\ pc = "batch" /\ Apart(calls', ready')
           /\ \A s : AwaitThem(s, calls, ready) => AwaitThem(s, calls', ready')
  PROVE  PairInv'
  <1>1. /\ mem' = Record!Unloaded \/ Paired(mem', answers')
        /\ pc' # "idle" => Paired(mem', answers')
        /\ Paired(log' \o queued', answers')
    BY DEF PairInv
  <1>2. ASSUME pc' = "batch"
        PROVE  /\ AwaitThem(mem', calls', ready')
               /\ AwaitThem(log' \o queued', calls', ready')
    BY <1>2 DEF PairInv
  <1> QED BY <1>1, <1>2 DEF PairInv

(* The turn ends with a marker, behind what came in time. *)
LEMMA PairMarks ==
  ASSUME RecordInv, PairInv, log' = log, answers' = answers, pc' # "batch", ready' = <<>>,
         NEW q \in Lines, Paired(mem \o q, answers), Paired((log \o queued) \o q, answers),
         mem' = Record!Marked(mem \o q) \/ (q = <<>> /\ mem' = Record!Marked(mem)),
         pc # "idle",
         \/ queued' = queued \o q \o <<Record!Marker, Record!Ended("cancelled")>>
         \/ q = <<>> /\ queued' = queued \o <<Record!Marker, Record!Ended("cancelled")>>
  PROVE  PairInv'
  <1> DEFINE e == <<Record!Marker, Record!Ended("cancelled")>>
  <1>1. queued \in Lines /\ Quiet(e)
    BY EventsAreQuiet DEF RecordInv, RecordTypes
  <1>2. Paired(mem', answers')
    BY MarkerPairs DEF PairInv
  <1>3. q = <<>> => queued \o q = queued
    BY <1>1, ConcatEmptySeq DEF Lines
  <1>4. queued' = queued \o q \o e
    BY <1>3
  <1> HIDE DEF e
  <1> QED BY <1>1, <1>2, <1>4, PairGrows

(* Events only. *)
LEMMA PairTells ==
  ASSUME RecordInv, PairInv, log' = log, pc # "idle", pc' # "batch", ready' = <<>>,
         answers' = answers, NEW how \in Ways, NEW label,
         Record!Record(<<>>, <<Record!Ended(how)>>, label)
  PROVE  PairInv'
  <1> DEFINE e == <<Record!Ended(how)>>
             nil == <<>>
  <1>1. /\ Quiet(e) /\ nil \in Lines /\ log \o queued \in Lines /\ mem \in Lines
        /\ Paired(mem, answers) /\ Paired(log \o queued, answers)
    BY EventsAreQuiet DEF RecordInv, RecordTypes, PairInv, Paired, Lines
  <1>2. /\ mem' = mem \o nil /\ queued' = queued \o nil \o e
    BY DEF Record!Record
  <1>3. mem \o nil = mem /\ (log \o queued) \o nil = log \o queued
    BY <1>1, ConcatEmptySeq DEF Lines
  <1> HIDE DEF e, nil
  <1> QED BY <1>1, <1>2, <1>3, PairGrows

(* An answer, and the events behind it. *)
LEMMA PairAnswers ==
  ASSUME RecordInv, PairInv, log' = log, pc # "idle", pc # "batch", answers' = answers + 1,
         NEW cs \in Seq(Call), \A k \in DOMAIN cs : cs[k] = <<answers + 1, k>>,
         NEW e, Quiet(e), NEW label,
         Record!Record(<<Record!Assistant(answers + 1, cs)>>, e, label),
         ready' = ready, label = "batch" => calls' = cs /\ e = <<>>
  PROVE  PairInv'
  <1> DEFINE q == <<Record!Assistant(answers + 1, cs)>>
             L == log \o queued
  <1>1. answers \in Nat /\ Paired(mem, answers) /\ Paired(L, answers) /\ ready = <<>>
    BY DEF RecordInv, RecordTypes, PairInv
  <1>2. mem' = mem \o q /\ queued' = queued \o q \o e /\ pc' = label
    BY DEF Record!Record
  <1>3. q \in Lines
    <2>1. answers + 1 \in Nat
      BY <1>1
    <2> QED BY <2>1, SomeEntries DEF Lines
  <1> HIDE DEF L
  <1>4. /\ Paired(mem \o q, answers + 1) /\ Paired(L \o q, answers + 1) /\ Apart(cs, <<>>)
        /\ AwaitThem(mem \o q, cs, <<>>) /\ AwaitThem(L \o q, cs, <<>>)
    BY <1>1, AnswerPairs
  <1> HIDE DEF q
  <1> QED BY <1>1, <1>2, <1>3, <1>4, PairGrows DEF L

(* The output of one call. *)
LEMMA PairOutputs ==
  ASSUME RecordInv, PairInv, log' = log, pc # "idle", answers' = answers,
         NEW c \in Call, NEW what,
         Record!Record(<<Record!Output(c, what)>>, <<>>, "batch"),
         LET q == <<Record!Output(c, what)>>
         IN  /\ q \in Lines
             /\ Paired(mem \o q, answers) /\ Paired((log \o queued) \o q, answers)
             /\ Apart(calls', ready')
             /\ AwaitThem(mem \o q, calls', ready') /\ AwaitThem((log \o queued) \o q, calls', ready')
  PROVE  PairInv'
  <1> DEFINE q == <<Record!Output(c, what)>>
             nil == <<>>
  <1>1. mem' = mem \o q /\ queued' = queued \o q \o nil /\ pc' = "batch"
    BY DEF Record!Record
  <1>2. /\ q \in Lines
        /\ Paired(mem \o q, answers) /\ Paired((log \o queued) \o q, answers)
        /\ Apart(calls', ready')
        /\ AwaitThem(mem \o q, calls', ready') /\ AwaitThem((log \o queued) \o q, calls', ready')
    OBVIOUS
  <1>3. Quiet(nil) /\ nil = <<>>
    BY QuietNone
  <1> HIDE DEF q, nil
  <1> QED BY <1>1, <1>2, <1>3, PairGrows

LEMMA PairFacts ==
  ASSUME RecordInv, PairInv
  PROVE  /\ turns \in Nat /\ answers \in Nat /\ calls \in Seq(Call) /\ ready \in Seq(Call)
         /\ log \in Lines /\ queued \in Lines /\ log \o queued \in Lines /\ <<>> \in Lines
         /\ Paired(log \o queued, answers)
         /\ pc # "idle" => Paired(mem, answers) /\ mem \in Lines
         /\ pc # "batch" => ready = <<>>
  <1>1. log \in Lines /\ queued \in Lines
    BY DEF RecordInv, RecordTypes
  <1>2. log \o queued \in Lines
    BY <1>1, Places
  <1>3. <<>> \in Lines
    BY DEF Lines
  <1> QED BY <1>1, <1>2, <1>3 DEF RecordInv, RecordTypes, PairInv, Paired

(* The steps that record nothing, or only events. *)
LEMMA QuietSteps ==
  ASSUME RecordInv, PairInv,
         \/ Record!Interrupt \/ Record!CheckCancelled \/ Record!ModelFails
         \/ Record!BatchCancelled \/ Record!CancelFromPrompt \/ Record!PromptInterrupted
         \/ Record!RunOutpaced \/ Record!RunFails \/ Record!BatchDone \/ Record!EndFailed
         \/ Record!FinishTurn \/ UNCHANGED Record!vars
  PROVE  PairInv'
  <1>0. /\ ready \in Seq(Call) /\ log \in Lines /\ queued \in Lines /\ log \o queued \in Lines
        /\ <<>> \in Lines
        /\ pc # "batch" => ready = <<>>
        /\ pc # "idle" => Paired(mem, answers) /\ mem \in Lines
        /\ Paired(log \o queued, answers)
    BY PairFacts
  <1>1. \A s \in Lines : s \o <<>> = s
    BY ConcatEmptySeq DEF Lines
  <1>2. ASSUME Record!RecordMarker("flush"), pc # "idle", UNCHANGED <<answers, log>>
        PROVE  PairInv'
    <2> DEFINE nil == <<>>
    <2>1. /\ mem' = Record!Marked(mem) /\ pc' = "flush" /\ ready' = <<>>
          /\ queued' = queued \o <<Record!Marker, Record!Ended("cancelled")>>
      BY <1>2 DEF Record!RecordMarker
    <2>2. nil \in Lines /\ Paired(mem \o nil, answers) /\ Paired((log \o queued) \o nil, answers)
      <3>1. mem \o <<>> = mem /\ (log \o queued) \o <<>> = log \o queued
        BY <1>0, <1>1, <1>2
      <3> QED BY <1>0, <1>2, <3>1
    <2>3. nil = <<>>
      OBVIOUS
    <2> HIDE DEF nil
    <2> QED BY <1>2, <2>1, <2>2, <2>3, PairMarks
  <1>3. CASE Record!CheckCancelled
    <2>1. /\ pc \in {"started", "top"} /\ UNCHANGED <<answers, log>>
          /\ \/ Record!RecordMarker("flush")
             \/ pc' \in {"top", "request"} /\ UNCHANGED <<mem, queued, calls, ready>>
      BY <1>3 DEF Record!CheckCancelled
    <2>2. CASE Record!RecordMarker("flush")
      BY <1>2, <2>1, <2>2
    <2>3. CASE pc' \in {"top", "request"} /\ UNCHANGED <<mem, queued, calls, ready>>
      BY <1>0, <2>1, <2>3, PairStays
    <2> QED BY <2>1, <2>2, <2>3
  <1>4. CASE Record!BatchCancelled \/ Record!CancelFromPrompt
    <2>1. pc = "batch" /\ Record!RecordMarker("flush") /\ UNCHANGED <<answers, log>>
      BY <1>4 DEF Record!BatchCancelled, Record!CancelFromPrompt
    <2> QED BY <1>2, <2>1
  <1>5. CASE Record!Interrupt \/ UNCHANGED Record!vars
    <2>1. UNCHANGED <<pc, answers, calls, ready, mem, log, queued>>
      BY <1>5 DEF Record!Interrupt, Record!vars
    <2> QED BY <2>1, <1>0, PairStays DEF PairInv
  <1>6. CASE \/ Record!ModelFails \/ Record!PromptInterrupted \/ Record!RunFails
             \/ Record!BatchDone \/ Record!FinishTurn
    <2>1. /\ pc' # "batch" /\ ready' \in {ready, <<>>} /\ UNCHANGED <<answers, mem, log, queued>>
          /\ pc # "batch" \/ ready' = <<>>
          /\ pc' # "idle" => pc # "idle"
      BY <1>6 DEF Record!ModelFails, Record!PromptInterrupted, Record!RunFails,
                  Record!BatchDone, Record!FinishTurn
    <2> QED BY <1>0, <2>1, PairStays
  <1>7. CASE Record!RunOutpaced \/ Record!EndFailed
    <2>1. /\ pc # "idle" /\ pc' # "batch" /\ UNCHANGED <<answers, log>>
          /\ ready' = <<>> \/ (ready' = ready /\ pc # "batch")
          /\ \/ Record!Record(<<>>, <<Record!Ended("cancelled")>>, "interrupted")
             \/ Record!Record(<<>>, <<Record!Ended("failed")>>, "reread")
      BY <1>7 DEF Record!RunOutpaced, Record!EndFailed, Record!Record
    <2>2. "cancelled" \in Ways /\ "failed" \in Ways
      BY DEF Ways
    <2> QED BY <1>0, <2>1, <2>2, PairTells
  <1> QED BY <1>3, <1>4, <1>5, <1>6, <1>7

(* The steps of an answer and of its calls. *)
LEMMA AnswerSteps ==
  ASSUME RecordInv, PairInv,
         \/ Record!StopWithMessage \/ Record!ModelResponds \/ Record!Advance
         \/ Record!Refuse \/ Record!Admit \/ Record!RunNext
  PROVE  PairInv'
  <1> DEFINE L == log \o queued
  <1>0. /\ turns \in Nat /\ answers \in Nat /\ calls \in Seq(Call) /\ ready \in Seq(Call)
        /\ log \in Lines /\ queued \in Lines /\ L \in Lines /\ <<>> \in Lines
        /\ Paired(L, answers)
        /\ pc # "idle" => Paired(mem, answers) /\ mem \in Lines
        /\ pc # "batch" => ready = <<>>
    BY PairFacts
  <1>1. pc = "batch" => /\ Apart(calls, ready) /\ AwaitThem(mem, calls, ready)
                        /\ AwaitThem(L, calls, ready)
    BY DEF PairInv
  <1>2. CASE Record!StopWithMessage \/ Record!Advance
    <2>1. /\ pc \in {"request", "after"} /\ UNCHANGED <<log, calls, ready>>
          /\ \/ UNCHANGED <<answers, mem, queued>> /\ pc' = "top"
             \/ /\ answers' = answers + 1
                /\ \E how \in Ways :
                     Record!Record(<<Record!Assistant(answers', <<>>)>>, <<Record!Ended(how)>>,
                                   "flush")
      BY <1>2 DEF Record!StopWithMessage, Record!Advance, Ways
    <2>2. CASE UNCHANGED <<answers, mem, queued>> /\ pc' = "top"
      BY <1>0, <2>1, <2>2, PairStays
    <2>3. ASSUME NEW how \in Ways, answers' = answers + 1,
                 Record!Record(<<Record!Assistant(answers', <<>>)>>, <<Record!Ended(how)>>,
                               "flush")
          PROVE  PairInv'
      <3> DEFINE nil == <<>>
                 e == <<Record!Ended(how)>>
      <3>1. nil \in Seq(Call) /\ \A k \in DOMAIN nil : nil[k] = <<answers + 1, k>>
        OBVIOUS
      <3>2. Quiet(e)
        BY <1>0, EventsAreQuiet
      <3>3. Record!Record(<<Record!Assistant(answers + 1, nil)>>, e, "flush")
        BY <2>3
      <3> HIDE DEF nil, e
      <3> QED BY <1>0, <2>1, <2>3, <3>1, <3>2, <3>3, PairAnswers
    <2> QED BY <2>1, <2>2, <2>3
  <1>3. CASE Record!ModelResponds
    <2>1. PICK n \in 0..MaxCalls :
            /\ calls' = [i \in 1..n |-> <<answers', i>>]
            /\ \/ n > 0 /\ Record!Record(<<Record!Assistant(answers', calls')>>, <<>>, "batch")
               \/ n = 0 /\ Record!Record(<<Record!Assistant(answers', calls')>>,
                                         <<Record!Ended("completed")>>, "flush")
               \/ n = 0 /\ Record!Record(<<Record!Assistant(answers', calls')>>, <<>>, "top")
      BY <1>3 DEF Record!ModelResponds
    <2>2. /\ answers' = answers + 1 /\ ready' = ready /\ n \in Nat /\ log' = log
          /\ pc = "request" /\ answers + 1 \in Nat
      BY <1>0, <1>3, PartsAssumption DEF Record!ModelResponds
    <2> DEFINE cs == [i \in 1..n |-> <<answers + 1, i>>]
    <2>3. cs \in Seq(Call) /\ \A k \in DOMAIN cs : cs[k] = <<answers + 1, k>>
      <3>1. \A i \in 1..n : <<answers + 1, i>> \in Call
        BY <2>2 DEF Call
      <3> QED BY <2>2, <3>1
    <2>4. calls' = cs
      BY <2>1, <2>2
    <2> HIDE DEF cs
    <2>5. \E e, label : /\ Record!Record(<<Record!Assistant(answers + 1, cs)>>, e, label)
                        /\ \/ e = <<>>
                           \/ e = <<Record!Ended("completed")>> /\ label = "flush"
      BY <2>1, <2>2, <2>4
    <2>6. PICK e, label : /\ Record!Record(<<Record!Assistant(answers + 1, cs)>>, e, label)
                          /\ \/ e = <<>>
                             \/ e = <<Record!Ended("completed")>> /\ label = "flush"
      BY <2>5
    <2>7. Quiet(e)
      <3>1. "completed" \in Ways
        BY DEF Ways
      <3> QED BY <1>0, <2>6, <3>1, EventsAreQuiet, QuietNone
    <2> QED BY <2>2, <2>3, <2>4, <2>6, <2>7, PairAnswers
  <1>4. CASE Record!Refuse
    <2>1. /\ pc = "batch" /\ calls # <<>> /\ calls' = Tail(calls)
          /\ UNCHANGED <<answers, ready, log>>
          /\ Record!Record(<<Record!Output(Head(calls), "refused")>>, <<>>, "batch")
      BY <1>4 DEF Record!Refuse
    <2>2. "refused" \in Outcomes /\ Head(calls) \in Call
      BY <1>0, <2>1 DEF Outcomes
    <2> DEFINE q == <<Record!Output(Head(calls), "refused")>>
    <2>3. /\ q \in Lines /\ Paired(mem \o q, answers) /\ Apart(calls', ready')
          /\ AwaitThem(mem \o q, calls', ready')
      BY <1>0, <1>1, <2>1, <2>2, HeadAnswered
    <2>4. Paired(L \o q, answers) /\ AwaitThem(L \o q, calls', ready')
      <3> HIDE DEF L
      <3> QED BY <1>0, <1>1, <2>1, <2>2, HeadAnswered
    <2> QED BY <2>1, <2>2, <2>3, <2>4, PairOutputs
  <1>5. CASE Record!RunNext
    <2>1. /\ pc = "batch" /\ ready # <<>> /\ ready' = Tail(ready)
          /\ UNCHANGED <<answers, calls, log>>
          /\ Record!Record(<<Record!Output(Head(ready), "done")>>, <<>>, "batch")
      BY <1>5 DEF Record!RunNext
    <2>2. "done" \in Outcomes /\ Head(ready) \in Call
      BY <1>0, <2>1 DEF Outcomes
    <2> DEFINE q == <<Record!Output(Head(ready), "done")>>
    <2> HIDE DEF L
    <2>3. Apart(ready, calls) /\ AwaitThem(mem, ready, calls) /\ AwaitThem(L, ready, calls)
      BY <1>1, <2>1, ApartSwaps
    <2>4. /\ q \in Lines /\ Paired(mem \o q, answers) /\ Apart(ready', calls')
          /\ AwaitThem(mem \o q, ready', calls')
      BY <1>0, <2>1, <2>2, <2>3, HeadAnswered
    <2>5. Paired(L \o q, answers) /\ AwaitThem(L \o q, ready', calls')
      BY <1>0, <2>1, <2>2, <2>3, HeadAnswered
    <2> HIDE DEF q
    <2>6. /\ Apart(calls', ready') /\ AwaitThem(mem \o q, calls', ready')
          /\ AwaitThem(L \o q, calls', ready')
      BY <2>4, <2>5, ApartSwaps
    <2> QED BY <2>1, <2>2, <2>4, <2>5, <2>6, PairOutputs DEF L, q
  <1>6. CASE Record!Admit
    <2>1. /\ pc = "batch" /\ pc' = "batch" /\ calls # <<>> /\ calls' = Tail(calls)
          /\ ready' = Append(ready, Head(calls)) /\ UNCHANGED <<answers, mem, log, queued>>
      BY <1>6 DEF Record!Admit
    <2>2. /\ Apart(calls', ready')
          /\ \A s : AwaitThem(s, calls, ready) => AwaitThem(s, calls', ready')
      BY <1>0, <1>1, <2>1, HeadAdmitted
    <2> QED BY <2>1, <2>2, PairStays
  <1> QED BY <1>2, <1>3, <1>4, <1>5, <1>6

LEMMA TogetherKeepsPairs == ASSUME RecordInv, PairInv, Record!RunTogether PROVE PairInv'
  <1> DEFINE L == log \o queued
             e == <<Record!Marker, Record!Ended("cancelled")>>
  <1>0. /\ answers \in Nat /\ ready \in Seq(Call) /\ queued \in Lines
        /\ Paired(L, answers) /\ Paired(mem, answers)
        /\ pc = "batch" /\ pc # "idle" /\ calls = <<>> /\ ready' = <<>>
        /\ UNCHANGED <<answers, calls, log>>
    BY PairFacts DEF Record!RunTogether
  <1>1. /\ Differ(ready) /\ \A i \in DOMAIN ready : Awaits(mem, ready[i])
        /\ \A i \in DOMAIN ready : Awaits(L, ready[i])
    BY <1>0 DEF PairInv, Apart, AwaitThem
  <1>2. PICK n \in 0..Len(ready) : \E chosen \in [1..n -> DOMAIN ready] :
          LET q == [k \in 1..n |-> Record!Output(ready[chosen[k]], "done")]
          IN  /\ \A k, l \in 1..n : k < l => chosen[k] < chosen[l]
              /\ \/ Record!Record(q, <<>>, "batch")
                 \/ /\ mem' = Record!Marked(mem \o q) /\ queued' = queued \o q \o e
                    /\ pc' = "flush"
    BY DEF Record!RunTogether
  <1>3. PICK chosen \in [1..n -> DOMAIN ready] :
          LET q == [k \in 1..n |-> Record!Output(ready[chosen[k]], "done")]
          IN  /\ \A k, l \in 1..n : k < l => chosen[k] < chosen[l]
              /\ \/ Record!Record(q, <<>>, "batch")
                 \/ /\ mem' = Record!Marked(mem \o q) /\ queued' = queued \o q \o e
                    /\ pc' = "flush"
    BY <1>2
  <1> DEFINE q == [k \in 1..n |-> Record!Output(ready[chosen[k]], "done")]
  <1>4. n \in Nat /\ chosen \in [1..n -> DOMAIN ready]
    BY <1>0, <1>3
  <1>5. \A k, l \in 1..n : k < l => chosen[k] < chosen[l]
    BY <1>3
  <1>6. \/ Record!Record(q, <<>>, "batch")
        \/ mem' = Record!Marked(mem \o q) /\ queued' = queued \o q \o e /\ pc' = "flush"
    BY <1>3
  <1> HIDE DEF L
  <1>7. q = Together(ready, n, chosen)
    BY DEF Together
  <1> HIDE DEF q
  <1>8. q \in Lines /\ Paired(mem \o q, answers) /\ Paired(L \o q, answers)
    <2>1. q \in Lines /\ Paired(mem \o q, answers)
      BY <1>0, <1>1, <1>4, <1>5, <1>7, TogetherPairs
    <2>2. Paired(L \o q, answers)
      BY <1>0, <1>1, <1>4, <1>5, <1>7, TogetherPairs
    <2> QED BY <2>1, <2>2
  <1>9. CASE Record!Record(q, <<>>, "batch")
    <2> DEFINE nil == <<>>
    <2>1. mem' = mem \o q /\ queued' = queued \o q \o nil /\ pc' = "batch"
      BY <1>9 DEF Record!Record
    <2>2. /\ Apart(calls', ready') /\ AwaitThem(mem \o q, calls', ready')
          /\ AwaitThem(L \o q, calls', ready')
      BY <1>0 DEF Apart, Differ, AwaitThem
    <2>3. Quiet(nil) /\ nil = <<>>
      BY QuietNone
    <2> HIDE DEF nil
    <2> QED BY <1>0, <1>8, <2>1, <2>2, <2>3, PairGrows DEF L
  <1>10. CASE mem' = Record!Marked(mem \o q) /\ queued' = queued \o q \o e /\ pc' = "flush"
    BY <1>0, <1>8, <1>10, PairMarks DEF L
  <1> QED BY <1>6, <1>9, <1>10

(* The recorder writes the first of what is queued. *)
LEMMA HeadMoves ==
  ASSUME NEW s \in Lines, NEW q \in Lines, q # <<>>
  PROVE  Append(s, Head(q)) \o Tail(q) = s \o q
  <1> DEFINE h == Head(q)
             t == Tail(q)
  <1>1. h \in Entries /\ t \in Lines
    BY DEF Lines
  <1>2. /\ Len(q) \in Nat \ {0} /\ Len(t) = Len(q) - 1 /\ h = q[1]
        /\ \A k \in 1..(Len(q) - 1) : t[k] = q[k + 1]
    BY DEF Lines
  <1> HIDE DEF h, t
  <1>3. <<h>> \in Lines /\ Len(<<h>>) = 1 /\ <<h>>[1] = h
    BY <1>1 DEF Lines
  <1>4. <<h>> \o t = q
    <2>1. /\ Len(<<h>> \o t) = Len(q) /\ <<h>> \o t \in Lines
          /\ \A i \in 1..Len(q) : (<<h>> \o t)[i] = IF i <= 1 THEN <<h>>[i] ELSE t[i - 1]
      BY <1>1, <1>2, <1>3, ConcatProperties DEF Lines
    <2>2. ASSUME NEW i \in 1..Len(q) PROVE (<<h>> \o t)[i] = q[i]
      <3>1. CASE i = 1
        BY <1>2, <1>3, <2>1, <3>1
      <3>2. CASE i # 1
        <4>1. i - 1 \in 1..(Len(q) - 1) /\ (i - 1) + 1 = i /\ ~(i <= 1)
          BY <1>2, <3>2
        <4> QED BY <1>2, <2>1, <4>1
      <3> QED BY <3>1, <3>2
    <2> QED BY <2>1, <2>2, SeqEqual DEF Lines
  <1>5. Append(s, h) = s \o <<h>>
    BY <1>1, AppendIsConcat DEF Lines
  <1>6. (s \o <<h>>) \o t = s \o (<<h>> \o t)
    BY <1>1, <1>3, Regrouped
  <1> QED BY <1>4, <1>5, <1>6 DEF h, t

LEMMA OtherKeepPairs ==
  ASSUME RecordInv, PairInv,
         \/ Record!StartTurn \/ Record!EndInterrupted \/ Record!Reread
         \/ Record!Write \/ Record!Crash
  PROVE  PairInv'
  <1> DEFINE L == log \o queued
  <1>0. /\ turns \in Nat /\ answers \in Nat /\ ready \in Seq(Call)
        /\ log \in Lines /\ queued \in Lines /\ L \in Lines /\ <<>> \in Lines
        /\ Paired(L, answers)
        /\ pc # "idle" => Paired(mem, answers) /\ mem \in Lines
        /\ pc # "batch" => ready = <<>>
    BY PairFacts
  <1>1. \A s \in Lines : s \o <<>> = s
    BY ConcatEmptySeq DEF Lines
  <1>2. Paired(log, answers)
    BY <1>0, PrefixPairs
  <1>3. Paired(Record!Reconstructed(log), answers)
    BY <1>2, ReconstructedPairs
  <1>4. ASSUME NEW e, Quiet(e), queued' = queued \o e, UNCHANGED <<answers, ready, log>>,
               Paired(mem', answers), pc # "batch", pc' # "batch"
        PROVE  PairInv'
    <2> DEFINE nil == <<>>
    <2>1. nil \in Lines /\ Paired(L \o nil, answers) /\ queued' = queued \o nil \o e
      <3>1. L \o <<>> = L /\ queued \o <<>> = queued
        BY <1>0, <1>1
      <3> QED BY <1>0, <1>4, <3>1
    <2> HIDE DEF nil
    <2> QED BY <1>0, <1>4, <2>1, PairGrows
  <1>5. CASE Record!StartTurn
    <2> DEFINE s == IF mem = Record!Unloaded THEN Record!Reconstructed(log) ELSE mem
               u == Record!User(turns + 1)
               e == <<Record!User(turns + 1), Record!Started(turns + 1)>>
    <2>1. /\ mem' = Append(s, u) /\ queued' = queued \o e /\ pc = "idle" /\ pc' = "started"
          /\ UNCHANGED <<answers, ready, log>>
      BY <1>5 DEF Record!StartTurn
    <2>2. Paired(s, answers)
      BY <1>3 DEF PairInv
    <2>3. turns + 1 \in Nat
      BY <1>0
    <2>4. u \in Entries /\ u.kind = "user" /\ Quiet(e)
      BY <1>0, <2>3, SomeEntries, EventsAreQuiet DEF Record!User
    <2> HIDE DEF s, u, e
    <2>5. Paired(mem', answers)
      BY <2>1, <2>2, <2>4, EntryPairs DEF Fresh
    <2> QED BY <1>4, <2>1, <2>4, <2>5
  <1>6. CASE Record!EndInterrupted
    <2> DEFINE e == <<Record!Marker, Record!Ended("cancelled")>>
    <2>1. /\ mem' = Record!EnsureOutputs(Record!Marked(Record!Reconstructed(log)))
          /\ queued' = queued \o e /\ pc = "interrupted" /\ pc' = "flush"
          /\ UNCHANGED <<answers, ready, log>>
      BY <1>6 DEF Record!EndInterrupted
    <2>2. Paired(mem', answers)
      BY <1>3, <2>1, MarkerPairs, EnsurePairs
    <2>3. Quiet(e)
      BY <1>0, EventsAreQuiet
    <2> HIDE DEF e
    <2> QED BY <1>4, <2>1, <2>2, <2>3
  <1>7. CASE Record!Reread
    <2>1. /\ mem' = Record!Reconstructed(log) /\ pc = "reread" /\ pc' = "flush"
          /\ UNCHANGED <<answers, ready, log, queued>>
      BY <1>7 DEF Record!Reread
    <2>2. queued' = queued \o <<>>
      BY <1>0, <1>1, <2>1
    <2> QED BY <1>3, <1>4, <2>1, <2>2, QuietNone
  <1>8. CASE Record!Write
    <2>1. /\ queued # <<>> /\ log' = Append(log, Head(queued)) /\ queued' = Tail(queued)
          /\ UNCHANGED <<pc, answers, calls, ready, mem>>
      BY <1>8 DEF Record!Write
    <2>2. log' \o queued' = L
      BY <1>0, <2>1, HeadMoves
    <2>3. /\ mem' = Record!Unloaded \/ Paired(mem', answers')
          /\ pc' # "idle" => Paired(mem', answers')
          /\ Paired(log' \o queued', answers')
      BY <1>0, <2>1, <2>2 DEF PairInv
    <2>4. pc' = "batch" => /\ Apart(calls', ready')
                           /\ AwaitThem(mem', calls', ready')
                           /\ AwaitThem(log' \o queued', calls', ready')
      BY <2>1, <2>2 DEF PairInv
    <2> QED BY <1>0, <2>1, <2>3, <2>4 DEF PairInv
  <1>9. CASE Record!Crash
    <2>1. /\ pc' = "idle" /\ ready' = <<>> /\ mem' = Record!Unloaded /\ queued' = <<>>
          /\ UNCHANGED <<answers, log>>
      BY <1>9 DEF Record!Crash
    <2>2. Paired(log' \o queued', answers')
      BY <1>0, <1>1, <1>2, <2>1
    <2> QED BY <2>1, <2>2 DEF PairInv
  <1> QED BY <1>5, <1>6, <1>7, <1>8, <1>9

LEMMA PairHolds == Spec => [](part = "record" => PairInv)
  <1> DEFINE Holds == part = "record" => RecordInv
             Pairs == part = "record" => PairInv
  <1>1. Init => Pairs
    <2> SUFFICES ASSUME Record!Init PROVE PairInv
      BY DEF Init
    <2>1. /\ pc = "idle" /\ answers = 0 /\ ready = <<>> /\ mem = Record!Unloaded
          /\ queued = <<>> /\ log = <<>>
      BY DEF Record!Init
    <2>2. log \o queued = <<>>
      <3>1. <<>> \in Lines
        BY DEF Lines
      <3> QED BY <2>1, <3>1, ConcatEmptySeq DEF Lines
    <2> QED BY <2>1, <2>2, NonePair DEF PairInv
  <1>2. Holds /\ Pairs /\ [Next]_vars => Pairs'
    <2> SUFFICES ASSUME Holds, Pairs, [Next]_vars, part' = "record" PROVE PairInv'
      OBVIOUS
    <2>1. part = "record"
      BY DEF Next, vars
    <2>2. [Record!Next]_(Record!vars)
      BY <2>1 DEF Next, vars, recordVars, Record!vars
    <2>3. \/ Record!Interrupt \/ Record!CheckCancelled \/ Record!ModelFails
          \/ Record!BatchCancelled \/ Record!CancelFromPrompt \/ Record!PromptInterrupted
          \/ Record!RunOutpaced \/ Record!RunFails \/ Record!BatchDone \/ Record!EndFailed
          \/ Record!FinishTurn \/ UNCHANGED Record!vars
          => PairInv'
      BY <2>1, QuietSteps
    <2>4. \/ Record!StopWithMessage \/ Record!ModelResponds \/ Record!Advance
          \/ Record!Refuse \/ Record!Admit \/ Record!RunNext
          => PairInv'
      BY <2>1, AnswerSteps
    <2>5. Record!RunTogether => PairInv'
      BY <2>1, TogetherKeepsPairs
    <2>6. \/ Record!StartTurn \/ Record!EndInterrupted \/ Record!Reread
          \/ Record!Write \/ Record!Crash
          => PairInv'
      BY <2>1, OtherKeepPairs
    <2> QED BY <2>2, <2>3, <2>4, <2>5, <2>6 DEF Record!Next
  <1> QED BY <1>1, <1>2, RecordHolds, PTL DEF Spec

(* TurnRecord: what the provider is sent pairs each call with one output, in the
   run of outputs behind the answer that made it, whatever interrupts, refusals,
   failures, crashes and rebuilds of the history the conversation went through. *)
THEOREM RequestsStayPaired == Spec => []RequestsArePaired
  <1>1. (part = "record" => PairInv) => RequestsArePaired
    <2> SUFFICES ASSUME PairInv, pc = "request"
                 PROVE  Record!RequestsArePaired
      BY DEF RequestsArePaired, Record!RequestsArePaired
    <2> DEFINE r == Record!Request(mem)
    <2>1. Paired(r, answers) /\ Answered(r)
      BY EnsurePairs DEF PairInv, Record!Request
    <2> HIDE DEF r
    <2>2. /\ r \in Lines /\ DOMAIN r = 1..Len(r) /\ Len(r) \in Nat /\ Owned(r) /\ OneOutput(r)
      BY <2>1 DEF Paired, Lines
    <2>3. ASSUME NEW i \in DOMAIN r, r[i].kind = "tool"
          PROVE  Made(Record!Owner(r, i), r[i].call)
      <3> DEFINE nearer == {j \in 1..(i - 1) : r[j].kind # "tool"}
                 o == CHOOSE j \in nearer : \A k \in nearer : k <= j
      <3>1. PICK j \in DOMAIN r :
              /\ j < i /\ Made(r[j], r[i].call)
              /\ \A k \in DOMAIN r : j < k /\ k < i => r[k].kind = "tool"
        BY <2>2, <2>3 DEF Owned
      <3>2. r[j].kind # "tool" /\ j \in nearer
        BY <2>2, <3>1 DEF Made
      <3>3. \A k \in nearer : k <= j
        <4>1. \A k \in nearer : k \in DOMAIN r /\ k < i /\ r[k].kind # "tool" /\ k \in Nat /\ j \in Nat
          BY <2>2
        <4>2. \A k \in nearer : ~(j < k)
          BY <3>1, <4>1
        <4> HIDE DEF nearer
        <4> QED BY <4>1, <4>2
      <3>4. \A k \in nearer : (\A l \in nearer : l <= k) => k = j
        <4>1. \A k \in nearer : k \in Nat /\ j \in Nat
          BY <2>2
        <4> HIDE DEF nearer
        <4> QED BY <3>2, <3>3, <4>1
      <3>5. o = j
        <4> HIDE DEF nearer
        <4> QED BY <3>2, <3>3, <3>4
      <3>6. Record!Owner(r, i) = r[o]
        BY DEF Record!Owner
      <3> QED BY <3>1, <3>5, <3>6
    <2>4. \A i \in DOMAIN r : r[i].kind = "assistant" =>
            \A k \in DOMAIN r[i].calls : Record!HasOutput(r, r[i].calls[k])
      BY <2>1 DEF Answered, Made
    <2>5. \A i, j \in DOMAIN r :
            r[i].kind = "tool" /\ r[j].kind = "tool" /\ r[i].call = r[j].call => i = j
      BY <2>2 DEF OneOutput
    <2> QED BY <2>3, <2>4, <2>5 DEF Record!RequestsArePaired, Made, r
  <1> QED BY <1>1, PairHolds, PTL

(***************************************************************************)
(* TurnRecord: a restart tells the same.  What is told of a history, its   *)
(* outputs completed and its markers left out, grows entry by entry; so    *)
(* does what is heard of a rollout, and the turn tells both the same.      *)
(***************************************************************************)

(***************************************************************************)
(* TurnRecord: a restart tells the same                                    *)
(***************************************************************************)

(* Those of the entries of s that are in S, and the recursion of Content. *)
PickedOf(s, S) ==
  CHOOSE f : f = [k \in 0..Len(s) |->
                    IF k = 0 THEN <<>>
                    ELSE IF s[k] \in S THEN Append(f[k - 1], s[k]) ELSE f[k - 1]]
Picked(s, S) == PickedOf(s, S)[Len(s)]
LEMMA PickedUnfolds ==
  ASSUME NEW s \in Lines, NEW S
  PROVE  /\ PickedOf(s, S)[0] = <<>>
         /\ \A k \in 1..Len(s) :
              PickedOf(s, S)[k] = IF s[k] \in S THEN Append(PickedOf(s, S)[k - 1], s[k])
                                  ELSE PickedOf(s, S)[k - 1]
         /\ \A k \in 0..Len(s) : PickedOf(s, S)[k] \in Lines
  <1> DEFINE n == Len(s)
             V == Lines
             nil == <<>>
             Step(v, k) == IF s[k] \in S THEN Append(v, s[k]) ELSE v
             step == [k \in 1..n |-> [v \in V |-> Step(v, k)]]
             Full(f) == f = [k \in 0..n |-> IF k = 0 THEN nil ELSE Step(f[k - 1], k)]
             F == PickedOf(s, S)
  <1>1. n \in Nat /\ nil \in V
    BY DEF Lines
  <1>2. \A k \in 1..n : \A v \in V : Step(v, k) \in V
    <2>1. \A k \in 1..n : s[k] \in Entries
      BY DEF Lines
    <2> QED BY <2>1 DEF Lines
  <1>3. F = CHOOSE f : Full(f)
    BY DEF PickedOf
  <1> HIDE DEF n, V, nil, Step, F
  <1>4. \E f : Full(f)
    <2>1. step \in [1..n -> [V -> V]]
      BY <1>2
    <2>2. PICK f : Solves(f, V, n, nil, step)
      <3> HIDE DEF step
      <3> QED BY <1>1, <2>1, RecursionHasOne
    <2>3. /\ f \in [0..n -> V] /\ f[0] = nil
          /\ \A k \in 1..n : k - 1 \in 0..n /\ f[k] = step[k][f[k - 1]]
      BY <1>1, <2>2 DEF Solves
    <2>4. \A k \in 1..n : f[k] = Step(f[k - 1], k)
      BY <2>3
    <2>5. \A k \in 0..n : k = 0 \/ k \in 1..n
      BY <1>1
    <2>6. Full(f)
      BY <2>3, <2>4, <2>5
    <2> QED BY <2>6
  <1>5. Full(F)
    <2> HIDE DEF Full
    <2> QED BY <1>3, <1>4
  <1>6. 0 \in 0..n /\ \A k \in 1..n : k \in 0..n /\ k # 0
    BY <1>1
  <1>7. F[0] = nil /\ \A k \in 1..n : F[k] = Step(F[k - 1], k)
    BY <1>5, <1>6
  <1>8. \A k \in 0..n : F[k] \in V
    <2> DEFINE Good == {k \in 0..n : F[k] \in V}
    <2>1. 0 \in Good
      BY <1>1, <1>6, <1>7
    <2>2. \A k \in 1..n : k - 1 \in Good => k \in Good
      BY <1>2, <1>6, <1>7
    <2>3. \A k \in 0..n : k \in Good
      <3> HIDE DEF Good
      <3> QED BY <1>1, <2>1, <2>2, UpTo
    <2> QED BY <2>3
  <1> QED BY <1>7, <1>8 DEF n, V, nil, Step, F

Spoken == Entries \ {Record!Marker}

LEMMA ContentIs == \A s \in Lines : Record!Content(s) = Picked(s, Spoken)
  <1> SUFFICES ASSUME NEW s \in Lines PROVE Record!Content(s) = Picked(s, Spoken)
    OBVIOUS
  <1> DEFINE n == Len(s)
             Full(f) == f = [k \in 0..n |->
                              IF k = 0 THEN <<>>
                              ELSE IF s[k] \in Spoken THEN Append(f[k - 1], s[k]) ELSE f[k - 1]]
             Told(f) == f = [k \in 0..n |->
                              IF k = 0 THEN <<>>
                              ELSE IF s[k] = Record!Marker THEN f[k - 1] ELSE Append(f[k - 1], s[k])]
  <1>1. \A k \in 0..n : k # 0 => (s[k] \in Spoken <=> s[k] # Record!Marker)
    BY DEF Lines, Spoken
  <1>2. \A f : [k \in 0..n |-> IF k = 0 THEN <<>>
                              ELSE IF s[k] \in Spoken THEN Append(f[k - 1], s[k]) ELSE f[k - 1]]
             = [k \in 0..n |-> IF k = 0 THEN <<>>
                              ELSE IF s[k] = Record!Marker THEN f[k - 1] ELSE Append(f[k - 1], s[k])]
    BY <1>1
  <1>3. \A f : Full(f) <=> Told(f)
    BY <1>2
  <1>4. (CHOOSE f : Full(f)) = (CHOOSE f : Told(f))
    <2> HIDE DEF Full, Told
    <2> QED BY <1>3
  <1>5. Record!Content(s) = (CHOOSE f : Told(f))[n]
    BY DEF Record!Content
  <1> QED BY <1>4, <1>5 DEF Picked, PickedOf

(* What holds of <<>> and is kept by one more entry holds of all lines. *)
LEMMA Grown ==
  ASSUME NEW P, <<>> \in P, \A q \in Lines, x \in Entries : q \in P => Append(q, x) \in P
  PROVE  Lines \subseteq P
  <1> SUFFICES ASSUME NEW s \in Lines PROVE s \in P
    OBVIOUS
  <1> DEFINE n == Len(s)
             Take(k) == [i \in 1..k |-> s[i]]
             Good == {k \in 0..n : Take(k) \in P}
  <1>1. n \in Nat /\ s \in Seq(Entries) /\ \A k \in 1..n : s[k] \in Entries
    BY DEF Lines
  <1>2. 0 \in Good
    <2>1. Take(0) = <<>>
      OBVIOUS
    <2> QED BY <1>1, <2>1
  <1>3. ASSUME NEW k \in 1..n, k - 1 \in Good PROVE k \in Good
    <2>1. Take(k - 1) \in Lines /\ s[k] \in Entries /\ Len(Take(k - 1)) = k - 1
      BY <1>1 DEF Lines
    <2>2. Append(Take(k - 1), s[k]) = Take(k)
      BY <1>1, <2>1
    <2>3. Take(k - 1) \in P
      BY <1>3
    <2>4. k \in 0..n
      BY <1>1
    <2>5. Take(k) \in P
      <3> HIDE DEF Take
      <3> QED BY <2>1, <2>2, <2>3
    <2> QED BY <2>4, <2>5
  <1>4. n \in Good
    <2>1. \A k \in 1..n : k - 1 \in Good => k \in Good
      BY <1>3
    <2>2. n \in 0..n
      BY <1>1
    <2> HIDE DEF Good
    <2> QED BY <1>1, <1>2, <2>1, <2>2, UpTo
  <1>5. Take(n) = s
    BY <1>1
  <1> QED BY <1>4, <1>5

LEMMA PickedAppend ==
  ASSUME NEW S
  PROVE  /\ Picked(<<>>, S) = <<>>
         /\ \A s \in Lines : Picked(s, S) \in Lines
         /\ \A s \in Lines, x \in Entries :
              Picked(Append(s, x), S) = IF x \in S THEN Append(Picked(s, S), x) ELSE Picked(s, S)
  <1>1. Picked(<<>>, S) = <<>>
    <2>1. <<>> \in Lines /\ Len(<<>>) = 0
      BY DEF Lines
    <2> QED BY <2>1, PickedUnfolds DEF Picked
  <1>2. ASSUME NEW s \in Lines PROVE Picked(s, S) \in Lines
    <2>1. Len(s) \in 0..Len(s)
      BY DEF Lines
    <2> QED BY <2>1, PickedUnfolds DEF Picked
  <1>3. ASSUME NEW s \in Lines, NEW x \in Entries
        PROVE  Picked(Append(s, x), S) = IF x \in S THEN Append(Picked(s, S), x) ELSE Picked(s, S)
    <2> DEFINE a == Append(s, x)
               n == Len(s)
               F == PickedOf(s, S)
               G == PickedOf(a, S)
               Good == {k \in 0..n : G[k] = F[k]}
    <2>1. /\ a \in Lines /\ n \in Nat /\ Len(a) = n + 1 /\ a[n + 1] = x
          /\ \A k \in 1..n : a[k] = s[k] /\ k \in 1..(n + 1)
          /\ n + 1 \in 1..(n + 1) /\ (n + 1) - 1 = n
      BY DEF Lines
    <2>8. /\ F[0] = <<>>
          /\ \A k \in 1..n : F[k] = IF s[k] \in S THEN Append(F[k - 1], s[k]) ELSE F[k - 1]
      BY PickedUnfolds
    <2> HIDE DEF a, F, n
    <2>9. /\ G[0] = <<>>
          /\ \A k \in 1..Len(a) : G[k] = IF a[k] \in S THEN Append(G[k - 1], a[k]) ELSE G[k - 1]
      BY <2>1, PickedUnfolds
    <2> HIDE DEF G
    <2>2. /\ F[0] = <<>> /\ G[0] = <<>>
          /\ \A k \in 1..n : F[k] = IF s[k] \in S THEN Append(F[k - 1], s[k]) ELSE F[k - 1]
          /\ \A k \in 1..(n + 1) : G[k] = IF a[k] \in S THEN Append(G[k - 1], a[k]) ELSE G[k - 1]
      BY <2>1, <2>8, <2>9
    <2>3. 0 \in Good
      BY <2>1, <2>2
    <2>4. \A k \in 1..n : k - 1 \in Good => k \in Good
      BY <2>1, <2>2
    <2>5. n \in 0..n
      BY <2>1
    <2>6. n \in Good
      <3> HIDE DEF Good
      <3> QED BY <2>1, <2>3, <2>4, <2>5, UpTo
    <2>7. G[n + 1] = IF x \in S THEN Append(F[n], x) ELSE F[n]
      BY <2>1, <2>2, <2>6
    <2> QED BY <2>1, <2>7 DEF Picked, a, F, G, n
  <1> QED BY <1>1, <1>2, <1>3

LEMMA PickedJoin ==
  ASSUME NEW S, NEW s \in Lines
  PROVE  \A q \in Lines : Picked(s \o q, S) = Picked(s, S) \o Picked(q, S)
  <1> DEFINE P == {q \in Lines : Picked(s \o q, S) = Picked(s, S) \o Picked(q, S)}
  <1>1. <<>> \in P
    <2>1. <<>> \in Lines /\ s \o <<>> = s /\ Picked(s, S) \o <<>> = Picked(s, S)
      BY PickedAppend, ConcatEmptySeq DEF Lines
    <2> QED BY <2>1, PickedAppend
  <1>2. ASSUME NEW q \in Lines, NEW x \in Entries, q \in P PROVE Append(q, x) \in P
    <2>1. /\ Append(q, x) \in Lines /\ s \o q \in Lines
          /\ s \o Append(q, x) = Append(s \o q, x)
      <3>1. Append(q, x) \in Lines /\ s \o q \in Lines
        BY AppendedAt, Places
      <3> QED BY <3>1, AppendsWhole
    <2>2. Picked(s \o q, S) = Picked(s, S) \o Picked(q, S)
      BY <1>2
    <2> DEFINE a == Picked(s, S)
               b == Picked(q, S)
    <2>3. a \in Lines /\ b \in Lines
      BY PickedAppend
    <2>4. Picked(s \o Append(q, x), S) = IF x \in S THEN Append(a \o b, x) ELSE a \o b
      <3>1. Picked(Append(s \o q, x), S)
              = IF x \in S THEN Append(Picked(s \o q, S), x) ELSE Picked(s \o q, S)
        BY <2>1, PickedAppend
      <3> HIDE DEF a, b
      <3>2. Picked(s \o q, S) = a \o b
        BY <2>2 DEF a, b
      <3> QED BY <2>1, <3>1, <3>2
    <2>5. Picked(Append(q, x), S) = IF x \in S THEN Append(b, x) ELSE b
      BY PickedAppend
    <2> HIDE DEF a, b
    <2>6. a \o Append(b, x) = Append(a \o b, x)
      BY <2>3, AppendsWhole
    <2>7. Picked(s \o Append(q, x), S) = a \o Picked(Append(q, x), S)
      BY <2>4, <2>5, <2>6
    <2> QED BY <2>1, <2>7 DEF a
  <1>3. Lines \subseteq P
    <2> HIDE DEF P
    <2> QED BY <1>1, <1>2, Grown
  <1> QED BY <1>3

LEMMA PickedSwap ==
  ASSUME NEW S, NEW T
  PROVE  \A q \in Lines : Picked(Picked(q, S), T) = Picked(Picked(q, T), S)
  <1> DEFINE P == {q \in Lines : Picked(Picked(q, S), T) = Picked(Picked(q, T), S)}
  <1>1. <<>> \in P
    <2>1. <<>> \in Lines
      BY DEF Lines
    <2> QED BY <2>1, PickedAppend
  <1>2. ASSUME NEW q \in Lines, NEW x \in Entries, q \in P PROVE Append(q, x) \in P
    <2> DEFINE a == Picked(q, S)
               b == Picked(q, T)
    <2>1. /\ a \in Lines /\ b \in Lines /\ Append(q, x) \in Lines
          /\ Picked(Append(q, x), S) = IF x \in S THEN Append(a, x) ELSE a
          /\ Picked(Append(q, x), T) = IF x \in T THEN Append(b, x) ELSE b
      BY PickedAppend, AppendedAt
    <2>2. /\ Picked(Append(a, x), T) = IF x \in T THEN Append(Picked(a, T), x) ELSE Picked(a, T)
          /\ Picked(Append(b, x), S) = IF x \in S THEN Append(Picked(b, S), x) ELSE Picked(b, S)
      BY <2>1, PickedAppend
    <2>3. Picked(a, T) = Picked(b, S)
      BY <1>2
    <2> HIDE DEF a, b
    <2>4. Picked(Picked(Append(q, x), S), T) = Picked(Picked(Append(q, x), T), S)
      BY <2>1, <2>2, <2>3
    <2> QED BY <2>1, <2>4
  <1>3. Lines \subseteq P
    <2> HIDE DEF P
    <2> QED BY <1>1, <1>2, Grown
  <1> QED BY <1>3

LEMMA PickedTwice ==
  ASSUME NEW S
  PROVE  \A q \in Lines : Picked(Picked(q, S), S) = Picked(q, S)
  <1> DEFINE P == {q \in Lines : Picked(Picked(q, S), S) = Picked(q, S)}
  <1>1. <<>> \in P
    <2>1. <<>> \in Lines
      BY DEF Lines
    <2> QED BY <2>1, PickedAppend
  <1>2. ASSUME NEW q \in Lines, NEW x \in Entries, q \in P PROVE Append(q, x) \in P
    <2> DEFINE a == Picked(q, S)
    <2>1. /\ a \in Lines /\ Picked(a, S) = a /\ Append(q, x) \in Lines
          /\ Picked(Append(q, x), S) = IF x \in S THEN Append(a, x) ELSE a
      BY <1>2, PickedAppend, AppendedAt
    <2> HIDE DEF a
    <2>2. Picked(Append(a, x), S) = IF x \in S THEN Append(Picked(a, S), x) ELSE Picked(a, S)
      BY <2>1, PickedAppend
    <2>3. Picked(Picked(Append(q, x), S), S) = Picked(Append(q, x), S)
      BY <2>1, <2>2
    <2> QED BY <2>1, <2>3
  <1>3. Lines \subseteq P
    <2> HIDE DEF P
    <2> QED BY <1>1, <1>2, Grown
  <1> QED BY <1>3

LEMMA PickedAll == \A q \in Lines : Picked(q, Entries) = q
  <1> DEFINE P == {q \in Lines : Picked(q, Entries) = q}
  <1>1. <<>> \in P
    <2>1. <<>> \in Lines
      BY DEF Lines
    <2> QED BY <2>1, PickedAppend
  <1>2. ASSUME NEW q \in Lines, NEW x \in Entries, q \in P PROVE Append(q, x) \in P
    BY <1>2, PickedAppend, AppendedAt
  <1>3. Lines \subseteq P
    <2> HIDE DEF P
    <2> QED BY <1>1, <1>2, Grown
  <1> QED BY <1>3

(* What is missing follows from the outputs there are. *)
LEMMA MissingSame ==
  ASSUME NEW s, NEW t, NEW cs \in Seq(Call),
         \A k \in DOMAIN cs : Record!HasOutput(s, cs[k]) <=> Record!HasOutput(t, cs[k])
  PROVE  Record!Missing(s, cs) = Record!Missing(t, cs)
  <1> DEFINE n == Len(cs)
             F == MissingOf(s, cs)
             G == MissingOf(t, cs)
             Good == {k \in 0..n : F[k] = G[k]}
  <1>1. /\ n \in Nat /\ DOMAIN cs = 1..n
        /\ F[0] = <<>>
        /\ \A k \in 1..n : F[k] = IF Record!HasOutput(s, cs[k]) THEN F[k - 1]
                                  ELSE Append(F[k - 1], Record!Output(cs[k], "aborted"))
    BY MissingUnfolds
  <1>2. /\ G[0] = <<>>
        /\ \A k \in 1..n : G[k] = IF Record!HasOutput(t, cs[k]) THEN G[k - 1]
                                  ELSE Append(G[k - 1], Record!Output(cs[k], "aborted"))
    BY MissingUnfolds
  <1> HIDE DEF n, F, G
  <1>3. 0 \in Good
    BY <1>1, <1>2
  <1>4. \A k \in 1..n : k - 1 \in Good => k \in Good
    BY <1>1, <1>2
  <1>5. n \in 0..n
    BY <1>1
  <1>6. n \in Good
    <2> HIDE DEF Good
    <2> QED BY <1>1, <1>3, <1>4, <1>5, UpTo
  <1> QED BY <1>6, RecordFolds DEF n, F, G

LEMMA MissingNone ==
  ASSUME NEW s, NEW cs \in Seq(Call), \A k \in DOMAIN cs : Record!HasOutput(s, cs[k])
  PROVE  Record!Missing(s, cs) = <<>>
  <1> DEFINE n == Len(cs)
             F == MissingOf(s, cs)
             Good == {k \in 0..n : F[k] = <<>>}
  <1>1. /\ n \in Nat /\ DOMAIN cs = 1..n
        /\ F[0] = <<>>
        /\ \A k \in 1..n : F[k] = IF Record!HasOutput(s, cs[k]) THEN F[k - 1]
                                  ELSE Append(F[k - 1], Record!Output(cs[k], "aborted"))
    BY MissingUnfolds
  <1> HIDE DEF n, F
  <1>2. 0 \in Good
    BY <1>1
  <1>3. \A k \in 1..n : k - 1 \in Good => k \in Good
    BY <1>1
  <1>4. n \in 0..n
    BY <1>1
  <1>5. n \in Good
    <2> HIDE DEF Good
    <2> QED BY <1>1, <1>2, <1>3, <1>4, UpTo
  <1> QED BY <1>5, RecordFolds DEF n, F

(* Completing what lacks nothing changes nothing. *)
LEMMA EnsureNone ==
  ASSUME NEW s \in Lines, Answered(s)
  PROVE  Record!EnsureOutputs(s) = s
  <1> DEFINE n == Len(s)
             F == FilledOf(s)
             Take(k) == [i \in 1..k |-> s[i]]
             Good == {k \in 0..n : F[k] = Take(k)}
  <1>1. /\ n \in Nat /\ s \in Seq(Entries) /\ DOMAIN s = 1..n /\ \A k \in 1..n : s[k] \in Entries
        /\ F[0] = <<>>
        /\ \A k \in 1..n :
             F[k] = IF s[k].kind = "assistant"
                    THEN Append(F[k - 1], s[k]) \o Record!Missing(s, s[k].calls)
                    ELSE Append(F[k - 1], s[k])
    BY FilledUnfolds DEF Lines
  <1> HIDE DEF F
  <1>2. 0 \in Good
    <2>1. Take(0) = <<>>
      OBVIOUS
    <2> QED BY <1>1, <2>1
  <1>3. ASSUME NEW k \in 1..n, k - 1 \in Good PROVE k \in Good
    <2>1. Take(k - 1) \in Lines /\ Take(k) \in Lines /\ s[k] \in Entries /\ Len(Take(k - 1)) = k - 1
      BY <1>1 DEF Lines
    <2>2. Append(Take(k - 1), s[k]) = Take(k)
      BY <1>1, <2>1
    <2>3. F[k - 1] = Take(k - 1) /\ k \in 0..n
      BY <1>1, <1>3
    <2> HIDE DEF Take, n
    <2>4. Take(k) \o <<>> = Take(k)
      BY <2>1, ConcatEmptySeq DEF Lines
    <2>5. ASSUME s[k].kind = "assistant" PROVE Record!Missing(s, s[k].calls) = <<>>
      <3>1. s[k].calls \in Seq(Call)
        BY <2>1, <2>5 DEF Entries
      <3>2. \A l \in DOMAIN s[k].calls : Record!HasOutput(s, s[k].calls[l])
        BY <1>1, <2>5 DEF Answered, Made
      <3> QED BY <3>1, <3>2, MissingNone
    <2>6. F[k] = Take(k)
      BY <1>1, <2>2, <2>3, <2>4, <2>5
    <2> QED BY <2>3, <2>6
  <1>4. n \in Good
    <2>1. \A k \in 1..n : k - 1 \in Good => k \in Good
      BY <1>3
    <2>2. n \in 0..n
      BY <1>1
    <2> HIDE DEF Good
    <2> QED BY <1>1, <1>2, <2>1, <2>2, UpTo
  <1>5. Take(n) = s
    BY <1>1
  <1> QED BY <1>4, <1>5, RecordFolds DEF F

(* One entry more: what it leaves of what stood in for the outputs there were. *)
Standing(x) == {y \in Entries : ~(x.kind = "tool" /\ y.kind = "tool" /\ y.call = x.call)}
Unheard(s, x) == /\ x.kind = "tool" => ~Record!HasOutput(s, x.call)
                 /\ \A c : Made(x, c) => ~Record!HasOutput(s, c)

LEMMA HasOneMore ==
  ASSUME NEW s \in Lines, NEW x \in Entries
  PROVE  \A c : Record!HasOutput(Append(s, x), c) <=>
                  Record!HasOutput(s, c) \/ (x.kind = "tool" /\ x.call = c)
  <1> DEFINE r == Append(s, x)
  <1>1. /\ \A k \in DOMAIN r : \/ k \in DOMAIN s /\ r[k] = s[k]
                               \/ r[k] = x
        /\ \A k \in DOMAIN s : k \in DOMAIN r /\ r[k] = s[k]
        /\ Len(s) + 1 \in DOMAIN r /\ r[Len(s) + 1] = x
    BY AppendedAt
  <1> HIDE DEF r
  <1>2. \A c : Record!HasOutput(r, c) => Record!HasOutput(s, c) \/ (x.kind = "tool" /\ x.call = c)
    BY <1>1 DEF Record!HasOutput
  <1>3. \A c : Record!HasOutput(s, c) => Record!HasOutput(r, c)
    BY <1>1 DEF Record!HasOutput
  <1>4. x.kind = "tool" => Record!HasOutput(r, x.call)
    BY <1>1 DEF Record!HasOutput
  <1> QED BY <1>2, <1>3, <1>4 DEF r

LEMMA MissingPicked ==
  ASSUME NEW s \in Lines, NEW x \in Entries, NEW cs \in Seq(Call)
  PROVE  Record!Missing(Append(s, x), cs) = Picked(Record!Missing(s, cs), Standing(x))
  <1> DEFINE n == Len(cs)
             r == Append(s, x)
             S == Standing(x)
             F == MissingOf(s, cs)
             G == MissingOf(r, cs)
             o(k) == Record!Output(cs[k], "aborted")
             Good == {k \in 0..n : F[k] \in Lines /\ G[k] = Picked(F[k], S)}
  <1>1. /\ n \in Nat /\ DOMAIN cs = 1..n
        /\ F[0] = <<>>
        /\ \A k \in 1..n : F[k] = IF Record!HasOutput(s, cs[k]) THEN F[k - 1]
                                  ELSE Append(F[k - 1], o(k))
    BY MissingUnfolds
  <1>2. /\ G[0] = <<>>
        /\ \A k \in 1..n : G[k] = IF Record!HasOutput(r, cs[k]) THEN G[k - 1]
                                  ELSE Append(G[k - 1], o(k))
    BY MissingUnfolds
  <1>3. \A k \in 1..n : o(k) \in Entries /\ (o(k) \in S <=> ~(x.kind = "tool" /\ x.call = cs[k]))
    <2>1. "aborted" \in Outcomes /\ \A k \in 1..n : cs[k] \in Call
      BY DEF Outcomes
    <2>2. \A k \in 1..n : o(k) \in Entries
      BY <2>1, SomeEntries
    <2> QED BY <2>2 DEF Standing, Record!Output
  <1>4. \A k \in 1..n : Record!HasOutput(r, cs[k]) <=>
                          Record!HasOutput(s, cs[k]) \/ (x.kind = "tool" /\ x.call = cs[k])
    BY HasOneMore
  <1> HIDE DEF n, r, S, F, G, o
  <1>5. 0 \in Good
    <2>1. <<>> \in Lines /\ Picked(<<>>, S) = <<>>
      BY PickedAppend DEF Lines
    <2> QED BY <1>1, <1>2, <2>1
  <1>6. ASSUME NEW k \in 1..n, k - 1 \in Good PROVE k \in Good
    <2>1. F[k - 1] \in Lines /\ G[k - 1] = Picked(F[k - 1], S) /\ k \in 0..n
      BY <1>1, <1>6
    <2>2. /\ Append(F[k - 1], o(k)) \in Lines
          /\ Picked(Append(F[k - 1], o(k)), S)
               = IF o(k) \in S THEN Append(Picked(F[k - 1], S), o(k)) ELSE Picked(F[k - 1], S)
      <3>1. \A m \in Lines, y \in Entries :
              /\ Append(m, y) \in Lines
              /\ Picked(Append(m, y), S) = IF y \in S THEN Append(Picked(m, S), y) ELSE Picked(m, S)
        BY PickedAppend, AppendedAt
      <3>2. o(k) \in Entries
        BY <1>3
      <3> QED BY <2>1, <3>1, <3>2
    <2>3. F[k] \in Lines /\ G[k] = Picked(F[k], S)
      <3>1. CASE Record!HasOutput(s, cs[k])
        BY <1>1, <1>2, <1>4, <2>1, <3>1
      <3>2. CASE ~Record!HasOutput(s, cs[k])
        BY <1>1, <1>2, <1>3, <1>4, <2>1, <2>2, <3>2
      <3> QED BY <3>1, <3>2
    <2> QED BY <2>1, <2>3
  <1>7. n \in Good
    <2>1. \A k \in 1..n : k - 1 \in Good => k \in Good
      BY <1>6
    <2>2. n \in 0..n
      BY <1>1
    <2> HIDE DEF Good
    <2> QED BY <1>1, <1>5, <2>1, <2>2, UpTo
  <1>8. Record!Missing(s, cs) = F[n] /\ Record!Missing(r, cs) = G[n]
    BY RecordFolds DEF n, F, G
  <1> QED BY <1>7, <1>8 DEF r, S

EnsuredTail(s, x) == IF x.kind = "assistant" THEN Record!Missing(Append(s, x), x.calls) ELSE <<>>

LEMMA TailIsLines ==
  ASSUME NEW s \in Lines, NEW x \in Entries
  PROVE  EnsuredTail(s, x) \in Lines
  <1>1. CASE x.kind = "assistant"
    <2>1. x.calls \in Seq(Call)
      BY <1>1 DEF Entries
    <2> QED BY <1>1, <2>1, MissingFills DEF Fills, EnsuredTail
  <1>2. CASE x.kind # "assistant"
    BY <1>2 DEF EnsuredTail, Lines
  <1> QED BY <1>1, <1>2

LEMMA EnsureIsLines == \A s \in Lines : /\ Record!EnsureOutputs(s) \in Lines
                                        /\ \A k \in 0..Len(s) : FilledOf(s)[k] \in Lines
  <1> SUFFICES ASSUME NEW s \in Lines
               PROVE  /\ Record!EnsureOutputs(s) \in Lines
                      /\ \A k \in 0..Len(s) : FilledOf(s)[k] \in Lines
    OBVIOUS
  <1> DEFINE n == Len(s)
             F == FilledOf(s)
             Good == {k \in 0..n : F[k] \in Lines}
  <1>1. /\ n \in Nat /\ \A k \in 1..n : s[k] \in Entries
        /\ F[0] = <<>>
        /\ \A k \in 1..n :
             F[k] = IF s[k].kind = "assistant"
                    THEN Append(F[k - 1], s[k]) \o Record!Missing(s, s[k].calls)
                    ELSE Append(F[k - 1], s[k])
    BY FilledUnfolds DEF Lines
  <1> HIDE DEF F, n
  <1>2. 0 \in Good
    <2>1. <<>> \in Lines
      BY DEF Lines
    <2> QED BY <1>1, <2>1
  <1>3. ASSUME NEW k \in 1..n, k - 1 \in Good PROVE k \in Good
    <2> DEFINE v == Append(F[k - 1], s[k])
    <2>1. v \in Lines /\ k \in 0..n
      <3>1. F[k - 1] \in Lines
        BY <1>3
      <3> QED BY <1>1, <3>1, AppendedAt
    <2>2. F[k] = IF s[k].kind = "assistant" THEN v \o Record!Missing(s, s[k].calls) ELSE v
      BY <1>1
    <2>3. ASSUME s[k].kind = "assistant" PROVE Record!Missing(s, s[k].calls) \in Lines
      <3>1. s[k].calls \in Seq(Call)
        BY <1>1, <2>3 DEF Entries
      <3> QED BY <3>1, MissingFills DEF Fills
    <2> HIDE DEF v
    <2> QED BY <2>1, <2>2, <2>3, Places
  <1>4. \A k \in 0..n : k \in Good
    <2>1. \A k \in 1..n : k - 1 \in Good => k \in Good
      BY <1>3
    <2> HIDE DEF Good
    <2> QED BY <1>1, <1>2, <2>1, UpTo
  <1>5. n \in 0..n
    BY <1>1
  <1> QED BY <1>4, <1>5, RecordFolds DEF F, n

(* Completing a history of one entry more. *)
LEMMA EnsureOneMore ==
  ASSUME NEW s \in Lines, NEW x \in Entries, Unheard(s, x)
  PROVE  Record!EnsureOutputs(Append(s, x))
           = Append(Picked(Record!EnsureOutputs(s), Standing(x)), x) \o EnsuredTail(s, x)
  <1> DEFINE n == Len(s)
             r == Append(s, x)
             S == Standing(x)
             F == FilledOf(s)
             G == FilledOf(r)
             Good == {k \in 0..n : G[k] = Picked(F[k], S)}
  <1>1. /\ r \in Lines /\ n \in Nat /\ Len(r) = n + 1 /\ r[n + 1] = x
        /\ \A k \in 1..n : r[k] = s[k] /\ k \in 1..(n + 1) /\ s[k] \in Entries
        /\ n + 1 \in 1..(n + 1) /\ (n + 1) - 1 = n
    BY DEF Lines
  <1>2. /\ F[0] = <<>>
        /\ \A k \in 1..n :
             F[k] = IF s[k].kind = "assistant"
                    THEN Append(F[k - 1], s[k]) \o Record!Missing(s, s[k].calls)
                    ELSE Append(F[k - 1], s[k])
        /\ \A k \in 0..n : F[k] \in Lines
    BY FilledUnfolds, EnsureIsLines
  <1>3. \A k \in 1..n : s[k] \in S
    <2>1. \A k \in 1..n : s[k].kind = "tool" => Record!HasOutput(s, s[k].call)
      <3>1. DOMAIN s = 1..n
        BY DEF Lines
      <3> QED BY <3>1 DEF Record!HasOutput
    <2> QED BY <1>1, <2>1 DEF Standing, Unheard
  <1>4. \A cs \in Seq(Call) : Record!Missing(r, cs) = Picked(Record!Missing(s, cs), S)
    BY MissingPicked
  <1> HIDE DEF r, n, F, S
  <1>5. /\ G[0] = <<>>
        /\ \A k \in 1..(n + 1) :
             G[k] = IF r[k].kind = "assistant"
                    THEN Append(G[k - 1], r[k]) \o Record!Missing(r, r[k].calls)
                    ELSE Append(G[k - 1], r[k])
    BY <1>1, FilledUnfolds
  <1> HIDE DEF G
  <1>6. 0 \in Good
    BY <1>1, <1>2, <1>5, PickedAppend
  <1>7. ASSUME NEW k \in 1..n, k - 1 \in Good PROVE k \in Good
    <2> DEFINE y == s[k]
               v == F[k - 1]
               w == G[k - 1]
    <2>1. /\ y \in Entries /\ y \in S /\ r[k] = y /\ v \in Lines /\ w = Picked(v, S)
          /\ k \in 0..n /\ k - 1 \in 0..n /\ k \in 1..(n + 1)
      BY <1>1, <1>2, <1>3, <1>7
    <2>2. F[k] = IF y.kind = "assistant" THEN Append(v, y) \o Record!Missing(s, y.calls)
                 ELSE Append(v, y)
      BY <1>2
    <2>3. G[k] = IF y.kind = "assistant" THEN Append(w, y) \o Record!Missing(r, y.calls)
                 ELSE Append(w, y)
      BY <1>5, <2>1
    <2> HIDE DEF y, v, w
    <2>4. Picked(Append(v, y), S) = Append(w, y) /\ Append(v, y) \in Lines
      <3>1. \A m \in Lines, z \in Entries :
              /\ Append(m, z) \in Lines
              /\ Picked(Append(m, z), S) = IF z \in S THEN Append(Picked(m, S), z) ELSE Picked(m, S)
        BY PickedAppend, AppendedAt
      <3> QED BY <2>1, <3>1
    <2>5. CASE y.kind = "assistant"
      <3>1. y.calls \in Seq(Call)
        BY <2>1, <2>5 DEF Entries
      <3>2. Record!Missing(s, y.calls) \in Lines
        BY <3>1, MissingFills DEF Fills
      <3>3. Picked(Append(v, y) \o Record!Missing(s, y.calls), S)
              = Append(w, y) \o Picked(Record!Missing(s, y.calls), S)
        BY <2>4, <3>2, PickedJoin
      <3>4. G[k] = Picked(F[k], S)
        BY <1>4, <2>2, <2>3, <2>5, <3>1, <3>3
      <3> QED BY <2>1, <3>4
    <2>6. CASE y.kind # "assistant"
      BY <2>1, <2>2, <2>3, <2>4, <2>6
    <2> QED BY <2>5, <2>6
  <1>8. n \in Good
    <2>1. \A k \in 1..n : k - 1 \in Good => k \in Good
      BY <1>7
    <2>2. n \in 0..n
      BY <1>1
    <2> HIDE DEF Good
    <2> QED BY <1>1, <1>6, <2>1, <2>2, UpTo
  <1>9. Record!EnsureOutputs(s) = F[n] /\ Record!EnsureOutputs(r) = G[n + 1]
    BY <1>1, RecordFolds DEF F, G, n
  <1> DEFINE a == Append(Picked(F[n], S), x)
  <1>10. G[n + 1] = IF x.kind = "assistant" THEN a \o Record!Missing(r, x.calls) ELSE a
    BY <1>1, <1>5, <1>8
  <1>11. a \in Lines
    <2>1. F[n] \in Lines
      BY <1>1, <1>2
    <2>2. Picked(F[n], S) \in Lines
      BY <2>1, PickedAppend
    <2> QED BY <2>2, AppendedAt
  <1>12. EnsuredTail(s, x) = IF x.kind = "assistant" THEN Record!Missing(r, x.calls) ELSE <<>>
    BY DEF EnsuredTail, r
  <1> HIDE DEF a
  <1>13. a \o <<>> = a
    BY <1>11, ConcatEmptySeq DEF Lines
  <1>14. G[n + 1] = a \o EnsuredTail(s, x)
    BY <1>10, <1>12, <1>13
  <1> QED BY <1>9, <1>14 DEF a, r, S

(* What the model is told by a history, the markers apart. *)
Told(s) == Picked(Record!EnsureOutputs(s), Spoken)
Same(s, t) == Told(s) = Told(t)

LEMMA ToldIs == \A s \in Lines : Told(s) = Record!Content(Record!EnsureOutputs(s)) /\ Told(s) \in Lines
  BY EnsureIsLines, ContentIs, PickedAppend DEF Told

LEMMA ToldOneMore ==
  ASSUME NEW s \in Lines, NEW x \in Entries, Unheard(s, x)
  PROVE  Told(Append(s, x))
           = Picked(Append(Picked(Told(s), Standing(x)), x), Spoken)
               \o Picked(EnsuredTail(s, x), Spoken)
  <1> DEFINE e == Record!EnsureOutputs(s)
             S == Standing(x)
             T == Spoken
             v == Picked(e, S)
             w == Picked(Picked(e, T), S)
             q == EnsuredTail(s, x)
  <1>1. e \in Lines /\ q \in Lines
    BY EnsureIsLines, TailIsLines
  <1>2. v \in Lines /\ w \in Lines /\ Append(v, x) \in Lines
    <2>1. Picked(e, T) \in Lines /\ v \in Lines
      BY <1>1, PickedAppend
    <2>2. w \in Lines
      BY <2>1, PickedAppend
    <2> QED BY <2>1, <2>2, AppendedAt
  <1>3. Picked(v, T) = w
    BY <1>1, PickedSwap
  <1>4. w = Picked(w, T)
    <2>1. Picked(Picked(e, T), T) = Picked(e, T)
      BY <1>1, PickedTwice
    <2>2. Picked(e, T) \in Lines
      BY <1>1, PickedAppend
    <2> QED BY <2>1, <2>2, PickedSwap
  <1>5. Told(s) = Picked(e, T) /\ w = Picked(Told(s), S)
    BY DEF Told
  <1>6. Told(Append(s, x)) = Picked(Append(v, x) \o q, T)
    BY EnsureOneMore DEF Told
  <1> HIDE DEF e, S, T, v, w, q
  <1>7. Picked(Append(v, x) \o q, T) = Picked(Append(v, x), T) \o Picked(q, T)
    BY <1>1, <1>2, PickedJoin
  <1>8. \A m \in Lines : Picked(Append(m, x), T) = IF x \in T THEN Append(Picked(m, T), x) ELSE Picked(m, T)
    BY PickedAppend
  <1>9. Picked(Append(v, x), T) = Picked(Append(w, x), T)
    BY <1>2, <1>3, <1>4, <1>8
  <1> QED BY <1>5, <1>6, <1>7, <1>9 DEF S, T, q

(* The same goes on the same. *)
LEMMA SameGrows ==
  ASSUME NEW s \in Lines, NEW t \in Lines, NEW x \in Entries, Unheard(s, x), Unheard(t, x),
         Same(s, t)
  PROVE  Same(Append(s, x), Append(t, x))
  <1>1. EnsuredTail(s, x) = EnsuredTail(t, x)
    <2>1. ASSUME x.kind = "assistant"
          PROVE  Record!Missing(Append(s, x), x.calls) = Record!Missing(Append(t, x), x.calls)
      <3> DEFINE a == Append(s, x)
                 b == Append(t, x)
      <3>1. x.calls \in Seq(Call)
        BY <2>1 DEF Entries
      <3>2. \A k \in DOMAIN x.calls : /\ ~Record!HasOutput(s, x.calls[k])
                                      /\ ~Record!HasOutput(t, x.calls[k])
        BY <2>1 DEF Unheard, Made
      <3>3. \A k \in DOMAIN x.calls : /\ ~Record!HasOutput(a, x.calls[k])
                                      /\ ~Record!HasOutput(b, x.calls[k])
        BY <2>1, <3>2, HasOneMore
      <3> HIDE DEF a, b
      <3>4. Record!Missing(a, x.calls) = Record!Missing(b, x.calls)
        BY <3>1, <3>3, MissingSame
      <3> QED BY <3>4 DEF a, b
    <2> QED BY <2>1 DEF EnsuredTail
  <1>2. Told(s) = Told(t)
    BY DEF Same
  <1>3. /\ Told(Append(s, x)) = Picked(Append(Picked(Told(s), Standing(x)), x), Spoken)
                                  \o Picked(EnsuredTail(s, x), Spoken)
        /\ Told(Append(t, x)) = Picked(Append(Picked(Told(t), Standing(x)), x), Spoken)
                                  \o Picked(EnsuredTail(t, x), Spoken)
    BY ToldOneMore
  <1> QED BY <1>1, <1>2, <1>3 DEF Same

(* A marker tells nothing. *)
LEMMA SameMarked ==
  ASSUME NEW s \in Lines
  PROVE  /\ Append(s, Record!Marker) \in Lines /\ Same(Append(s, Record!Marker), s)
         /\ Record!Marked(s) \in Lines /\ Same(Record!Marked(s), s)
  <1> DEFINE x == Record!Marker
  <1>1. x \in Entries /\ x.kind = "marker"
    BY SomeEntries DEF Record!Marker
  <1>2. Unheard(s, x) /\ Standing(x) = Entries /\ EnsuredTail(s, x) = <<>> /\ x \notin Spoken
    BY <1>1 DEF Unheard, Standing, EnsuredTail, Made, Spoken
  <1> HIDE DEF x
  <1>3. Told(s) \in Lines /\ Picked(Told(s), Entries) = Told(s)
    BY ToldIs, PickedAll
  <1>4. Told(Append(s, x)) = Picked(Append(Told(s), x), Spoken) \o Picked(<<>>, Spoken)
    BY <1>1, <1>2, <1>3, ToldOneMore
  <1>5. Picked(Append(Told(s), x), Spoken) = Picked(Told(s), Spoken) /\ Picked(<<>>, Spoken) = <<>>
    BY <1>1, <1>2, <1>3, PickedAppend
  <1>6. Picked(Told(s), Spoken) \in Lines
    BY <1>3, PickedAppend
  <1>7. Told(Append(s, x)) = Picked(Told(s), Spoken)
    BY <1>4, <1>5, <1>6, ConcatEmptySeq DEF Lines
  <1>8. Picked(Told(s), Spoken) = Told(s)
    BY EnsureIsLines, PickedTwice DEF Told
  <1>9. Append(s, x) \in Lines /\ Same(Append(s, x), s)
    BY <1>1, <1>7, <1>8, AppendedAt DEF Same
  <1>10. Record!Marked(s) \in {s, Append(s, x)}
    BY DEF Record!Marked, x
  <1>11. Same(s, s)
    BY DEF Same
  <1> QED BY <1>9, <1>10, <1>11 DEF x

(* Completing the history changes nothing of what it tells. *)
LEMMA SameEnsured ==
  ASSUME NEW n, NEW s, Paired(s, n)
  PROVE  Same(Record!EnsureOutputs(s), s)
  <1>1. /\ s \in Lines /\ Record!EnsureOutputs(s) \in Lines
        /\ Answered(Record!EnsureOutputs(s))
    BY EnsurePairs DEF Paired
  <1>2. Record!EnsureOutputs(Record!EnsureOutputs(s)) = Record!EnsureOutputs(s)
    BY <1>1, EnsureNone
  <1> QED BY <1>2 DEF Same, Told

(* One entry more on the rollout. *)
LEMMA ReplayedOneMore ==
  ASSUME NEW s \in Lines, NEW x \in Entries
  PROVE  /\ Append(s, x) \in Lines
         /\ \A k \in 0..Len(s) : ReplayedOf(Append(s, x))[k] = ReplayedOf(s)[k]
         /\ Len(Append(s, x)) = Len(s) + 1
         /\ ReplayedOf(Append(s, x))[Len(s) + 1] = Record!Replay(ReplayedOf(s)[Len(s)], x)
         /\ ReplayedOf(s)[Len(s)] \in Accs
  <1> DEFINE n == Len(s)
             r == Append(s, x)
             F == ReplayedOf(s)
             G == ReplayedOf(r)
             Good == {k \in 0..n : G[k] = F[k]}
  <1>1. /\ r \in Lines /\ n \in Nat /\ Len(r) = n + 1 /\ r[n + 1] = x
        /\ \A k \in 1..n : r[k] = s[k] /\ k \in 1..(n + 1)
        /\ n + 1 \in 1..(n + 1) /\ (n + 1) - 1 = n /\ n \in 0..n
    BY DEF Lines
  <1>2. /\ F[0] = NoAcc
        /\ \A k \in 1..n : F[k] = Record!Replay(F[k - 1], s[k])
        /\ \A k \in 0..n : F[k] \in Accs
    BY ReplayedUnfolds
  <1> HIDE DEF r, F, n
  <1>3. /\ G[0] = NoAcc
        /\ \A k \in 1..Len(r) : G[k] = Record!Replay(G[k - 1], r[k])
    BY <1>1, ReplayedUnfolds
  <1> HIDE DEF G
  <1>4. 0 \in Good
    BY <1>1, <1>2, <1>3
  <1>5. \A k \in 1..n : k - 1 \in Good => k \in Good
    BY <1>1, <1>2, <1>3
  <1>6. \A k \in 0..n : k \in Good
    <2> HIDE DEF Good
    <2> QED BY <1>1, <1>4, <1>5, UpTo
  <1>7. G[n + 1] = Record!Replay(F[n], x)
    BY <1>1, <1>3, <1>6
  <1> QED BY <1>1, <1>2, <1>6, <1>7 DEF r, F, G, n

(* A flush that drops what the turn has so far drops nothing but a marker. *)
Keeps(acc) ==
  \/ acc.turn \in {<<>>, <<Record!Marker>>}
  \/ \E i \in DOMAIN acc.turn : acc.turn[i].kind \in {"assistant", "tool"}

LEMMA EndedTells ==
  ASSUME NEW acc \in Accs, Keeps(acc), NEW x \in Entries, x.kind = "ended"
  PROVE  Same(Whole(Record!Replay(acc, x)), Whole(acc))
  <1> DEFINE W == Whole(acc)
             r == Record!Replay(acc, x)
             output == \E i \in DOMAIN acc.turn : acc.turn[i].kind \in {"assistant", "tool"}
             nil == <<>>
  <1>1. /\ acc.msgs \in Lines /\ acc.turn \in Lines /\ W \in Lines
        /\ acc = [msgs |-> acc.msgs, turn |-> acc.turn]
    BY Places DEF Accs, Whole
  <1>2. nil \in Lines /\ \A s \in Lines : s \o nil = s
    BY ConcatEmptySeq DEF Lines
  <1>3. acc.turn = nil => W = acc.msgs
    BY <1>1, <1>2 DEF Whole
  <1>4. \A m : Whole([msgs |-> m, turn |-> nil]) = m \o nil
    BY DEF Whole
  <1>5. r = IF acc.turn = nil /\ x.how = "cancelled" THEN [acc EXCEPT !.msgs = Record!Marked(@)]
            ELSE Record!FlushTurn(acc, x.how)
    BY DEF Record!Replay
  <1>6. \A how : Record!FlushTurn(acc, how) =
          [turn |-> nil,
           msgs |-> CASE acc.turn = nil -> acc.msgs
                      [] acc.turn # nil /\ how \in {"cancelled", "failed"} /\ ~output -> acc.msgs
                      [] acc.turn # nil /\ how = "cancelled" /\ output -> Record!Marked(W)
                      [] OTHER -> W]
    BY DEF Record!FlushTurn, Whole
  <1>7. acc.turn = nil \/ acc.turn = <<Record!Marker>> \/ output
    BY DEF Keeps
  <1>8. Same(W, W) /\ Same(Record!Marked(W), W) /\ Record!Marked(W) \in Lines
    BY <1>1, SameMarked DEF Same
  <1>9. acc.turn = <<Record!Marker>> => W = Append(acc.msgs, Record!Marker)
    BY <1>1, AppendIsConcat DEF Whole, Lines
  <1>10. acc.turn = <<Record!Marker>> => Same(acc.msgs, W)
    BY <1>1, <1>9, SameMarked DEF Same
  <1>11. Record!Marked(acc.msgs) \in Lines
    BY <1>1, MarkedIsLines
  <1> HIDE DEF W, output, nil, r
  <1>12. CASE acc.turn = nil /\ x.how = "cancelled"
    <2>1. r = [msgs |-> Record!Marked(acc.msgs), turn |-> nil]
      BY <1>1, <1>5, <1>12
    <2>2. Whole(r) = Record!Marked(W)
      BY <1>2, <1>3, <1>4, <1>11, <1>12, <2>1
    <2> QED BY <1>8, <2>2 DEF W, r
  <1>13. CASE ~(acc.turn = nil /\ x.how = "cancelled")
    <2> DEFINE m == Record!FlushTurn(acc, x.how).msgs
               drops == x.how \in {"cancelled", "failed"} /\ ~output
               marks == x.how = "cancelled" /\ output
    <2>1. r = [turn |-> nil, msgs |-> m]
          /\ m = CASE acc.turn = nil -> acc.msgs
                 [] acc.turn # nil /\ drops -> acc.msgs
                 [] acc.turn # nil /\ marks -> Record!Marked(W)
                 [] OTHER -> W
      BY <1>5, <1>6, <1>13
    <2> HIDE DEF m
    <2>2. m \in Lines /\ Same(m, W)
      <3>1. CASE acc.turn = nil
        BY <1>1, <1>3, <1>8, <2>1, <3>1
      <3>2. CASE acc.turn # nil /\ drops
        <4>1. m = acc.msgs /\ acc.turn = <<Record!Marker>>
          BY <1>7, <2>1, <3>2
        <4> QED BY <1>1, <1>10, <4>1
      <3>3. CASE acc.turn # nil /\ ~drops /\ marks
        BY <1>8, <2>1, <3>3
      <3>4. CASE acc.turn # nil /\ ~drops /\ ~marks
        BY <1>1, <1>8, <2>1, <3>4
      <3> QED BY <3>1, <3>2, <3>3, <3>4
    <2>3. Whole(r) = m
      BY <1>2, <2>1, <2>2 DEF Whole
    <2> QED BY <2>2, <2>3 DEF W, r
  <1> QED BY <1>12, <1>13

LEMMA GatheredOneMore ==
  ASSUME NEW s \in Lines, NEW x \in Entries
  PROVE  /\ Gathered(s) \in Accs /\ Append(s, x) \in Lines
         /\ Gathered(Append(s, x)) = Record!Replay(Gathered(s), x)
  BY ReplayedOneMore DEF Gathered

(* What is heard of one entry more. *)
LEMMA HeardOneMore ==
  ASSUME NEW s \in Lines, NEW x \in Entries
  PROVE  /\ Heard(s) \in Lines
         /\ Record!IsItem(x) => Heard(Append(s, x)) = Append(Heard(s), x)
         /\ x.kind = "started" => Heard(Append(s, x)) = Heard(s)
         /\ x.kind = "ended" /\ Keeps(Gathered(s)) => Same(Heard(Append(s, x)), Heard(s))
  <1>1. /\ Gathered(s) \in Accs /\ Gathered(Append(s, x)) = Record!Replay(Gathered(s), x)
    BY GatheredOneMore
  <1>2. Heard(s) \in Lines
    BY <1>1, Places DEF Heard, Whole, Accs
  <1>3. Record!IsItem(x) => Heard(Append(s, x)) = Append(Heard(s), x)
    BY <1>1, ReplayIs DEF Heard
  <1>4. x.kind = "started" => Record!Replay(Gathered(s), x) = Gathered(s)
    BY DEF Record!Replay
  <1>5. x.kind = "ended" /\ Keeps(Gathered(s)) => Same(Heard(Append(s, x)), Heard(s))
    BY <1>1, EndedTells DEF Heard
  <1> QED BY <1>1, <1>2, <1>3, <1>4, <1>5 DEF Heard

LEMMA KeepsOneMore ==
  ASSUME NEW s \in Lines, NEW x \in Entries,
         x.kind \in {"assistant", "tool"} \/ x = Record!Marker
  PROVE  Keeps(Gathered(Append(s, x)))
  <1> DEFINE acc == Gathered(s)
             r == Record!Replay(acc, x)
  <1>1. acc \in Accs /\ Gathered(Append(s, x)) = r
    BY GatheredOneMore
  <1>2. acc.msgs \in Lines /\ acc.turn \in Lines /\ acc = [msgs |-> acc.msgs, turn |-> acc.turn]
    BY <1>1 DEF Accs
  <1> HIDE DEF acc
  <1>3. CASE x = Record!Marker
    <2>1. x.kind = "marker"
      BY <1>3 DEF Record!Marker
    <2> DEFINE v == Record!FlushTurn(acc, "open")
    <2>2. r = [v EXCEPT !.turn = <<x>>]
      BY <2>1 DEF Record!Replay
    <2>3. v \in Accs
      BY <1>1, FlushIs
    <2> HIDE DEF v
    <2>4. r.turn = <<x>>
      BY <2>2, <2>3 DEF Accs
    <2> HIDE DEF r
    <2> QED BY <1>1, <1>3, <2>4 DEF Keeps
  <1>4. CASE x.kind \in {"assistant", "tool"}
    <2>1. r = IF acc.turn # <<>> THEN [acc EXCEPT !.turn = Append(@, x)]
              ELSE [acc EXCEPT !.msgs = Append(@, x)]
      BY <1>4 DEF Record!Replay
    <2> HIDE DEF r
    <2>2. CASE acc.turn = <<>>
      <3>1. r.turn = <<>>
        BY <1>2, <2>1, <2>2
      <3> QED BY <1>1, <3>1 DEF Keeps
    <2>3. CASE acc.turn # <<>>
      <3> DEFINE a == Append(acc.turn, x)
      <3>1. r.turn = a
        BY <1>2, <2>1, <2>3
      <3>2. Len(acc.turn) + 1 \in DOMAIN a /\ a[Len(acc.turn) + 1] = x
        BY <1>2, AppendedAt
      <3> HIDE DEF a
      <3> QED BY <1>1, <1>4, <3>1, <3>2 DEF Keeps
    <2> QED BY <2>2, <2>3
  <1> QED BY <1>3, <1>4

(* An output that is heard is on the rollout. *)
LEMMA HeardHas == \A s \in Lines : \A c : Record!HasOutput(Heard(s), c) => Record!HasOutput(s, c)
  <1> DEFINE P == {s \in Lines : \A c : Record!HasOutput(Heard(s), c) => Record!HasOutput(s, c)}
  <1>1. <<>> \in P
    <2>1. <<>> \in Lines /\ Len(<<>>) = 0 /\ <<>> \o <<>> = <<>>
      BY ConcatEmptySeq DEF Lines
    <2>2. Heard(<<>>) = <<>>
      BY <2>1, ReplayedUnfolds DEF Heard, Gathered, Whole, NoAcc
    <2> QED BY <2>1, <2>2
  <1>2. ASSUME NEW s \in Lines, NEW x \in Entries, s \in P PROVE Append(s, x) \in P
    <2> DEFINE acc == Gathered(s)
               W == Whole(acc)
               m == acc.msgs
               r == Heard(Append(s, x))
    <2>1. acc \in Accs /\ Append(s, x) \in Lines /\ r = Whole(Record!Replay(acc, x))
      BY GatheredOneMore DEF Heard
    <2>2. /\ m \in Lines /\ W \in Lines
          /\ \A p \in DOMAIN m : p \in DOMAIN W /\ W[p] = m[p]
      BY <2>1, Places DEF Accs, Whole
    <2>3. IF Record!IsItem(x) THEN r = Append(W, x) ELSE r \in {m, W, Record!Marked(W)}
      BY <2>1, ReplayIs
    <2>4. \A c : Record!HasOutput(W, c) => Record!HasOutput(s, c)
      BY <1>2 DEF Heard
    <2> HIDE DEF acc, W, m, r
    <2>5. \A c : Record!HasOutput(s, c) => Record!HasOutput(Append(s, x), c)
      BY HasOneMore
    <2>6. ASSUME NEW c, Record!HasOutput(r, c) PROVE Record!HasOutput(Append(s, x), c)
      <3>1. CASE Record!IsItem(x)
        <4>1. Record!HasOutput(W, c) \/ (x.kind = "tool" /\ x.call = c)
          <5>1. Record!HasOutput(Append(W, x), c)
            BY <2>3, <2>6, <3>1
          <5> QED BY <2>2, <5>1, HasOneMore
        <4> QED BY <2>4, <4>1, HasOneMore
      <3>2. CASE ~Record!IsItem(x)
        <4>1. Record!HasOutput(m, c) => Record!HasOutput(W, c)
          BY <2>2 DEF Record!HasOutput
        <4>2. Record!HasOutput(Append(W, Record!Marker), c) => Record!HasOutput(W, c)
          <5>1. Record!Marker \in Entries /\ Record!Marker.kind # "tool"
            BY SomeEntries DEF Record!Marker
          <5> QED BY <2>2, <5>1, HasOneMore
        <4>3. Record!Marked(W) \in {W, Append(W, Record!Marker)}
          BY DEF Record!Marked
        <4>4. r \in {m, W, Append(W, Record!Marker)}
          BY <2>3, <3>2, <4>3
        <4> QED BY <2>4, <2>5, <2>6, <4>1, <4>2, <4>4
      <3> QED BY <3>1, <3>2
    <2> QED BY <2>1, <2>6 DEF r
  <1>3. Lines \subseteq P
    <2> HIDE DEF P
    <2> QED BY <1>1, <1>2, Grown
  <1> QED BY <1>3

LEMMA RebuiltTells ==
  ASSUME NEW n, NEW s, Paired(s, n)
  PROVE  /\ Record!Reconstructed(s) \in Lines /\ Heard(s) \in Lines
         /\ Same(Record!Reconstructed(s), Heard(s))
         /\ Record!Content(Record!Reconstructed(s)) = Told(Heard(s))
  <1>1. Paired(Heard(s), n) /\ Record!Reconstructed(s) = Record!EnsureOutputs(Heard(s))
    BY HeardPairs
  <1>2. Heard(s) \in Lines
    BY <1>1 DEF Paired
  <1> QED BY <1>1, <1>2, SameEnsured, EnsureIsLines, ToldIs

(* From place n of rollout s on, the entries with no items behind them change
   nothing of what is heard.                                                 *)
SoFar(n, s) ==
  \A k \in n..Len(s) :
    (\A j \in (k + 1)..Len(s) : ~Record!IsItem(s[j])) =>
      Same(Whole(ReplayedOf(s)[k]), Heard(s))

LEMMA SoFarMore ==
  ASSUME NEW n \in Nat, NEW s \in Lines, n <= Len(s), NEW x \in Entries,
         \/ Record!IsItem(x)
         \/ SoFar(n, s) /\ Same(Heard(Append(s, x)), Heard(s))
  PROVE  SoFar(n, Append(s, x))
  <1> DEFINE r == Append(s, x)
             m == Len(s)
  <1>1. /\ m \in Nat /\ Len(r) = m + 1 /\ r[m + 1] = x /\ \A k \in 1..m : r[k] = s[k]
    BY DEF Lines
  <1>2. \A k \in 0..m : ReplayedOf(r)[k] = ReplayedOf(s)[k]
    BY ReplayedOneMore
  <1>3. Whole(ReplayedOf(r)[Len(r)]) = Heard(r) /\ Same(Heard(r), Heard(r))
    BY DEF Heard, Gathered, Same
  <1> HIDE DEF r, m
  <1>4. ASSUME NEW k \in n..Len(r), \A j \in (k + 1)..Len(r) : ~Record!IsItem(r[j])
        PROVE  Same(Whole(ReplayedOf(r)[k]), Heard(r))
    <2>1. CASE k = m + 1
      BY <1>1, <1>3, <2>1
    <2>2. CASE k # m + 1
      <3>1. k \in n..m /\ k \in 0..m /\ m + 1 \in (k + 1)..Len(r)
        BY <1>1, <2>2
      <3>2. ~Record!IsItem(x)
        BY <1>1, <1>4, <3>1
      <3>3. \A j \in (k + 1)..m : ~Record!IsItem(s[j])
        <4>1. \A j \in (k + 1)..m : j \in (k + 1)..Len(r) /\ j \in 1..m
          BY <1>1, <3>1
        <4> QED BY <1>1, <1>4, <4>1
      <3>4. Same(Whole(ReplayedOf(s)[k]), Heard(s)) /\ Same(Heard(r), Heard(s))
        BY <3>1, <3>2, <3>3 DEF SoFar, r, m
      <3> QED BY <1>2, <3>1, <3>4 DEF Same
    <2> QED BY <2>1, <2>2
  <1> QED BY <1>4 DEF SoFar, r

(* An item goes into the history and onto the rollout. *)
LEMMA TellsOneMore ==
  ASSUME NEW m \in Lines, NEW s \in Lines, NEW x \in Entries, Record!IsItem(x),
         Unheard(m, x), Unheard(s, x), Same(m, Heard(s))
  PROVE  Same(Append(m, x), Heard(Append(s, x)))
  <1>1. Heard(s) \in Lines /\ Heard(Append(s, x)) = Append(Heard(s), x)
    BY HeardOneMore
  <1>2. Unheard(Heard(s), x)
    BY HeardHas DEF Unheard
  <1> QED BY <1>1, <1>2, SameGrows

LEMMA HasJoined ==
  ASSUME NEW s \in Lines, NEW q \in Lines, NEW c, Record!HasOutput(s \o q, c)
  PROVE  Record!HasOutput(s, c) \/ Record!HasOutput(q, c)
  <1> DEFINE w == s \o q
  <1>1. /\ w \in Lines
        /\ \A k \in DOMAIN w :
             \/ k \in DOMAIN s /\ w[k] = s[k]
             \/ k - Len(s) \in DOMAIN q /\ w[k] = q[k - Len(s)] /\ k > Len(s)
        /\ \A k \in DOMAIN s : k \in DOMAIN w /\ k <= Len(s) /\ w[k] = s[k]
        /\ DOMAIN w \subseteq Nat /\ Len(s) \in Nat
    BY Places
  <1>2. Record!HasOutput(w, c)
    OBVIOUS
  <1> HIDE DEF w
  <1> QED BY <1>1, <1>2 DEF Record!HasOutput

(* Outputs of calls that have none. *)
LEMMA TellsOutputs ==
  ASSUME NEW m \in Lines, NEW s \in Lines, NEW n \in Nat, n <= Len(s)
  PROVE  \A q \in Lines :
           /\ OneOutput(q)
           /\ \A i \in DOMAIN q : /\ q[i].kind = "tool" /\ ~Record!HasOutput(m, q[i].call)
                                  /\ ~Record!HasOutput(s, q[i].call)
           => /\ Same(m, Heard(s)) => Same(m \o q, Heard(s \o q))
              /\ SoFar(n, s) => SoFar(n, s \o q)
              /\ Keeps(Gathered(s)) => Keeps(Gathered(s \o q))
  <1> DEFINE New(q) ==
               /\ OneOutput(q)
               /\ \A i \in DOMAIN q : /\ q[i].kind = "tool" /\ ~Record!HasOutput(m, q[i].call)
                                      /\ ~Record!HasOutput(s, q[i].call)
             Tells(q) ==
               /\ Same(m, Heard(s)) => Same(m \o q, Heard(s \o q))
               /\ SoFar(n, s) => SoFar(n, s \o q)
               /\ Keeps(Gathered(s)) => Keeps(Gathered(s \o q))
             P == {q \in Lines : New(q) => Tells(q)}
  <1>1. <<>> \in P
    <2>1. <<>> \in Lines /\ m \o <<>> = m /\ s \o <<>> = s
      BY ConcatEmptySeq DEF Lines
    <2> QED BY <2>1
  <1>2. ASSUME NEW q \in Lines, NEW x \in Entries, q \in P PROVE Append(q, x) \in P
    <2> DEFINE r == Append(q, x)
               mq == m \o q
               sq == s \o q
    <2>1. /\ r \in Lines
          /\ \A i \in DOMAIN q : i \in DOMAIN r /\ r[i] = q[i] /\ i # Len(q) + 1
          /\ Len(q) + 1 \in DOMAIN r /\ r[Len(q) + 1] = x
      <3>1. \A i \in DOMAIN q : i # Len(q) + 1
        BY DEF Lines
      <3> QED BY <3>1, AppendedAt
    <2>2. /\ mq \in Lines /\ sq \in Lines /\ m \o r = Append(mq, x) /\ s \o r = Append(sq, x)
          /\ n <= Len(sq)
      <3>1. mq \in Lines /\ sq \in Lines
        BY Places
      <3>2. m \o r = Append(mq, x) /\ s \o r = Append(sq, x)
        BY AppendsWhole
      <3>3. Len(sq) = Len(s) + Len(q) /\ Len(s) \in Nat /\ Len(q) \in Nat
        BY DEF Lines
      <3> QED BY <3>1, <3>2, <3>3
    <2>3. /\ \A c : Record!HasOutput(mq, c) => Record!HasOutput(m, c) \/ Record!HasOutput(q, c)
          /\ \A c : Record!HasOutput(sq, c) => Record!HasOutput(s, c) \/ Record!HasOutput(q, c)
      BY HasJoined
    <2> HIDE DEF r, mq, sq
    <2>4. ASSUME New(r) PROVE Tells(r)
      <3>1. New(q)
        BY <2>1, <2>4 DEF OneOutput
      <3>2. x.kind = "tool" /\ ~Record!HasOutput(m, x.call) /\ ~Record!HasOutput(s, x.call)
        BY <2>1, <2>4
      <3>3. ~Record!HasOutput(q, x.call)
        BY <2>1, <2>4, <3>2 DEF Record!HasOutput, OneOutput
      <3>4. Unheard(mq, x) /\ Unheard(sq, x) /\ Record!IsItem(x)
        BY <2>3, <3>2, <3>3 DEF Unheard, Made, Record!IsItem
      <3>5. Tells(q)
        BY <1>2, <3>1
      <3>6. Same(m, Heard(s)) => Same(Append(mq, x), Heard(Append(sq, x)))
        <4>1. Same(m, Heard(s)) => Same(mq, Heard(sq))
          BY <3>5 DEF mq, sq
        <4> QED BY <2>2, <3>4, <4>1, TellsOneMore
      <3>7. SoFar(n, Append(sq, x))
        BY <2>2, <3>4, SoFarMore
      <3>8. Keeps(Gathered(Append(sq, x)))
        BY <2>2, <3>2, KeepsOneMore
      <3> QED BY <2>2, <3>6, <3>7, <3>8
    <2> QED BY <2>1, <2>4 DEF r
  <1>3. Lines \subseteq P
    <2> HIDE DEF P
    <2> QED BY <1>1, <1>2, Grown
  <1> QED BY <1>3

(* What is replayed of a rollout does not depend on what is behind it. *)
LEMMA ReplayedBefore ==
  ASSUME NEW s \in Lines
  PROVE  \A q \in Lines : ReplayedOf(s \o q)[Len(s)] = Gathered(s)
  <1> DEFINE P == {q \in Lines : ReplayedOf(s \o q)[Len(s)] = Gathered(s)}
  <1>1. <<>> \in P
    <2>1. <<>> \in Lines /\ s \o <<>> = s
      BY ConcatEmptySeq DEF Lines
    <2> QED BY <2>1 DEF Gathered
  <1>2. ASSUME NEW q \in Lines, NEW x \in Entries, q \in P PROVE Append(q, x) \in P
    <2> DEFINE w == s \o q
    <2>1. w \in Lines
      BY Places
    <2>2. s \o Append(q, x) = Append(w, x) /\ Append(q, x) \in Lines
      BY AppendsWhole DEF Lines
    <2>3. Len(s) \in 0..Len(w)
      <3>1. Len(w) = Len(s) + Len(q) /\ Len(s) \in Nat /\ Len(q) \in Nat
        BY DEF Lines
      <3> HIDE DEF w
      <3> QED BY <3>1
    <2>4. ReplayedOf(w)[Len(s)] = Gathered(s)
      BY <1>2
    <2> HIDE DEF w
    <2>5. ReplayedOf(Append(w, x))[Len(s)] = ReplayedOf(w)[Len(s)]
      BY <2>1, <2>3, ReplayedOneMore
    <2> QED BY <2>2, <2>4, <2>5
  <1>3. Lines \subseteq P
    <2> HIDE DEF P
    <2> QED BY <1>1, <1>2, Grown
  <1> QED BY <1>3

(* With no items on their way, the rollout tells what it will. *)
LEMMA WrittenTells ==
  ASSUME NEW s \in Lines, NEW q \in Lines, \A i \in DOMAIN q : ~Record!IsItem(q[i]),
         SoFar(Len(s), s \o q)
  PROVE  Same(Heard(s), Heard(s \o q))
  <1> DEFINE w == s \o q
  <1>1. /\ w \in Lines
        /\ \A k \in DOMAIN w :
             \/ k \in DOMAIN s /\ w[k] = s[k]
             \/ k - Len(s) \in DOMAIN q /\ w[k] = q[k - Len(s)] /\ k > Len(s)
        /\ \A k \in DOMAIN s : k \in DOMAIN w /\ k <= Len(s) /\ w[k] = s[k]
        /\ DOMAIN w \subseteq Nat /\ Len(s) \in Nat
    BY Places
  <1>2. Whole(ReplayedOf(w)[Len(s)]) = Heard(s)
    BY ReplayedBefore DEF Heard
  <1>3. Len(w) = Len(s) + Len(q) /\ Len(q) \in Nat /\ DOMAIN s = 1..Len(s)
    BY DEF Lines
  <1>4. SoFar(Len(s), w)
    OBVIOUS
  <1> HIDE DEF w
  <1>5. DOMAIN w = 1..Len(w) /\ Len(w) \in Nat
    BY <1>1 DEF Lines
  <1>6. \A j \in (Len(s) + 1)..Len(w) : ~Record!IsItem(w[j])
    <2> SUFFICES ASSUME NEW j \in (Len(s) + 1)..Len(w) PROVE ~Record!IsItem(w[j])
      OBVIOUS
    <2>1. j \in DOMAIN w /\ j \notin DOMAIN s
      BY <1>1, <1>3, <1>5
    <2>2. j - Len(s) \in DOMAIN q /\ w[j] = q[j - Len(s)]
      BY <1>1, <2>1
    <2> QED BY <2>2
  <1>7. Len(s) \in Len(s)..Len(w)
    BY <1>1, <1>3
  <1> QED BY <1>2, <1>4, <1>6, <1>7 DEF SoFar, w

(* The end of a turn is told. *)
LEMMA EndTold ==
  ASSUME NEW s \in Lines, NEW n \in Nat, n <= Len(s), Keeps(Gathered(s)),
         NEW x \in Entries, x.kind = "ended"
  PROVE  /\ Same(Heard(Append(s, x)), Heard(s))
         /\ SoFar(n, s) => SoFar(n, Append(s, x))
  <1>1. Same(Heard(Append(s, x)), Heard(s))
    BY HeardOneMore
  <1>2. SoFar(n, s) => SoFar(n, Append(s, x))
    BY <1>1, SoFarMore
  <1> QED BY <1>1, <1>2

(* So is the marker of an interrupted one. *)
LEMMA MarkedTold ==
  ASSUME NEW s \in Lines, NEW x \in Entries, x.kind = "ended"
  PROVE  LET r == Append(Append(s, Record!Marker), x)
         IN  r \in Lines /\ Same(Heard(r), Heard(s))
  <1> DEFINE a == Append(s, Record!Marker)
             r == Append(a, x)
  <1>1. Record!Marker \in Entries /\ Record!IsItem(Record!Marker)
    BY SomeEntries DEF Record!Marker, Record!IsItem
  <1>2. Heard(s) \in Lines /\ Heard(a) = Append(Heard(s), Record!Marker)
    BY <1>1, HeardOneMore
  <1>3. Same(Heard(a), Heard(s))
    BY <1>2, SameMarked
  <1>4. a \in Lines /\ Keeps(Gathered(a))
    BY <1>1, KeepsOneMore, GatheredOneMore
  <1> HIDE DEF a
  <1>5. r \in Lines /\ Same(Heard(r), Heard(a))
    BY <1>4, HeardOneMore, GatheredOneMore
  <1> QED BY <1>3, <1>5 DEF Same, a

(* What the model would be told is the same of the history in memory as of all
   that is recorded, written or not; unless an interrupt read the rollout too
   early, or the turn is over by an error and the history is read again.  What
   is written tells the same as all of it, but for items; in a batch no end of
   the turn could drop anything.                                              *)
Lost == {"interrupted", "failed", "reread"}
TellInv ==
  /\ pc = "idle" => queued = <<>>
  /\ ~stale /\ mem # Record!Unloaded /\ pc \notin Lost => Same(mem, Heard(log \o queued))
  /\ pc \notin {"idle", "flush", "failed", "reread"} => SoFar(Len(log), log \o queued)
  /\ pc = "batch" => Keeps(Gathered(log \o queued))

LEMMA NotUnloaded == \A s \in Lines : s # Record!Unloaded
  <1> SUFFICES ASSUME Record!Unloaded \in Lines PROVE FALSE
    OBVIOUS
  <1>1. Record!Unloaded[1] \in Entries
    BY DEF Record!Unloaded, Lines
  <1>2. Record!Unloaded[1].kind = "unloaded"
    BY DEF Record!Unloaded
  <1>3. \A x \in Entries : x.kind # "unloaded"
    BY DEF Entries
  <1> QED BY <1>1, <1>2, <1>3

LEMMA TellFacts ==
  ASSUME RecordInv, PairInv, TellInv
  PROVE  /\ log \in Lines /\ queued \in Lines /\ log \o queued \in Lines
         /\ Len(log) \in Nat /\ Len(log) <= Len(log \o queued)
         /\ turns \in Nat /\ answers \in Nat /\ calls \in Seq(Call) /\ ready \in Seq(Call)
         /\ pc # "idle" => mem \in Lines /\ mem # Record!Unloaded /\ Paired(mem, answers)
         /\ Paired(log \o queued, answers)
  <1>1. /\ turns \in Nat /\ answers \in Nat /\ calls \in Seq(Call) /\ ready \in Seq(Call)
        /\ log \in Lines /\ queued \in Lines /\ log \o queued \in Lines
        /\ Paired(log \o queued, answers)
        /\ pc # "idle" => Paired(mem, answers) /\ mem \in Lines
    BY PairFacts
  <1>2. /\ Len(log \o queued) = Len(log) + Len(queued)
        /\ Len(log) \in Nat /\ Len(queued) \in Nat
    BY <1>1 DEF Lines
  <1>3. Len(log) <= Len(log \o queued)
    BY <1>2
  <1> QED BY <1>1, <1>2, <1>3, NotUnloaded

(* What a step records, behind what was. *)
LEMMA TellGrows ==
  ASSUME RecordInv, log' = log, NEW q \in Lines, NEW e \in Lines, queued' = queued \o q \o e
  PROVE  log' \o queued' = ((log \o queued) \o q) \o e /\ (log \o queued) \o q \in Lines
  <1>1. log \in Lines /\ queued \in Lines
    BY DEF RecordInv, RecordTypes
  <1>2. queued \o q \in Lines /\ log \o queued \in Lines
    BY <1>1, Places
  <1>3. log \o (queued \o q) = (log \o queued) \o q
    BY <1>1, Regrouped
  <1>4. log \o ((queued \o q) \o e) = (log \o (queued \o q)) \o e
    BY ZenonT(60), <1>1, <1>2, Regrouped
  <1>5. (log \o queued) \o q \in Lines
    BY <1>2, Places
  <1> QED BY <1>3, <1>4, <1>5

LEMMA TwoAppended ==
  ASSUME NEW s \in Lines, NEW x \in Entries, NEW y \in Entries
  PROVE  <<x, y>> \in Lines /\ s \o <<x, y>> = Append(Append(s, x), y)
  <1>1. <<x>> \in Lines /\ <<x, y>> \in Lines /\ Append(<<x>>, y) = <<x, y>>
    <2>1. <<x>> \in Lines
      BY DEF Lines
    <2>2. <<x, y>> \in Lines
      BY DEF Lines
    <2>3. Append(<<x>>, y) = <<x, y>>
      <3> DEFINE a == Append(<<x>>, y)
                 b == <<x, y>>
      <3>1. a \in Lines /\ Len(a) = 2 /\ a[1] = x /\ a[2] = y
        BY DEF Lines
      <3>2. b \in Lines /\ Len(b) = 2 /\ b[1] = x /\ b[2] = y
        BY DEF Lines
      <3> HIDE DEF a, b
      <3>3. \A i \in 1..Len(a) : a[i] = b[i]
        BY <3>1, <3>2
      <3> QED BY <3>1, <3>2, <3>3, SeqEqual DEF Lines, a, b
    <2> QED BY <2>1, <2>2, <2>3
  <1>2. s \o <<x>> = Append(s, x)
    BY AppendIsConcat DEF Lines
  <1>3. s \o Append(<<x>>, y) = Append(s \o <<x>>, y)
    BY <1>1, AppendsWhole
  <1> QED BY <1>1, <1>2, <1>3

(* The turn ends with a marker. *)
LEMMA MarkerTells ==
  ASSUME RecordInv, log' = log, pc' = "flush", stale' = stale, NEW q \in Lines, mem \o q \in Lines,
         ~stale => Same(mem \o q, Heard((log \o queued) \o q)),
         mem' = Record!Marked(mem \o q),
         queued' = queued \o q \o <<Record!Marker, Record!Ended("cancelled")>>
  PROVE  TellInv'
  <1> DEFINE x == Record!Ended("cancelled")
             e == <<Record!Marker, x>>
             r == (log \o queued) \o q
  <1>1. Record!Marker \in Entries /\ x \in Entries /\ x.kind = "ended"
    BY SomeEntries DEF Record!Ended, Entries, Ways, RecordInv, RecordTypes
  <1>2. queued' = queued \o q \o e
    OBVIOUS
  <1> HIDE DEF x
  <1>3. e \in Lines
    BY <1>1, TwoAppended DEF Lines
  <1> HIDE DEF e
  <1>4. log' \o queued' = r \o e /\ r \in Lines
    BY <1>2, <1>3, TellGrows
  <1>5. ~stale => Same(mem \o q, Heard(r))
    OBVIOUS
  <1> HIDE DEF r
  <1>6. log' \o queued' = Append(Append(r, Record!Marker), x)
    BY <1>1, <1>4, TwoAppended DEF e
  <1>7. Same(Heard(log' \o queued'), Heard(r))
    BY <1>1, <1>4, <1>6, MarkedTold
  <1>8. Same(mem', mem \o q)
    BY SameMarked
  <1>9. ~stale' => Same(mem', Heard(log' \o queued'))
    BY <1>5, <1>7, <1>8 DEF Same
  <1> QED BY <1>9 DEF TellInv

(* A step that records nothing. *)
LEMMA TellStays ==
  ASSUME TellInv, UNCHANGED <<mem, log, queued, stale>>,
         pc' = "idle" => queued = <<>>,
         pc' \notin Lost => pc \notin Lost,
         pc' \notin {"idle", "flush", "failed", "reread"} =>
           pc \notin {"idle", "flush", "failed", "reread"},
         pc' = "batch" => pc = "batch"
  PROVE  TellInv'
  BY DEF TellInv

(* Outputs of the batch. *)
LEMMA OutputsTold ==
  ASSUME RecordInv, PairInv, TellInv, pc = "batch", pc' = "batch",
         log' = log, stale' = stale, NEW q \in Lines, OneOutput(q),
         \A i \in DOMAIN q : /\ q[i].kind = "tool" /\ Awaits(mem, q[i].call)
                             /\ Awaits(log \o queued, q[i].call),
         mem' = mem \o q, queued' = queued \o q \o <<>>
  PROVE  TellInv'
  <1> DEFINE L == log \o queued
             n == Len(log)
             nil == <<>>
  <1>1. /\ L \in Lines /\ n \in Nat /\ n <= Len(L)
        /\ mem \in Lines /\ mem # Record!Unloaded
    BY TellFacts
  <1>2. \A i \in DOMAIN q : /\ q[i].kind = "tool" /\ ~Record!HasOutput(mem, q[i].call)
                            /\ ~Record!HasOutput(L, q[i].call)
    BY DEF Awaits
  <1>3. /\ ~stale => Same(mem, Heard(L))
        /\ SoFar(n, L) /\ Keeps(Gathered(L))
    BY <1>1 DEF TellInv, Lost
  <1>4. log' \o queued' = L \o q
    <2>1. nil \in Lines /\ queued' = queued \o q \o nil
      BY DEF Lines
    <2>2. nil = <<>>
      OBVIOUS
    <2> HIDE DEF nil
    <2>3. log' \o queued' = (L \o q) \o nil /\ L \o q \in Lines
      BY <2>1, TellGrows
    <2> QED BY <2>2, <2>3, ConcatEmptySeq DEF Lines
  <1> HIDE DEF L, n
  <1>5. /\ Same(mem, Heard(L)) => Same(mem \o q, Heard(L \o q))
        /\ SoFar(n, L) => SoFar(n, L \o q)
        /\ Keeps(Gathered(L)) => Keeps(Gathered(L \o q))
    BY <1>1, <1>2, TellsOutputs
  <1>6. ~stale' => Same(mem', Heard(log' \o queued'))
    BY <1>3, <1>4, <1>5
  <1>7. SoFar(Len(log'), log' \o queued') /\ Keeps(Gathered(log' \o queued'))
    BY <1>3, <1>4, <1>5 DEF n
  <1> QED BY <1>6, <1>7 DEF TellInv

(* An answer, and what ends the turn behind it. *)
LEMMA AnswerTold ==
  ASSUME RecordInv, PairInv, TellInv, pc \in {"request", "after"}, log' = log, stale' = stale,
         NEW cs \in Seq(Call), \A k \in DOMAIN cs : cs[k] = <<answers + 1, k>>,
         NEW e, NEW label,
         Record!Record(<<Record!Assistant(answers + 1, cs)>>, e, label),
         \/ e = <<>> /\ label \in {"batch", "top"}
         \/ label = "flush" /\ \E how \in Ways : e = <<Record!Ended(how)>>
  PROVE  TellInv'
  <1> DEFINE x == Record!Assistant(answers + 1, cs)
             L == log \o queued
             n == Len(log)
             q == <<x>>
  <1>1. /\ L \in Lines /\ n \in Nat /\ n <= Len(L) /\ answers \in Nat /\ turns \in Nat
        /\ mem \in Lines /\ mem # Record!Unloaded /\ Paired(mem, answers) /\ Paired(L, answers)
    BY TellFacts
  <1>2. x \in Entries /\ x.kind = "assistant" /\ x.calls = cs
    <2>1. answers + 1 \in Nat
      BY <1>1
    <2> QED BY <2>1, SomeEntries DEF Record!Assistant
  <1>3. mem' = mem \o q /\ queued' = queued \o q \o e /\ pc' = label
    BY DEF Record!Record
  <1>4. /\ ~stale => Same(mem, Heard(L))
        /\ SoFar(n, L)
    BY <1>1 DEF TellInv, Lost
  <1>5. \A s : Paired(s, answers) => AwaitThem(s \o q, cs, <<>>)
    BY <1>1, AnswerPairs
  <1>6. q \in Lines /\ \A s \in Lines : s \o q = Append(s, x)
    BY <1>2, AppendIsConcat DEF Lines
  <1>7. e \in Lines
    <2>1. \A how \in Ways : Record!Ended(how) \in Entries
      BY <1>1 DEF Record!Ended, Entries
    <2>2. <<>> \in Lines /\ \A y \in Entries : <<y>> \in Lines
      BY DEF Lines
    <2>3. e = <<>> \/ \E how \in Ways : e = <<Record!Ended(how)>>
      OBVIOUS
    <2> QED BY <2>1, <2>2, <2>3
  <1> HIDE DEF x, L, n, q
  <1>8. \A s \in Lines : Paired(s, answers) => Unheard(s, x)
    <2> SUFFICES ASSUME NEW s \in Lines, Paired(s, answers) PROVE Unheard(s, x)
      OBVIOUS
    <2>1. AwaitThem(Append(s, x), cs, <<>>)
      BY <1>5, <1>6
    <2>2. \A k \in DOMAIN cs : ~Record!HasOutput(Append(s, x), cs[k])
      BY <2>1 DEF AwaitThem, Awaits
    <2>3. \A k \in DOMAIN cs : ~Record!HasOutput(s, cs[k])
      BY <1>2, <2>2, HasOneMore
    <2> QED BY <1>2, <2>3 DEF Unheard, Made
  <1>9. Record!IsItem(x)
    BY <1>2 DEF Record!IsItem
  <1> DEFINE a == Append(L, x)
  <1>10. Same(mem, Heard(L)) => Same(Append(mem, x), Heard(a))
    BY <1>1, <1>2, <1>8, <1>9, TellsOneMore
  <1>11. SoFar(n, a) /\ Keeps(Gathered(a)) /\ a \in Lines
    <2>1. SoFar(n, a)
      BY <1>1, <1>2, <1>9, SoFarMore
    <2>2. Keeps(Gathered(a))
      BY <1>1, <1>2, KeepsOneMore
    <2>3. a \in Lines
      BY <1>1, <1>2, GatheredOneMore
    <2> QED BY <2>1, <2>2, <2>3
  <1>12. log' \o queued' = a \o e
    BY <1>1, <1>3, <1>6, <1>7, TellGrows DEF L
  <1> HIDE DEF a
  <1>13. CASE e = <<>> /\ label \in {"batch", "top"}
    <2>1. log' \o queued' = a
      BY <1>11, <1>12, <1>13, ConcatEmptySeq DEF Lines
    <2>2. ~stale' => Same(mem', Heard(log' \o queued'))
      BY <1>1, <1>3, <1>4, <1>6, <1>10, <2>1
    <2> QED BY <1>3, <1>11, <1>13, <2>1, <2>2 DEF TellInv, n
  <1>14. ASSUME NEW how \in Ways, e = <<Record!Ended(how)>>, label = "flush" PROVE TellInv'
    <2> DEFINE y == Record!Ended(how)
    <2>1. y \in Entries /\ y.kind = "ended"
      BY <1>1 DEF Record!Ended, Entries
    <2>2. e = <<y>>
      BY <1>14
    <2> HIDE DEF y
    <2>3. log' \o queued' = Append(a, y)
      BY <1>11, <1>12, <2>1, <2>2, AppendIsConcat DEF Lines
    <2>4. Same(Heard(log' \o queued'), Heard(a))
      BY <1>11, <2>1, <2>3, HeardOneMore
    <2>5. ~stale' => Same(mem', Heard(log' \o queued'))
      BY <1>1, <1>3, <1>4, <1>6, <1>10, <2>4 DEF Same
    <2> QED BY <1>3, <1>14, <2>5 DEF TellInv
  <1> QED BY <1>13, <1>14

(* Events only, in a batch. *)
LEMMA OutpacedTold ==
  ASSUME RecordInv, PairInv, TellInv, Record!RunOutpaced
  PROVE  TellInv'
  <1> DEFINE L == log \o queued
             n == Len(log)
             x == Record!Ended("cancelled")
             nil == <<>>
             e == <<x>>
  <1>1. /\ L \in Lines /\ n \in Nat /\ n <= Len(L) /\ turns \in Nat
        /\ queued \in Lines
    BY TellFacts
  <1>2. /\ pc = "batch" /\ pc' = "interrupted" /\ log' = log /\ stale' = stale
        /\ queued' = queued \o nil \o e
    BY DEF Record!RunOutpaced, Record!Record
  <1>3. x \in Entries /\ x.kind = "ended"
    BY <1>1 DEF Record!Ended, Entries, Ways
  <1>4. SoFar(n, L) /\ Keeps(Gathered(L))
    BY <1>2 DEF TellInv
  <1>5. nil \in Lines /\ nil = <<>>
    BY DEF Lines
  <1> HIDE DEF x, nil
  <1>6. e \in Lines
    BY <1>3 DEF Lines
  <1>7. log' \o queued' = (L \o nil) \o e
    <2> HIDE DEF e
    <2> QED BY <1>1, <1>2, <1>5, <1>6, TellGrows
  <1> HIDE DEF L, n
  <1>8. L \o nil = L /\ L \o e = Append(L, x)
    BY <1>1, <1>3, <1>5, ConcatEmptySeq, AppendIsConcat DEF Lines
  <1>9. SoFar(n, Append(L, x))
    BY <1>1, <1>3, <1>4, EndTold
  <1> QED BY <1>2, <1>7, <1>8, <1>9 DEF TellInv, Lost, n

(* The steps that record nothing, a marker, or the end of the turn. *)
LEMMA QuietTell ==
  ASSUME RecordInv, PairInv, TellInv,
         \/ Record!Interrupt \/ Record!CheckCancelled \/ Record!ModelFails
         \/ Record!BatchCancelled \/ Record!CancelFromPrompt \/ Record!PromptInterrupted
         \/ Record!RunOutpaced \/ Record!RunFails \/ Record!BatchDone \/ Record!EndFailed
         \/ Record!FinishTurn \/ UNCHANGED Record!vars
  PROVE  TellInv'
  <1>0. /\ log \in Lines /\ queued \in Lines /\ log \o queued \in Lines
        /\ pc # "idle" => mem \in Lines /\ mem # Record!Unloaded
    BY TellFacts
  <1>1. ASSUME Record!RecordMarker("flush"), pc # "idle", pc \notin Lost, UNCHANGED <<log, stale>>
        PROVE  TellInv'
    <2> DEFINE nil == <<>>
    <2>1. /\ mem' = Record!Marked(mem) /\ pc' = "flush"
          /\ queued' = queued \o <<Record!Marker, Record!Ended("cancelled")>>
      BY <1>1 DEF Record!RecordMarker
    <2>2. /\ nil \in Lines /\ mem \o nil = mem /\ (log \o queued) \o nil = log \o queued
          /\ queued \o nil = queued
      BY <1>0, <1>1, ConcatEmptySeq DEF Lines
    <2>3. ~stale => Same(mem, Heard(log \o queued))
      BY <1>0, <1>1 DEF TellInv
    <2> HIDE DEF nil
    <2> QED BY <1>0, <1>1, <2>1, <2>2, <2>3, MarkerTells
  <1>2. CASE Record!CheckCancelled
    <2>1. /\ pc \in {"started", "top"} /\ UNCHANGED <<log, stale>>
          /\ \/ Record!RecordMarker("flush")
             \/ pc' \in {"top", "request"} /\ UNCHANGED <<mem, queued>>
      BY <1>2 DEF Record!CheckCancelled
    <2>2. CASE Record!RecordMarker("flush")
      BY <1>1, <2>1, <2>2 DEF Lost
    <2>3. CASE pc' \in {"top", "request"} /\ UNCHANGED <<mem, queued>>
      BY <2>1, <2>3, TellStays DEF Lost
    <2> QED BY <2>1, <2>2, <2>3
  <1>3. CASE Record!BatchCancelled \/ Record!CancelFromPrompt
    <2>1. pc = "batch" /\ Record!RecordMarker("flush") /\ UNCHANGED <<log, stale>>
      BY <1>3 DEF Record!BatchCancelled, Record!CancelFromPrompt
    <2> QED BY <1>1, <2>1 DEF Lost
  <1>4. CASE Record!Interrupt \/ UNCHANGED Record!vars
    <2>1. UNCHANGED <<pc, mem, log, queued, stale>>
      BY <1>4 DEF Record!Interrupt, Record!vars
    <2>2. pc = "idle" => queued = <<>>
      BY DEF TellInv
    <2> QED BY <2>1, <2>2, TellStays
  <1>5. CASE \/ Record!ModelFails \/ Record!PromptInterrupted \/ Record!RunFails
             \/ Record!BatchDone \/ Record!FinishTurn
    <2>1. /\ UNCHANGED <<mem, log, queued, stale>>
          /\ \/ pc \in {"request", "batch"} /\ pc' \in {"failed", "interrupted"}
             \/ pc = "batch" /\ pc' = "after"
             \/ pc = "flush" /\ pc' = "idle" /\ queued = <<>>
      BY <1>5 DEF Record!ModelFails, Record!PromptInterrupted, Record!RunFails,
                  Record!BatchDone, Record!FinishTurn
    <2> QED BY <2>1, TellStays DEF Lost
  <1>6. CASE Record!RunOutpaced
    BY <1>6, OutpacedTold
  <1>7. CASE Record!EndFailed
    <2>1. pc' = "reread"
      BY <1>7 DEF Record!EndFailed, Record!Record
    <2> QED BY <2>1 DEF TellInv, Lost
  <1> QED BY <1>2, <1>3, <1>4, <1>5, <1>6, <1>7

(* The output of the first of some calls. *)
LEMMA HeadTold ==
  ASSUME RecordInv, PairInv, TellInv, pc = "batch", UNCHANGED <<log, stale>>,
         NEW cs \in Seq(Call), cs # <<>>, AwaitThem(mem, cs, <<>>),
         AwaitThem(log \o queued, cs, <<>>), NEW what \in Outcomes,
         Record!Record(<<Record!Output(Head(cs), what)>>, <<>>, "batch")
  PROVE  TellInv'
  <1> DEFINE x == Record!Output(Head(cs), what)
             q == <<x>>
  <1>1. Head(cs) \in Call /\ Head(cs) = cs[1] /\ 1 \in DOMAIN cs
    OBVIOUS
  <1>2. x \in Entries /\ x.kind = "tool" /\ x.call = cs[1]
    BY <1>1, SomeEntries DEF Record!Output
  <1>3. Awaits(mem, cs[1]) /\ Awaits(log \o queued, cs[1])
    BY <1>1 DEF AwaitThem
  <1>4. mem' = mem \o q /\ queued' = queued \o q \o <<>> /\ pc' = "batch"
    BY DEF Record!Record
  <1> HIDE DEF x
  <1>5. q \in Lines /\ DOMAIN q = {1} /\ q[1] = x
    BY <1>2 DEF Lines
  <1> HIDE DEF q
  <1>6. OneOutput(q)
    BY <1>5 DEF OneOutput
  <1>7. \A i \in DOMAIN q : /\ q[i].kind = "tool" /\ Awaits(mem, q[i].call)
                            /\ Awaits(log \o queued, q[i].call)
    BY <1>2, <1>3, <1>5
  <1> QED BY <1>4, <1>5, <1>6, <1>7, OutputsTold

(* The steps of an answer and of its calls. *)
LEMMA AnswerTell ==
  ASSUME RecordInv, PairInv, TellInv,
         \/ Record!StopWithMessage \/ Record!ModelResponds \/ Record!Advance
         \/ Record!Refuse \/ Record!Admit \/ Record!RunNext
  PROVE  TellInv'
  <1>0. /\ turns \in Nat /\ answers \in Nat /\ calls \in Seq(Call) /\ ready \in Seq(Call)
    BY TellFacts
  <1>1. pc = "batch" => /\ AwaitThem(mem, calls, <<>>) /\ AwaitThem(mem, ready, <<>>)
                        /\ AwaitThem(log \o queued, calls, <<>>)
                        /\ AwaitThem(log \o queued, ready, <<>>)
    BY DEF PairInv, AwaitThem
  <1>2. CASE Record!StopWithMessage \/ Record!Advance
    <2>1. /\ pc \in {"request", "after"} /\ UNCHANGED <<log, stale>>
          /\ \/ UNCHANGED <<mem, queued>> /\ pc' = "top"
             \/ /\ answers' = answers + 1
                /\ \E how \in Ways :
                     Record!Record(<<Record!Assistant(answers', <<>>)>>, <<Record!Ended(how)>>,
                                   "flush")
      BY <1>2 DEF Record!StopWithMessage, Record!Advance, Ways
    <2>2. CASE UNCHANGED <<mem, queued>> /\ pc' = "top"
      BY <2>1, <2>2, TellStays DEF Lost
    <2>3. ASSUME NEW how \in Ways, answers' = answers + 1,
                 Record!Record(<<Record!Assistant(answers', <<>>)>>, <<Record!Ended(how)>>,
                               "flush")
          PROVE  TellInv'
      <3> DEFINE nil == <<>>
                 e == <<Record!Ended(how)>>
      <3>1. nil \in Seq(Call) /\ \A k \in DOMAIN nil : nil[k] = <<answers + 1, k>>
        OBVIOUS
      <3>2. Record!Record(<<Record!Assistant(answers + 1, nil)>>, e, "flush")
        BY <2>3
      <3>3. \E h \in Ways : e = <<Record!Ended(h)>>
        OBVIOUS
      <3> HIDE DEF nil, e
      <3> QED BY <1>0, <2>1, <3>1, <3>2, <3>3, AnswerTold
    <2> QED BY <2>1, <2>2, <2>3
  <1>3. CASE Record!ModelResponds
    <2>1. PICK n \in 0..MaxCalls :
            /\ calls' = [i \in 1..n |-> <<answers', i>>]
            /\ \/ n > 0 /\ Record!Record(<<Record!Assistant(answers', calls')>>, <<>>, "batch")
               \/ n = 0 /\ Record!Record(<<Record!Assistant(answers', calls')>>,
                                         <<Record!Ended("completed")>>, "flush")
               \/ n = 0 /\ Record!Record(<<Record!Assistant(answers', calls')>>, <<>>, "top")
      BY <1>3 DEF Record!ModelResponds
    <2>2. /\ answers' = answers + 1 /\ n \in Nat /\ UNCHANGED <<log, stale>>
          /\ pc = "request" /\ answers + 1 \in Nat
      BY <1>0, <1>3, PartsAssumption DEF Record!ModelResponds
    <2> DEFINE cs == [i \in 1..n |-> <<answers + 1, i>>]
    <2>3. cs \in Seq(Call) /\ \A k \in DOMAIN cs : cs[k] = <<answers + 1, k>>
      <3>1. \A i \in 1..n : <<answers + 1, i>> \in Call
        BY <2>2 DEF Call
      <3> QED BY <2>2, <3>1
    <2>4. calls' = cs
      BY <2>1, <2>2
    <2> HIDE DEF cs
    <2>5. "completed" \in Ways
      BY DEF Ways
    <2>6. \E e, label : /\ Record!Record(<<Record!Assistant(answers + 1, cs)>>, e, label)
                        /\ \/ e = <<>> /\ label \in {"batch", "top"}
                           \/ label = "flush" /\ \E how \in Ways : e = <<Record!Ended(how)>>
      BY <2>1, <2>2, <2>4, <2>5
    <2>7. PICK e, label : /\ Record!Record(<<Record!Assistant(answers + 1, cs)>>, e, label)
                          /\ \/ e = <<>> /\ label \in {"batch", "top"}
                             \/ label = "flush" /\ \E how \in Ways : e = <<Record!Ended(how)>>
      BY <2>6
    <2> QED BY <2>2, <2>3, <2>7, AnswerTold
  <1>4. CASE Record!Refuse
    <2>1. /\ pc = "batch" /\ calls # <<>> /\ UNCHANGED <<log, stale>>
          /\ Record!Record(<<Record!Output(Head(calls), "refused")>>, <<>>, "batch")
      BY <1>4 DEF Record!Refuse
    <2>2. "refused" \in Outcomes
      BY DEF Outcomes
    <2> QED BY <1>0, <1>1, <2>1, <2>2, HeadTold
  <1>5. CASE Record!RunNext
    <2>1. /\ pc = "batch" /\ ready # <<>> /\ UNCHANGED <<log, stale>>
          /\ Record!Record(<<Record!Output(Head(ready), "done")>>, <<>>, "batch")
      BY <1>5 DEF Record!RunNext
    <2>2. "done" \in Outcomes
      BY DEF Outcomes
    <2> QED BY <1>0, <1>1, <2>1, <2>2, HeadTold
  <1>6. CASE Record!Admit
    <2>1. pc = "batch" /\ pc' = "batch" /\ UNCHANGED <<mem, log, queued, stale>>
      BY <1>6 DEF Record!Admit
    <2> QED BY <2>1, TellStays DEF Lost
  <1> QED BY <1>2, <1>3, <1>4, <1>5, <1>6

LEMMA TogetherTells == ASSUME RecordInv, PairInv, TellInv, Record!RunTogether PROVE TellInv'
  <1> DEFINE L == log \o queued
             e == <<Record!Marker, Record!Ended("cancelled")>>
  <1>0. /\ ready \in Seq(Call) /\ L \in Lines /\ log \in Lines
        /\ pc = "batch" /\ pc \notin Lost /\ UNCHANGED <<log, stale>>
        /\ mem \in Lines /\ mem # Record!Unloaded
    BY TellFacts DEF Record!RunTogether, Lost
  <1>1. /\ Differ(ready) /\ \A i \in DOMAIN ready : Awaits(mem, ready[i])
        /\ \A i \in DOMAIN ready : Awaits(L, ready[i])
    BY <1>0 DEF PairInv, Apart, AwaitThem
  <1>2. PICK n \in 0..Len(ready) : \E chosen \in [1..n -> DOMAIN ready] :
          LET q == [k \in 1..n |-> Record!Output(ready[chosen[k]], "done")]
          IN  /\ \A k, l \in 1..n : k < l => chosen[k] < chosen[l]
              /\ \/ Record!Record(q, <<>>, "batch")
                 \/ /\ mem' = Record!Marked(mem \o q) /\ queued' = queued \o q \o e
                    /\ pc' = "flush"
    BY DEF Record!RunTogether
  <1>3. PICK chosen \in [1..n -> DOMAIN ready] :
          LET q == [k \in 1..n |-> Record!Output(ready[chosen[k]], "done")]
          IN  /\ \A k, l \in 1..n : k < l => chosen[k] < chosen[l]
              /\ \/ Record!Record(q, <<>>, "batch")
                 \/ /\ mem' = Record!Marked(mem \o q) /\ queued' = queued \o q \o e
                    /\ pc' = "flush"
    BY <1>2
  <1> DEFINE q == [k \in 1..n |-> Record!Output(ready[chosen[k]], "done")]
  <1>4. n \in Nat /\ chosen \in [1..n -> DOMAIN ready]
    BY <1>0, <1>3
  <1>5. \A k, l \in 1..n : k < l => chosen[k] < chosen[l]
    BY <1>3
  <1>6. \/ Record!Record(q, <<>>, "batch")
        \/ mem' = Record!Marked(mem \o q) /\ queued' = queued \o q \o e /\ pc' = "flush"
    BY <1>3
  <1> HIDE DEF L
  <1>7. q = Together(ready, n, chosen)
    BY DEF Together
  <1> HIDE DEF q
  <1>8. /\ q \in Lines /\ OneOutput(q)
        /\ \A i \in DOMAIN q : q[i].kind = "tool" /\ \E j \in DOMAIN ready : q[i].call = ready[j]
    BY <1>0, <1>1, <1>4, <1>5, <1>7, TogetherOutputs
  <1>9. \A i \in DOMAIN q : /\ q[i].kind = "tool" /\ Awaits(mem, q[i].call)
                            /\ Awaits(L, q[i].call)
    BY <1>1, <1>8
  <1>10. CASE Record!Record(q, <<>>, "batch")
    <2>1. mem' = mem \o q /\ queued' = queued \o q \o <<>> /\ pc' = "batch"
      BY <1>10 DEF Record!Record
    <2> QED BY <1>0, <1>8, <1>9, <2>1, OutputsTold DEF L
  <1>11. CASE mem' = Record!Marked(mem \o q) /\ queued' = queued \o q \o e /\ pc' = "flush"
    <2>1. \A i \in DOMAIN q : /\ q[i].kind = "tool" /\ ~Record!HasOutput(mem, q[i].call)
                              /\ ~Record!HasOutput(L, q[i].call)
      BY <1>9 DEF Awaits
    <2>2. 0 \in Nat /\ 0 <= Len(L)
      BY <1>0 DEF Lines
    <2>3. Same(mem, Heard(L)) => Same(mem \o q, Heard(L \o q))
      BY <1>0, <1>8, <2>1, <2>2, TellsOutputs
    <2>4. ~stale => Same(mem, Heard(L))
      BY <1>0 DEF TellInv, L
    <2>5. mem \o q \in Lines
      BY <1>0, <1>8, Places
    <2>6. ~stale => Same(mem \o q, Heard((log \o queued) \o q))
      BY <2>3, <2>4 DEF L
    <2> QED BY <1>0, <1>8, <1>11, <2>5, <2>6, MarkerTells
  <1> QED BY <1>6, <1>10, <1>11

(* The next turn, the end of an interrupted one, the recorder and a crash. *)
LEMMA OtherTell ==
  ASSUME RecordInv, PairInv, TellInv,
         \/ Record!StartTurn \/ Record!EndInterrupted \/ Record!Reread
         \/ Record!Write \/ Record!Crash
  PROVE  TellInv'
  <1> DEFINE L == log \o queued
  <1>0. /\ turns \in Nat /\ answers \in Nat /\ log \in Lines /\ queued \in Lines /\ L \in Lines
        /\ Len(log) \in Nat /\ Len(log) <= Len(L)
        /\ Paired(L, answers)
        /\ pc # "idle" => mem \in Lines /\ mem # Record!Unloaded
    BY TellFacts
  <1>1. \A s \in Lines : s \o <<>> = s
    BY ConcatEmptySeq DEF Lines
  <1>2. Paired(log, answers)
    BY <1>0, PrefixPairs
  <1>3. /\ Record!Reconstructed(log) \in Lines /\ Heard(log) \in Lines
        /\ Same(Record!Reconstructed(log), Heard(log))
    BY <1>2, RebuiltTells
  <1>4. CASE Record!StartTurn
    <2> DEFINE b == IF mem = Record!Unloaded THEN Record!Reconstructed(log) ELSE mem
               u == Record!User(turns + 1)
               v == Record!Started(turns + 1)
    <2>1. /\ mem' = Append(b, u) /\ queued' = queued \o <<u, v>> /\ pc = "idle" /\ pc' = "started"
          /\ UNCHANGED <<log, stale>>
      BY <1>4 DEF Record!StartTurn
    <2>2. queued = <<>>
      BY <2>1 DEF TellInv
    <2>3. turns + 1 \in Nat
      BY <1>0
    <2>4. /\ u \in Entries /\ u.kind = "user" /\ v \in Entries /\ v.kind = "started"
      BY <2>3, SomeEntries DEF Record!User, Record!Started
    <2>5. b \in Lines /\ (~stale => Same(b, Heard(log)))
      <3>1. CASE mem = Record!Unloaded
        BY <1>3, <3>1
      <3>2. CASE mem # Record!Unloaded
        <4>1. mem \in Lines
          BY <3>2 DEF PairInv, Paired
        <4>2. log \o queued = log
          BY <1>0, <1>1, <2>2
        <4>3. ~stale => Same(mem, Heard(log))
          BY <2>1, <3>2, <4>2 DEF TellInv, Lost
        <4> QED BY <3>2, <4>1, <4>3
      <3> QED BY <3>1, <3>2
    <2> HIDE DEF b, u, v
    <2> DEFINE a == Append(log, u)
               r == Append(a, v)
    <2>6. log' \o queued' = r
      <3>1. <<u, v>> \in Lines /\ log \o <<u, v>> = r
        BY <1>0, <2>4, TwoAppended
      <3>2. queued' = <<u, v>>
        BY <2>1, <2>2, <3>1, ConcatEmptySeq DEF Lines
      <3> QED BY <2>1, <3>1, <3>2
    <2>7. Record!IsItem(u) /\ Unheard(b, u) /\ Unheard(log, u)
      BY <2>4 DEF Record!IsItem, Unheard, Made
    <2>8. Same(b, Heard(log)) => Same(mem', Heard(a))
      BY <1>0, <2>1, <2>4, <2>5, <2>7, TellsOneMore
    <2>9. /\ a \in Lines /\ Len(log) <= Len(a) /\ SoFar(Len(log), a)
      <3>1. a \in Lines /\ Len(a) = Len(log) + 1
        BY <1>0, <2>4, ReplayedOneMore
      <3>2. SoFar(Len(log), a)
        BY <1>0, <2>4, <2>7, SoFarMore
      <3> HIDE DEF a
      <3> QED BY <1>0, <3>1, <3>2
    <2> HIDE DEF a
    <2>10. Heard(r) = Heard(a) /\ Same(Heard(r), Heard(a))
      BY <2>4, <2>9, HeardOneMore DEF Same
    <2>11. SoFar(Len(log), r)
      BY <1>0, <2>4, <2>9, <2>10, SoFarMore
    <2> HIDE DEF r
    <2>12. ~stale' => Same(mem', Heard(log' \o queued'))
      BY <2>1, <2>5, <2>6, <2>8, <2>10
    <2> QED BY <2>1, <2>6, <2>11, <2>12 DEF TellInv
  <1>5. CASE Record!EndInterrupted
    <2> DEFINE x == Record!Ended("cancelled")
               m == Record!Marked(Record!Reconstructed(log))
               r == Append(Append(L, Record!Marker), x)
    <2>1. /\ mem' = Record!EnsureOutputs(m)
          /\ queued' = queued \o <<Record!Marker, x>> /\ pc = "interrupted" /\ pc' = "flush"
          /\ log' = log
          /\ ~stale' => ~stale /\ \A i \in DOMAIN queued : ~Record!IsItem(queued[i])
      BY <1>5 DEF Record!EndInterrupted
    <2>2. Record!Marker \in Entries /\ x \in Entries /\ x.kind = "ended"
      BY <1>0, SomeEntries DEF Record!Ended, Entries, Ways
    <2> HIDE DEF x
    <2>3. log' \o queued' = r
      <3>1. <<Record!Marker, x>> \in Lines /\ L \o <<Record!Marker, x>> = r
        BY <1>0, <2>2, TwoAppended
      <3>2. log \o (queued \o <<Record!Marker, x>>) = L \o <<Record!Marker, x>>
        BY <1>0, <3>1, Regrouped
      <3> QED BY <2>1, <3>1, <3>2
    <2>4. Same(Heard(r), Heard(L))
      BY <1>0, <2>2, MarkedTold
    <2> HIDE DEF r
    <2>5. Paired(m, answers) /\ Same(m, Record!Reconstructed(log))
      <3>1. Paired(Record!Reconstructed(log), answers)
        BY <1>2, ReconstructedPairs
      <3> QED BY <1>3, <3>1, MarkerPairs, SameMarked
    <2> HIDE DEF m
    <2>6. Same(mem', m)
      BY <2>1, <2>5, SameEnsured
    <2>7. SoFar(Len(log), L)
      BY <2>1 DEF TellInv
    <2>8. ~stale' => Same(Heard(log), Heard(L))
      BY <1>0, <2>1, <2>7, WrittenTells
    <2>9. ~stale' => Same(mem', Heard(log' \o queued'))
      BY <1>3, <2>3, <2>4, <2>5, <2>6, <2>8 DEF Same
    <2> QED BY <2>1, <2>9 DEF TellInv
  <1>6. CASE Record!Reread
    <2>1. /\ mem' = Record!Reconstructed(log) /\ pc = "reread" /\ pc' = "flush"
          /\ UNCHANGED <<log, queued>> /\ queued = <<>>
      BY <1>6 DEF Record!Reread
    <2>2. log' \o queued' = log
      BY <1>0, <1>1, <2>1
    <2> QED BY <1>3, <2>1, <2>2 DEF TellInv
  <1>7. CASE Record!Write
    <2>1. /\ queued # <<>> /\ log' = Append(log, Head(queued)) /\ queued' = Tail(queued)
          /\ UNCHANGED <<pc, mem, stale>>
      BY <1>7 DEF Record!Write
    <2>2. log' \o queued' = L
      BY <1>0, <2>1, HeadMoves
    <2>3. Len(log') = Len(log) + 1
      BY <1>0, <2>1 DEF Lines
    <2> HIDE DEF L
    <2>4. SoFar(Len(log), L) => SoFar(Len(log'), L)
      <3>1. \A k \in Len(log')..Len(L) : k \in Len(log)..Len(L)
        BY <1>0, <2>3 DEF Lines
      <3> QED BY <3>1 DEF SoFar
    <2> QED BY <2>1, <2>2, <2>4 DEF TellInv, L
  <1>8. CASE Record!Crash
    <2>1. pc' = "idle" /\ mem' = Record!Unloaded /\ queued' = <<>>
      BY <1>8 DEF Record!Crash
    <2> QED BY <2>1 DEF TellInv
  <1> QED BY <1>4, <1>5, <1>6, <1>7, <1>8

LEMMA TellHolds == Spec => [](part = "record" => TellInv)
  <1> DEFINE Holds == part = "record" => RecordInv
             Pairs == part = "record" => PairInv
             Tells == part = "record" => TellInv
  <1>1. Init => Tells
    <2> SUFFICES ASSUME Record!Init PROVE TellInv
      BY DEF Init
    <2>1. pc = "idle" /\ mem = Record!Unloaded /\ queued = <<>>
      BY DEF Record!Init
    <2> QED BY <2>1 DEF TellInv
  <1>2. Holds /\ Pairs /\ Tells /\ [Next]_vars => Tells'
    <2> SUFFICES ASSUME Holds, Pairs, Tells, [Next]_vars, part' = "record" PROVE TellInv'
      OBVIOUS
    <2>1. part = "record"
      BY DEF Next, vars
    <2>2. [Record!Next]_(Record!vars)
      BY <2>1 DEF Next, vars, recordVars, Record!vars
    <2>3. \/ Record!Interrupt \/ Record!CheckCancelled \/ Record!ModelFails
          \/ Record!BatchCancelled \/ Record!CancelFromPrompt \/ Record!PromptInterrupted
          \/ Record!RunOutpaced \/ Record!RunFails \/ Record!BatchDone \/ Record!EndFailed
          \/ Record!FinishTurn \/ UNCHANGED Record!vars
          => TellInv'
      BY <2>1, QuietTell
    <2>4. \/ Record!StopWithMessage \/ Record!ModelResponds \/ Record!Advance
          \/ Record!Refuse \/ Record!Admit \/ Record!RunNext
          => TellInv'
      BY <2>1, AnswerTell
    <2>5. Record!RunTogether => TellInv'
      BY <2>1, TogetherTells
    <2>6. \/ Record!StartTurn \/ Record!EndInterrupted \/ Record!Reread
          \/ Record!Write \/ Record!Crash
          => TellInv'
      BY <2>1, OtherTell
    <2> QED BY <2>2, <2>3, <2>4, <2>5, <2>6 DEF Record!Next
  <1> QED BY <1>1, <1>2, RecordHolds, PairHolds, PTL DEF Spec

(* TurnRecord: between turns the model would be told the same after a restart as
   without one, markers of interrupted turns apart: the history in memory is the
   one the rollout rebuilds, unless an interrupt read the rollout too early.    *)
THEOREM RestartStaysTheSame == Spec => []RestartTellsTheSame
  <1>1. (part = "record" => RecordInv) /\ (part = "record" => PairInv)
          /\ (part = "record" => TellInv) => RestartTellsTheSame
    <2> SUFFICES ASSUME RecordInv, PairInv, TellInv,
                        pc = "idle", mem # Record!Unloaded, ~stale
                 PROVE  Record!Content(Record!EnsureOutputs(mem))
                          = Record!Content(Record!Reconstructed(log))
      BY DEF RestartTellsTheSame, Record!RestartTellsTheSame
    <2>1. log \in Lines /\ log \o queued \in Lines /\ Paired(log \o queued, answers)
      BY TellFacts
    <2>2. log \o queued = log
      BY <2>1, ConcatEmptySeq DEF TellInv, Lines
    <2>3. mem \in Lines /\ Paired(log, answers)
      BY <2>1, <2>2 DEF PairInv, Paired
    <2>4. Same(mem, Heard(log))
      BY <2>2 DEF TellInv, Lost
    <2>5. Record!Content(Record!Reconstructed(log)) = Told(Heard(log))
      BY <2>3, RebuiltTells
    <2>6. Record!Content(Record!EnsureOutputs(mem)) = Told(mem)
      BY <2>3, ToldIs
    <2> QED BY <2>4, <2>5, <2>6 DEF Same
  <1> QED BY <1>1, RecordHolds, PairHolds, TellHolds, PTL
===============================================================================
