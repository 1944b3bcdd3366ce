---------------------------- MODULE TranscriptProofs ---------------------------
(***************************************************************************)
(* Proofs about LiveTranscript: a client shows each message and each card  *)
(* once, however it learns of them.                                        *)
(***************************************************************************)
EXTENDS ConversationProofs

(***************************************************************************)
(* What the recursion of Kept computes                                     *)
(***************************************************************************)

(* The recursion of Kept, for the first k cells. *)
KeptOf(s, gone) ==
  CHOOSE f : f = [k \in 0..Len(s) |->
                    IF k = 0 THEN <<>>
                    ELSE IF k \in gone THEN f[k - 1] ELSE Append(f[k - 1], s[k])]

LEMMA KeptUnfolds ==
  ASSUME NEW S, NEW s \in Seq(S), NEW gone
  PROVE  /\ \A k \in 0..Len(s) : KeptOf(s, gone)[k] \in Seq(S)
         /\ KeptOf(s, gone)[0] = <<>>
         /\ \A k \in 1..Len(s) :
              KeptOf(s, gone)[k] = IF k \in gone THEN KeptOf(s, gone)[k - 1]
                                   ELSE Append(KeptOf(s, gone)[k - 1], s[k])
  <1> DEFINE n == Len(s)
             Next1(v, k) == IF k \in gone THEN v ELSE Append(v, s[k])
             step == [k \in 1..n |-> [v \in Seq(S) |-> Next1(v, k)]]
             Full(f) == f = [k \in 0..n |-> IF k = 0 THEN <<>> ELSE Next1(f[k - 1], k)]
  <1>1. n \in Nat /\ <<>> \in Seq(S)
    OBVIOUS
  <1>2. \A k \in 1..n : \A v \in Seq(S) : Next1(v, k) \in Seq(S)
    <2>1. \A k \in 1..n : s[k] \in S
      OBVIOUS
    <2> QED BY <2>1
  <1>3. step \in [1..n -> [Seq(S) -> Seq(S)]]
    <2> HIDE DEF Next1
    <2> QED BY <1>2
  <1>4. PICK f : Solves(f, Seq(S), n, <<>>, step)
    <2> DEFINE V == Seq(S)
               nil == <<>>
    <2>1. n \in Nat /\ nil \in V /\ step \in [1..n -> [V -> V]]
      BY <1>1, <1>3
    <2> HIDE DEF step, n, V, nil
    <2>2. \E f : Solves(f, V, n, nil, step)
      BY <2>1, RecursionHasOne
    <2> QED BY <2>2 DEF V, nil
  <1>5. \A k \in 1..n : f[k] = Next1(f[k - 1], k)
    <2>1. \A k \in 1..n : k - 1 \in 0..n
      BY <1>1
    <2>2. \A k \in 1..n : f[k - 1] \in Seq(S)
      BY <1>4, <2>1 DEF Solves
    <2> HIDE DEF Next1
    <2> QED BY <1>4, <2>2 DEF Solves
  <1>6. Full(f)
    <2>1. \A k \in 0..n : k = 0 \/ k \in 1..n
      BY <1>1
    <2> HIDE DEF Next1
    <2> QED BY <1>4, <1>5, <2>1 DEF Solves
  <1> DEFINE K == KeptOf(s, gone)
  <1>7. K = CHOOSE h : Full(h)
    BY DEF KeptOf
  <1>8. Full(K)
    <2> HIDE DEF Full, K
    <2> QED BY <1>6, <1>7
  <1>9. K[0] = <<>> /\ \A k \in 1..n : K[k] = Next1(K[k - 1], k)
    <2> HIDE DEF K, Next1
    <2>1. \A k \in 1..n : k \in 0..n /\ k # 0
      BY <1>1
    <2>2. 0 \in 0..n
      BY <1>1
    <2> QED BY <1>8, <2>1, <2>2
  <1>10. \A k \in 0..n : k \in {j \in 0..n : K[j] \in Seq(S)}
    <2> DEFINE V == Seq(S)
               T == {j \in 0..n : K[j] \in V}
    <2> HIDE DEF K, Next1
    <2>1. K[0] \in V
      BY <1>1, <1>9
    <2>2. \A k \in 1..n : \A v \in V : Next1(v, k) \in V
      BY <1>2
    <2> HIDE DEF V, n
    <2>3. 0 \in T
      BY <1>1, <2>1
    <2>4. \A k \in 1..n : k - 1 \in T => k \in T
      BY <1>1, <2>2, <1>9
    <2> HIDE DEF T
    <2>5. \A k \in 0..n : k \in T
      BY <1>1, <2>3, <2>4, UpTo
    <2> QED BY <2>5 DEF T, V
  <1> QED BY <1>9, <1>10

LEMMA KeptIs ==
  ASSUME NEW S, NEW s \in Seq(S), NEW gone
  PROVE  Live!Kept(s, gone) = KeptOf(s, gone)[Len(s)]
  BY DEF Live!Kept, KeptOf

(* t holds what s holds at the places left, each once. *)
Rearranges(at, t, s, left) ==
  /\ at \in [DOMAIN t -> left]
  /\ \A p \in DOMAIN t : t[p] = s[at[p]]
  /\ \A p, q \in DOMAIN t : at[p] = at[q] => p = q
  /\ \A k \in left : \E p \in DOMAIN t : at[p] = k

(* What is kept are the cells that are not gone, each once; and the cells in
   front of the first that is gone are all there. *)
LEMMA KeptMaps ==
  ASSUME NEW S, NEW s \in Seq(S), NEW gone, NEW first \in DOMAIN s,
         \A g \in gone : first <= g
  PROVE  /\ Live!Kept(s, gone) \in Seq(S) /\ first - 1 <= Len(Live!Kept(s, gone))
         /\ \E at : Rearranges(at, Live!Kept(s, gone), s, DOMAIN s \ gone)
  <1> DEFINE n == Len(s)
             K == KeptOf(s, gone)
             Maps(at, k) ==
               /\ \A p \in 1..Len(K[k]) : K[k][p] = s[at[p]]
               /\ \A p, q \in 1..Len(K[k]) : at[p] = at[q] => p = q
               /\ \A j \in (1..k) \ gone : \E p \in 1..Len(K[k]) : at[p] = j
             Mapped(k) == \E at \in [1..Len(K[k]) -> (1..k) \ gone] : Maps(at, k)
             Good == {k \in 0..n :
                        /\ k < first => k <= Len(K[k])
                        /\ first - 1 <= k => first - 1 <= Len(K[k])
                        /\ Mapped(k)}
  <1>1. n \in Nat /\ first \in 1..n /\ DOMAIN s = 1..n
    OBVIOUS
  <1>2. /\ K[0] = <<>>
        /\ \A k \in 1..n : K[k] = IF k \in gone THEN K[k - 1] ELSE Append(K[k - 1], s[k])
        /\ \A k \in 0..n : K[k] \in Seq(S)
    BY KeptUnfolds
  <1>3. 0 \in Good
    <2>1. K[0] = <<>> /\ Len(K[0]) = 0
      BY <1>2
    <2>2. <<>> \in [1..0 -> (1..0) \ gone]
      OBVIOUS
    <2>3. Maps(<<>>, 0)
      <3> HIDE DEF K
      <3> QED BY <2>1
    <2>4. Mapped(0)
      <3> HIDE DEF K, Maps
      <3> QED BY <2>1, <2>2, <2>3
    <2> HIDE DEF K, Mapped, n
    <2> QED BY <1>1, <2>1, <2>4
  <1>4. ASSUME NEW k \in 1..n, k - 1 \in Good PROVE k \in Good
    <2>1. PICK at \in [1..Len(K[k - 1]) -> (1..(k - 1)) \ gone] : Maps(at, k - 1)
      BY <1>4
    <2>2. k \in Nat /\ k - 1 \in 0..n /\ K[k - 1] \in Seq(S) /\ s[k] \in S /\ k \in 0..n
      BY <1>1, <1>2
    <2>3. /\ k - 1 < first => k - 1 <= Len(K[k - 1])
          /\ first - 1 <= k - 1 => first - 1 <= Len(K[k - 1])
      BY <1>4
    <2> HIDE DEF K
    <2>4. CASE k \in gone
      <3>1. K[k] = K[k - 1] /\ first <= k
        BY <1>2, <2>4
      <3>2. at \in [1..Len(K[k]) -> (1..k) \ gone]
        BY <2>2, <3>1
      <3>3. (1..k) \ gone = (1..(k - 1)) \ gone
        BY <2>2, <2>4
      <3>4. Maps(at, k)
        BY <2>1, <3>1, <3>3
      <3>5. /\ k < first => k <= Len(K[k])
            /\ first - 1 <= k => first - 1 <= Len(K[k])
        BY <1>1, <2>2, <2>3, <3>1
      <3> HIDE DEF Maps
      <3> QED BY <2>2, <3>2, <3>4, <3>5
    <2>5. CASE k \notin gone
      <3> DEFINE m == Len(K[k - 1])
                 up == [p \in 1..(m + 1) |-> IF p = m + 1 THEN k ELSE at[p]]
      <3>1. K[k] = Append(K[k - 1], s[k])
        BY <1>2, <2>5
      <3>2. m \in Nat /\ Len(K[k]) = m + 1 /\ K[k][m + 1] = s[k]
            /\ \A p \in 1..m : K[k][p] = K[k - 1][p]
        BY <2>2, <3>1
      <3> HIDE DEF m
      <3>3. \A p \in 1..(m + 1) : p = m + 1 \/ p \in 1..m
        BY <3>2
      <3>4. \A p \in 1..m : at[p] \in (1..(k - 1)) \ gone
        BY <2>1 DEF m
      <3>5. up[m + 1] = k /\ \A p \in 1..m : up[p] = at[p] /\ p \in 1..(m + 1) /\ p # m + 1
        BY <3>2
      <3>6. up \in [1..(m + 1) -> (1..k) \ gone]
        <4>1. \A j \in 1..(k - 1) : j \in 1..k
          BY <2>2
        <4>2. k \in (1..k) \ gone
          BY <2>2, <2>5
        <4> QED BY <3>3, <3>4, <4>1, <4>2
      <3> HIDE DEF up
      <3>7. \A p \in 1..(m + 1) : K[k][p] = s[up[p]]
        BY <2>1, <3>2, <3>3, <3>5 DEF m
      <3>8. \A p, q \in 1..(m + 1) : up[p] = up[q] => p = q
        <4>1. \A p \in 1..m : up[p] # k
          <5>1. \A j \in 1..(k - 1) : j # k
            BY <2>2
          <5> QED BY <3>4, <3>5, <5>1
        <4>2. \A p, q \in 1..m : up[p] = up[q] => p = q
          BY <2>1, <3>5 DEF m
        <4> QED BY <3>3, <3>5, <4>1, <4>2
      <3>9. \A j \in (1..k) \ gone : \E p \in 1..(m + 1) : up[p] = j
        <4>1. \A j \in 1..k : j = k \/ j \in 1..(k - 1)
          BY <2>2
        <4>2. \A j \in (1..(k - 1)) \ gone : \E p \in 1..m : up[p] = j
          BY <2>1, <3>5 DEF m
        <4>3. m + 1 \in 1..(m + 1)
          BY <3>2
        <4> QED BY <3>5, <4>1, <4>2, <4>3
      <3>10. Maps(up, k)
        BY <3>2, <3>7, <3>8, <3>9
      <3>11. /\ k < first => k <= Len(K[k])
             /\ first - 1 <= k => first - 1 <= Len(K[k])
        BY <1>1, <2>2, <2>3, <3>2 DEF m
      <3> HIDE DEF Maps
      <3> QED BY <2>2, <3>2, <3>6, <3>10, <3>11
    <2> QED BY <2>4, <2>5
  <1>5. n \in Good
    <2>1. \A k \in 1..n : k - 1 \in Good => k \in Good
      BY <1>4
    <2>2. n \in 0..n
      BY <1>1
    <2> HIDE DEF Good, n
    <2> QED BY <1>1, <1>3, <2>1, <2>2, UpTo
  <1>6. Live!Kept(s, gone) = K[n]
    BY KeptIs
  <1>7. K[n] \in Seq(S)
    BY <1>1, <1>2
  <1>8. DOMAIN K[n] = 1..Len(K[n])
    <2> HIDE DEF K
    <2> QED BY <1>7
  <1>9. first - 1 <= n
    BY <1>1
  <1>10. first - 1 <= Len(K[n]) /\ Mapped(n)
    <2> HIDE DEF K, Mapped
    <2> QED BY <1>5, <1>9
  <1>11. PICK at \in [1..Len(K[n]) -> (1..n) \ gone] : Maps(at, n)
    <2> HIDE DEF K, Maps
    <2> QED BY <1>10
  <1> DEFINE L == K[n]
  <1>12. Rearranges(at, L, s, DOMAIN s \ gone)
    <2> HIDE DEF K, n
    <2> QED BY <1>1, <1>8, <1>11 DEF Rearranges
  <1>13. Live!Kept(s, gone) = L /\ L \in Seq(S) /\ first - 1 <= Len(L)
    BY <1>6, <1>7, <1>10
  <1> HIDE DEF L
  <1> QED BY <1>12, <1>13

(* Inserting at a place moves what was there, and what was behind it, on. *)
LEMMA InsertedAt ==
  ASSUME NEW S, NEW t \in Seq(S), NEW m \in 1..(Len(t) + 1), NEW e \in S
  PROVE  /\ Live!InsertAt(t, m, e) \in Seq(S)
         /\ Len(Live!InsertAt(t, m, e)) = Len(t) + 1
         /\ \A p \in 1..(Len(t) + 1) :
              Live!InsertAt(t, m, e)[p] =
                IF p < m THEN t[p] ELSE IF p = m THEN e ELSE t[p - 1]
  <1> DEFINE head == SubSeq(t, 1, m - 1)
             tail == SubSeq(t, m, Len(t))
             front == head \o <<e>>
  <1>1. Live!InsertAt(t, m, e) = front \o tail /\ Len(t) \in Nat /\ m \in Nat
    BY DEF Live!InsertAt
  <1>2. head \in Seq(S) /\ Len(head) = m - 1 /\ \A p \in 1..(m - 1) : head[p] = t[p]
    BY <1>1
  <1>3. /\ tail \in Seq(S) /\ Len(tail) = Len(t) - m + 1
        /\ \A p \in 1..(Len(t) - m + 1) : tail[p] = t[m + p - 1]
    BY <1>1
  <1>4. /\ front \in Seq(S) /\ Len(front) = m /\ front[m] = e
        /\ \A p \in 1..(m - 1) : front[p] = t[p]
    <2> HIDE DEF head
    <2>1. <<e>> \in Seq(S) /\ Len(<<e>>) = 1 /\ <<e>>[1] = e
      OBVIOUS
    <2>2. /\ front \in Seq(S) /\ Len(front) = Len(head) + 1
          /\ \A p \in 1..(Len(head) + 1) :
               front[p] = IF p <= Len(head) THEN head[p] ELSE <<e>>[p - Len(head)]
      BY <1>2, <2>1, ConcatProperties
    <2> HIDE DEF front
    <2> QED BY <1>1, <1>2, <2>1, <2>2
  <1> HIDE DEF front, tail
  <1>5. /\ front \o tail \in Seq(S) /\ Len(front \o tail) = Len(front) + Len(tail)
        /\ \A p \in 1..(Len(front) + Len(tail)) :
             (front \o tail)[p] = IF p <= Len(front) THEN front[p] ELSE tail[p - Len(front)]
    BY <1>3, <1>4, ConcatProperties
  <1>6. Len(front) + Len(tail) = Len(t) + 1
    BY <1>1, <1>3, <1>4
  <1>7. ASSUME NEW p \in 1..(Len(t) + 1)
        PROVE  (front \o tail)[p] = IF p < m THEN t[p] ELSE IF p = m THEN e ELSE t[p - 1]
    <2>1. CASE p < m
      <3>1. p <= Len(front) /\ p \in 1..(m - 1)
        BY <1>1, <1>4, <2>1
      <3> QED BY <1>4, <1>5, <1>6, <2>1, <3>1
    <2>2. CASE p = m
      <3>1. p <= Len(front) /\ ~(p < m)
        BY <1>1, <1>4, <2>2
      <3> QED BY <1>4, <1>5, <1>6, <2>2, <3>1
    <2>3. CASE p > m
      <3>1. /\ ~(p <= Len(front)) /\ p - Len(front) \in 1..(Len(t) - m + 1)
            /\ m + (p - Len(front)) - 1 = p - 1 /\ p # m /\ ~(p < m)
        BY <1>1, <1>4, <2>3
      <3>2. (front \o tail)[p] = tail[p - Len(front)]
        BY <1>5, <1>6, <3>1
      <3>3. tail[p - Len(front)] = t[p - 1]
        BY <1>3, <3>1
      <3>4. (front \o tail)[p] = t[p - 1]
        BY <3>2, <3>3, Zenon
      <3>5. ~(p < m) /\ p # m
        BY <3>1
      <3> QED BY <3>4, <3>5, Zenon
    <2>4. p < m \/ p = m \/ p > m
      BY <1>1
    <2> QED BY <2>1, <2>2, <2>3, <2>4, Zenon
  <1> QED BY <1>1, <1>5, <1>6, <1>7

(***************************************************************************)
(* What a committed cell adds to the transcript                            *)
(***************************************************************************)

CellOf(K) ==
  [item : K \cup {Live!NoItem}, whole : BOOLEAN, body : Seq(K \cup {Live!NoItem})]
CardOf(K) == [item : K \cup {Live!NoItem}, blank : BOOLEAN, final : BOOLEAN]
ClientOf(T, K) ==
  [turn : T, live : CardOf(K), stream : K \cup {Live!NoItem}, replayed : SUBSET K,
   cells : Seq(CellOf(K)), cut : SUBSET K]

Tells(cells, i, k, n) ==
  /\ k \in DOMAIN cells /\ cells[k].whole
  /\ n \in DOMAIN cells[k].body /\ cells[k].body[n] = i
Untold(cells, i) == Live!Places(cells, i) = {}
HasPiece(cells, i) == \E k \in DOMAIN cells : Live!Piece(cells[k], i)

LEMMA PlacesAre ==
  ASSUME NEW cells, NEW i, NEW k, NEW n
  PROVE  <<k, n>> \in Live!Places(cells, i) <=> Tells(cells, i, k, n)
  BY DEF Live!Places, Tells

LEMMA PlacesArePairs ==
  ASSUME NEW cells, NEW i, NEW p \in Live!Places(cells, i)
  PROVE  \E k, n : p = <<k, n>>
  BY DEF Live!Places

LEMMA UntoldMeans ==
  ASSUME NEW cells, NEW i
  PROVE  Untold(cells, i) <=> \A k, n : ~Tells(cells, i, k, n)
  <1>1. ASSUME Untold(cells, i), NEW k, NEW n PROVE ~Tells(cells, i, k, n)
    <2>1. <<k, n>> \notin Live!Places(cells, i)
      BY <1>1 DEF Untold
    <2> QED BY <2>1, PlacesAre
  <1>2. ASSUME \A k, n : ~Tells(cells, i, k, n) PROVE Untold(cells, i)
    <2>1. ASSUME NEW p \in Live!Places(cells, i) PROVE FALSE
      <3>1. PICK k, n : p = <<k, n>>
        BY PlacesArePairs
      <3> QED BY <1>2, <3>1, PlacesAre
    <2> QED BY <2>1 DEF Untold
  <1> QED BY <1>1, <1>2

LEMMA OnceMeans ==
  ASSUME NEW cells, NEW i
  PROVE  Live!Once(cells, i) <=>
           \E k, n : /\ Tells(cells, i, k, n)
                     /\ \A l, m : Tells(cells, i, l, m) => l = k /\ m = n
  <1>1. ASSUME Live!Once(cells, i)
        PROVE  \E k, n : /\ Tells(cells, i, k, n)
                         /\ \A l, m : Tells(cells, i, l, m) => l = k /\ m = n
    <2>1. PICK p \in Live!Places(cells, i) : Live!Places(cells, i) = {p}
      BY <1>1 DEF Live!Once
    <2>2. PICK k, n : p = <<k, n>>
      BY PlacesArePairs
    <2>3. Tells(cells, i, k, n)
      BY <2>2, PlacesAre
    <2>4. ASSUME NEW l, NEW m, Tells(cells, i, l, m) PROVE l = k /\ m = n
      <3>1. <<l, m>> \in Live!Places(cells, i)
        BY <2>4, PlacesAre
      <3> QED BY <2>1, <2>2, <3>1
    <2> QED BY <2>3, <2>4
  <1>2. ASSUME NEW k, NEW n, Tells(cells, i, k, n),
               \A l, m : Tells(cells, i, l, m) => l = k /\ m = n
        PROVE  Live!Once(cells, i)
    <2>1. <<k, n>> \in Live!Places(cells, i)
      BY <1>2, PlacesAre
    <2>2. ASSUME NEW p \in Live!Places(cells, i) PROVE p = <<k, n>>
      <3>1. PICK l, m : p = <<l, m>>
        BY PlacesArePairs
      <3> QED BY <1>2, <3>1, PlacesAre
    <2> QED BY <2>1, <2>2 DEF Live!Once
  <1> QED BY <1>1, <1>2

(* From d to e, item i is told once more, or a piece of it; nothing else is. *)
Told(d, e, i, whole) ==
  /\ \A j : Untold(d, j) /\ (j # i \/ ~whole) => Untold(e, j)
  /\ \A j : Live!Once(d, j) /\ (j # i \/ ~whole) => Live!Once(e, j)
  /\ whole /\ Untold(d, i) => Live!Once(e, i)
  /\ \A j : HasPiece(e, j) => HasPiece(d, j) \/ (~whole /\ j = i)

(* ... at place n of cell k. *)
OneMore(d, e, i, whole, k, n) ==
  /\ \A j, l, m : Tells(e, j, l, m) <=>
       Tells(d, j, l, m) \/ (whole /\ j = i /\ l = k /\ m = n)
  /\ \A j : HasPiece(e, j) => HasPiece(d, j) \/ (~whole /\ j = i)

LEMMA ToldOneMore ==
  ASSUME NEW d, NEW e, NEW i, NEW whole \in BOOLEAN, NEW K, NEW N,
         OneMore(d, e, i, whole, K, N)
  PROVE  Told(d, e, i, whole)
  <1> USE DEF OneMore
  <1>1. ASSUME NEW j, Untold(d, j), j # i \/ ~whole PROVE Untold(e, j)
    BY <1>1, UntoldMeans
  <1>2. ASSUME NEW j, Live!Once(d, j), j # i \/ ~whole PROVE Live!Once(e, j)
    <2>1. PICK k, n : /\ Tells(d, j, k, n)
                      /\ \A l, m : Tells(d, j, l, m) => l = k /\ m = n
      BY <1>2, OnceMeans
    <2>2. Tells(e, j, k, n) /\ \A l, m : Tells(e, j, l, m) => l = k /\ m = n
      BY <1>2, <2>1
    <2> QED BY <2>2, OnceMeans
  <1>3. ASSUME whole, Untold(d, i) PROVE Live!Once(e, i)
    <2>1. \A k, n : ~Tells(d, i, k, n)
      BY <1>3, UntoldMeans
    <2>2. Tells(e, i, K, N) /\ \A l, m : Tells(e, i, l, m) => l = K /\ m = N
      BY <1>3, <2>1
    <2> QED BY <2>2, OnceMeans
  <1> QED BY <1>1, <1>2, <1>3 DEF Told

(* append_cell tells one item more, joined to the last cell or behind it. *)
LEMMA CommitTells ==
  ASSUME NEW T, NEW K, NEW c \in ClientOf(T, K), NEW i \in K \cup {Live!NoItem}, NEW whole \in BOOLEAN
  PROVE  \E e \in Seq(CellOf(K)) :
           /\ Live!Commit(c, Live!Cell(i, whole)) = [c EXCEPT !.cells = e]
           /\ Told(c.cells, e, i, whole)
  <1> DEFINE d == c.cells
             cell == Live!Cell(i, whole)
             L == Len(d)
             joins == /\ d # <<>> /\ cell.item.kind = "text"
                      /\ Live!Last(d).item.kind = "text" /\ Live!Last(d).whole = cell.whole
             Good(e) == /\ e \in Seq(CellOf(K))
                        /\ Live!Commit(c, Live!Cell(i, whole)) = [c EXCEPT !.cells = e]
                        /\ Told(c.cells, e, i, whole)
  <1>1. /\ d \in Seq(CellOf(K)) /\ L \in Nat /\ DOMAIN d = 1..L
        /\ \A k \in 1..L : d[k] \in CellOf(K)
    BY DEF ClientOf
  <1>2. /\ cell \in CellOf(K) /\ cell.item = i /\ cell.whole = whole
        /\ cell.body = <<i>> /\ DOMAIN cell.body = {1} /\ cell.body[1] = i
    BY DEF Live!Cell, CellOf
  <1>3. ASSUME joins, whole PROVE \E e : Good(e)
    <2>1. L \in 1..L /\ d[L] \in CellOf(K) /\ d[L].whole = TRUE
      <3>1. L # 0
        BY <1>1, <1>3
      <3>2. L \in 1..L /\ d[L] \in CellOf(K)
        BY <1>1, <3>1
      <3>3. d[L].whole = cell.whole
        BY <1>3 DEF Live!Last
      <3> QED BY <1>2, <1>3, <3>2, <3>3
    <2> DEFINE old == d[L].body
               new == old \o <<i>>
               e == [d EXCEPT ![L].body = new]
    <2>2. Live!Commit(c, cell) = [c EXCEPT !.cells = e]
      BY <1>1, <1>2, <1>3 DEF Live!Commit, ClientOf
    <2>3. /\ old \in Seq(K \cup {Live!NoItem}) /\ new \in Seq(K \cup {Live!NoItem})
          /\ Len(new) = Len(old) + 1 /\ new[Len(old) + 1] = i
          /\ \A n \in 1..Len(old) : new[n] = old[n]
          /\ Len(old) \in Nat /\ DOMAIN new = 1..(Len(old) + 1) /\ DOMAIN old = 1..Len(old)
      <3>1. old \in Seq(K \cup {Live!NoItem})
        BY <2>1 DEF CellOf
      <3>2. <<i>> \in Seq(K \cup {Live!NoItem}) /\ Len(<<i>>) = 1 /\ <<i>>[1] = i
        OBVIOUS
      <3> HIDE DEF old
      <3> QED BY <3>1, <3>2
    <2>4. /\ DOMAIN e = DOMAIN d /\ e \in Seq(CellOf(K))
          /\ e[L].whole /\ e[L].body = new /\ e[L].item = d[L].item
          /\ \A k \in DOMAIN d : k # L => e[k] = d[k]
      <3>1. [d[L] EXCEPT !.body = new] \in CellOf(K)
        BY <2>1, <2>3 DEF CellOf
      <3>2. e = [d EXCEPT ![L] = [d[L] EXCEPT !.body = new]]
        OBVIOUS
      <3>3. e[L] = [d[L] EXCEPT !.body = new]
        BY <1>1, <2>1, <3>2
      <3>4. /\ [d[L] EXCEPT !.body = new].whole = d[L].whole
            /\ [d[L] EXCEPT !.body = new].body = new
            /\ [d[L] EXCEPT !.body = new].item = d[L].item
        BY <2>1 DEF CellOf
      <3>5. DOMAIN e = DOMAIN d /\ e \in Seq(CellOf(K)) /\ \A k \in DOMAIN d : k # L => e[k] = d[k]
        <4> HIDE DEF d, new, L
        <4> DEFINE r == [d[L] EXCEPT !.body = new]
        <4>1. r \in CellOf(K) /\ e = [d EXCEPT ![L] = r]
          BY <3>1, <3>2
        <4> HIDE DEF r, e
        <4> QED BY <1>1, <2>1, <4>1
      <3> HIDE DEF e
      <3> QED BY <2>1, <3>3, <3>4, <3>5
    <2> HIDE DEF d, L, old, new, e
    <2>5. \A j, k, n : Tells(e, j, k, n) <=>
             Tells(d, j, k, n) \/ (whole /\ j = i /\ k = L /\ n = Len(old) + 1)
      <3>1. ASSUME NEW j, NEW n
            PROVE  Tells(e, j, L, n) <=>
                     Tells(d, j, L, n) \/ (j = i /\ n = Len(old) + 1)
        <4>1. \A m : m \in DOMAIN new <=> m \in DOMAIN old \/ m = Len(old) + 1
          BY <2>3
        <4>2. \A m \in DOMAIN old : new[m] = old[m] /\ m # Len(old) + 1
          BY <2>3
        <4>3. L \in DOMAIN d /\ L \in DOMAIN e /\ d[L].whole /\ d[L].body = old
          BY <1>1, <2>1, <2>4 DEF old
        <4> QED BY <2>3, <2>4, <4>1, <4>2, <4>3 DEF Tells
      <3>2. ASSUME NEW j, NEW k, NEW n, k # L PROVE Tells(e, j, k, n) <=> Tells(d, j, k, n)
        BY <2>4, <3>2 DEF Tells
      <3> QED BY <1>3, <3>1, <3>2
    <2>6. \A j : HasPiece(e, j) => HasPiece(d, j)
      BY <2>4 DEF HasPiece, Live!Piece
    <2>7. Told(d, e, i, whole)
      <3>1. OneMore(d, e, i, whole, L, Len(old) + 1)
        BY <2>5, <2>6 DEF OneMore
      <3> QED BY <3>1, ToldOneMore
    <2>8. Good(e)
      BY <2>2, <2>4, <2>7 DEF d
    <2> HIDE DEF Good
    <2> QED BY <2>8
  <1>4. ASSUME joins, ~whole PROVE \E e : Good(e)
    <2>1. Live!Commit(c, cell) = c
      BY <1>2, <1>4 DEF Live!Commit
    <2>2. c = [c EXCEPT !.cells = d]
      BY DEF ClientOf
    <2>3. Told(d, d, i, whole)
      BY <1>4 DEF Told
    <2>4. Good(d)
      BY <1>1, <2>1, <2>2, <2>3
    <2> HIDE DEF Good
    <2> QED BY <2>4
  <1>5. ASSUME ~joins PROVE \E e : Good(e)
    <2> DEFINE e == Append(d, cell)
    <2>1. Live!Commit(c, cell) = [c EXCEPT !.cells = e]
      BY <1>5 DEF Live!Commit
    <2> HIDE DEF d, cell, L
    <2>2. /\ e \in Seq(CellOf(K)) /\ DOMAIN e = 1..(L + 1) /\ e[L + 1] = cell
          /\ \A k \in 1..L : e[k] = d[k] /\ k # L + 1
      BY <1>1, <1>2 DEF L
    <2>3. \A k : k \in DOMAIN e <=> k \in DOMAIN d \/ k = L + 1
      BY <1>1, <2>2
    <2> HIDE DEF e
    <2>4. \A j, k, n : Tells(e, j, k, n) <=>
             Tells(d, j, k, n) \/ (whole /\ j = i /\ k = L + 1 /\ n = 1)
      BY <1>1, <1>2, <2>2, <2>3 DEF Tells
    <2>5. \A j : HasPiece(e, j) => HasPiece(d, j) \/ (~whole /\ j = i)
      BY <1>1, <1>2, <2>2, <2>3 DEF HasPiece, Live!Piece
    <2>6. Told(d, e, i, whole)
      <3>1. OneMore(d, e, i, whole, L + 1, 1)
        BY <2>4, <2>5 DEF OneMore
      <3> QED BY <3>1, ToldOneMore
    <2>7. Good(e)
      BY <2>1, <2>2, <2>6 DEF d, cell
    <2> HIDE DEF Good
    <2> QED BY <2>7
  <1>6. \E e : Good(e)
    <2> HIDE DEF Good, joins
    <2> QED BY <1>3, <1>4, <1>5
  <1> QED BY <1>6

CellsOf(c, e) ==
  [turn |-> c.turn, live |-> c.live, stream |-> c.stream, replayed |-> c.replayed,
   cells |-> e, cut |-> c.cut]
Adds(c, r, i, whole, K) ==
  \E e \in Seq(CellOf(K)) : r = [c EXCEPT !.cells = e] /\ Told(c.cells, e, i, whole)

LEMMA CommitAdds ==
  ASSUME NEW T, NEW K, NEW c \in ClientOf(T, K), NEW i \in K \cup {Live!NoItem}, NEW whole \in BOOLEAN
  PROVE  Adds(c, Live!Commit(c, Live!Cell(i, whole)), i, whole, K)
  BY CommitTells DEF Adds

(* consolidate_agent_message tells it once more, and leaves no piece of it. *)
LEMMA ConsolidateTells ==
  ASSUME NEW T, NEW K, NEW c \in ClientOf(T, K), NEW i \in K \cup {Live!NoItem}
  PROVE  \E e \in Seq(CellOf(K)) :
           /\ Live!Consolidate(c, i) = [c EXCEPT !.cells = e]
           /\ Told(c.cells, e, i, TRUE) /\ ~HasPiece(e, i)
  <1> DEFINE d == c.cells
             cell == Live!Cell(i, TRUE)
             pieces == {k \in DOMAIN d : Live!Piece(d[k], i)}
             Good(e) == /\ e \in Seq(CellOf(K))
                        /\ Live!Consolidate(c, i) = [c EXCEPT !.cells = e]
                        /\ Told(c.cells, e, i, TRUE) /\ ~HasPiece(e, i)
  <1>1. ASSUME pieces = {} PROVE \E e : Good(e)
    <2>1. PICK e \in Seq(CellOf(K)) : /\ Live!Commit(c, cell) = [c EXCEPT !.cells = e]
                                      /\ Told(c.cells, e, i, TRUE)
      BY CommitTells
    <2>2. ~HasPiece(e, i)
      BY <1>1, <2>1 DEF Told, HasPiece
    <2>3. Live!Consolidate(c, i) = Live!Commit(c, cell)
      BY <1>1 DEF Live!Consolidate
    <2>4. Good(e)
      BY <2>1, <2>2, <2>3
    <2> HIDE DEF Good
    <2> QED BY <2>4
  <1>2. ASSUME pieces # {} PROVE \E e : Good(e)
    <2> DEFINE first == Live!Min(pieces)
               t == Live!Kept(d, pieces)
               e == Live!InsertAt(t, first, cell)
    <2>1. /\ d \in Seq(CellOf(K)) /\ Len(d) \in Nat /\ DOMAIN d = 1..Len(d)
          /\ cell \in CellOf(K) /\ cell.whole /\ DOMAIN cell.body = {1} /\ cell.body[1] = i
      BY DEF ClientOf, Live!Cell, CellOf
    <2>2. pieces \in SUBSET Nat
      BY <2>1
    <2>3. first \in pieces /\ \A g \in pieces : first <= g
      <3>1. \E m \in pieces : \A y \in pieces : m <= y
        <4> HIDE DEF pieces
        <4> QED BY <1>2, <2>2, LeastOf
      <3> HIDE DEF pieces
      <3> QED BY <3>1 DEF Live!Min
    <2>4. first \in DOMAIN d /\ first \in Nat /\ first >= 1
      BY <2>1, <2>3
    <2>5. Live!Consolidate(c, i) = [c EXCEPT !.cells = e]
      BY <1>2 DEF Live!Consolidate
    <2> HIDE DEF first
    <2>6. /\ t \in Seq(CellOf(K)) /\ first - 1 <= Len(t)
          /\ \E at : Rearranges(at, t, d, DOMAIN d \ pieces)
      <3> HIDE DEF pieces, d
      <3> QED BY <2>1, <2>3, <2>4, KeptMaps
    <2>7. PICK at : Rearranges(at, t, d, DOMAIN d \ pieces)
      BY <2>6
    <2> HIDE DEF t
    <2>8. Len(t) \in Nat /\ first \in 1..(Len(t) + 1) /\ DOMAIN t = 1..Len(t)
      BY <2>4, <2>6
    <2> HIDE DEF cell
    <2>9. /\ e \in Seq(CellOf(K)) /\ Len(e) = Len(t) + 1 /\ DOMAIN e = 1..(Len(t) + 1)
          /\ \A p \in 1..(Len(t) + 1) :
                e[p] = IF p < first THEN t[p] ELSE IF p = first THEN cell ELSE t[p - 1]
      <3>1. /\ e \in Seq(CellOf(K)) /\ Len(e) = Len(t) + 1
            /\ \A p \in 1..(Len(t) + 1) :
                e[p] = IF p < first THEN t[p] ELSE IF p = first THEN cell ELSE t[p - 1]
        BY <2>1, <2>6, <2>8, InsertedAt
      <3> HIDE DEF e
      <3>2. DOMAIN e = 1..(Len(t) + 1)
        BY <3>1
      <3> QED BY <3>1, <3>2
    <2> HIDE DEF e, d, pieces
    <2> DEFINE from(p) == IF p < first THEN at[p] ELSE at[p - 1]
    <2>10. e[first] = cell /\ first \in DOMAIN e
      BY <2>4, <2>8, <2>9
    <2>11. ASSUME NEW p \in DOMAIN e, p # first
           PROVE  /\ from(p) \in DOMAIN d \ pieces /\ e[p] = d[from(p)]
      <3>1. CASE p < first
        <4>1. p \in DOMAIN t /\ e[p] = t[p]
          BY <2>8, <2>9, <3>1
        <4> QED BY <2>7, <3>1, <4>1 DEF Rearranges
      <3>2. CASE ~(p < first)
        <4>1. p - 1 \in DOMAIN t /\ e[p] = t[p - 1]
          BY <2>8, <2>9, <2>11, <3>2
        <4> QED BY <2>7, <3>2, <4>1 DEF Rearranges
      <3> QED BY <3>1, <3>2
    <2>12. ASSUME NEW p \in DOMAIN e, NEW q \in DOMAIN e, p # first, q # first,
                  from(p) = from(q)
           PROVE  p = q
      <3> DEFINE P == IF p < first THEN p ELSE p - 1
                 Q == IF q < first THEN q ELSE q - 1
      <3>1. P \in DOMAIN t /\ Q \in DOMAIN t
        BY <2>8, <2>9, <2>12
      <3>2. at[P] = at[Q]
        BY <2>12
      <3>3. P = Q
        <4> HIDE DEF P, Q
        <4> QED BY <2>7, <3>1, <3>2 DEF Rearranges
      <3>4. p \in Nat /\ q \in Nat
        BY <2>8, <2>9
      <3> QED BY <2>4, <2>12, <3>3, <3>4
    <2>13. ASSUME NEW k \in DOMAIN d \ pieces
           PROVE  \E p \in DOMAIN e : p # first /\ from(p) = k
      <3>1. PICK p \in DOMAIN t : at[p] = k
        BY <2>7 DEF Rearranges
      <3>2. CASE p < first
        <4>1. p \in DOMAIN e /\ p # first
          BY <2>8, <2>9, <3>2
        <4> QED BY <3>1, <3>2, <4>1
      <3>3. CASE ~(p < first)
        <4>1. p + 1 \in DOMAIN e /\ p + 1 # first /\ ~(p + 1 < first) /\ (p + 1) - 1 = p
          BY <2>4, <2>8, <2>9, <3>3
        <4> QED BY <3>1, <4>1
      <3> QED BY <3>2, <3>3
    <2> HIDE DEF from
    <2>14. \A j, n : Tells(e, j, first, n) <=> j = i /\ n = 1
      BY <2>1, <2>10 DEF Tells
    <2>15. \A j, n : \A p \in DOMAIN e : p # first => (Tells(e, j, p, n) <=> Tells(d, j, from(p), n))
      BY <2>11 DEF Tells
    <2>16. \A j, k, n : Tells(d, j, k, n) => \E p \in DOMAIN e : p # first /\ from(p) = k
      <3>1. \A j, k, n : Tells(d, j, k, n) => k \in DOMAIN d \ pieces
        BY DEF Tells, pieces, Live!Piece
      <3> QED BY <2>13, <3>1
    <2>17. \A j, k, n : Tells(e, j, k, n) => k \in DOMAIN e
      BY DEF Tells
    <2>18. ASSUME NEW j, Untold(d, j), j # i PROVE Untold(e, j)
      BY <2>14, <2>15, <2>17, <2>18, UntoldMeans
    <2>19. ASSUME NEW j, Live!Once(d, j), j # i PROVE Live!Once(e, j)
      <3>1. PICK k, n : /\ Tells(d, j, k, n)
                        /\ \A l, m : Tells(d, j, l, m) => l = k /\ m = n
        BY <2>19, OnceMeans
      <3>2. PICK p \in DOMAIN e : p # first /\ from(p) = k
        BY <2>16, <3>1
      <3>3. Tells(e, j, p, n)
        BY <2>15, <3>1, <3>2
      <3>4. ASSUME NEW l, NEW m, Tells(e, j, l, m) PROVE l = p /\ m = n
        <4>1. l \in DOMAIN e /\ l # first
          BY <2>14, <2>17, <2>19, <3>4
        <4>2. Tells(d, j, from(l), m)
          BY <2>15, <3>4, <4>1
        <4> QED BY <2>12, <3>1, <3>2, <4>1, <4>2 DEF from
      <3> QED BY <3>3, <3>4, OnceMeans
    <2>20. ASSUME Untold(d, i) PROVE Live!Once(e, i)
      <3>1. \A k, n : ~Tells(d, i, k, n)
        BY <2>20, UntoldMeans
      <3>2. Tells(e, i, first, 1) /\ \A l, m : Tells(e, i, l, m) => l = first /\ m = 1
        BY <2>14, <2>15, <2>17, <3>1
      <3> QED BY <3>2, OnceMeans
    <2>21. ASSUME NEW j, HasPiece(e, j) PROVE HasPiece(d, j) /\ j # i
      <3>1. PICK p \in DOMAIN e : Live!Piece(e[p], j)
        BY <2>21 DEF HasPiece
      <3>2. p # first
        BY <2>1, <2>10, <3>1 DEF Live!Piece
      <3>3. from(p) \in DOMAIN d \ pieces /\ e[p] = d[from(p)]
        BY <2>11, <3>2 DEF from
      <3>4. ~Live!Piece(d[from(p)], i)
        BY <3>3 DEF pieces
      <3> QED BY <3>1, <3>3, <3>4 DEF HasPiece
    <2>22. Told(d, e, i, TRUE) /\ ~HasPiece(e, i)
      BY <2>18, <2>19, <2>20, <2>21 DEF Told
    <2>23. Good(e)
      BY <2>5, <2>9, <2>22 DEF d
    <2> HIDE DEF Good
    <2> QED BY <2>23
  <1>3. \E e : Good(e)
    <2> HIDE DEF Good, pieces
    <2> QED BY <1>1, <1>2
  <1> QED BY <1>3

(***************************************************************************)
(* What the client knows of the items                                      *)
(***************************************************************************)

(* K are the items there were so far, fin those that are completed, undone those
   that still may be.  What is open is told nowhere, what is live is not
   committed, what was let go of before its end is known to be, and a piece of
   a message is streamed, replayed or cut.                                   *)
LiveFits(c, fin) ==
  IF c.live.final
  THEN c.live.item \in fin /\ c.live.item.kind # "text" /\ Untold(c.cells, c.live.item)
  ELSE c.live.item \notin fin
MessageShown(c, fin) ==
  \A i \in fin \ c.cut : i.kind = "text" => Live!Once(c.cells, i) /\ ~HasPiece(c.cells, i)
CardShown(c, fin) ==
  \A i \in fin \ c.cut : i.kind # "text" =>
    IF c.live.final /\ c.live.item = i THEN Untold(c.cells, i) ELSE Live!Once(c.cells, i)
OpenFits(c, undone) ==
  \A i \in undone :
    /\ Untold(c.cells, i)
    /\ i \in c.replayed => i \in c.cut
    /\ i.kind = "text" /\ HasPiece(c.cells, i) =>
         c.stream = i \/ i \in c.replayed \/ i \in c.cut
Fits(c, fin, undone) ==
  LiveFits(c, fin) /\ OpenFits(c, undone) /\ MessageShown(c, fin) /\ CardShown(c, fin)

Itemized(T, K, fin, undone) ==
  /\ fin \subseteq K /\ undone \subseteq K /\ undone \cap fin = {}
  /\ Live!NoItem \notin K /\ 0 \in T /\ \A i \in K : i.turn \in T
Follows(c, T, K, fin, undone) == c \in ClientOf(T, K) /\ Fits(c, fin, undone)

ClientParts(c, T, K) ==
  /\ c = [turn |-> c.turn, live |-> c.live, stream |-> c.stream,
          replayed |-> c.replayed, cells |-> c.cells, cut |-> c.cut]
  /\ c.turn \in T /\ c.live \in CardOf(K) /\ c.stream \in K \cup {Live!NoItem}
  /\ c.replayed \in SUBSET K /\ c.cells \in Seq(CellOf(K)) /\ c.cut \in SUBSET K
  /\ c.live.item \in K \cup {Live!NoItem} /\ c.live.blank \in BOOLEAN
  /\ c.live.final \in BOOLEAN

LEMMA ClientIs ==
  ASSUME NEW T, NEW K, NEW c \in ClientOf(T, K)
  PROVE  ClientParts(c, T, K)
  BY DEF ClientOf, CardOf, ClientParts

LEMMA ClientWith ==
  ASSUME NEW T, NEW K, NEW c, ClientParts(c, T, K)
  PROVE  c \in ClientOf(T, K)
  <1>1. /\ c.turn \in T /\ c.live \in CardOf(K) /\ c.stream \in K \cup {Live!NoItem}
        /\ c.replayed \in SUBSET K /\ c.cells \in Seq(CellOf(K)) /\ c.cut \in SUBSET K
    BY DEF ClientParts
  <1>2. [turn |-> c.turn, live |-> c.live, stream |-> c.stream,
         replayed |-> c.replayed, cells |-> c.cells, cut |-> c.cut] \in ClientOf(T, K)
    BY <1>1 DEF ClientOf
  <1> QED BY <1>2 DEF ClientParts

LEMMA NoCardIs ==
  ASSUME NEW K
  PROVE  /\ Live!NoCard \in CardOf(K) /\ Live!NoCard.final = FALSE
         /\ Live!NoCard.item = Live!NoItem
  BY DEF Live!NoCard, Live!Card, CardOf

(* A notice, or a piece of a message that is not completed. *)
LEMMA ToldFits ==
  ASSUME NEW T, NEW K, NEW fin, NEW undone, Itemized(T, K, fin, undone),
         NEW c, Follows(c, T, K, fin, undone),
         NEW i \in K \cup {Live!NoItem}, NEW whole \in BOOLEAN, i \notin fin,
         IF whole THEN i \notin undone
         ELSE i \in undone /\ i.kind = "text" =>
                c.stream = i \/ i \in c.replayed \/ i \in c.cut
  PROVE  /\ Follows(Live!Commit(c, Live!Cell(i, whole)), T, K, fin, undone)
         /\ Live!Commit(c, Live!Cell(i, whole)).cut = c.cut
  <1>1. c \in ClientOf(T, K)
    BY DEF Follows
  <1>2. PICK e \in Seq(CellOf(K)) :
          /\ Live!Commit(c, Live!Cell(i, whole)) = [c EXCEPT !.cells = e]
          /\ Told(c.cells, e, i, whole)
    BY <1>1, CommitTells
  <1> DEFINE r == [c EXCEPT !.cells = e]
  <1>3. /\ r \in ClientOf(T, K) /\ r.cells = e /\ r.live = c.live /\ r.stream = c.stream
        /\ r.replayed = c.replayed /\ r.cut = c.cut
    BY <1>1, <1>2 DEF ClientOf
  <1> HIDE DEF r
  <1>4. Fits(c, fin, undone)
    BY DEF Follows
  <1>5. LiveFits(r, fin)
    BY <1>2, <1>3, <1>4 DEF Fits, LiveFits, Told
  <1>6. OpenFits(r, undone)
    BY <1>2, <1>3, <1>4 DEF Fits, OpenFits, Told
  <1>7. MessageShown(r, fin)
    BY <1>2, <1>3, <1>4 DEF Fits, MessageShown, Told
  <1>8. CardShown(r, fin)
    BY <1>2, <1>3, <1>4 DEF Fits, CardShown, Told
  <1> QED BY <1>2, <1>3, <1>5, <1>6, <1>7, <1>8 DEF Follows, Fits, r

(* What is open may get less. *)
LEMMA LessOpenFits ==
  ASSUME NEW T, NEW K, NEW fin, NEW undone, NEW c, Follows(c, T, K, fin, undone),
         NEW less, less \subseteq undone
  PROVE  Follows(c, T, K, fin, less)
  BY DEF Follows, Fits, OpenFits

(* ActiveTurnState::clear lets go of what is live and streamed. *)
LEMMA ForgetFits ==
  ASSUME NEW T, NEW K, NEW fin, NEW undone, Itemized(T, K, fin, undone),
         NEW c, Follows(c, T, K, fin, undone)
  PROVE  /\ Follows(Live!Forget(c), T, K, fin, undone)
         /\ Live!Forget(c).live = Live!NoCard
  <1> DEFINE r == Live!Forget(c)
  <1>1. c \in ClientOf(T, K) /\ Fits(c, fin, undone)
    BY DEF Follows
  <1>2. /\ r.turn = 0 /\ r.live = Live!NoCard /\ r.stream = Live!NoItem /\ r.replayed = {}
        /\ r.cells = c.cells
        /\ r.cut = c.cut \cup ({c.live.item, c.stream} \ {Live!NoItem})
        /\ r = [turn |-> r.turn, live |-> r.live, stream |-> r.stream,
                replayed |-> r.replayed, cells |-> r.cells, cut |-> r.cut]
    <2> DEFINE d == [c EXCEPT !.cut = @ \cup ({c.live.item, c.stream} \ {Live!NoItem})]
    <2>1. r = [d EXCEPT !.turn = 0, !.live = Live!NoCard, !.stream = Live!NoItem, !.replayed = {}]
      BY DEF Live!Forget, Live!Cut
    <2>2. c = [turn |-> c.turn, live |-> c.live, stream |-> c.stream,
               replayed |-> c.replayed, cells |-> c.cells, cut |-> c.cut]
      BY <1>1 DEF ClientOf
    <2>3. d = [turn |-> c.turn, live |-> c.live, stream |-> c.stream,
               replayed |-> c.replayed, cells |-> c.cells,
               cut |-> c.cut \cup ({c.live.item, c.stream} \ {Live!NoItem})]
      BY <2>2
    <2> HIDE DEF d, r
    <2>4. r = [turn |-> 0, live |-> Live!NoCard, stream |-> Live!NoItem,
               replayed |-> {}, cells |-> c.cells,
               cut |-> c.cut \cup ({c.live.item, c.stream} \ {Live!NoItem})]
      BY <2>1, <2>3
    <2> QED BY <2>4
  <1> HIDE DEF r
  <1>3. /\ Live!NoCard \in CardOf(K) /\ Live!NoCard.final = FALSE
        /\ Live!NoCard.item = Live!NoItem
    BY DEF Live!NoCard, Live!Card, CardOf
  <1>4. r \in ClientOf(T, K)
    <2>1. c.live.item \in K \cup {Live!NoItem} /\ c.stream \in K \cup {Live!NoItem}
          /\ c.cut \subseteq K /\ c.cells \in Seq(CellOf(K))
      BY <1>1 DEF ClientOf, CardOf
    <2> QED BY <1>2, <1>3, <2>1 DEF ClientOf, Itemized
  <1>5. LiveFits(r, fin)
    BY <1>2, <1>3 DEF LiveFits, Itemized
  <1>6. OpenFits(r, undone)
    BY <1>1, <1>2 DEF OpenFits, Fits, Itemized
  <1>7. MessageShown(r, fin)
    BY <1>1, <1>2 DEF MessageShown, Fits
  <1>8. CardShown(r, fin)
    BY <1>1, <1>2, <1>3 DEF CardShown, Fits, Itemized
  <1> QED BY <1>2, <1>4, <1>5, <1>6, <1>7, <1>8 DEF Follows, Fits, r

LEMMA BindFits ==
  ASSUME NEW T, NEW K, NEW fin, NEW undone, Itemized(T, K, fin, undone),
         NEW c, Follows(c, T, K, fin, undone), NEW t \in T
  PROVE  /\ Follows(Live!Bind(c, t), T, K, fin, undone)
         /\ Live!Bind(c, t).live \in {c.live, Live!NoCard}
  <1> DEFINE d == IF c.turn \in {0, t} THEN c ELSE Live!Forget(c)
             r == Live!Bind(c, t)
  <1>1. Follows(d, T, K, fin, undone) /\ d.live \in {c.live, Live!NoCard}
    BY ForgetFits
  <1>2. r = [d EXCEPT !.turn = t]
    BY DEF Live!Bind
  <1> HIDE DEF d, r
  <1>3. /\ r \in ClientOf(T, K) /\ r.cells = d.cells /\ r.live = d.live /\ r.stream = d.stream
        /\ r.replayed = d.replayed /\ r.cut = d.cut
    BY <1>1, <1>2 DEF ClientOf, Follows
  <1>4. Fits(r, fin, undone)
    BY <1>1, <1>3 DEF Follows, Fits, LiveFits, OpenFits, MessageShown, CardShown
  <1> QED BY <1>1, <1>3, <1>4 DEF Follows, r

(* A card that is not final is let go of where it is committed or discarded. *)
Settled(c) ==
  [Live!CommitCard(Live!Cut(c, IF c.live.final THEN {} ELSE {c.live.item}), c.live)
     EXCEPT !.live = Live!NoCard]
LEMMA CommitIs ==
  ASSUME NEW T, NEW K, NEW c \in ClientOf(T, K), NEW i \in K \cup {Live!NoItem}, NEW whole \in BOOLEAN
  PROVE  \E e \in Seq(CellOf(K)) :
           Live!Commit(c, Live!Cell(i, whole)) = CellsOf(c, e) /\ Told(c.cells, e, i, whole)
  <1> DEFINE r == Live!Commit(c, Live!Cell(i, whole))
  <1>1. Adds(c, r, i, whole, K)
    BY CommitAdds
  <1> HIDE DEF r
  <1>2. ClientParts(c, T, K)
    BY ClientIs
  <1>3. ASSUME NEW e, r = [c EXCEPT !.cells = e] PROVE r = CellsOf(c, e)
    BY <1>2, <1>3 DEF ClientParts, CellsOf
  <1>4. \E e \in Seq(CellOf(K)) : r = CellsOf(c, e) /\ Told(c.cells, e, i, whole)
    BY <1>1, <1>3 DEF Adds
  <1> QED BY <1>4 DEF r

LEMMA CardGone ==
  ASSUME NEW c, NEW e, NEW card
  PROVE  [CellsOf(c, e) EXCEPT !.live = card]
           = [turn |-> c.turn, live |-> card, stream |-> c.stream, replayed |-> c.replayed,
              cells |-> e, cut |-> c.cut]
  BY DEF CellsOf

LEMMA CardTells ==
  ASSUME NEW T, NEW K, NEW c \in ClientOf(T, K)
  PROVE  \E e \in Seq(CellOf(K)) :
           /\ Settled(c) =
                [turn |-> c.turn, live |-> Live!NoCard, stream |-> c.stream,
                 replayed |-> c.replayed, cells |-> e,
                 cut |-> c.cut \cup (IF c.live.final THEN {} ELSE {c.live.item} \ {Live!NoItem})]
           /\ Told(c.cells, e, c.live.item, c.live.final)
  <1> DEFINE card == c.live
             more == IF card.final THEN {} ELSE {card.item} \ {Live!NoItem}
             d == Live!Cut(c, IF card.final THEN {} ELSE {card.item})
             Is(e) == [turn |-> c.turn, live |-> Live!NoCard, stream |-> c.stream,
                       replayed |-> c.replayed, cells |-> e, cut |-> c.cut \cup more]
             Good(e) == /\ e \in Seq(CellOf(K)) /\ Settled(c) = Is(e)
                        /\ Told(c.cells, e, card.item, card.final)
  <1>0. ClientParts(c, T, K)
    BY ClientIs
  <1>1. d = [turn |-> c.turn, live |-> c.live, stream |-> c.stream,
             replayed |-> c.replayed, cells |-> c.cells, cut |-> c.cut \cup more]
    <2>1. d = [c EXCEPT !.cut = @ \cup more]
      BY DEF Live!Cut
    <2> HIDE DEF d, more
    <2> QED BY <1>0, <2>1 DEF ClientParts
  <1>2. more \in SUBSET K
    BY <1>0 DEF ClientParts
  <1>3. Settled(c) = [Live!CommitCard(d, card) EXCEPT !.live = Live!NoCard]
    BY DEF Settled
  <1> HIDE DEF more, d
  <1>4. d \in ClientOf(T, K) /\ d.cells = c.cells
    BY <1>0, <1>1, <1>2 DEF ClientParts, ClientOf
  <1>5. card.item \in K \cup {Live!NoItem} /\ card.final \in BOOLEAN
    BY <1>0 DEF ClientParts
  <1>6. ASSUME card = Live!NoCard \/ Live!Discardable(card) PROVE \E e : Good(e)
    <2>1. Live!CommitCard(d, card) = d
      BY <1>6 DEF Live!CommitCard
    <2>2. card.final = FALSE
      BY <1>5, <1>6, NoCardIs DEF Live!Discardable
    <2>3. Told(c.cells, c.cells, card.item, FALSE)
      BY DEF Told
    <2>4. [d EXCEPT !.live = Live!NoCard] = Is(c.cells)
      BY <1>1
    <2>5. Good(c.cells)
      BY <1>0, <1>3, <2>1, <2>2, <2>3, <2>4 DEF ClientParts
    <2> HIDE DEF Good
    <2> QED BY <2>5
  <1>7. ASSUME ~(card = Live!NoCard \/ Live!Discardable(card)) PROVE \E e : Good(e)
    <2>1. Live!CommitCard(d, card) = Live!Commit(d, Live!Cell(card.item, card.final))
      BY <1>7 DEF Live!CommitCard
    <2>2. PICK e \in Seq(CellOf(K)) :
            /\ Live!Commit(d, Live!Cell(card.item, card.final)) = CellsOf(d, e)
            /\ Told(d.cells, e, card.item, card.final)
      BY <1>4, <1>5, CommitIs, ZenonT(60)
    <2>3. [CellsOf(d, e) EXCEPT !.live = Live!NoCard] = Is(e)
      <3>1. d.turn = c.turn /\ d.stream = c.stream /\ d.replayed = c.replayed
            /\ d.cut = c.cut \cup more
        BY <1>1
      <3>2. [CellsOf(d, e) EXCEPT !.live = Live!NoCard]
              = [turn |-> d.turn, live |-> Live!NoCard, stream |-> d.stream,
                 replayed |-> d.replayed, cells |-> e, cut |-> d.cut]
        BY CardGone
      <3> QED BY <3>1, <3>2
    <2>4. Good(e)
      BY <1>3, <1>4, <2>1, <2>2, <2>3
    <2> HIDE DEF Good
    <2> QED BY <2>4
  <1>8. \E e : Good(e)
    BY <1>6, <1>7
  <1> QED BY <1>8 DEF more

LEMMA SettledFits ==
  ASSUME NEW T, NEW K, NEW fin, NEW undone, Itemized(T, K, fin, undone),
         NEW c, Follows(c, T, K, fin, undone)
  PROVE  /\ Follows(Settled(c), T, K, fin, undone)
         /\ Settled(c).live = Live!NoCard
         /\ c.live.item # Live!NoItem => c.live.item \in fin \/ c.live.item \in Settled(c).cut
         /\ Settled(c).stream = c.stream /\ Settled(c).replayed = c.replayed
  <1>1. c \in ClientOf(T, K) /\ Fits(c, fin, undone)
    BY DEF Follows
  <1> DEFINE more == IF c.live.final THEN {} ELSE {c.live.item} \ {Live!NoItem}
             r == Settled(c)
  <1>2. PICK e \in Seq(CellOf(K)) :
           /\ r = [turn |-> c.turn, live |-> Live!NoCard, stream |-> c.stream,
                   replayed |-> c.replayed, cells |-> e, cut |-> c.cut \cup more]
           /\ Told(c.cells, e, c.live.item, c.live.final)
    BY <1>1, CardTells
  <1>0. ClientParts(c, T, K)
    BY <1>1, ClientIs
  <1>3. more \in SUBSET K
    BY <1>0 DEF ClientParts
  <1>4. c.live.final => c.live.item \in fin
    BY <1>1 DEF Fits, LiveFits
  <1>5. ~c.live.final => c.live.item \notin fin /\ (c.live.item # Live!NoItem => c.live.item \in more)
    BY <1>1 DEF Fits, LiveFits
  <1>6. more \cap fin = {}
    BY <1>5
  <1> HIDE DEF r
  <1>7. r \in ClientOf(T, K)
    <2>1. c.cut \cup more \in SUBSET K
      BY <1>0, <1>3 DEF ClientParts
    <2> HIDE DEF more
    <2> QED BY <1>0, <1>2, <2>1, NoCardIs DEF ClientParts, ClientOf
  <1>8. LiveFits(r, fin)
    BY <1>2, NoCardIs DEF LiveFits, Itemized
  <1> HIDE DEF more
  <1>9. OpenFits(r, undone)
    <2>1. ASSUME NEW i \in undone, HasPiece(e, i), i.kind = "text"
          PROVE  c.stream = i \/ i \in c.replayed \/ i \in c.cut \cup more
      <3>1. CASE HasPiece(c.cells, i)
        BY <1>1, <2>1, <3>1 DEF Fits, OpenFits
      <3>2. CASE ~c.live.final /\ i = c.live.item
        BY <1>5, <3>2 DEF Itemized
      <3> QED BY <1>2, <2>1, <3>1, <3>2 DEF Told
    <2>2. ASSUME NEW i \in undone PROVE Untold(e, i)
      <3>1. i \notin fin /\ Untold(c.cells, i)
        BY <1>1 DEF Fits, OpenFits, Itemized
      <3> QED BY <1>2, <1>4, <3>1 DEF Told
    <2> QED BY <1>1, <1>2, <2>1, <2>2 DEF Fits, OpenFits
  <1>10. MessageShown(r, fin)
    <2>1. ASSUME NEW i \in fin \ (c.cut \cup more), i.kind = "text"
          PROVE  Live!Once(e, i) /\ ~HasPiece(e, i)
      <3>1. Live!Once(c.cells, i) /\ ~HasPiece(c.cells, i)
        BY <1>1, <2>1 DEF Fits, MessageShown
      <3>2. i # c.live.item
        BY <1>1, <2>1 DEF Fits, LiveFits
      <3> QED BY <1>2, <3>1, <3>2 DEF Told
    <2> QED BY <1>2, <2>1 DEF MessageShown
  <1>11. CardShown(r, fin)
    <2>1. ASSUME NEW i \in fin \ (c.cut \cup more), i.kind # "text"
          PROVE  Live!Once(e, i)
      <3>1. CASE c.live.final /\ c.live.item = i
        BY <1>1, <1>2, <3>1 DEF Fits, LiveFits, Told
      <3>2. CASE ~(c.live.final /\ c.live.item = i)
        <4>1. Live!Once(c.cells, i)
          BY <1>1, <2>1, <3>2 DEF Fits, CardShown
        <4> QED BY <1>2, <3>2, <4>1 DEF Told
      <3> QED BY <3>1, <3>2
    <2> QED BY <1>2, <2>1, NoCardIs DEF CardShown
  <1> QED BY <1>2, <1>4, <1>5, <1>7, <1>8, <1>9, <1>10, <1>11 DEF Follows, Fits, r

(* flush_live_tail_if_different *)
LEMMA FlushFits ==
  ASSUME NEW T, NEW K, NEW fin, NEW undone, Itemized(T, K, fin, undone),
         NEW c, Follows(c, T, K, fin, undone), NEW i
  PROVE  /\ Follows(Live!Flush(c, i), T, K, fin, undone)
         /\ Live!Flush(c, i).live.item \in {Live!NoItem, i}
  <1>1. CASE c.live.item \in {Live!NoItem, i}
    BY <1>1 DEF Live!Flush
  <1>2. CASE c.live.item \notin {Live!NoItem, i}
    <2> DEFINE s == Settled(c)
               it == c.live.item
               r == Live!Flush(c, i)
               stream1 == IF s.stream = it THEN Live!NoItem ELSE s.stream
    <2>1. /\ Follows(s, T, K, fin, undone) /\ s.live = Live!NoCard /\ s.stream = c.stream
          /\ s.replayed = c.replayed /\ (it \in fin \/ it \in s.cut) /\ it \in K
      <3>1. c \in ClientOf(T, K)
        BY DEF Follows
      <3>2. it \in K \cup {Live!NoItem}
        BY <3>1, ClientIs DEF ClientParts
      <3> QED BY <1>2, <3>2, SettledFits
    <2>2. ClientParts(s, T, K)
      BY <2>1, ClientIs DEF Follows
    <2>3. r = [turn |-> s.turn, live |-> Live!NoCard, stream |-> stream1,
               replayed |-> s.replayed \cup {it}, cells |-> s.cells, cut |-> s.cut]
      <3> DEFINE b == Live!CommitCard(Live!Cut(c, IF c.live.final THEN {} ELSE {c.live.item}), c.live)
      <3>1. r = [b EXCEPT !.live = Live!NoCard, !.replayed = @ \cup {it},
                          !.stream = IF @ = it THEN Live!NoItem ELSE @]
        BY <1>2 DEF Live!Flush
      <3>2. s = [b EXCEPT !.live = Live!NoCard]
        BY DEF Settled
      <3> HIDE DEF b, s, r, it
      <3>3. r = [s EXCEPT !.replayed = @ \cup {it},
                          !.stream = IF @ = it THEN Live!NoItem ELSE @]
        BY <3>1, <3>2
      <3> QED BY <2>1, <2>2, <3>3 DEF ClientParts
    <2> HIDE DEF s, r
    <2>4. r \in ClientOf(T, K)
      BY <2>1, <2>2, <2>3, NoCardIs DEF ClientParts, ClientOf
    <2> HIDE DEF it
    <2>5. Fits(s, fin, undone)
      BY <2>1 DEF Follows
    <2>6. LiveFits(r, fin) /\ MessageShown(r, fin) /\ CardShown(r, fin)
      BY <2>1, <2>3, <2>5 DEF Fits, LiveFits, MessageShown, CardShown
    <2>7. OpenFits(r, undone)
      BY <2>1, <2>3, <2>5 DEF Fits, OpenFits, Itemized
    <2>8. r.live.item = Live!NoItem
      BY <2>3, NoCardIs
    <2> QED BY <2>4, <2>6, <2>7, <2>8 DEF Follows, Fits, r
  <1> QED BY <1>1, <1>2

LEMMA TurnedFits ==
  ASSUME NEW T, NEW K, NEW fin, NEW undone, Itemized(T, K, fin, undone),
         NEW c, Follows(c, T, K, fin, undone), NEW i \in K
  PROVE  /\ Follows(Live!Turned(c, i), T, K, fin, undone)
         /\ Live!Turned(c, i).live.item \in {Live!NoItem, i}
  <1>1. i.turn \in T
    BY DEF Itemized
  <1>2. Follows(Live!Bind(c, i.turn), T, K, fin, undone)
    BY <1>1, BindFits
  <1> QED BY <1>2, FlushFits DEF Live!Turned

(* What is live may become a card that is not final. *)
LEMMA ShownFits ==
  ASSUME NEW T, NEW K, NEW fin, NEW undone, Itemized(T, K, fin, undone),
         NEW c, Follows(c, T, K, fin, undone), NEW i \in K, i \notin fin,
         c.live.item \in {Live!NoItem, i},
         NEW card \in CardOf(K), card.item \in {Live!NoItem, i}, card.final = FALSE
  PROVE  Follows([c EXCEPT !.live = card], T, K, fin, undone)
  <1> DEFINE r == [c EXCEPT !.live = card]
  <1>1. c \in ClientOf(T, K) /\ Fits(c, fin, undone)
    BY DEF Follows
  <1>2. /\ r \in ClientOf(T, K) /\ r.cells = c.cells /\ r.live = card
        /\ r.stream = c.stream /\ r.replayed = c.replayed /\ r.cut = c.cut
    BY <1>1 DEF ClientOf
  <1> HIDE DEF r
  <1>3. ~c.live.final
    BY <1>1 DEF Fits, LiveFits, Itemized
  <1>4. LiveFits(r, fin)
    BY <1>2 DEF LiveFits, Itemized
  <1>5. OpenFits(r, undone) /\ MessageShown(r, fin)
    BY <1>1, <1>2 DEF Fits, OpenFits, MessageShown
  <1>6. CardShown(r, fin)
    BY <1>1, <1>2, <1>3 DEF Fits, CardShown
  <1> QED BY <1>2, <1>4, <1>5, <1>6 DEF Follows, Fits, r

LEMMA CardIs ==
  ASSUME NEW K, NEW i \in K, NEW blank \in BOOLEAN, NEW final \in BOOLEAN
  PROVE  /\ Live!Card(i, blank, final) \in CardOf(K)
         /\ Live!Card(i, blank, final).item = i
         /\ Live!Card(i, blank, final).final = final
  BY DEF Live!Card, CardOf

LEMMA StartItemFits ==
  ASSUME NEW T, NEW K, NEW fin, NEW undone, Itemized(T, K, fin, undone),
         NEW c, Follows(c, T, K, fin, undone), NEW i \in K, i \notin fin
  PROVE  Follows(Live!StartItem(c, i), T, K, fin, undone)
  <1>1. /\ Follows(Live!Turned(c, i), T, K, fin, undone)
        /\ Live!Turned(c, i).live.item \in {Live!NoItem, i}
    BY TurnedFits
  <1>2. Follows([Live!Turned(c, i) EXCEPT !.live = Live!Card(i, TRUE, FALSE)], T, K, fin, undone)
    BY <1>1, CardIs, ShownFits
  <1> QED BY <1>1, <1>2 DEF Live!StartItem

LEMMA ReasoningDeltaFits ==
  ASSUME NEW T, NEW K, NEW fin, NEW undone, Itemized(T, K, fin, undone),
         NEW c, Follows(c, T, K, fin, undone), NEW i \in K, i \notin fin
  PROVE  Follows(Live!AppendReasoningDelta(c, i), T, K, fin, undone)
  <1>1. /\ Follows(Live!Turned(c, i), T, K, fin, undone)
        /\ Live!Turned(c, i).live.item \in {Live!NoItem, i}
    BY TurnedFits
  <1> QED BY <1>1, CardIs, ShownFits DEF Live!AppendReasoningDelta

LEMMA ToolDeltaFits ==
  ASSUME NEW T, NEW K, NEW fin, NEW undone, Itemized(T, K, fin, undone),
         NEW c, Follows(c, T, K, fin, undone), NEW i \in K, i \notin fin
  PROVE  Follows(Live!AppendToolDelta(c, i), T, K, fin, undone)
  <1> DEFINE t == Live!Turned(c, i)
             card == [t.live EXCEPT !.blank = FALSE]
  <1>1. Follows(t, T, K, fin, undone) /\ t.live.item \in {Live!NoItem, i}
    BY TurnedFits
  <1>2. t.live \in CardOf(K)
    <2>1. ClientParts(t, T, K)
      BY <1>1, ClientIs DEF Follows
    <2> QED BY <2>1 DEF ClientParts
  <1>3. /\ card \in CardOf(K) /\ card.item = t.live.item /\ card.final = t.live.final
    BY <1>2 DEF CardOf
  <1>4. t.live.final = FALSE
    BY <1>1, <1>2 DEF Follows, Fits, LiveFits, Itemized, CardOf
  <1>5. [t EXCEPT !.live.blank = FALSE] = [t EXCEPT !.live = card]
    OBVIOUS
  <1>6. Follows([t EXCEPT !.live = card], T, K, fin, undone)
    <2> HIDE DEF t, card
    <2> QED BY <1>1, <1>3, <1>4, ShownFits
  <1>7. Live!AppendToolDelta(c, i) \in {t, [t EXCEPT !.live.blank = FALSE]}
    BY DEF Live!AppendToolDelta
  <1> QED BY <1>1, <1>5, <1>6, <1>7

LEMMA AgentDeltaFits ==
  ASSUME NEW T, NEW K, NEW fin, NEW undone, Itemized(T, K, fin, undone),
         NEW c, Follows(c, T, K, fin, undone), NEW i \in undone,
         \A j \in undone : j.kind = "text" => j = i, NEW closed
  PROVE  Follows(Live!AppendAgentDelta(c, i, closed), T, K, fin, undone)
  <1> DEFINE t == Live!Turned(c, i)
             s == [t EXCEPT !.live = Live!NoCard]
             r == [t EXCEPT !.live = Live!NoCard, !.stream = i]
  <1>1. i \in K /\ i \notin fin
    BY DEF Itemized
  <1>2. Follows(t, T, K, fin, undone) /\ t.live.item \in {Live!NoItem, i}
    BY <1>1, TurnedFits
  <1>3. Follows(s, T, K, fin, undone)
    <2> HIDE DEF t
    <2> QED BY <1>1, <1>2, NoCardIs, ShownFits
  <1>4. /\ r \in ClientOf(T, K) /\ r.cells = s.cells /\ r.live = s.live
        /\ r.stream = i /\ r.replayed = s.replayed /\ r.cut = s.cut
    <2>1. t \in ClientOf(T, K)
      BY <1>2 DEF Follows
    <2> HIDE DEF t
    <2> QED BY <1>1, <2>1, NoCardIs DEF ClientOf
  <1> HIDE DEF t, s, r
  <1>5. Fits(r, fin, undone)
    BY <1>3, <1>4 DEF Follows, Fits, LiveFits, OpenFits, MessageShown, CardShown
  <1>6. Follows(r, T, K, fin, undone)
    BY <1>4, <1>5 DEF Follows
  <1>7. Follows(Live!Commit(r, Live!Cell(i, FALSE)), T, K, fin, undone)
    BY <1>1, <1>4, <1>6, ToldFits
  <1>8. Live!AppendAgentDelta(c, i, closed) \in {r, Live!Commit(r, Live!Cell(i, FALSE))}
    BY DEF Live!AppendAgentDelta, r, t
  <1> QED BY <1>6, <1>7, <1>8

(* An item is completed: from now on it is shown whole, live or once in a cell,
   unless it was cut.                                                        *)
Shows(r, i) ==
  IF r.live.final /\ r.live.item = i THEN Untold(r.cells, i) ELSE Live!Once(r.cells, i)
Completes(c, r, i) ==
  /\ r.cut = c.cut /\ r.replayed \subseteq c.replayed \cup {i}
  /\ c.replayed \subseteq r.replayed
  /\ r.stream = c.stream \/ c.stream = i
  /\ \A j : j # i => (Untold(c.cells, j) => Untold(r.cells, j))
                    /\ (Live!Once(c.cells, j) => Live!Once(r.cells, j))
                    /\ (HasPiece(r.cells, j) => HasPiece(c.cells, j))
  /\ \/ r.live = c.live /\ c.live.item # i
     \/ ~c.live.final /\ (r.live = Live!NoCard \/ r.live = Live!Card(i, FALSE, TRUE))
  /\ r.live.final /\ r.live.item = i => i.kind # "text" /\ Untold(r.cells, i)
  /\ i \in c.cut \/ (Shows(r, i) /\ (i.kind = "text" => ~HasPiece(r.cells, i)))

LEMMA CompletedFits ==
  ASSUME NEW T, NEW K, NEW fin, NEW undone, Itemized(T, K, fin, undone),
         NEW c, Follows(c, T, K, fin, undone), NEW i \in undone,
         NEW r \in ClientOf(T, K), Completes(c, r, i)
  PROVE  Follows(r, T, K, fin \cup {i}, undone \ {i})
  <1>1. c \in ClientOf(T, K) /\ Fits(c, fin, undone)
    BY DEF Follows
  <1>2. i \in K /\ i \notin fin /\ i # Live!NoItem
    BY DEF Itemized
  <1>3. /\ Live!Card(i, FALSE, TRUE).item = i /\ Live!Card(i, FALSE, TRUE).final = TRUE
        /\ Live!NoCard.item = Live!NoItem /\ Live!NoCard.final = FALSE
    BY <1>2, CardIs, NoCardIs
  <1>4. LiveFits(r, fin \cup {i})
    <2>1. CASE r.live = c.live /\ c.live.item # i
      BY <1>1, <2>1 DEF Completes, Fits, LiveFits
    <2>2. CASE r.live = Live!NoCard
      BY <1>2, <1>3, <2>2 DEF LiveFits, Itemized
    <2>3. CASE r.live = Live!Card(i, FALSE, TRUE)
      BY <1>3, <2>3 DEF Completes, LiveFits
    <2> QED BY <2>1, <2>2, <2>3 DEF Completes
  <1>5. OpenFits(r, undone \ {i})
    <2>1. ASSUME NEW j \in undone, j # i
          PROVE  /\ Untold(r.cells, j)
                 /\ j \in r.replayed => j \in r.cut
                 /\ j.kind = "text" /\ HasPiece(r.cells, j) =>
                      r.stream = j \/ j \in r.replayed \/ j \in r.cut
      BY <1>1, <2>1 DEF Fits, OpenFits, Completes
    <2> QED BY <2>1 DEF OpenFits
  <1>6. MessageShown(r, fin \cup {i})
    <2>1. ASSUME NEW j \in fin \ r.cut, j.kind = "text"
          PROVE  Live!Once(r.cells, j) /\ ~HasPiece(r.cells, j)
      BY <1>1, <1>2, <2>1 DEF Fits, MessageShown, Completes
    <2>2. ASSUME i \notin r.cut, i.kind = "text"
          PROVE  Live!Once(r.cells, i) /\ ~HasPiece(r.cells, i)
      BY <2>2 DEF Completes, Shows
    <2> QED BY <2>1, <2>2 DEF MessageShown
  <1>7. CardShown(r, fin \cup {i})
    <2>1. ASSUME NEW j \in fin \ r.cut, j.kind # "text"
          PROVE  IF r.live.final /\ r.live.item = j THEN Untold(r.cells, j)
                 ELSE Live!Once(r.cells, j)
      <3>1. j # i /\ j \in fin \ c.cut
        BY <1>2, <2>1 DEF Completes
      <3>2. IF c.live.final /\ c.live.item = j THEN Untold(c.cells, j)
            ELSE Live!Once(c.cells, j)
        BY <1>1, <2>1, <3>1 DEF Fits, CardShown
      <3>3. CASE r.live = c.live
        BY <3>1, <3>2, <3>3 DEF Completes
      <3>4. CASE /\ ~c.live.final
                 /\ r.live = Live!NoCard \/ r.live = Live!Card(i, FALSE, TRUE)
        BY <1>3, <3>1, <3>2, <3>4 DEF Completes
      <3> QED BY <3>3, <3>4 DEF Completes
    <2>2. i \notin r.cut => Shows(r, i)
      BY DEF Completes
    <2> QED BY <2>1, <2>2 DEF CardShown, Shows
  <1> QED BY <1>4, <1>5, <1>6, <1>7 DEF Follows, Fits

LEMMA CompleteAgentFits ==
  ASSUME NEW T, NEW K, NEW fin, NEW undone, Itemized(T, K, fin, undone),
         NEW c, Follows(c, T, K, fin, undone), NEW i \in undone, i.kind = "text"
  PROVE  Follows(Live!CompleteAgent(c, i), T, K, fin \cup {i}, undone \ {i})
  <1>1. c \in ClientOf(T, K) /\ Fits(c, fin, undone) /\ i \in K /\ i \notin fin /\ i # Live!NoItem
    BY DEF Follows, Itemized
  <1>0. ClientParts(c, T, K)
    BY <1>1, ClientIs
  <1> DEFINE done == [c EXCEPT !.stream = IF @ = i THEN Live!NoItem ELSE @,
                               !.live = IF @.item = i THEN Live!NoCard ELSE @,
                               !.replayed = @ \cup {i}]
             r == Live!CompleteAgent(c, i)
             known == c.stream = i \/ i \in c.replayed
  <1>2. done = [turn |-> c.turn, live |-> IF c.live.item = i THEN Live!NoCard ELSE c.live,
                stream |-> IF c.stream = i THEN Live!NoItem ELSE c.stream,
                replayed |-> c.replayed \cup {i}, cells |-> c.cells, cut |-> c.cut]
    <2> DEFINE d1 == [c EXCEPT !.stream = IF @ = i THEN Live!NoItem ELSE @]
               d2 == [d1 EXCEPT !.live = IF @.item = i THEN Live!NoCard ELSE @]
    <2>1. d1 = [turn |-> c.turn, live |-> c.live,
                stream |-> IF c.stream = i THEN Live!NoItem ELSE c.stream,
                replayed |-> c.replayed, cells |-> c.cells, cut |-> c.cut]
      BY <1>0 DEF ClientParts
    <2>2. done = [d2 EXCEPT !.replayed = @ \cup {i}]
      OBVIOUS
    <2> HIDE DEF d1, done
    <2> QED BY <2>1, <2>2
  <1>3. done \in ClientOf(T, K) /\ done.cells = c.cells
    <2> HIDE DEF done
    <2> QED BY <1>0, <1>1, <1>2, NoCardIs DEF ClientParts, ClientOf
  <1>4. r = IF known THEN Live!Consolidate(done, i) ELSE Live!Commit(done, Live!Cell(i, TRUE))
    BY DEF Live!CompleteAgent
  <1> HIDE DEF done, r, known
  <1>5. PICK e \in Seq(CellOf(K)) :
          /\ r = [done EXCEPT !.cells = e] /\ Told(c.cells, e, i, TRUE)
          /\ known => ~HasPiece(e, i)
    <2>1. \E e \in Seq(CellOf(K)) : /\ Live!Consolidate(done, i) = [done EXCEPT !.cells = e]
                                     /\ Told(c.cells, e, i, TRUE) /\ ~HasPiece(e, i)
      BY <1>1, <1>3, ConsolidateTells
    <2>2. \E e \in Seq(CellOf(K)) :
             /\ Live!Commit(done, Live!Cell(i, TRUE)) = [done EXCEPT !.cells = e]
             /\ Told(c.cells, e, i, TRUE)
      BY <1>1, <1>3, CommitTells
    <2>3. CASE known
      BY <1>4, <2>1, <2>3
    <2>4. CASE ~known
      BY <1>4, <2>2, <2>4
    <2> QED BY <2>3, <2>4
  <1>6. r = [turn |-> c.turn, live |-> IF c.live.item = i THEN Live!NoCard ELSE c.live,
             stream |-> IF c.stream = i THEN Live!NoItem ELSE c.stream,
             replayed |-> c.replayed \cup {i}, cells |-> e, cut |-> c.cut]
    BY <1>2, <1>5
  <1>7. r \in ClientOf(T, K)
    BY <1>0, <1>1, <1>6, NoCardIs DEF ClientParts, ClientOf
  <1>8. ~known /\ i \notin c.cut => ~HasPiece(e, i)
    BY <1>1, <1>5 DEF known, Fits, OpenFits, Told
  <1>9. Untold(c.cells, i)
    BY <1>1 DEF Fits, OpenFits
  <1>10. Live!Once(e, i)
    BY <1>5, <1>9 DEF Told
  <1>11. c.live.item = i => ~c.live.final
    BY <1>1 DEF Fits, LiveFits
  <1>12. ~(r.live.final /\ r.live.item = i)
    BY <1>1, <1>6, NoCardIs
  <1>13. i \in c.cut \/ (Shows(r, i) /\ ~HasPiece(r.cells, i))
    BY <1>5, <1>6, <1>8, <1>10, <1>12 DEF Shows
  <1>14. /\ \/ r.live = c.live /\ c.live.item # i
            \/ ~c.live.final /\ r.live = Live!NoCard
         /\ r.stream = c.stream \/ c.stream = i
         /\ r.cells = e /\ r.cut = c.cut /\ r.replayed = c.replayed \cup {i}
    BY <1>6, <1>11
  <1>15. Completes(c, r, i)
    BY <1>5, <1>12, <1>13, <1>14 DEF Completes, Told
  <1> QED BY <1>7, <1>15, CompletedFits DEF r

LEMMA CompleteOtherFits ==
  ASSUME NEW T, NEW K, NEW fin, NEW undone, Itemized(T, K, fin, undone),
         NEW c, Follows(c, T, K, fin, undone), NEW i \in undone, i.kind # "text"
  PROVE  Follows(Live!CompleteOther(c, i), T, K, fin \cup {i}, undone \ {i})
  <1>1. c \in ClientOf(T, K) /\ Fits(c, fin, undone) /\ i \in K /\ i \notin fin /\ i # Live!NoItem
    BY DEF Follows, Itemized
  <1>0. ClientParts(c, T, K)
    BY <1>1, ClientIs
  <1> DEFINE r == Live!CompleteOther(c, i)
             mine == c.live.item = i \/ Live!Replaces(c.live, i)
             kept == i.kind \in Live!Tools \cup {"patch"}
  <1>2. Untold(c.cells, i) /\ (i \in c.replayed => i \in c.cut)
    BY <1>1 DEF Fits, OpenFits
  <1>3. mine => ~c.live.final
    BY <1>1 DEF Fits, LiveFits, Live!Replaces, Live!Discardable
  <1>4. PICK e \in Seq(CellOf(K)) :
          /\ Live!Commit(c, Live!Cell(i, TRUE)) = [c EXCEPT !.cells = e]
          /\ Told(c.cells, e, i, TRUE)
    BY <1>1, CommitTells
  <1>5. Live!Once(e, i)
    BY <1>2, <1>4 DEF Told
  <1>6. /\ Live!Card(i, FALSE, TRUE) \in CardOf(K) /\ Live!Card(i, FALSE, TRUE).item = i
        /\ Live!Card(i, FALSE, TRUE).final = TRUE
    BY <1>1, CardIs
  <1>7. CASE mine /\ kept
    <2>1. r = [turn |-> c.turn, live |-> Live!Card(i, FALSE, TRUE), stream |-> c.stream,
               replayed |-> c.replayed, cells |-> c.cells, cut |-> c.cut]
      <3>1. r = [c EXCEPT !.live = Live!Card(i, FALSE, TRUE)]
        BY <1>7 DEF Live!CompleteOther
      <3> HIDE DEF r
      <3> QED BY <1>0, <3>1 DEF ClientParts
    <2> HIDE DEF r, mine
    <2>2. r \in ClientOf(T, K)
      BY <1>0, <1>6, <2>1 DEF ClientParts, ClientOf
    <2>3. Completes(c, r, i)
      BY <1>2, <1>3, <1>6, <1>7, <2>1 DEF Completes, Shows
    <2> QED BY <2>2, <2>3, CompletedFits DEF r
  <1>8. CASE mine /\ ~kept
    <2>1. r = [turn |-> c.turn, live |-> Live!NoCard, stream |-> c.stream,
               replayed |-> c.replayed, cells |-> e, cut |-> c.cut]
      <3>1. r = [Live!Commit(c, Live!Cell(i, TRUE)) EXCEPT !.live = Live!NoCard]
        BY <1>8 DEF Live!CompleteOther
      <3> HIDE DEF r
      <3> QED BY <1>0, <1>4, <3>1 DEF ClientParts
    <2> HIDE DEF r, mine
    <2>2. r \in ClientOf(T, K)
      BY <1>0, <1>4, <2>1, NoCardIs DEF ClientParts, ClientOf
    <2>3. Completes(c, r, i)
      BY <1>3, <1>4, <1>5, <1>8, <2>1, NoCardIs DEF Completes, Shows, Told
    <2> QED BY <2>2, <2>3, CompletedFits DEF r
  <1>9. CASE ~mine /\ i \in c.replayed
    <2>1. r = c
      BY <1>9 DEF Live!CompleteOther
    <2>2. Completes(c, c, i)
      BY <1>2, <1>9 DEF Completes
    <2> QED BY <1>1, <2>1, <2>2, CompletedFits
  <1>10. CASE ~mine /\ i \notin c.replayed
    <2>1. r = [turn |-> c.turn, live |-> c.live, stream |-> c.stream,
               replayed |-> c.replayed \cup {i}, cells |-> e, cut |-> c.cut]
      <3>1. r = [Live!Commit(c, Live!Cell(i, TRUE)) EXCEPT !.replayed = @ \cup {i}]
        BY <1>10 DEF Live!CompleteOther
      <3> HIDE DEF r
      <3> QED BY <1>0, <1>4, <3>1 DEF ClientParts
    <2> HIDE DEF r
    <2>2. r \in ClientOf(T, K)
      BY <1>0, <1>1, <1>4, <2>1 DEF ClientParts, ClientOf
    <2>3. c.live.item # i
      BY <1>10
    <2> HIDE DEF mine
    <2>4. Completes(c, r, i)
      BY <1>4, <1>5, <2>1, <2>3 DEF Completes, Shows, Told
    <2> QED BY <2>2, <2>4, CompletedFits DEF r
  <1> QED BY <1>7, <1>8, <1>9, <1>10

LEMMA CompleteItemFits ==
  ASSUME NEW T, NEW K, NEW fin, NEW undone, Itemized(T, K, fin, undone),
         NEW c, Follows(c, T, K, fin, undone), NEW i \in undone
  PROVE  Follows(Live!CompleteItem(c, i), T, K, fin \cup {i}, undone \ {i})
  <1>1. i.turn \in T
    BY DEF Itemized
  <1>2. Follows(Live!Bind(c, i.turn), T, K, fin, undone)
    BY <1>1, BindFits
  <1> QED BY <1>2, CompleteAgentFits, CompleteOtherFits DEF Live!CompleteItem

LEMMA NoticeFits ==
  ASSUME NEW T, NEW K, NEW fin, NEW undone, Itemized(T, K, fin, undone),
         NEW c, Follows(c, T, K, fin, undone)
  PROVE  Follows(Live!Commit(Live!Forget(c), Live!Notice), T, K, fin, undone)
  <1>1. Follows(Live!Forget(c), T, K, fin, undone)
    BY ForgetFits
  <1>2. Live!NoItem \notin fin /\ Live!NoItem \notin undone
    BY DEF Itemized
  <1> QED BY <1>1, <1>2, ToldFits DEF Live!Notice

LEMMA CompleteTurnFits ==
  ASSUME NEW T, NEW K, NEW fin, NEW undone, Itemized(T, K, fin, undone),
         NEW c, Follows(c, T, K, fin, undone)
  PROVE  Follows(Live!CompleteTurn(c), T, K, fin, undone)
  <1>1. Follows(Settled(c), T, K, fin, undone)
    BY SettledFits
  <1>2. Live!CompleteTurn(c) = Live!Forget(Settled(c))
    BY DEF Live!CompleteTurn, Settled
  <1> QED BY <1>1, <1>2, ForgetFits

(***************************************************************************)
(* The items the server sends                                              *)
(***************************************************************************)

KnownOf(cur, cnt) == [turn : 1..cur, n : 1..cnt, kind : Live!Kinds]
OpenOf(str, ann) == str \cup {ann[k] : k \in DOMAIN ann}

(* What is streamed and what is announced are different items, none of them
   completed.                                                                *)
Serves(cur, cnt, str, ann, fin) ==
  /\ cur \in Nat /\ cnt \in Nat /\ str \subseteq KnownOf(cur, cnt)
  /\ ann \in Seq(KnownOf(cur, cnt)) /\ fin \subseteq KnownOf(cur, cnt)
  /\ \A i \in str : i.kind \in {"text", "reasoning"}
  /\ \A i, j \in str : i.kind = j.kind => i = j
  /\ \A k \in DOMAIN ann : ann[k].kind \in Live!CallKinds
  /\ \A k, l \in DOMAIN ann : ann[k] = ann[l] => k = l
  /\ OpenOf(str, ann) \cap fin = {}

ServesWith(cur, cnt, str, ann, fin, open1) ==
  Serves(cur, cnt, str, ann, fin) /\ OpenOf(str, ann) = open1

LEMMA KnownIs ==
  ASSUME NEW cur \in Nat, NEW cnt \in Nat, NEW i \in KnownOf(cur, cnt)
  PROVE  /\ i.turn \in 1..cur /\ i.n \in 1..cnt /\ i.kind \in Live!Kinds
         /\ i = [turn |-> i.turn, n |-> i.n, kind |-> i.kind]
  BY DEF KnownOf

LEMMA KnownGrows ==
  ASSUME NEW cur \in Nat, NEW cnt \in Nat, NEW cur2 \in Nat, NEW cnt2 \in Nat,
         cur <= cur2, cnt <= cnt2
  PROVE  /\ KnownOf(cur, cnt) \subseteq KnownOf(cur2, cnt2)
         /\ 0..cur \subseteq 0..cur2
         /\ Seq(KnownOf(cur, cnt)) \subseteq Seq(KnownOf(cur2, cnt2))
  <1>1. 1..cur \subseteq 1..cur2 /\ 1..cnt \subseteq 1..cnt2 /\ 0..cur \subseteq 0..cur2
    OBVIOUS
  <1>2. KnownOf(cur, cnt) \subseteq KnownOf(cur2, cnt2)
    BY <1>1 DEF KnownOf
  <1> QED BY <1>1, <1>2

LEMMA ServesItems ==
  ASSUME NEW cur, NEW cnt, NEW str, NEW ann, NEW fin, Serves(cur, cnt, str, ann, fin)
  PROVE  Itemized(0..cur, KnownOf(cur, cnt), fin, OpenOf(str, ann))
  <1>1. cur \in Nat /\ cnt \in Nat /\ fin \subseteq KnownOf(cur, cnt)
        /\ OpenOf(str, ann) \cap fin = {}
    BY DEF Serves
  <1>2. OpenOf(str, ann) \subseteq KnownOf(cur, cnt)
    BY DEF Serves, OpenOf
  <1>3. \A i \in KnownOf(cur, cnt) : i.turn \in 0..cur /\ i # Live!NoItem
    <2>1. Live!NoItem.turn = 0
      BY DEF Live!NoItem
    <2> QED BY <1>1, <2>1, KnownIs
  <1> QED BY <1>1, <1>2, <1>3 DEF Itemized

LEMMA ServesTurn ==
  ASSUME NEW cur, NEW cnt, NEW str, NEW ann, NEW fin, Serves(cur, cnt, str, ann, fin)
  PROVE  Serves(cur + 1, cnt, str, ann, fin)
  <1>1. /\ KnownOf(cur, cnt) \subseteq KnownOf(cur + 1, cnt)
        /\ Seq(KnownOf(cur, cnt)) \subseteq Seq(KnownOf(cur + 1, cnt))
    BY KnownGrows DEF Serves
  <1> QED BY <1>1 DEF Serves

(* The item that comes next. *)
FreshOf(cur, cnt, kind) == [turn |-> cur, n |-> cnt + 1, kind |-> kind]

LEMMA FreshIs ==
  ASSUME NEW cur \in Nat \ {0}, NEW cnt \in Nat, NEW kind \in Live!Kinds
  PROVE  /\ FreshOf(cur, cnt, kind) \notin KnownOf(cur, cnt)
         /\ FreshOf(cur, cnt, kind) \in KnownOf(cur, cnt + 1)
         /\ FreshOf(cur, cnt, kind) # Live!NoItem
         /\ FreshOf(cur, cnt, kind).kind = kind
  <1>1. FreshOf(cur, cnt, kind).n = cnt + 1 /\ FreshOf(cur, cnt, kind).turn = cur
        /\ FreshOf(cur, cnt, kind).kind = kind
    BY DEF FreshOf
  <1>2. FreshOf(cur, cnt, kind) \notin KnownOf(cur, cnt)
    BY <1>1, KnownIs
  <1>3. FreshOf(cur, cnt, kind) \in KnownOf(cur, cnt + 1)
    BY DEF FreshOf, KnownOf
  <1>4. Live!NoItem.turn = 0
    BY DEF Live!NoItem
  <1> QED BY <1>1, <1>2, <1>3, <1>4

LEMMA ServesStream ==
  ASSUME NEW cur, NEW cnt, NEW str, NEW ann, NEW fin, Serves(cur, cnt, str, ann, fin),
         cur # 0, NEW kind \in {"text", "reasoning"}, \A i \in str : i.kind # kind
  PROVE  ServesWith(cur, cnt + 1, str \cup {FreshOf(cur, cnt, kind)}, ann, fin,
                    OpenOf(str, ann) \cup {FreshOf(cur, cnt, kind)})
  <1> DEFINE i == FreshOf(cur, cnt, kind)
  <1>1. cur \in Nat \ {0} /\ cnt \in Nat /\ kind \in Live!Kinds
    BY DEF Serves, Live!Kinds
  <1>2. i \notin KnownOf(cur, cnt) /\ i \in KnownOf(cur, cnt + 1) /\ i.kind = kind
    BY <1>1, FreshIs
  <1>3. /\ KnownOf(cur, cnt) \subseteq KnownOf(cur, cnt + 1)
        /\ Seq(KnownOf(cur, cnt)) \subseteq Seq(KnownOf(cur, cnt + 1))
    BY <1>1, KnownGrows
  <1> HIDE DEF i
  <1>4. OpenOf(str \cup {i}, ann) = OpenOf(str, ann) \cup {i}
    BY DEF OpenOf
  <1>5. OpenOf(str \cup {i}, ann) \cap fin = {}
    <2>1. fin \subseteq KnownOf(cur, cnt) /\ OpenOf(str, ann) \cap fin = {}
      BY DEF Serves
    <2> QED BY <1>2, <1>4, <2>1
  <1>6. /\ \A a \in str \cup {i} : a.kind \in {"text", "reasoning"}
        /\ \A a, b \in str \cup {i} : a.kind = b.kind => a = b
    BY <1>2 DEF Serves
  <1>7. /\ str \cup {i} \subseteq KnownOf(cur, cnt + 1) /\ fin \subseteq KnownOf(cur, cnt + 1)
        /\ ann \in Seq(KnownOf(cur, cnt + 1)) /\ cnt + 1 \in Nat
    BY <1>1, <1>2, <1>3 DEF Serves
  <1>8. Serves(cur, cnt + 1, str \cup {i}, ann, fin)
    BY <1>5, <1>6, <1>7 DEF Serves
  <1> QED BY <1>4, <1>8 DEF i, ServesWith

LEMMA ServesCall ==
  ASSUME NEW cur, NEW cnt, NEW str, NEW ann, NEW fin, Serves(cur, cnt, str, ann, fin),
         cur # 0, NEW kind \in Live!CallKinds
  PROVE  /\ Serves(cur, cnt + 1, str, Append(ann, FreshOf(cur, cnt, kind)), fin)
         /\ OpenOf(str, Append(ann, FreshOf(cur, cnt, kind)))
              = OpenOf(str, ann) \cup {FreshOf(cur, cnt, kind)}
  <1> DEFINE i == FreshOf(cur, cnt, kind)
  <1>1. cur \in Nat \ {0} /\ cnt \in Nat /\ kind \in Live!Kinds
    BY DEF Serves, Live!Kinds
  <1>2. i \notin KnownOf(cur, cnt) /\ i \in KnownOf(cur, cnt + 1) /\ i.kind = kind
    BY <1>1, FreshIs
  <1>3. /\ KnownOf(cur, cnt) \subseteq KnownOf(cur, cnt + 1)
        /\ Seq(KnownOf(cur, cnt)) \subseteq Seq(KnownOf(cur, cnt + 1))
    BY <1>1, KnownGrows
  <1> HIDE DEF i
  <1>4. /\ ann \in Seq(KnownOf(cur, cnt)) /\ ann \in Seq(KnownOf(cur, cnt + 1))
        /\ fin \subseteq KnownOf(cur, cnt)
    BY <1>3 DEF Serves
  <1>5. /\ Append(ann, i) \in Seq(KnownOf(cur, cnt + 1))
        /\ DOMAIN Append(ann, i) = DOMAIN ann \cup {Len(ann) + 1}
        /\ Append(ann, i)[Len(ann) + 1] = i
        /\ \A k \in DOMAIN ann : Append(ann, i)[k] = ann[k] /\ ann[k] \in KnownOf(cur, cnt)
    BY <1>2, <1>4
  <1>6. OpenOf(str, Append(ann, i)) = OpenOf(str, ann) \cup {i}
    BY <1>5 DEF OpenOf
  <1>7. OpenOf(str, Append(ann, i)) \cap fin = {}
    BY <1>2, <1>4, <1>6 DEF Serves
  <1>8. /\ \A k \in DOMAIN Append(ann, i) : Append(ann, i)[k].kind \in Live!CallKinds
        /\ \A k, l \in DOMAIN Append(ann, i) : Append(ann, i)[k] = Append(ann, i)[l] => k = l
    BY <1>2, <1>5 DEF Serves
  <1>9. Serves(cur, cnt + 1, str, Append(ann, i), fin)
    BY <1>1, <1>3, <1>5, <1>7, <1>8 DEF Serves
  <1> QED BY <1>6, <1>9 DEF i

LEMMA ServesDone ==
  ASSUME NEW cur, NEW cnt, NEW str, NEW ann, NEW fin, Serves(cur, cnt, str, ann, fin),
         NEW i \in str
  PROVE  ServesWith(cur, cnt, str \ {i}, ann, fin \cup {i}, OpenOf(str, ann) \ {i})
  <1>1. \A k \in DOMAIN ann : ann[k] # i
    BY DEF Serves, Live!CallKinds, Live!Tools
  <1>2. OpenOf(str \ {i}, ann) = OpenOf(str, ann) \ {i}
    BY <1>1 DEF OpenOf
  <1>3. OpenOf(str, ann) \cap fin = {}
    BY DEF Serves
  <1>4. OpenOf(str \ {i}, ann) \cap (fin \cup {i}) = {}
    BY <1>2, <1>3
  <1>5. Serves(cur, cnt, str \ {i}, ann, fin \cup {i})
    BY <1>4 DEF Serves
  <1> QED BY <1>2, <1>5 DEF ServesWith

(* One call less: the others keep their order. *)
Less(ann, rest, i) ==
  /\ \E k \in DOMAIN ann : ann[k] = i
  /\ \E at \in [DOMAIN rest -> DOMAIN ann] :
       /\ \A k \in DOMAIN rest : rest[k] = ann[at[k]] /\ ann[at[k]] # i
       /\ \A k, l \in DOMAIN rest : at[k] = at[l] => k = l
       /\ \A k \in DOMAIN ann : ann[k] # i => \E l \in DOMAIN rest : at[l] = k

LEMMA ServesLess ==
  ASSUME NEW cur, NEW cnt, NEW str, NEW ann, NEW fin, Serves(cur, cnt, str, ann, fin),
         NEW rest \in Seq(KnownOf(cur, cnt)), NEW i, Less(ann, rest, i)
  PROVE  ServesWith(cur, cnt, str, rest, fin \cup {i}, OpenOf(str, ann) \ {i})
  <1>1. PICK at \in [DOMAIN rest -> DOMAIN ann] :
          /\ \A k \in DOMAIN rest : rest[k] = ann[at[k]] /\ ann[at[k]] # i
          /\ \A k, l \in DOMAIN rest : at[k] = at[l] => k = l
          /\ \A k \in DOMAIN ann : ann[k] # i => \E l \in DOMAIN rest : at[l] = k
    BY DEF Less
  <1>2. PICK m \in DOMAIN ann : ann[m] = i
    BY DEF Less
  <1>3. i \in KnownOf(cur, cnt) /\ i.kind \in Live!CallKinds
    BY <1>2 DEF Serves
  <1>4. i \notin str
    BY <1>3 DEF Serves, Live!CallKinds, Live!Tools
  <1>5. {rest[k] : k \in DOMAIN rest} = {ann[k] : k \in DOMAIN ann} \ {i}
    BY <1>1
  <1>6. OpenOf(str, rest) = OpenOf(str, ann) \ {i}
    BY <1>4, <1>5 DEF OpenOf
  <1>8. OpenOf(str, ann) \cap fin = {}
    BY DEF Serves
  <1>9. OpenOf(str, rest) \cap (fin \cup {i}) = {}
    BY <1>6, <1>8
  <1>10. \A k \in DOMAIN rest : rest[k].kind \in Live!CallKinds
    BY <1>1 DEF Serves
  <1>11. \A k, l \in DOMAIN rest : rest[k] = rest[l] => k = l
    BY <1>1 DEF Serves
  <1>12. Serves(cur, cnt, str, rest, fin \cup {i})
    BY <1>3, <1>9, <1>10, <1>11 DEF Serves
  <1> QED BY <1>6, <1>12 DEF ServesWith

LEMMA FirstDone ==
  ASSUME NEW cur, NEW cnt, NEW str, NEW ann, NEW fin, Serves(cur, cnt, str, ann, fin),
         ann # <<>>
  PROVE  Tail(ann) \in Seq(KnownOf(cur, cnt)) /\ Less(ann, Tail(ann), Head(ann))
  <1> DEFINE rest == Tail(ann)
             at == [k \in DOMAIN rest |-> k + 1]
  <1>1. ann \in Seq(KnownOf(cur, cnt)) /\ \A k, l \in DOMAIN ann : ann[k] = ann[l] => k = l
    BY DEF Serves
  <1>2. /\ rest \in Seq(KnownOf(cur, cnt)) /\ DOMAIN ann = 1..Len(ann) /\ Len(ann) \in Nat \ {0}
        /\ DOMAIN rest = 1..(Len(ann) - 1) /\ \A k \in DOMAIN rest : rest[k] = ann[k + 1]
        /\ Head(ann) = ann[1]
    BY <1>1
  <1> HIDE DEF rest
  <1>3. at \in [DOMAIN rest -> DOMAIN ann] /\ \A k \in DOMAIN rest : at[k] = k + 1
    BY <1>2
  <1>4. \A k \in DOMAIN ann : k = 1 \/ (k - 1 \in DOMAIN rest /\ at[k - 1] = k)
    BY <1>2
  <1> HIDE DEF at
  <1>5. \A k \in DOMAIN rest : rest[k] = ann[at[k]] /\ ann[at[k]] # ann[1]
    BY <1>1, <1>2, <1>3
  <1>6. \A k, l \in DOMAIN rest : at[k] = at[l] => k = l
    BY <1>2, <1>3
  <1>7. \A k \in DOMAIN ann : ann[k] # ann[1] => \E l \in DOMAIN rest : at[l] = k
    BY <1>4
  <1>8. Less(ann, rest, ann[1])
    BY <1>2, <1>3, <1>5, <1>6, <1>7, SMTT(30) DEF Less
  <1> QED BY <1>2, <1>8 DEF rest

LEMMA LastDone ==
  ASSUME NEW cur, NEW cnt, NEW str, NEW ann, NEW fin, Serves(cur, cnt, str, ann, fin),
         ann # <<>>
  PROVE  Live!Front(ann) \in Seq(KnownOf(cur, cnt)) /\ Less(ann, Live!Front(ann), Live!Last(ann))
  <1> DEFINE rest == Live!Front(ann)
             at == [k \in DOMAIN rest |-> k]
             n == Len(ann)
  <1>1. ann \in Seq(KnownOf(cur, cnt)) /\ \A k, l \in DOMAIN ann : ann[k] = ann[l] => k = l
    BY DEF Serves
  <1>2. /\ rest \in Seq(KnownOf(cur, cnt)) /\ DOMAIN ann = 1..n /\ n \in Nat \ {0}
        /\ DOMAIN rest = 1..(n - 1) /\ \A k \in DOMAIN rest : rest[k] = ann[k]
        /\ Live!Last(ann) = ann[n]
    BY <1>1 DEF Live!Front, Live!Last
  <1> HIDE DEF rest, n
  <1>3. at \in [DOMAIN rest -> DOMAIN ann] /\ \A k \in DOMAIN rest : at[k] = k
    BY <1>2
  <1>4. \A k \in DOMAIN ann : k = n \/ (k \in DOMAIN rest /\ at[k] = k)
    BY <1>2
  <1> HIDE DEF at
  <1>5. \A k \in DOMAIN rest : rest[k] = ann[at[k]] /\ ann[at[k]] # ann[n]
    BY <1>1, <1>2, <1>3
  <1>6. \A k, l \in DOMAIN rest : at[k] = at[l] => k = l
    BY <1>2, <1>3
  <1>7. \A k \in DOMAIN ann : ann[k] # ann[n] => \E l \in DOMAIN rest : at[l] = k
    BY <1>4
  <1>8. Less(ann, rest, ann[n])
    BY <1>2, <1>3, <1>5, <1>6, <1>7 DEF Less
  <1> QED BY <1>2, <1>8 DEF rest

LEMMA ServesOver ==
  ASSUME NEW cur, NEW cnt, NEW str, NEW ann, NEW fin, Serves(cur, cnt, str, ann, fin)
  PROVE  Serves(cur, cnt, {}, <<>>, fin) /\ OpenOf({}, <<>>) = {}
  <1>1. DOMAIN <<>> = {} /\ <<>> \in Seq(KnownOf(cur, cnt))
    OBVIOUS
  <1>2. OpenOf({}, <<>>) = {}
    BY <1>1 DEF OpenOf
  <1> QED BY <1>1, <1>2 DEF Serves

(* What the client holds is there also when there are more turns and items;
   an item that is new is nowhere yet.                                       *)
LEMMA GrowFits ==
  ASSUME NEW T, NEW K, NEW fin, NEW undone, NEW c, Follows(c, T, K, fin, undone),
         NEW T2, NEW K2, T \subseteq T2, K \subseteq K2
  PROVE  Follows(c, T2, K2, fin, undone)
  <1>1. ClientParts(c, T, K)
    BY ClientIs DEF Follows
  <1>2. CellOf(K) \subseteq CellOf(K2) /\ CardOf(K) \subseteq CardOf(K2)
    <2>1. Seq(K \cup {Live!NoItem}) \subseteq Seq(K2 \cup {Live!NoItem})
      OBVIOUS
    <2> QED BY <2>1 DEF CellOf, CardOf
  <1>3. Seq(CellOf(K)) \subseteq Seq(CellOf(K2))
    BY <1>2
  <1>4. c \in ClientOf(T2, K2)
    BY <1>1, <1>2, <1>3 DEF ClientParts, ClientOf
  <1> QED BY <1>4 DEF Follows

LEMMA FreshFits ==
  ASSUME NEW T, NEW K, NEW fin, NEW undone, NEW c, Follows(c, T, K, fin, undone),
         NEW K2, K \subseteq K2, NEW i \in K2, i \notin K, i # Live!NoItem
  PROVE  Follows(c, T, K2, fin, undone \cup {i})
  <1>1. ClientParts(c, T, K) /\ Fits(c, fin, undone)
    BY ClientIs DEF Follows
  <1>2. Follows(c, T, K2, fin, undone)
    BY GrowFits
  <1>3. \A k \in DOMAIN c.cells :
          /\ c.cells[k].item # i /\ \A n \in DOMAIN c.cells[k].body : c.cells[k].body[n] # i
    <2>1. SUFFICES ASSUME NEW k \in DOMAIN c.cells
                   PROVE  /\ c.cells[k].item # i
                          /\ \A n \in DOMAIN c.cells[k].body : c.cells[k].body[n] # i
      OBVIOUS
    <2>2. c.cells[k] \in CellOf(K)
      BY <1>1 DEF ClientParts
    <2>3. c.cells[k].item \in K \cup {Live!NoItem} /\ c.cells[k].body \in Seq(K \cup {Live!NoItem})
      BY <2>2 DEF CellOf
    <2> QED BY <2>3
  <1>4. Untold(c.cells, i)
    BY <1>3, UntoldMeans DEF Tells
  <1>5. ~HasPiece(c.cells, i)
    BY <1>3 DEF HasPiece, Live!Piece
  <1>6. i \notin c.replayed
    BY <1>1 DEF ClientParts
  <1>7. OpenFits(c, undone \cup {i})
    BY <1>1, <1>4, <1>5, <1>6 DEF Fits, OpenFits
  <1> QED BY <1>2, <1>7 DEF Follows, Fits

(***************************************************************************)
(* The invariant                                                           *)
(***************************************************************************)

Items == KnownOf(current, count)
Upcoming == OpenOf(streaming, announced)

LiveServer ==
  /\ pc \in {"idle", "reply", "replied", "calls", "denied", "work"}
  /\ current \in 0..MaxTurns /\ (pc # "idle" => current # 0)
  /\ pc \in {"denied", "work"} => announced # <<>>
  /\ Serves(current, count, streaming, announced, finished)
LiveInv == LiveServer /\ Follows(client, 0..current, Items, finished, Upcoming)

LEMMA LiveItems ==
  ASSUME LiveInv
  PROVE  /\ Itemized(0..current, Items, finished, Upcoming)
         /\ Follows(client, 0..current, Items, finished, Upcoming)
         /\ Serves(current, count, streaming, announced, finished)
         /\ Upcoming \subseteq Items /\ Upcoming \cap finished = {}
         /\ streaming \subseteq Upcoming
         /\ \A k \in DOMAIN announced : announced[k] \in Upcoming
  <1>1. Serves(current, count, streaming, announced, finished)
    BY DEF LiveInv, LiveServer
  <1>2. Itemized(0..current, Items, finished, Upcoming)
    BY <1>1, ServesItems DEF Items, Upcoming
  <1> QED BY <1>1, <1>2 DEF LiveInv, Itemized, Upcoming, OpenOf

LEMMA LiveInit == Live!Init => LiveInv
  <1> SUFFICES ASSUME Live!Init PROVE LiveInv
    OBVIOUS
  <1>1. DOMAIN <<>> = {} /\ <<>> \in Seq(Items) /\ <<>> \in Seq(CellOf(Items))
    OBVIOUS
  <1>2. current = 0 /\ count = 0 /\ streaming = {} /\ announced = <<>> /\ finished = {}
        /\ pc = "idle"
    BY DEF Live!Init
  <1>3. OpenOf({}, <<>>) = {}
    BY <1>1 DEF OpenOf
  <1>4. Serves(current, count, streaming, announced, finished)
    BY <1>1, <1>2, <1>3 DEF Serves, Items
  <1>5. LiveServer
    BY <1>2, <1>4, PartsAssumption DEF LiveServer
  <1>6. /\ client = [turn |-> 0, live |-> Live!NoCard, stream |-> Live!NoItem, replayed |-> {},
                     cells |-> <<>>, cut |-> {}]
    BY DEF Live!Init
  <1>7. client \in ClientOf(0..current, Items)
    <2>1. /\ client.live = Live!NoCard /\ client.cells = <<>> /\ client.turn = 0
      BY <1>6
    <2>2. Live!NoCard \in CardOf(Items)
      BY NoCardIs
    <2>3. 0 \in 0..current
      BY <1>2
    <2> QED BY <1>1, <1>6, <2>1, <2>2, <2>3 DEF ClientOf
  <1>8. Fits(client, finished, Upcoming)
    BY <1>2, <1>3, <1>6, NoCardIs DEF Fits, LiveFits, OpenFits, MessageShown, CardShown, Upcoming
  <1> QED BY <1>5, <1>7, <1>8 DEF LiveInv, Follows

(* What the client does on an item of this turn or another, while the server
   keeps what is to come.                                                    *)
LEMMA LiveClientSteps ==
  ASSUME LiveInv,
         UNCHANGED <<current, count, streaming, announced, finished>>,
         \/ client' = Live!StartLocalUser(client)
         \/ \E i \in Upcoming, closed \in BOOLEAN :
              /\ i.kind = "text" /\ i \in streaming
              /\ client' = Live!AppendAgentDelta(client, i, closed)
         \/ \E i \in Upcoming : client' = Live!AppendReasoningDelta(client, i)
         \/ \E i \in Upcoming : client' = Live!AppendToolDelta(client, i)
         \/ client' = client
  PROVE  Follows(client', 0..current, Items, finished, Upcoming)
  <1>0. /\ Itemized(0..current, Items, finished, Upcoming)
        /\ Follows(client, 0..current, Items, finished, Upcoming)
        /\ Upcoming \subseteq Items /\ Upcoming \cap finished = {}
    BY LiveItems
  <1>1. CASE client' = Live!StartLocalUser(client)
    BY <1>0, <1>1, NoticeFits DEF Live!StartLocalUser
  <1>2. CASE \E i \in Upcoming, closed \in BOOLEAN :
               /\ i.kind = "text" /\ i \in streaming
               /\ client' = Live!AppendAgentDelta(client, i, closed)
    <2>1. PICK i \in Upcoming, closed \in BOOLEAN :
               /\ i.kind = "text" /\ i \in streaming
               /\ client' = Live!AppendAgentDelta(client, i, closed)
      BY <1>2
    <2>2. \A j \in Upcoming : j.kind = "text" => j = i
      BY <2>1 DEF LiveInv, LiveServer, Serves, Upcoming, OpenOf, Live!CallKinds, Live!Tools
    <2> QED BY <1>0, <2>1, <2>2, AgentDeltaFits
  <1>3. CASE \E i \in Upcoming : client' = Live!AppendReasoningDelta(client, i)
    BY <1>0, <1>3, ReasoningDeltaFits
  <1>4. CASE \E i \in Upcoming : client' = Live!AppendToolDelta(client, i)
    BY <1>0, <1>4, ToolDeltaFits
  <1>5. CASE client' = client
    BY <1>0, <1>5
  <1> QED BY <1>1, <1>2, <1>3, <1>4, <1>5

LEMMA LiveRunning ==
  ASSUME LiveInv, NEW i \in Live!Running
  PROVE  /\ i \in Upcoming /\ announced # <<>>
         /\ pc = "denied" => i = Live!Last(announced)
         /\ pc # "denied" => pc = "work" /\ i = Head(announced)
  <1>1. /\ announced \in Seq(Items)
        /\ pc \in {"denied", "work"} => announced # <<>>
    BY DEF LiveInv, LiveServer, Serves, Items
  <1>2. pc \in {"denied", "work"}
    BY DEF Live!Running
  <1>3. 1 \in DOMAIN announced /\ Len(announced) \in DOMAIN announced
        /\ Head(announced) = announced[1] /\ Live!Last(announced) = announced[Len(announced)]
    <2>1. announced \in Seq(Items) /\ announced # <<>>
      BY <1>1, <1>2
    <2> HIDE DEF Items
    <2>2. Len(announced) \in Nat /\ DOMAIN announced = 1..Len(announced) /\ Len(announced) # 0
      BY <2>1
    <2> QED BY <2>1, <2>2 DEF Live!Last
  <1>4. i = IF pc = "denied" THEN Live!Last(announced) ELSE Head(announced)
    BY <1>2 DEF Live!Running
  <1> QED BY <1>1, <1>2, <1>3, <1>4, LiveItems

LEMMA LiveCompleteCall ==
  ASSUME LiveInv, NEW i \in Live!Running, Live!CompleteCall(i)
  PROVE  LiveInv'
  <1>0. /\ Itemized(0..current, Items, finished, Upcoming)
        /\ Follows(client, 0..current, Items, finished, Upcoming)
        /\ Serves(current, count, streaming, announced, finished)
    BY LiveItems
  <1>1. /\ i \in Upcoming /\ announced # <<>>
        /\ pc = "denied" => i = Live!Last(announced)
        /\ pc # "denied" => pc = "work" /\ i = Head(announced)
    BY LiveRunning
  <1>2. /\ announced' = IF pc = "denied" THEN Live!Front(announced) ELSE Tail(announced)
        /\ pc' = CASE pc = "denied" -> "calls" [] announced' = <<>> -> "reply" [] OTHER -> "work"
        /\ finished' = finished \cup {i} /\ client' = Live!CompleteItem(client, i)
        /\ UNCHANGED <<current, late, streaming, count, local>>
    BY DEF Live!CompleteCall, Live!Complete
  <1>3. announced' \in Seq(Items) /\ Less(announced, announced', i)
    BY <1>0, <1>1, <1>2, FirstDone, LastDone DEF Items
  <1>4. /\ Serves(current, count, streaming, announced', finished \cup {i})
        /\ OpenOf(streaming, announced') = Upcoming \ {i}
    <2>1. ServesWith(current, count, streaming, announced', finished \cup {i},
                     OpenOf(streaming, announced) \ {i})
      BY <1>0, <1>3, ServesLess DEF Items
    <2> QED BY <2>1 DEF ServesWith, Upcoming
  <1>5. Follows(client', 0..current, Items, finished \cup {i}, Upcoming \ {i})
    BY <1>0, <1>1, <1>2, CompleteItemFits
  <1>6. LiveServer'
    BY <1>1, <1>2, <1>4 DEF LiveInv, LiveServer
  <1> QED BY <1>2, <1>4, <1>5, <1>6 DEF LiveInv, Items, Upcoming

LEMMA LiveCompleteStream ==
  ASSUME LiveInv, NEW i \in streaming, Live!CompleteStream(i)
  PROVE  LiveInv'
  <1>0. /\ Itemized(0..current, Items, finished, Upcoming)
        /\ Follows(client, 0..current, Items, finished, Upcoming)
        /\ Serves(current, count, streaming, announced, finished) /\ i \in Upcoming
    BY LiveItems
  <1>1. /\ streaming' = streaming \ {i} /\ pc = "replied"
        /\ finished' = finished \cup {i} /\ client' = Live!CompleteItem(client, i)
        /\ UNCHANGED <<pc, current, late, announced, count, local>>
    BY DEF Live!CompleteStream, Live!Complete
  <1>2. /\ Serves(current, count, streaming \ {i}, announced, finished \cup {i})
        /\ OpenOf(streaming \ {i}, announced) = Upcoming \ {i}
    <2>1. ServesWith(current, count, streaming \ {i}, announced, finished \cup {i},
                     OpenOf(streaming, announced) \ {i})
      BY <1>0, ServesDone
    <2> QED BY <2>1 DEF ServesWith, Upcoming
  <1>3. Follows(client', 0..current, Items, finished \cup {i}, Upcoming \ {i})
    BY <1>0, <1>1, CompleteItemFits
  <1>4. LiveServer'
    BY <1>1, <1>2 DEF LiveInv, LiveServer
  <1> QED BY <1>1, <1>2, <1>3, <1>4 DEF LiveInv, Items, Upcoming

(* An item the server starts to send. *)
LEMMA LiveStarts ==
  ASSUME LiveInv, pc # "idle", NEW kind \in Live!Kinds
  PROVE  /\ Live!NewItem(kind) = FreshOf(current, count, kind)
         /\ Itemized(0..current, KnownOf(current, count + 1), finished,
                     Upcoming \cup {FreshOf(current, count, kind)})
         /\ Follows(Live!StartItem(client, FreshOf(current, count, kind)),
                    0..current, KnownOf(current, count + 1), finished,
                    Upcoming \cup {FreshOf(current, count, kind)})
  <1> DEFINE i == FreshOf(current, count, kind)
             K2 == KnownOf(current, count + 1)
  <1>0. /\ Itemized(0..current, Items, finished, Upcoming)
        /\ Follows(client, 0..current, Items, finished, Upcoming)
        /\ current \in Nat \ {0} /\ count \in Nat
    BY LiveItems DEF LiveInv, LiveServer, Serves
  <1>1. i \notin Items /\ i \in K2 /\ i # Live!NoItem
    BY <1>0, FreshIs DEF Items
  <1>2. Items \subseteq K2
    BY <1>0, KnownGrows DEF Items
  <1>3. Live!NewItem(kind) = i
    BY DEF Live!NewItem, FreshOf
  <1>4. \A j \in K2 : j.turn \in 0..current /\ j # Live!NoItem
    <2>1. Live!NoItem.turn = 0
      BY DEF Live!NoItem
    <2> QED BY <1>0, <2>1, KnownIs
  <1> HIDE DEF i, K2
  <1>5. Itemized(0..current, K2, finished, Upcoming \cup {i})
    BY <1>0, <1>1, <1>2, <1>4 DEF Itemized
  <1>6. Follows(client, 0..current, K2, finished, Upcoming \cup {i})
    BY <1>0, <1>1, <1>2, FreshFits
  <1>7. i \notin finished
    BY <1>0, <1>1 DEF Itemized
  <1>8. Follows(Live!StartItem(client, i), 0..current, K2, finished, Upcoming \cup {i})
    BY <1>1, <1>5, <1>6, <1>7, StartItemFits
  <1> QED BY <1>3, <1>5, <1>8 DEF i, K2

LEMMA LiveStartStream ==
  ASSUME LiveInv, NEW kind \in {"text", "reasoning"}, Live!StartStream(kind)
  PROVE  LiveInv'
  <1>1. /\ pc = "reply" /\ kind \notin {i.kind : i \in streaming}
        /\ streaming' = streaming \cup {Live!NewItem(kind)} /\ count' = count + 1
        /\ client' = Live!StartItem(client, Live!NewItem(kind))
        /\ UNCHANGED <<pc, current, late, announced, local, finished>>
    BY DEF Live!StartStream
  <1>2. Serves(current, count, streaming, announced, finished) /\ current # 0
    BY <1>1 DEF LiveInv, LiveServer
  <1>3. \A i \in streaming : i.kind # kind
    BY <1>1
  <1>4. kind \in Live!Kinds
    BY DEF Live!Kinds
  <1> DEFINE i == FreshOf(current, count, kind)
  <1>5. /\ Serves(current, count + 1, streaming \cup {i}, announced, finished)
        /\ OpenOf(streaming \cup {i}, announced) = Upcoming \cup {i}
    <2>1. ServesWith(current, count + 1, streaming \cup {i}, announced, finished,
                     OpenOf(streaming, announced) \cup {i})
      BY <1>2, <1>3, ServesStream
    <2> QED BY <2>1 DEF ServesWith, Upcoming
  <1>6. /\ Live!NewItem(kind) = i
        /\ Follows(Live!StartItem(client, i), 0..current, KnownOf(current, count + 1),
                   finished, Upcoming \cup {i})
    BY <1>1, <1>4, LiveStarts
  <1> HIDE DEF i
  <1>7. LiveServer'
    BY <1>1, <1>5, <1>6 DEF LiveInv, LiveServer
  <1> QED BY <1>1, <1>5, <1>6, <1>7 DEF LiveInv, Items, Upcoming

LEMMA LiveAnnounce ==
  ASSUME LiveInv, NEW kind \in Live!CallKinds, Live!Announce(kind)
  PROVE  LiveInv'
  <1>1. /\ pc = "calls" /\ pc' \in {"calls", "denied"}
        /\ announced' = Append(announced, Live!NewItem(kind)) /\ count' = count + 1
        /\ client' = Live!StartItem(client, Live!NewItem(kind))
        /\ UNCHANGED <<current, late, streaming, local, finished>>
    BY DEF Live!Announce
  <1>2. /\ Serves(current, count, streaming, announced, finished) /\ current # 0
        /\ announced \in Seq(Items)
    BY <1>1 DEF LiveInv, LiveServer, Serves, Items
  <1>4. kind \in Live!Kinds
    BY DEF Live!Kinds
  <1> DEFINE i == FreshOf(current, count, kind)
  <1>5. /\ Serves(current, count + 1, streaming, Append(announced, i), finished)
        /\ OpenOf(streaming, Append(announced, i)) = Upcoming \cup {i}
    BY <1>2, ServesCall DEF Upcoming
  <1>6. /\ Live!NewItem(kind) = i
        /\ Follows(Live!StartItem(client, i), 0..current, KnownOf(current, count + 1),
                   finished, Upcoming \cup {i})
    BY <1>1, <1>4, LiveStarts
  <1> HIDE DEF i
  <1>7. Append(announced, i) # <<>>
    BY <1>2
  <1>8. LiveServer'
    BY <1>1, <1>5, <1>6, <1>7 DEF LiveInv, LiveServer
  <1> QED BY <1>1, <1>5, <1>6, <1>8 DEF LiveInv, Items, Upcoming

LEMMA LiveTurnStarted ==
  ASSUME LiveInv, Live!TurnStarted
  PROVE  LiveInv'
  <1>1. /\ pc = "idle" /\ current < MaxTurns /\ pc' = "reply" /\ current' = current + 1
        /\ client' = Live!Bind(client, current + 1)
        /\ UNCHANGED <<late, streaming, announced, count, local, finished>>
    BY DEF Live!TurnStarted
  <1>2. /\ Serves(current, count, streaming, announced, finished)
        /\ Follows(client, 0..current, Items, finished, Upcoming)
        /\ current \in Nat /\ count \in Nat /\ current \in 0..MaxTurns /\ MaxTurns \in Nat
    BY LiveItems, PartsAssumption DEF LiveInv, LiveServer, Serves
  <1> DEFINE T2 == 0..(current + 1)
             K2 == KnownOf(current + 1, count)
  <1>3. Serves(current + 1, count, streaming, announced, finished)
    BY <1>2, ServesTurn
  <1>4. Itemized(T2, K2, finished, Upcoming)
    BY <1>3, ServesItems DEF Upcoming
  <1>5. 0..current \subseteq T2 /\ Items \subseteq K2 /\ current + 1 \in T2
    BY <1>2, KnownGrows DEF Items
  <1> HIDE DEF T2, K2
  <1>6. Follows(client, T2, K2, finished, Upcoming)
    BY <1>2, <1>5, GrowFits
  <1>7. Follows(client', T2, K2, finished, Upcoming)
    BY <1>1, <1>4, <1>5, <1>6, BindFits
  <1>8. LiveServer'
    BY <1>1, <1>2, <1>3 DEF LiveInv, LiveServer
  <1> QED BY <1>1, <1>7, <1>8 DEF LiveInv, Items, Upcoming, T2, K2

LEMMA LiveOver ==
  ASSUME LiveInv, Live!Over, UNCHANGED <<current, count, local, finished>>,
         \/ client' = Live!CompleteTurn(client)
         \/ client' = Live!AbandonTurn(client)
         \/ client' = client
  PROVE  LiveInv'
  <1>0. /\ Itemized(0..current, Items, finished, Upcoming)
        /\ Follows(client, 0..current, Items, finished, Upcoming)
        /\ Serves(current, count, streaming, announced, finished)
    BY LiveItems
  <1>1. pc' = "idle" /\ streaming' = {} /\ announced' = <<>>
    BY DEF Live!Over
  <1>2. Follows(client', 0..current, Items, finished, Upcoming)
    BY <1>0, CompleteTurnFits, NoticeFits DEF Live!AbandonTurn
  <1>3. Serves(current, count, {}, <<>>, finished) /\ OpenOf({}, <<>>) = {}
    BY <1>0, ServesOver
  <1>4. Follows(client', 0..current, Items, finished, {})
    BY <1>2, LessOpenFits
  <1>5. LiveServer'
    BY <1>1, <1>3 DEF LiveInv, LiveServer
  <1> QED BY <1>1, <1>3, <1>4, <1>5 DEF LiveInv, Items, Upcoming

LEMMA LiveStep ==
  ASSUME LiveInv, [Live!Next]_(Live!vars)
  PROVE  LiveInv'
  <1>0. /\ Itemized(0..current, Items, finished, Upcoming)
        /\ Follows(client, 0..current, Items, finished, Upcoming)
        /\ Serves(current, count, streaming, announced, finished)
        /\ streaming \subseteq Upcoming
    BY LiveItems
  <1> DEFINE Still == UNCHANGED <<current, count, streaming, announced, finished>>
             Told1 == Follows(client', 0..current, Items, finished, Upcoming)
  <1>1. ASSUME Still, Told1, LiveServer' PROVE LiveInv'
    BY <1>1 DEF LiveInv, Items, Upcoming
  <1>2. ASSUME Still, pc' = pc PROVE LiveServer'
    BY <1>2 DEF LiveInv, LiveServer
  <1>3. CASE Live!Submit
    <2>1. Still /\ pc' = pc /\ client' = Live!StartLocalUser(client)
      BY <1>3 DEF Live!Submit, Live!serverVars
    <2>2. Told1
      BY <2>1, LiveClientSteps
    <2> QED BY <1>1, <1>2, <2>1, <2>2
  <1>4. CASE Live!TurnStarted
    BY <1>4, LiveTurnStarted
  <1>5. CASE Live!Reasoning
    <2>1. /\ Still /\ pc' = pc
          /\ \E i \in Upcoming : client' = Live!AppendReasoningDelta(client, i)
      BY <1>0, <1>5 DEF Live!Reasoning, Live!serverVars
    <2>2. Told1
      BY <2>1, LiveClientSteps
    <2> QED BY <1>1, <1>2, <2>1, <2>2
  <1>6. CASE Live!ReplyEnds \/ Live!CallsFollow \/ Live!Work
    <2>1. Still /\ client' = client
      BY <1>6 DEF Live!ReplyEnds, Live!CallsFollow, Live!Work
    <2>2. Told1
      BY <2>1, LiveClientSteps
    <2>3. LiveServer'
      BY <1>6, <2>1 DEF LiveInv, LiveServer, Live!ReplyEnds, Live!CallsFollow, Live!Work
    <2> QED BY <1>1, <2>1, <2>2, <2>3
  <1>7. CASE Live!TurnCompleted \/ Live!TurnCancelled \/ Live!NothingLeft
    BY <1>7, LiveOver DEF Live!TurnCompleted, Live!TurnCancelled, Live!NothingLeft
  <1>8. CASE Live!TurnFailed
    <2>1. Still /\ pc' = pc /\ client' = Live!AbandonTurn(client)
      BY <1>8 DEF Live!TurnFailed
    <2>2. Told1
      BY <1>0, <2>1, NoticeFits DEF Live!AbandonTurn
    <2> QED BY <1>1, <1>2, <2>1, <2>2
  <1>9. CASE \E kind \in {"text", "reasoning"} : Live!StartStream(kind)
    BY <1>9, LiveStartStream
  <1>10. CASE \E closed \in BOOLEAN : Live!Text(closed)
    <2>1. PICK closed \in BOOLEAN : Live!Text(closed)
      BY <1>10
    <2>2. /\ Still /\ pc' = pc
          /\ \E i \in streaming :
               i.kind = "text" /\ client' = Live!AppendAgentDelta(client, i, closed)
      BY <2>1 DEF Live!Text, Live!serverVars
    <2>3. Told1
      BY <1>0, <2>2, LiveClientSteps
    <2> QED BY <1>1, <1>2, <2>2, <2>3
  <1>11. CASE \E i \in streaming : Live!CompleteStream(i)
    BY <1>11, LiveCompleteStream
  <1>12. CASE \E kind \in Live!CallKinds : Live!Announce(kind)
    BY <1>12, LiveAnnounce
  <1>13. CASE \E i \in Live!Running : Live!Output(i)
    <2>1. PICK i \in Live!Running : Live!Output(i)
      BY <1>13
    <2>2. i \in Upcoming
      BY LiveRunning
    <2>3. Still /\ pc' = pc /\ client' = Live!AppendToolDelta(client, i)
      BY <2>1 DEF Live!Output, Live!serverVars
    <2>4. Told1
      BY <2>2, <2>3, LiveClientSteps
    <2> QED BY <1>1, <1>2, <2>3, <2>4
  <1>14. CASE \E i \in Live!Running : Live!CompleteCall(i)
    BY <1>14, LiveCompleteCall
  <1>15. CASE UNCHANGED Live!vars
    <2>1. Still /\ pc' = pc /\ client' = client
      BY <1>15 DEF Live!vars, Live!serverVars
    <2>2. Told1
      BY <2>1, LiveClientSteps
    <2> QED BY <1>1, <1>2, <2>1, <2>2
  <1> QED
    BY <1>3, <1>4, <1>5, <1>6, <1>7, <1>8, <1>9, <1>10, <1>11, <1>12, <1>13, <1>14, <1>15
      DEF Live!Next

(***************************************************************************)
(* The module of all parts                                                 *)
(***************************************************************************)

(* The transcript keeps its invariant in the run of all parts. *)
LEMMA LiveHolds == Spec => [](part = "live" => LiveInv)
  <1> DEFINE Holds == part = "live" => LiveInv
  <1>1. Init => Holds
    BY LiveInit DEF Init
  <1>2. Holds /\ [Next]_vars => Holds'
    <2> SUFFICES ASSUME Holds, [Next]_vars, part' = "live" PROVE LiveInv'
      OBVIOUS
    <2>1. part = "live"
      BY DEF Next, vars
    <2>2. [Live!Next]_(Live!vars)
      BY <2>1 DEF Next, vars, liveVars, Live!vars, Live!serverVars
    <2>3. QED
      BY <2>1, <2>2, LiveStep
  <1>3. QED
    BY <1>1, <1>2, PTL DEF Spec

(* LiveTranscript: a message that was streamed and completed is in the
   transcript once, whole, and no piece of it stays behind, whatever came
   between its pieces: reasoning, tool cards, another turn, a retry.         *)
THEOREM MessageIsShownOnce == Spec => []AgentMessageShownOnce
  <1>1. (part = "live" => LiveInv) => AgentMessageShownOnce
    BY DEF AgentMessageShownOnce, Live!AgentMessageShownOnce, LiveInv, Follows, Fits,
      MessageShown, HasPiece
  <1>2. QED
    BY <1>1, LiveHolds, PTL

(* LiveTranscript: a completed card is shown once, either live or committed,
   however cards were flushed, replaced and discarded before.                *)
THEOREM CardIsShownOnce == Spec => []CompletedCardShownOnce
  <1>1. (part = "live" => LiveInv) => CompletedCardShownOnce
    BY DEF CompletedCardShownOnce, Live!CompletedCardShownOnce, LiveInv, Follows, Fits,
      CardShown, Untold
  <1>2. QED
    BY <1>1, LiveHolds, PTL
===============================================================================
