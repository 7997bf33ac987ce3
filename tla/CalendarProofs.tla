--------------------------- MODULE CalendarProofs ---------------------------
(***************************************************************************)
(* Theorems about Calendar, for any calendar, caps, characters and tokens. *)
(***************************************************************************)
EXTENDS Calendar, SumProofs, SequenceTheorems

-----------------------------------------------------------------------------
(***************************************************************************)
(* Searching and ordering.                                                 *)
(***************************************************************************)
LEMMA MinMeans ==
    ASSUME NEW I \in SUBSET Nat, I # {}
    PROVE  Min(I) \in I /\ \A k \in I : Min(I) <= k
<1>1. \E n \in I : \A m \in I : n <= m
  BY LeastElement
<1>. QED BY <1>1, Zenon DEF Min

(* The row (or ticket) of a character is the first that is theirs. *)
LEMMA RowOfMeans ==
    ASSUME NEW S, NEW r \in Seq(S), NEW c
    PROVE  /\ RowOf(r, c) \in 0..Len(r)
           /\ RowOf(r, c) = 0 => \A k \in DOMAIN r : r[k].who # c
           /\ RowOf(r, c) # 0 => RowOf(r, c) \in DOMAIN r /\ r[RowOf(r, c)].who = c
<1>. DEFINE I == {k \in 1..Len(r) : r[k].who = c}
<1>1. RowOf(r, c) = IF I # {} THEN Min(I) ELSE 0
  BY Zenon DEF RowOf, SelectInSeq
<1>2. DOMAIN r = 1..Len(r) /\ Len(r) \in Nat
  OBVIOUS
<1>3. I \in SUBSET Nat
  BY <1>2
<1>4. I # {} => Min(I) \in I
  <2>. HIDE DEF I
  <2>. QED BY <1>3, MinMeans
<1>. QED BY <1>1, <1>2, <1>4

(* The token of a character is one they may use. *)
LEMMA TokenOfMeans ==
    ASSUME NEW S, NEW ts \in Seq(S), NEW c, NEW source
    PROVE  /\ TokenOf(ts, c, source) \in 0..Len(ts)
           /\ TokenOf(ts, c, source) # 0 =>
                 /\ TokenOf(ts, c, source) \in DOMAIN ts
                 /\ Usable(ts[TokenOf(ts, c, source)], c, source)
<1>. DEFINE I == {k \in 1..Len(ts) : Usable(ts[k], c, source)}
<1>1. TokenOf(ts, c, source) = IF I # {} THEN Min(I) ELSE 0
  BY Zenon DEF TokenOf, SelectInSeq
<1>2. DOMAIN ts = 1..Len(ts) /\ Len(ts) \in Nat
  OBVIOUS
<1>3. I \in SUBSET Nat
  BY <1>2
<1>4. I # {} => Min(I) \in I
  <2>. HIDE DEF I
  <2>. QED BY <1>3, MinMeans
<1>. QED BY <1>1, <1>2, <1>4

(* The best wish is the first in the ranking with a seat left. *)
LEMMA BestWishMeans ==
    ASSUME NEW S, None \notin S, NEW wishes \in Seq(S), NEW left
    PROVE  \/ /\ BestWish(wishes, left) = None
              /\ \A n \in DOMAIN wishes : ~(left[wishes[n]] > 0)
           \/ \E n \in DOMAIN wishes :
                 /\ BestWish(wishes, left) = wishes[n] /\ left[wishes[n]] > 0
                 /\ \A m \in DOMAIN wishes : m < n => ~(left[wishes[m]] > 0)
<1>. DEFINE I == {k \in 1..Len(wishes) : left[wishes[k]] > 0}
            n == IF I # {} THEN Min(I) ELSE 0
<1>1. BestWish(wishes, left) = IF n = 0 THEN None ELSE wishes[n]
  BY Zenon DEF BestWish, SelectInSeq
<1>2. DOMAIN wishes = 1..Len(wishes) /\ Len(wishes) \in Nat
  OBVIOUS
<1>3. I \in SUBSET Nat
  BY <1>2
<1>4. I # {} => Min(I) \in I /\ \A k \in I : Min(I) <= k
  <2>. HIDE DEF I
  <2>. QED BY <1>3, MinMeans
<1>5. CASE I = {}
  BY <1>1, <1>2, <1>5
<1>6. CASE I # {}
  <2>1. n \in DOMAIN wishes /\ left[wishes[n]] > 0 /\ n # 0
    BY <1>2, <1>4, <1>6
  <2>2. BestWish(wishes, left) = wishes[n]
    BY <1>1, <2>1
  <2>3. ASSUME NEW m \in DOMAIN wishes, m < n PROVE ~(left[wishes[m]] > 0)
    BY <1>2, <1>4, <1>6, <2>3
  <2>. HIDE DEF n
  <2>. QED BY <2>1, <2>2, <2>3
<1>. QED BY <1>5, <1>6

(* A finite set of positions can be put in order. *)
LEMMA OrderExists ==
    ASSUME NEW S \in SUBSET (Nat \ {0}), IsFiniteSet(S)
    PROVE  \E s \in [1..Cardinality(S) -> S] : \A m, n \in DOMAIN s : m < n => s[m] < s[n]
<1>. DEFINE Ordered(t) == \E s \in [1..Cardinality(t) -> t] : \A m, n \in DOMAIN s : m < n => s[m] < s[n]
            T == {t \in SUBSET S : ~Ordered(t)}
<1>. SUFFICES ASSUME T # {} PROVE FALSE
  OBVIOUS
<1>a. T \in SUBSET SUBSET S /\ \A t \in T : ~Ordered(t)
  OBVIOUS
<1>b. \A t \in SUBSET S : t \in T <=> ~Ordered(t)
  OBVIOUS
<1>. HIDE DEF T
<1>1. PICK t \in T : \A y \in T : y \subseteq t => y = t
  <2>1. T \in SUBSET SUBSET S
    BY <1>a
  <2>. HIDE DEF Ordered
  <2>. QED BY <2>1, MinimalSubset
<1>2. t \in SUBSET S /\ ~Ordered(t)
  BY <1>a
<1>3. t # {}
  <2>. SUFFICES ASSUME t = {} PROVE FALSE
    OBVIOUS
  <2>1. Cardinality(t) = 0
    BY FS_EmptySet
  <2>2. [k \in 1..0 |-> 0] \in [1..Cardinality(t) -> t]
    BY <2>1
  <2>. QED BY <1>2, <2>2
<1>4. PICK a \in t : \A b \in t : a <= b
  BY <1>2, <1>3, LeastElement
<1>. DEFINE u == t \ {a}
<1>5. u \in SUBSET S /\ u # t /\ u \subseteq t
  BY <1>2, <1>4
<1>6. Ordered(u)
  BY <1>1, <1>5, <1>b
<1>7. PICK s \in [1..Cardinality(u) -> u] : \A m, n \in DOMAIN s : m < n => s[m] < s[n]
  BY <1>6
<1>8. IsFiniteSet(t) /\ Cardinality(t) \in Nat /\ Cardinality(t) = Cardinality(u) + 1 /\ Cardinality(u) \in Nat
  <2>1. IsFiniteSet(t)
    BY <1>2, FS_Subset
  <2>2. IsFiniteSet(u) /\ Cardinality(u) = Cardinality(t) - 1
    BY <1>4, <2>1, FS_RemoveElement
  <2>3. Cardinality(t) \in Nat /\ Cardinality(u) \in Nat
    BY <2>1, <2>2, FS_CardinalityType
  <2>. QED BY <2>1, <2>2, <2>3
<1>. DEFINE z == [n \in 1..Cardinality(t) |-> IF n = 1 THEN a ELSE s[n - 1]]
<1>. HIDE DEF Ordered
<1>9. z \in [1..Cardinality(t) -> t]
  <2>. SUFFICES ASSUME NEW n \in 1..Cardinality(t), n # 1 PROVE s[n - 1] \in t
    BY <1>4
  <2>1. n - 1 \in 1..Cardinality(u)
    BY <1>8
  <2>. QED BY <1>7, <2>1
<1>10. \A m, n \in DOMAIN z : m < n => z[m] < z[n]
  <2>. SUFFICES ASSUME NEW m \in 1..Cardinality(t), NEW n \in 1..Cardinality(t), m < n
                PROVE  z[m] < z[n]
    OBVIOUS
  <2>a. n # 1 /\ n - 1 \in 1..Cardinality(u)
    BY <1>8
  <2>b. s[n - 1] \in u
    BY <1>7, <2>a
  <2>1. n - 1 \in 1..Cardinality(u) /\ z[n] = s[n - 1] /\ s[n - 1] \in u
    BY <2>a, <2>b
  <2>2. CASE m = 1
    <3>1. s[n - 1] \in t /\ s[n - 1] # a /\ a <= s[n - 1]
      BY <1>4, <2>1
    <3>2. a \in Nat /\ s[n - 1] \in Nat
      BY <1>2, <3>1
    <3>. QED BY <2>1, <2>2, <3>1, <3>2
  <2>3. CASE m # 1
    <3>1. m - 1 \in 1..Cardinality(u) /\ z[m] = s[m - 1] /\ m - 1 < n - 1
      BY <1>8, <2>3
    <3>2. DOMAIN s = 1..Cardinality(u)
      BY <1>7
    <3>. HIDE DEF z, u
    <3>. QED BY <1>7, <2>1, <3>1, <3>2
  <2>. QED BY <2>2, <2>3
<1>. QED BY <1>2, <1>9, <1>10 DEF Ordered

(* InOrder lists the set, each element once. *)
LEMMA InOrderMeans ==
    ASSUME NEW S \in SUBSET (Nat \ {0}), IsFiniteSet(S)
    PROVE  /\ InOrder(S) \in Seq(S) /\ Len(InOrder(S)) = Cardinality(S)
           /\ DOMAIN InOrder(S) = 1..Cardinality(S) /\ Cardinality(S) \in Nat
           /\ \A m, n \in DOMAIN InOrder(S) : m # n => InOrder(S)[m] # InOrder(S)[n]
           /\ \A x \in S : \E n \in DOMAIN InOrder(S) : InOrder(S)[n] = x
<1>. DEFINE s == InOrder(S)
            N == 1..Cardinality(S)
<1>1. s \in [N -> S] /\ \A m, n \in DOMAIN s : m < n => s[m] < s[n]
  BY OrderExists DEF InOrder
<1>2. Cardinality(S) \in Nat
  BY FS_CardinalityType
<1>. HIDE DEF s
<1>3. \A m, n \in N : m # n => s[m] # s[n]
  <2>. SUFFICES ASSUME NEW m \in N, NEW n \in N, m # n PROVE s[m] # s[n]
    OBVIOUS
  <2>1. m < n \/ n < m
    BY <1>2
  <2>2. s[m] \in Nat /\ s[n] \in Nat /\ DOMAIN s = N
    BY <1>1
  <2>. QED BY <1>1, <2>1, <2>2
<1>4. IsFiniteSet(N) /\ Cardinality(N) = Cardinality(S)
  BY <1>2, FS_Interval
<1>5. s \in Injection(N, S)
  BY <1>1, <1>3 DEF Injection, IsInjective
<1>6. s \in Surjection(N, S)
  BY <1>4, <1>5, FS_Injection
<1>7. \A x \in S : \E n \in N : s[n] = x
  BY <1>6 DEF Surjection
<1>. QED BY <1>1, <1>2, <1>3, <1>7 DEF s

-----------------------------------------------------------------------------
(***************************************************************************)
(* Induction up to n, and what it says of FlattenSeq and of Trail, whose   *)
(* recursive functions are solutions of an equation that has one.          *)
(***************************************************************************)
LEMMA Climb ==
    ASSUME NEW n \in Nat, NEW S, 0 \in S, \A i \in 1..n : i - 1 \in S => i \in S
    PROVE  n \in S
<1>. DEFINE T == {i \in 0..n : i \notin S}
<1>. SUFFICES ASSUME T # {} PROVE FALSE
  BY n \in 0..n
<1>1. T \in SUBSET Nat
  OBVIOUS
<1>2. PICK i \in T : \A j \in T : i <= j
  <2>. HIDE DEF T
  <2>. QED BY <1>1, LeastElement
<1>3. i \in 1..n /\ i - 1 \in 0..n /\ i - 1 \notin T
  BY <1>2
<1>. QED BY <1>3

Flattens(f, seqs, n) ==
    f = [i \in 1..n |-> IF i = 1 THEN seqs[i] ELSE f[i - 1] \o seqs[i]]

LEMMA FlattenIs ==
    ASSUME NEW V, NEW seqs \in Seq(V), Len(seqs) # 0
    PROVE  \E f : Flattens(f, seqs, Len(seqs)) /\ FlattenSeq(seqs) = f[Len(seqs)]
<1>. DEFINE N == Len(seqs)
            S == {n \in 0..N : \E f : Flattens(f, seqs, n)}
<1>1. N \in Nat
  OBVIOUS
<1>2. 0 \in S
  <2>1. Flattens([i \in 1..0 |-> 0], seqs, 0)
    BY DEF Flattens
  <2>. QED BY <1>1, <2>1
<1>3. ASSUME NEW n \in 1..N, n - 1 \in S PROVE n \in S
  <2>1. PICK f : Flattens(f, seqs, n - 1)
    BY <1>3
  <2>. DEFINE g == [i \in 1..n |-> IF i < n THEN f[i] ELSE IF i = 1 THEN seqs[i] ELSE f[i - 1] \o seqs[i]]
  <2>2. ASSUME NEW i \in 1..n
        PROVE  g[i] = IF i = 1 THEN seqs[i] ELSE g[i - 1] \o seqs[i]
    <3>1. CASE i < n
      <4>1. i \in 1..(n - 1) /\ g[i] = f[i]
        BY <1>1, <3>1
      <4>2. f[i] = IF i = 1 THEN seqs[i] ELSE f[i - 1] \o seqs[i]
        BY <2>1, <4>1 DEF Flattens
      <4>3. i # 1 => g[i - 1] = f[i - 1]
        BY <1>1, <3>1
      <4>. QED BY <4>1, <4>2, <4>3
    <3>2. CASE i = n
      <4>1. i # 1 => g[i - 1] = f[i - 1]
        BY <1>1, <3>2
      <4>. QED BY <3>2, <4>1
    <3>. QED BY <1>1, <3>1, <3>2
  <2>3. Flattens(g, seqs, n)
    BY <2>2 DEF Flattens
  <2>. QED BY <1>3, <2>3
<1>4. \E f : Flattens(f, seqs, N)
  <2>1. \A n \in 1..N : n - 1 \in S => n \in S
    BY <1>3
  <2>. HIDE DEF N, S
  <2>2. N \in S
    BY <1>1, <1>2, <2>1, Climb
  <2>. QED BY <2>2 DEF N, S
<1>5. FlattenSeq(seqs) = (CHOOSE f : Flattens(f, seqs, N))[N]
  BY Zenon DEF FlattenSeq, Flattens
<1>. QED BY <1>4, <1>5

(* What holds of each piece and survives concatenation holds of the whole. *)
LEMMA FlattenClosed ==
    ASSUME NEW W, NEW V \in SUBSET Seq(W), <<>> \in V, \A s, t \in V : s \o t \in V, NEW seqs \in Seq(V)
    PROVE  FlattenSeq(seqs) \in V
<1>1. CASE Len(seqs) = 0
  <2>1. seqs = <<>>
    BY <1>1
  <2>2. FlattenSeq(seqs) = seqs
    BY <1>1, Zenon DEF FlattenSeq
  <2>. QED BY <2>1, <2>2
<1>2. CASE Len(seqs) # 0
  <2>1. PICK f : Flattens(f, seqs, Len(seqs)) /\ FlattenSeq(seqs) = f[Len(seqs)]
    BY <1>2, FlattenIs
  <2>. DEFINE S == {n \in 0..Len(seqs) : n = 0 \/ f[n] \in V}
  <2>2. Len(seqs) \in Nat /\ 0 \in S
    OBVIOUS
  <2>3. ASSUME NEW n \in 1..Len(seqs), n - 1 \in S PROVE n \in S
    <3>1. f[n] = IF n = 1 THEN seqs[n] ELSE f[n - 1] \o seqs[n]
      BY <2>1 DEF Flattens
    <3>2. seqs[n] \in V
      OBVIOUS
    <3>. QED BY <2>3, <3>1, <3>2
  <2>4. Len(seqs) \in S
    <3>1. \A n \in 1..Len(seqs) : n - 1 \in S => n \in S
      BY <2>3
    <3>. HIDE DEF S
    <3>. QED BY <2>2, <3>1, Climb
  <2>. QED BY <1>2, <2>1, <2>4
<1>. QED BY <1>1, <1>2

(* Every element of a piece is one of the whole. *)
LEMMA FlattenHas ==
    ASSUME NEW W, NEW seqs \in Seq(Seq(W)), NEW n \in DOMAIN seqs, NEW k \in DOMAIN seqs[n]
    PROVE  \E j \in DOMAIN FlattenSeq(seqs) : FlattenSeq(seqs)[j] = seqs[n][k]
<1>. DEFINE N == Len(seqs)
            Has(s) == \E j \in DOMAIN s : s[j] = seqs[n][k]
<1>1. n \in 1..N /\ N \in Nat /\ N # 0
  OBVIOUS
<1>2. PICK f : Flattens(f, seqs, N) /\ FlattenSeq(seqs) = f[N]
  BY <1>1, FlattenIs
<1>. DEFINE S == {m \in 0..N : m = 0 \/ (f[m] \in Seq(W) /\ (n <= m => Has(f[m])))}
<1>3. ASSUME NEW m \in 1..N, m - 1 \in S PROVE m \in S
  <2>1. f[m] = IF m = 1 THEN seqs[m] ELSE f[m - 1] \o seqs[m]
    BY <1>2 DEF Flattens
  <2>2. seqs[m] \in Seq(W) /\ seqs[n] \in Seq(W)
    OBVIOUS
  <2>3. CASE m = 1
    BY <1>1, <2>1, <2>2, <2>3
  <2>4. CASE m # 1
    <3>1. f[m - 1] \in Seq(W) /\ (n <= m - 1 => Has(f[m - 1]))
      BY <1>1, <1>3, <2>4
    <3>. DEFINE a == f[m - 1]
                b == seqs[m]
    <3>2. /\ a \o b \in Seq(W)
          /\ \A j \in DOMAIN a : j \in DOMAIN (a \o b) /\ (a \o b)[j] = a[j]
          /\ \A j \in DOMAIN b : Len(a) + j \in DOMAIN (a \o b) /\ (a \o b)[Len(a) + j] = b[j]
      <4>1. a \in Seq(W) /\ b \in Seq(W)
        BY <2>2, <3>1
      <4>. HIDE DEF a, b
      <4>. QED BY <4>1
    <3>3. f[m] = a \o b
      BY <2>1, <2>4
    <3>4. n <= m => Has(f[m])
      <4>1. CASE n = m
        <5>1. Len(a) + k \in DOMAIN (a \o b) /\ (a \o b)[Len(a) + k] = seqs[n][k]
          BY <3>2, <4>1
        <5>. HIDE DEF a, b
        <5>. QED BY <3>3, <5>1
      <4>2. CASE n <= m - 1
        <5>1. PICK j \in DOMAIN a : a[j] = seqs[n][k]
          BY <3>1, <4>2
        <5>. HIDE DEF a, b
        <5>2. j \in DOMAIN (a \o b) /\ (a \o b)[j] = seqs[n][k]
          BY <3>2, <5>1
        <5>. QED BY <3>3, <5>2
      <4>. QED BY <1>1, <4>1, <4>2
    <3>5. f[m] \in Seq(W)
      BY <3>2, <3>3
    <3>. HIDE DEF Has
    <3>. QED BY <1>1, <3>4, <3>5
  <2>. QED BY <2>3, <2>4
<1>4. N \in S
  <2>1. 0 \in S
    BY <1>1
  <2>2. \A m \in 1..N : m - 1 \in S => m \in S
    BY <1>3
  <2>. HIDE DEF N, S
  <2>. QED BY <1>1, <2>1, <2>2, Climb
<1>. QED BY <1>1, <1>2, <1>4

(* Trails(f, s, saves, n): f[i] is the trail of the first i saves. *)
Trails(f, s, saves, n) ==
    f = [i \in 0..n |->
           IF i = 0 THEN <<s>>
           ELSE IF Len(f[i - 1]) < i \/ Refused(Last(f[i - 1]), saves[i]) THEN f[i - 1]
           ELSE Append(f[i - 1], Saved(Last(f[i - 1]), saves[i]))]

LEMMA TrailIs ==
    ASSUME NEW W, NEW saves \in Seq(W), NEW s
    PROVE  \E f : Trails(f, s, saves, Len(saves)) /\ Trail(s, saves) = f[Len(saves)]
<1>. DEFINE N == Len(saves)
            S == {n \in 0..N : \E f : Trails(f, s, saves, n)}
            Next1(t, i) == IF Len(t) < i \/ Refused(Last(t), saves[i]) THEN t
                           ELSE Append(t, Saved(Last(t), saves[i]))
<1>1. N \in Nat
  OBVIOUS
<1>2. 0 \in S
  <2>1. Trails([i \in 0..0 |-> <<s>>], s, saves, 0)
    BY DEF Trails
  <2>. QED BY <1>1, <2>1
<1>3. ASSUME NEW n \in 1..N, n - 1 \in S PROVE n \in S
  <2>1. PICK f : Trails(f, s, saves, n - 1)
    BY <1>3
  <2>2. f = [i \in 0..(n - 1) |-> IF i = 0 THEN <<s>> ELSE Next1(f[i - 1], i)]
    BY <2>1, Zenon DEF Trails
  <2>. HIDE DEF Next1
  <2>. DEFINE g == [i \in 0..n |-> IF i < n THEN f[i] ELSE Next1(f[n - 1], n)]
  <2>3. ASSUME NEW i \in 0..n
        PROVE  g[i] = IF i = 0 THEN <<s>> ELSE Next1(g[i - 1], i)
    <3>1. CASE i < n
      <4>1. i \in 0..(n - 1) /\ g[i] = f[i]
        BY <1>1, <3>1
      <4>2. f[i] = IF i = 0 THEN <<s>> ELSE Next1(f[i - 1], i)
        BY <2>2, <4>1
      <4>3. i # 0 => g[i - 1] = f[i - 1]
        BY <1>1, <3>1
      <4>. HIDE DEF g
      <4>. QED BY <4>1, <4>2, <4>3
    <3>2. CASE i = n
      <4>1. i # 0 /\ g[i - 1] = f[i - 1] /\ g[i] = Next1(f[n - 1], n)
        BY <1>1, <3>2
      <4>. HIDE DEF g
      <4>. QED BY <3>2, <4>1
    <3>. QED BY <1>1, <3>1, <3>2
  <2>4. g = [i \in 0..n |-> IF i = 0 THEN <<s>> ELSE Next1(g[i - 1], i)]
    <3>1. g = [i \in 0..n |-> g[i]]
      OBVIOUS
    <3>. HIDE DEF g
    <3>. QED BY <2>3, <3>1
  <2>5. Trails(g, s, saves, n)
    <3>. HIDE DEF g
    <3>. USE DEF Next1
    <3>. QED BY <2>4, Zenon DEF Trails
  <2>. QED BY <1>3, <2>5
<1>4. \E f : Trails(f, s, saves, N)
  <2>1. \A n \in 1..N : n - 1 \in S => n \in S
    BY <1>3
  <2>. HIDE DEF N, S
  <2>2. N \in S
    BY <1>1, <1>2, <2>1, Climb
  <2>. QED BY <2>2 DEF N, S
<1>5. Trail(s, saves) = (CHOOSE f : Trails(f, s, saves, N))[N]
  BY Zenon DEF Trail, Trails
<1>. QED BY <1>4, <1>5

(* What saves lead to: G[n] has every state in which n of them were made. *)
LEMMA TrailSteps ==
    ASSUME NEW W, NEW saves \in Seq(W), NEW s, NEW G, s \in G[0],
           \A n \in DOMAIN saves : \A t \in G[n - 1] : Refused(t, saves[n]) \/ Saved(t, saves[n]) \in G[n]
    PROVE  /\ \A t \in Partly(s, saves) : \E n \in 0..Len(saves) : t \in G[n]
           /\ Whole(s, saves) \in Partly(s, saves)
           /\ ~Stopped(s, saves) => Whole(s, saves) \in G[Len(saves)]
           /\ Stopped(s, saves) =>
                 \E n \in DOMAIN saves : Whole(s, saves) \in G[n - 1] /\ Refused(Whole(s, saves), saves[n])
<1>. DEFINE N == Len(saves)
            Y == UNION {G[j] : j \in 0..N}
            Good(t, i) ==
                /\ t \in Seq(Y) /\ Len(t) \in 1..(i + 1)
                /\ \A j \in DOMAIN t : t[j] \in G[j - 1]
                /\ Len(t) <= i => Len(t) \in DOMAIN saves /\ Refused(Last(t), saves[Len(t)])
<1>1. N \in Nat /\ DOMAIN saves = 1..N
  OBVIOUS
<1>2. PICK f : Trails(f, s, saves, N) /\ Trail(s, saves) = f[N]
  BY TrailIs
<1>. DEFINE S == {i \in 0..N : Good(f[i], i)}
<1>3. 0 \in S
  <2>1. f[0] = <<s>>
    BY <1>1, <1>2 DEF Trails
  <2>2. s \in Y
    BY <1>1
  <2>3. Good(<<s>>, 0)
    BY <2>2
  <2>. HIDE DEF Good
  <2>. QED BY <1>1, <2>1, <2>3
<1>4. ASSUME NEW i \in 1..N, i - 1 \in S PROVE i \in S
  <2>. DEFINE t == f[i - 1]
  <2>1. Good(t, i - 1)
    BY <1>4
  <2>2. f[i] = IF Len(t) < i \/ Refused(Last(t), saves[i]) THEN t ELSE Append(t, Saved(Last(t), saves[i]))
    <3>1. i \in 0..N /\ i # 0
      BY <1>1
    <3>2. f[i] = IF i = 0 THEN <<s>>
                 ELSE IF Len(f[i - 1]) < i \/ Refused(Last(f[i - 1]), saves[i]) THEN f[i - 1]
                 ELSE Append(f[i - 1], Saved(Last(f[i - 1]), saves[i]))
      <4>. HIDE DEF N
      <4>. QED BY <1>2, <3>1, Zenon DEF Trails, N
    <3>. QED BY <3>1, <3>2
  <2>. HIDE DEF t
  <2>3. t \in Seq(Y) /\ Len(t) \in 1..i /\ i - 1 \in Nat /\ DOMAIN t = 1..Len(t)
    BY <2>1
  <2>4. CASE Len(t) < i \/ Refused(Last(t), saves[i])
    <3>1. f[i] = t
      BY <2>2, <2>4
    <3>2. Good(t, i)
      <4>1. Len(t) <= i => Len(t) \in DOMAIN saves /\ Refused(Last(t), saves[Len(t)])
        <5>1. CASE Len(t) < i
          BY <2>1, <2>3, <5>1
        <5>2. CASE Len(t) = i
          BY <1>1, <2>4, <5>2
        <5>. QED BY <2>3, <5>1, <5>2
      <4>. QED BY <2>1, <2>3, <4>1
    <3>. HIDE DEF Good
    <3>. QED BY <3>1, <3>2
  <2>5. CASE ~(Len(t) < i \/ Refused(Last(t), saves[i]))
    <3>. DEFINE v == Saved(Last(t), saves[i])
                u == Append(t, v)
    <3>1. Len(t) = i /\ f[i] = u
      BY <2>2, <2>3, <2>5
    <3>2. Last(t) \in G[i - 1]
      BY <2>1, <2>3, <3>1 DEF Last
    <3>3. v \in G[i]
      BY <1>1, <2>5, <3>2
    <3>4. v \in Y
      BY <3>3
    <3>5. Good(u, i)
      <4>. HIDE DEF v, Y
      <4>1. u \in Seq(Y) /\ Len(u) = i + 1 /\ DOMAIN u = 1..(i + 1)
        BY <2>3, <3>1, <3>4
      <4>2. \A j \in DOMAIN u : u[j] \in G[j - 1]
        <5>. SUFFICES ASSUME NEW j \in 1..(i + 1) PROVE u[j] \in G[j - 1]
          BY <4>1
        <5>1. CASE j = i + 1
          <6>1. u[j] = v /\ j - 1 = i
            BY <2>3, <3>1, <3>4, <5>1
          <6>. QED BY <3>3, <6>1
        <5>2. CASE j # i + 1
          <6>1. j \in DOMAIN t /\ u[j] = t[j]
            BY <2>3, <3>1, <3>4, <5>2
          <6>. QED BY <2>1, <6>1
        <5>. QED BY <5>1, <5>2
      <4>. HIDE DEF u
      <4>. QED BY <4>1, <4>2
    <3>. HIDE DEF Good, u
    <3>. QED BY <3>1, <3>5
  <2>. QED BY <2>4, <2>5
<1>5. Good(f[N], N)
  <2>1. \A n \in 1..N : n - 1 \in S => n \in S
    BY <1>4
  <2>. HIDE DEF N, S
  <2>2. N \in S
    BY <1>1, <1>3, <2>1, Climb
  <2>. QED BY <2>2 DEF S
<1>. DEFINE t == Trail(s, saves)
<1>6. Good(t, N)
  BY <1>2, <1>5
<1>. HIDE DEF t
<1>7. /\ t \in Seq(Y) /\ Len(t) \in 1..(N + 1) /\ DOMAIN t = 1..Len(t)
      /\ \A j \in DOMAIN t : t[j] \in G[j - 1]
      /\ Len(t) <= N => Len(t) \in DOMAIN saves /\ Refused(Last(t), saves[Len(t)])
  BY <1>6
<1>8. Whole(s, saves) = t[Len(t)] /\ Partly(s, saves) = {t[j] : j \in DOMAIN t} /\ (Stopped(s, saves) <=> Len(t) <= N)
  BY Zenon DEF Whole, Partly, Stopped, Last, ToSet, t
<1>9. Len(t) \in DOMAIN t /\ \A j \in DOMAIN t : j - 1 \in 0..N
  BY <1>1, <1>7
<1>10. t[Len(t)] \in G[Len(t) - 1]
  BY <1>7, <1>9
<1>11. ~(Len(t) <= N) => Len(t) - 1 = N
  <2>1. N \in Nat
    BY <1>1
  <2>2. Len(t) \in 1..(N + 1)
    BY <1>7, Zenon
  <2>. DEFINE L == Len(t)
  <2>. HIDE DEF N, L
  <2>3. L \in 1..(N + 1)
    BY <2>2 DEF L
  <2>4. ~(L <= N) => L - 1 = N
    BY <2>1, <2>3
  <2>. QED BY <2>4 DEF L
<1>. HIDE DEF Good, Y
<1>. QED BY <1>7, <1>8, <1>9, <1>10, <1>11 DEF Last

-----------------------------------------------------------------------------
(***************************************************************************)
(* What a sweep's saves leave as it was.  Seen from the database b that    *)
(* the sweep was worked out from: nobody is confirmed or put on a          *)
(* waitlist, no row, ticket or token is anyone else's, and no token that   *)
(* is spent is spent again.                                                *)
(***************************************************************************)
Kept(r, b) ==
    /\ Len(b) <= Len(r)
    /\ \A k \in DOMAIN b :
          /\ r[k].who = b[k].who /\ r[k].place = b[k].place
          /\ r[k].status = b[k].status \/ r[k].status \in {"selected", "released"}
          /\ b[k].status \in {"confirmed", "waitlisted", "released"} => r[k].status = b[k].status
    /\ \A k \in DOMAIN r : k > Len(b) => r[k].status \in {"selected", "released"}

SameApplicants(q, b) ==
    /\ Len(q) = Len(b)
    /\ \A k \in DOMAIN b : q[k].who = b[k].who /\ q[k].wishes = b[k].wishes

SameHolders(ts, b) ==
    /\ Len(b) <= Len(ts)
    /\ \A k \in DOMAIN b :
          /\ ts[k].holder = b[k].holder /\ ts[k].source = b[k].source
          /\ b[k].redeemed => ts[k] = b[k]

Grown(b) ==
    {t \in Databases :
        /\ Sound(t) /\ b.drawn \subseteq t.drawn
        /\ \A e \in Events : Kept(t.rows[e], b.rows[e])
        /\ \A x \in Clusters : SameApplicants(t.tickets[x], b.tickets[x])
        /\ SameHolders(t.tokens, b.tokens)}

(* The saves that a sweep may make of b. *)
RowSaves(b) ==
    {w \in [save : {"row"}, event : Events, at : Nat, to : {"selected", "released"}] :
        /\ w.at \in DOMAIN b.rows[w.event]
        /\ w.to = "selected" => b.rows[w.event][w.at].status = "entered"
        /\ w.to = "released" => b.rows[w.event][w.at].status \in {"selected", "invited"}}
NewRowSaves ==
    {w \in [save : {"seat"}, event : Events, who : Everyone] : Clustered(w.event)}
TicketSaves(b) ==
    {w \in [save : {"ticket"}, cluster : Clusters, at : Nat, to : {"seated", "unseated"}] :
        w.at \in DOMAIN b.tickets[w.cluster]}
TokenSaves(b) ==
    {w \in [save : {"token"}, at : Nat, use : Jobs] :
        w.at \in DOMAIN b.tokens /\ ~b.tokens[w.at].redeemed}
NewTokenSaves == [save : {"issue"}, who : Everyone, source : Clusters \cup {None}]
DrawnSaves == [save : {"drawn"}, event : Staff]
SavesOf(b) ==
    RowSaves(b) \cup NewRowSaves \cup TicketSaves(b) \cup TokenSaves(b) \cup NewTokenSaves \cup DrawnSaves

(* A calendar's events and clusters are among those of the constants. *)
InSchedule == Events \in Schedules /\ Clusters = {x \in DOMAIN Members : Members[x] \subseteq Events}

LEMMA ClusteredIsStaff ==
    ASSUME InSchedule, NEW e, Clustered(e)
    PROVE  e \in Staff /\ e \in Events
BY CalendarAssumption DEF InSchedule, Clustered

LEMMA KeptSet ==
    ASSUME NEW b, NEW r \in Seq(Rows), NEW p \in Seq(Rows), NEW k \in DOMAIN p, NEW status \in {"selected", "released"},
           Kept(r, p), p[k].status \in {"entered", "selected", "invited"}
    PROVE  /\ k \in DOMAIN r
           /\ [r EXCEPT ![k].status = status] \in Seq(Rows)
           /\ Kept([r EXCEPT ![k].status = status], p)
<1>1. k \in DOMAIN r /\ DOMAIN r = 1..Len(r) /\ DOMAIN p = 1..Len(p) /\ Len(r) \in Nat /\ Len(p) \in Nat
  BY DEF Kept
<1>2. r[k] \in Rows
  BY <1>1
<1>. DEFINE v == [r[k] EXCEPT !.status = status]
            q == [r EXCEPT ![k] = v]
<1>3. v \in Rows /\ v.who = r[k].who /\ v.place = r[k].place /\ v.status = status
  BY <1>2 DEF Rows, Statuses
<1>. HIDE DEF v
<1>4. q \in Seq(Rows) /\ DOMAIN q = DOMAIN r /\ Len(q) = Len(r) /\ q[k] = v /\ \A l \in DOMAIN r : l # k => q[l] = r[l]
  BY <1>1, <1>3
<1>. HIDE DEF q
<1>5. Kept(q, p)
  BY <1>1, <1>3, <1>4, SMTT(20) DEF Kept
<1>6. q = [r EXCEPT ![k].status = status]
  BY DEF q, v
<1>. QED BY <1>1, <1>4, <1>5, <1>6

LEMMA RowsSoundSet ==
    ASSUME NEW e, NEW r \in Seq(Rows), RowsSound(e, r), NEW k \in DOMAIN r, NEW status \in {"selected", "released"},
           status = "selected" => e \in Staff
    PROVE  RowsSound(e, [r EXCEPT ![k].status = status])
<1>1. DOMAIN r = 1..Len(r) /\ r[k] \in Rows
  OBVIOUS
<1>. DEFINE v == [r[k] EXCEPT !.status = status]
            q == [r EXCEPT ![k] = v]
<1>2. v.who = r[k].who /\ v.place = r[k].place /\ v.status = status
  BY <1>1 DEF Rows
<1>. HIDE DEF v
<1>3. DOMAIN q = DOMAIN r /\ q[k] = v /\ \A l \in DOMAIN r : l # k => q[l] = r[l]
  BY <1>1
<1>. HIDE DEF q
<1>4. \A l \in DOMAIN q : q[l].who = r[l].who /\ q[l].place = r[l].place /\ (q[l].status = r[l].status \/ q[l].status = status)
  BY <1>2, <1>3
<1>5. \A l \in DOMAIN q :
          /\ ~Clustered(e) => q[l].who \in Interest[e]
          /\ q[l].status \in {"entered", "selected"} => e \in Staff
          /\ q[l].status = "waitlisted" => e \notin Staff
          /\ q[l].status = "invited" => ~(e \in Staff /\ e \in StaffHosted)
  BY <1>3, <1>4 DEF RowsSound
<1>6. ASSUME NEW l \in DOMAIN q, NEW m \in DOMAIN q, l < m
      PROVE  /\ q[l].who # q[m].who
             /\ {q[l].status, q[m].status} = {"waitlisted"} => q[l].place < q[m].place
  <2>1. /\ r[l].who # r[m].who
        /\ {r[l].status, r[m].status} = {"waitlisted"} => r[l].place < r[m].place
    BY <1>3, <1>6 DEF RowsSound
  <2>2. {q[l].status, q[m].status} = {"waitlisted"} => {r[l].status, r[m].status} = {"waitlisted"}
    BY <1>4
  <2>. QED BY <1>4, <2>1, <2>2
<1>7. RowsSound(e, q)
  BY <1>5, <1>6 DEF RowsSound
<1>. QED BY <1>7 DEF q, v

LEMMA RowsSoundAppend ==
    ASSUME NEW e, NEW r \in Seq(Rows), RowsSound(e, r), NEW row \in Rows, RowOf(r, row.who) = 0,
           ~Clustered(e) => row.who \in Interest[e],
           row.status \in {"entered", "selected"} => e \in Staff,
           row.status = "waitlisted" => e \notin Staff /\ \A k \in DOMAIN r : r[k].status = "waitlisted" => r[k].place < row.place,
           row.status = "invited" => ~(e \in Staff /\ e \in StaffHosted)
    PROVE  Append(r, row) \in Seq(Rows) /\ RowsSound(e, Append(r, row))
<1>. DEFINE q == Append(r, row)
            n == Len(r) + 1
<1>1. DOMAIN r = 1..Len(r) /\ Len(r) \in Nat
  OBVIOUS
<1>2. q \in Seq(Rows) /\ DOMAIN q = 1..n /\ q[n] = row /\ \A k \in DOMAIN r : q[k] = r[k]
  OBVIOUS
<1>3. \A k \in DOMAIN r : r[k].who # row.who
  BY RowOfMeans
<1>. HIDE DEF q
<1>4. \A k \in DOMAIN q : k = n \/ k \in DOMAIN r
  BY <1>1, <1>2
<1>5. \A k \in DOMAIN q :
          /\ ~Clustered(e) => q[k].who \in Interest[e]
          /\ q[k].status \in {"entered", "selected"} => e \in Staff
          /\ q[k].status = "waitlisted" => e \notin Staff
          /\ q[k].status = "invited" => ~(e \in Staff /\ e \in StaffHosted)
  BY <1>2, <1>4 DEF RowsSound
<1>6. ASSUME NEW k \in DOMAIN q, NEW l \in DOMAIN q, k < l
      PROVE  /\ q[k].who # q[l].who
             /\ {q[k].status, q[l].status} = {"waitlisted"} => q[k].place < q[l].place
  <2>1. k \in DOMAIN r /\ q[k] = r[k]
    BY <1>1, <1>2, <1>6
  <2>2. CASE l = n
    BY <1>2, <1>3, <2>1, <2>2
  <2>3. CASE l # n
    <3>1. l \in DOMAIN r /\ q[l] = r[l]
      BY <1>2, <1>4, <2>3
    <3>. QED BY <1>6, <2>1, <3>1 DEF RowsSound
  <2>. QED BY <2>2, <2>3
<1>. QED BY <1>2, <1>5, <1>6 DEF RowsSound, q

(* A save of the sweep's leads from what has grown from b to the same. *)
LEMMA SaveGrows ==
    ASSUME InSchedule, NEW b, Sound(b), NEW t \in Grown(b), NEW w \in SavesOf(b), ~Refused(t, w)
    PROVE  Saved(t, w) \in Grown(b)
<1>. DEFINE u == Saved(t, w)
<1>1. /\ t \in Databases /\ Sound(t) /\ b \in Databases
      /\ b.drawn \subseteq t.drawn
      /\ \A e \in Events : Kept(t.rows[e], b.rows[e]) /\ t.rows[e] \in Seq(Rows) /\ RowsSound(e, t.rows[e])
                             /\ b.rows[e] \in Seq(Rows) /\ RowsSound(e, b.rows[e])
      /\ \A x \in Clusters : SameApplicants(t.tickets[x], b.tickets[x])
      /\ SameHolders(t.tokens, b.tokens)
  BY DEF Grown, Sound, Databases
<1>2. /\ t.rows \in [Events -> Seq(Rows)] /\ t.tokens \in Seq(Tokens) /\ t.drawn \subseteq Staff
      /\ t.tickets \in [Clusters -> Seq(UNION {Applications(x) : x \in Clusters})]
      /\ b.tokens \in Seq(Tokens)
      /\ \A x \in Clusters : TicketsSound(x, t.tickets[x]) /\ TicketsSound(x, b.tickets[x])
  BY <1>1 DEF Databases, Sound
<1>3. CASE w \in RowSaves(b)
  <2>. DEFINE e == w.event
              k == w.at
              q == [t.rows[e] EXCEPT ![k].status = w.to]
              v == [t.rows EXCEPT ![e] = q]
  <2>1. e \in Events /\ k \in DOMAIN b.rows[e] /\ w.save = "row" /\ w.to \in {"selected", "released"}
    BY <1>3 DEF RowSaves
  <2>2. /\ b.rows[e][k].status \in {"entered", "selected", "invited"}
        /\ w.to = "selected" => b.rows[e][k].status = "entered"
    BY <1>3 DEF RowSaves
  <2>3. w.to = "selected" => e \in Staff
    BY <1>1, <2>1, <2>2 DEF RowsSound
  <2>4. k \in DOMAIN t.rows[e] /\ q \in Seq(Rows) /\ Kept(q, b.rows[e])
    BY <1>1, <2>1, <2>2, KeptSet
  <2>5. RowsSound(e, q)
    BY <1>1, <2>1, <2>3, <2>4, RowsSoundSet
  <2>6. u = [t EXCEPT !.rows[e][k].status = w.to]
    BY <2>1 DEF Saved
  <2>7. u = [t EXCEPT !.rows = v]
    BY <1>1, <2>6 DEF Databases
  <2>. HIDE DEF e, k, q, u
  <2>8. v \in [Events -> Seq(Rows)] /\ v[e] = q /\ \A d \in Events : d # e => v[d] = t.rows[d]
    BY <1>2, <2>1, <2>4
  <2>. HIDE DEF v
  <2>9. u \in Databases /\ u.rows = v /\ u.tickets = t.tickets /\ u.tokens = t.tokens /\ u.drawn = t.drawn
    BY <1>1, <1>2, <2>7, <2>8 DEF Databases
  <2>10. \A d \in Events : RowsSound(d, u.rows[d]) /\ Kept(u.rows[d], b.rows[d])
    BY <1>1, <2>4, <2>5, <2>8, <2>9
  <2>. QED BY <1>1, <1>2, <2>9, <2>10 DEF Grown, Sound, u
<1>4. CASE w \in NewRowSaves
  <2>. DEFINE e == w.event
              row == Row(w.who, "selected", 0)
              q == Append(t.rows[e], row)
              v == [t.rows EXCEPT ![e] = q]
  <2>1. e \in Events /\ Clustered(e) /\ w.save = "seat" /\ w.who \in Everyone
    BY <1>4 DEF NewRowSaves
  <2>2. e \in Staff
    BY <2>1, ClusteredIsStaff
  <2>3. row \in Rows /\ row.who = w.who /\ row.status = "selected"
    BY <2>1 DEF Row, Rows, Statuses
  <2>4. RowOf(t.rows[e], row.who) = 0
    BY <2>1, <2>3 DEF Refused
  <2>5. q \in Seq(Rows) /\ RowsSound(e, q)
    <3>. HIDE DEF row, e
    <3>. QED BY <1>1, <2>1, <2>2, <2>3, <2>4, RowsSoundAppend
  <2>6. Kept(q, b.rows[e])
    <3>. DEFINE r == t.rows[e]
                p == b.rows[e]
    <3>1. r \in Seq(Rows) /\ p \in Seq(Rows) /\ Kept(r, p)
      BY <1>1, <2>1
    <3>. HIDE DEF row, e, r, p
    <3>2. DOMAIN r = 1..Len(r) /\ DOMAIN p = 1..Len(p) /\ Len(p) <= Len(r) /\ Len(r) \in Nat /\ Len(p) \in Nat
      BY <3>1 DEF Kept
    <3>3. /\ DOMAIN Append(r, row) = 1..(Len(r) + 1) /\ Len(Append(r, row)) = Len(r) + 1
          /\ Append(r, row)[Len(r) + 1] = row /\ \A k \in DOMAIN r : Append(r, row)[k] = r[k]
      BY <2>3, <3>1
    <3>4. Kept(Append(r, row), p)
      BY <2>3, <3>1, <3>2, <3>3 DEF Kept
    <3>. QED BY <3>4 DEF r, p
  <2>7. u = [t EXCEPT !.rows[e] = Append(@, row)]
    BY <2>1 DEF Saved
  <2>8. u = [t EXCEPT !.rows = v]
    BY <1>1, <2>7 DEF Databases
  <2>. HIDE DEF e, q, u, row
  <2>9. v \in [Events -> Seq(Rows)] /\ v[e] = q /\ \A d \in Events : d # e => v[d] = t.rows[d]
    BY <1>2, <2>1, <2>5
  <2>. HIDE DEF v
  <2>10. u \in Databases /\ u.rows = v /\ u.tickets = t.tickets /\ u.tokens = t.tokens /\ u.drawn = t.drawn
    BY <1>1, <1>2, <2>8, <2>9 DEF Databases
  <2>11. \A d \in Events : RowsSound(d, u.rows[d]) /\ Kept(u.rows[d], b.rows[d])
    BY <1>1, <2>5, <2>6, <2>9, <2>10
  <2>. QED BY <1>1, <1>2, <2>10, <2>11 DEF Grown, Sound, u
<1>5. CASE w \in TicketSaves(b)
  <2>. DEFINE x == w.cluster
              k == w.at
              old == t.tickets[x]
              a == [old[k] EXCEPT !.status = w.to]
              q == [old EXCEPT ![k] = a]
              v == [t.tickets EXCEPT ![x] = q]
  <2>1. x \in Clusters /\ k \in DOMAIN b.tickets[x] /\ w.save = "ticket" /\ w.to \in {"seated", "unseated"}
    BY <1>5 DEF TicketSaves
  <2>2. u = [t EXCEPT !.tickets[x][k].status = w.to]
    BY <2>1 DEF Saved
  <2>3. u = [t EXCEPT !.tickets = v]
    BY <1>1, <2>2 DEF Databases
  <2>. HIDE DEF x, k, u
  <2>4. /\ old \in Seq(Applications(x)) /\ SameApplicants(old, b.tickets[x]) /\ b.tickets[x] \in Seq(Applications(x))
        /\ \A m, n \in DOMAIN old : m # n => old[m].who # old[n].who
    BY <1>1, <1>2, <2>1 DEF TicketsSound
  <2>. HIDE DEF old
  <2>5. DOMAIN old = 1..Len(old) /\ DOMAIN b.tickets[x] = DOMAIN old /\ k \in DOMAIN old
    BY <2>1, <2>4 DEF SameApplicants
  <2>6. old[k] \in Applications(x)
    BY <2>4, <2>5
  <2>7. a \in Applications(x) /\ a.who = old[k].who /\ a.wishes = old[k].wishes
    BY <2>1, <2>6 DEF Applications
  <2>. HIDE DEF a
  <2>8. q \in Seq(Applications(x)) /\ DOMAIN q = DOMAIN old /\ Len(q) = Len(old) /\ q[k] = a /\ \A m \in DOMAIN old : m # k => q[m] = old[m]
    BY <2>4, <2>5, <2>7
  <2>. HIDE DEF q
  <2>9. \A m \in DOMAIN q : q[m].who = old[m].who /\ q[m].wishes = old[m].wishes
    BY <2>7, <2>8
  <2>10. TicketsSound(x, q)
    BY <2>4, <2>8, <2>9 DEF TicketsSound
  <2>11. SameApplicants(q, b.tickets[x])
    BY <2>4, <2>5, <2>8, <2>9 DEF SameApplicants
  <2>12. q \in Seq(UNION {Applications(y) : y \in Clusters})
    BY <2>1, <2>8
  <2>13. v \in [Clusters -> Seq(UNION {Applications(y) : y \in Clusters})] /\ v[x] = q /\ \A y \in Clusters : y # x => v[y] = t.tickets[y]
    BY <1>2, <2>1, <2>12
  <2>. HIDE DEF v
  <2>14. u \in Databases /\ u.rows = t.rows /\ u.tickets = v /\ u.tokens = t.tokens /\ u.drawn = t.drawn
    BY <1>1, <1>2, <2>3, <2>13 DEF Databases
  <2>15. \A y \in Clusters : TicketsSound(y, u.tickets[y]) /\ SameApplicants(u.tickets[y], b.tickets[y])
    BY <1>1, <1>2, <2>10, <2>11, <2>13, <2>14
  <2>. QED BY <1>1, <2>14, <2>15 DEF Grown, Sound, u
<1>6. CASE w \in TokenSaves(b)
  <2>. DEFINE k == w.at
              old == t.tokens
              a == [old[k] EXCEPT !.use = w.use, !.redeemed = TRUE]
              q == [old EXCEPT ![k] = a]
  <2>1. k \in DOMAIN b.tokens /\ w.save = "token" /\ w.use \in Jobs /\ ~b.tokens[k].redeemed
    BY <1>6 DEF TokenSaves
  <2>2. u = [t EXCEPT !.tokens[k].use = w.use, !.tokens[k].redeemed = TRUE]
    BY <2>1 DEF Saved
  <2>3. DOMAIN old = 1..Len(old) /\ k \in DOMAIN old /\ DOMAIN b.tokens = 1..Len(b.tokens) /\ DOMAIN b.tokens \subseteq DOMAIN old
    BY <1>1, <1>2, <2>1 DEF SameHolders
  <2>4. old[k] \in Tokens
    BY <1>2, <2>3
  <2>5. u = [t EXCEPT !.tokens = q]
    BY <1>1, <1>2, <2>2, <2>3, <2>4 DEF Databases, Tokens
  <2>. HIDE DEF k, u
  <2>6. a \in Tokens /\ a.holder = old[k].holder /\ a.source = old[k].source
    BY <2>1, <2>4 DEF Tokens
  <2>. HIDE DEF a
  <2>7. q \in Seq(Tokens) /\ DOMAIN q = DOMAIN old /\ Len(q) = Len(old) /\ q[k] = a /\ \A m \in DOMAIN old : m # k => q[m] = old[m]
    BY <1>2, <2>3, <2>6
  <2>. HIDE DEF q
  <2>8. SameHolders(q, b.tokens)
    BY <1>1, <2>1, <2>3, <2>6, <2>7 DEF SameHolders
  <2>9. u \in Databases /\ u.rows = t.rows /\ u.tickets = t.tickets /\ u.tokens = q /\ u.drawn = t.drawn
    BY <1>1, <1>2, <2>5, <2>7 DEF Databases
  <2>. QED BY <1>1, <1>2, <2>8, <2>9 DEF Grown, Sound, u
<1>7. CASE w \in NewTokenSaves
  <2>. DEFINE a == NewToken(w.who, w.source)
              old == t.tokens
              q == Append(old, a)
  <2>1. w.save = "issue" /\ w.who \in Everyone /\ w.source \in Clusters \cup {None}
    BY <1>7 DEF NewTokenSaves
  <2>2. a \in Tokens
    BY <2>1 DEF NewToken, Tokens
  <2>3. u = [t EXCEPT !.tokens = q]
    BY <2>1 DEF Saved
  <2>. HIDE DEF a, u
  <2>4. DOMAIN b.tokens = 1..Len(b.tokens) /\ Len(b.tokens) <= Len(old) /\ Len(old) \in Nat /\ Len(b.tokens) \in Nat
    BY <1>1, <1>2 DEF SameHolders
  <2>5. q \in Seq(Tokens) /\ Len(q) = Len(old) + 1 /\ \A k \in 1..Len(old) : q[k] = old[k]
    BY <1>2, <2>2
  <2>. HIDE DEF q
  <2>6. SameHolders(q, b.tokens)
    BY <1>1, <2>4, <2>5 DEF SameHolders
  <2>7. u \in Databases /\ u.rows = t.rows /\ u.tickets = t.tickets /\ u.tokens = q /\ u.drawn = t.drawn
    BY <1>1, <1>2, <2>3, <2>5 DEF Databases
  <2>. QED BY <1>1, <1>2, <2>6, <2>7 DEF Grown, Sound, u
<1>8. CASE w \in DrawnSaves
  <2>1. w.save = "drawn" /\ w.event \in Staff
    BY <1>8 DEF DrawnSaves
  <2>2. u = [t EXCEPT !.drawn = @ \cup {w.event}]
    BY <2>1 DEF Saved
  <2>. HIDE DEF u
  <2>3. u \in Databases /\ u.rows = t.rows /\ u.tickets = t.tickets /\ u.tokens = t.tokens /\ u.drawn = t.drawn \cup {w.event}
    BY <1>1, <1>2, <2>1, <2>2 DEF Databases
  <2>. QED BY <1>1, <1>2, <2>3 DEF Grown, Sound, u
<1>. QED BY <1>3, <1>4, <1>5, <1>6, <1>7, <1>8 DEF SavesOf

-----------------------------------------------------------------------------
(* A trail of a sweep's saves stays within what grows from where it began. *)
LEMMA GrownSelf ==
    ASSUME NEW b, Sound(b)
    PROVE  b \in Grown(b)
<1>1. /\ b \in Databases
      /\ \A e \in Events : b.rows[e] \in Seq(Rows)
      /\ \A x \in Clusters : b.tickets[x] \in Seq(Applications(x))
      /\ b.tokens \in Seq(Tokens)
  BY DEF Sound, Databases, TicketsSound
<1>2. \A e \in Events : Kept(b.rows[e], b.rows[e])
  BY <1>1 DEF Kept
<1>3. \A x \in Clusters : SameApplicants(b.tickets[x], b.tickets[x])
  BY <1>1 DEF SameApplicants
<1>4. SameHolders(b.tokens, b.tokens)
  BY <1>1 DEF SameHolders
<1>. QED BY <1>1, <1>2, <1>3, <1>4 DEF Grown

LEMMA GrownTwice ==
    ASSUME NEW b, Sound(b), NEW t \in Grown(b), NEW u \in Grown(t)
    PROVE  u \in Grown(b)
<1>1. /\ b \in Databases /\ t \in Databases /\ u \in Databases
      /\ Sound(t) /\ Sound(u)
      /\ u.drawn \in SUBSET Staff /\ b.drawn \subseteq u.drawn
  BY DEF Sound, Grown, Databases
<1>2. ASSUME NEW e \in Events PROVE Kept(u.rows[e], b.rows[e])
  <2>1. b.rows[e] \in Seq(Rows) /\ t.rows[e] \in Seq(Rows) /\ u.rows[e] \in Seq(Rows)
    BY <1>1 DEF Databases
  <2>2. Kept(t.rows[e], b.rows[e]) /\ Kept(u.rows[e], t.rows[e])
    BY DEF Grown
  <2>. DEFINE p == b.rows[e]
              q == t.rows[e]
              r == u.rows[e]
  <2>. HIDE DEF p, q, r
  <2>3. p \in Seq(Rows) /\ q \in Seq(Rows) /\ r \in Seq(Rows) /\ Kept(q, p) /\ Kept(r, q)
    BY <2>1, <2>2 DEF p, q, r
  <2>4. DOMAIN p = 1..Len(p) /\ DOMAIN q = 1..Len(q) /\ DOMAIN r = 1..Len(r) /\ Len(p) \in Nat /\ Len(q) \in Nat
        /\ Len(r) \in Nat /\ Len(p) <= Len(q) /\ Len(q) <= Len(r)
    BY <2>3 DEF Kept
  <2>5. ASSUME NEW k \in DOMAIN p
        PROVE  /\ r[k].who = p[k].who /\ r[k].place = p[k].place
               /\ r[k].status = p[k].status \/ r[k].status \in {"selected", "released"}
               /\ p[k].status \in {"confirmed", "waitlisted", "released"} => r[k].status = p[k].status
    <3>1. k \in DOMAIN q
      BY <2>4
    <3>. QED BY <2>3, <3>1 DEF Kept
  <2>6. ASSUME NEW k \in DOMAIN r, k > Len(p) PROVE r[k].status \in {"selected", "released"}
    <3>1. CASE k \in DOMAIN q
      BY <2>3, <2>6, <3>1 DEF Kept
    <3>2. CASE k \notin DOMAIN q
      <4>1. k > Len(q)
        BY <2>4, <3>2
      <4>. QED BY <2>3, <4>1 DEF Kept
    <3>. QED BY <3>1, <3>2
  <2>7. Kept(r, p)
    BY <2>4, <2>5, <2>6 DEF Kept
  <2>. QED BY <2>7 DEF p, r
<1>3. ASSUME NEW x \in Clusters PROVE SameApplicants(u.tickets[x], b.tickets[x])
  <2>1. b.tickets[x] \in Seq(Applications(x)) /\ t.tickets[x] \in Seq(Applications(x))
    BY <1>1 DEF Sound, TicketsSound
  <2>2. SameApplicants(t.tickets[x], b.tickets[x]) /\ SameApplicants(u.tickets[x], t.tickets[x])
    BY DEF Grown
  <2>. QED BY <2>1, <2>2 DEF SameApplicants
<1>4. SameHolders(u.tokens, b.tokens)
  <2>1. b.tokens \in Seq(Tokens) /\ t.tokens \in Seq(Tokens) /\ u.tokens \in Seq(Tokens)
    BY <1>1 DEF Databases
  <2>2. SameHolders(t.tokens, b.tokens) /\ SameHolders(u.tokens, t.tokens)
    BY DEF Grown
  <2>. QED BY <2>1, <2>2 DEF SameHolders
<1>. QED BY <1>1, <1>2, <1>3, <1>4 DEF Grown

LEMMA GrownTrail ==
    ASSUME InSchedule, NEW b, Sound(b), NEW saves \in Seq(SavesOf(b))
    PROVE  Partly(b, saves) \subseteq Grown(b) /\ Whole(b, saves) \in Grown(b)
<1>. DEFINE G == [n \in 0..Len(saves) |-> Grown(b)]
<1>1. Len(saves) \in Nat /\ DOMAIN saves = 1..Len(saves)
  OBVIOUS
<1>2. \A n \in 0..Len(saves) : G[n] = Grown(b)
  OBVIOUS
<1>. HIDE DEF G
<1>3. b \in G[0]
  BY <1>1, <1>2, GrownSelf
<1>4. \A n \in DOMAIN saves : \A t \in G[n - 1] : Refused(t, saves[n]) \/ Saved(t, saves[n]) \in G[n]
  <2>1. \A n \in DOMAIN saves : n \in 0..Len(saves) /\ n - 1 \in 0..Len(saves) /\ saves[n] \in SavesOf(b)
    BY <1>1
  <2>. QED BY <1>2, <2>1, SaveGrows
<1>5. \A t \in Partly(b, saves) : \E n \in 0..Len(saves) : t \in G[n]
  BY <1>3, <1>4, TrailSteps
<1>6. Whole(b, saves) \in Partly(b, saves)
  BY <1>3, <1>4, TrailSteps
<1>. QED BY <1>2, <1>5, <1>6

(***************************************************************************)
(* Each sweep's saves are of that kind.                                    *)
(***************************************************************************)
LEMMA AtMeans ==
    ASSUME NEW S, NEW r \in Seq(S), NEW status
    PROVE  /\ At(r, status) \in SUBSET (Nat \ {0}) /\ At(r, status) \subseteq DOMAIN r
           /\ IsFiniteSet(At(r, status)) /\ IsFiniteSet(DOMAIN r) /\ Cardinality(At(r, status)) \in Nat
<1>1. IsFiniteSet(1..Len(r)) /\ DOMAIN r = 1..Len(r) /\ Len(r) \in Nat
  BY FS_Interval
<1>2. At(r, status) \subseteq DOMAIN r
  BY DEF At
<1>. QED BY <1>1, <1>2, FS_Subset, FS_CardinalityType

LEMMA MinOfTwo ==
    ASSUME NEW m \in Nat, NEW n \in Nat
    PROVE  Min({m, n}) \in Nat /\ Min({m, n}) <= m /\ Min({m, n}) <= n /\ (Min({m, n}) = m \/ Min({m, n}) = n)
BY MinMeans

(* The first n of a sequence, as tokens and backfills take them. *)
First(pool, n) == SubSeq(pool, 1, Min({Len(pool), n}))

LEMMA FirstMeans ==
    ASSUME NEW S, NEW pool \in Seq(S), NEW n \in Nat
    PROVE  /\ First(pool, n) \in Seq(S) /\ Len(First(pool, n)) <= n /\ Len(First(pool, n)) <= Len(pool)
           /\ \A k \in DOMAIN First(pool, n) : k \in DOMAIN pool /\ First(pool, n)[k] = pool[k]
<1>. DEFINE m == Min({Len(pool), n})
<1>1. m \in Nat /\ m <= Len(pool) /\ m <= n
  BY MinOfTwo
<1>2. First(pool, n) = SubSeq(pool, 1, m)
  BY DEF First
<1>. HIDE DEF m
<1>3. First(pool, n) \in Seq(S) /\ Len(First(pool, n)) = m /\ \A k \in 1..m : First(pool, n)[k] = pool[k]
  BY <1>1, <1>2
<1>4. DOMAIN First(pool, n) = 1..m /\ DOMAIN pool = 1..Len(pool)
  BY <1>3
<1>. QED BY <1>1, <1>3, <1>4

LEMMA FlattenSeqs ==
    ASSUME NEW W, NEW seqs \in Seq(Seq(W))
    PROVE  FlattenSeq(seqs) \in Seq(W)
<1>. DEFINE V == Seq(W)
<1>1. V \in SUBSET Seq(W) /\ <<>> \in V /\ (\A s, t \in V : s \o t \in V) /\ seqs \in Seq(V)
  OBVIOUS
<1>2. FlattenSeq(seqs) \in V
  <2>. HIDE DEF V
  <2>. QED BY <1>1, FlattenClosed
<1>. QED BY <1>2

(* The rows a lottery may seat by a token. *)
Holders(e, s) == {k \in At(s.rows[e], "entered") : TokenOf(s.tokens, s.rows[e][k].who, None) # 0}

LEMMA HoldingMeans ==
    ASSUME NEW e, NEW s, s.rows[e] \in Seq(Rows), Cap[e] \in Nat
    PROVE  /\ Holding(e, s) \in Seq(Holders(e, s)) /\ Len(Holding(e, s)) <= Cap[e]
           /\ \A m, n \in DOMAIN Holding(e, s) : m # n => Holding(e, s)[m] # Holding(e, s)[n]
<1>. DEFINE I == Holders(e, s)
            pool == InOrder(I)
<1>1. At(s.rows[e], "entered") \in SUBSET (Nat \ {0}) /\ IsFiniteSet(At(s.rows[e], "entered"))
  BY AtMeans
<1>2. I \in SUBSET (Nat \ {0}) /\ IsFiniteSet(I)
  BY <1>1, FS_Subset DEF Holders
<1>3. Holding(e, s) = First(pool, Cap[e])
  BY Zenon DEF Holding, First, Holders
<1>. HIDE DEF I
<1>4. pool \in Seq(I) /\ \A m, n \in DOMAIN pool : m # n => pool[m] # pool[n]
  BY <1>2, InOrderMeans
<1>. HIDE DEF pool
<1>5. /\ Holding(e, s) \in Seq(I) /\ Len(Holding(e, s)) <= Cap[e]
      /\ \A k \in DOMAIN Holding(e, s) : k \in DOMAIN pool /\ Holding(e, s)[k] = pool[k]
  BY <1>3, <1>4, FirstMeans
<1>. QED BY <1>4, <1>5 DEF I

LEMMA SelectedSaves ==
    ASSUME NEW b, Sound(b), NEW e \in Events, NEW places \in Seq(At(b.rows[e], "entered"))
    PROVE  Selected(e, places) \in Seq(RowSaves(b)) /\ Len(Selected(e, places)) = Len(places)
<1>1. b.rows[e] \in Seq(Rows)
  BY DEF Sound, Databases
<1>2. \A k \in At(b.rows[e], "entered") : Becomes(e, k, "selected") \in RowSaves(b)
  <2>1. At(b.rows[e], "entered") \subseteq Nat /\ At(b.rows[e], "entered") \subseteq DOMAIN b.rows[e]
    BY <1>1, AtMeans
  <2>. QED BY <2>1 DEF Becomes, RowSaves, At
<1>3. \A n \in DOMAIN places : places[n] \in At(b.rows[e], "entered")
  OBVIOUS
<1>4. Selected(e, places) = [n \in 1..Len(places) |-> Becomes(e, places[n], "selected")]
  BY DEF Selected
<1>. QED BY <1>2, <1>3, <1>4

LEMMA TokenSaved ==
    ASSUME NEW b, Sound(b), NEW c, NEW source, TokenOf(b.tokens, c, source) # 0, NEW use \in Jobs
    PROVE  Redeems(TokenOf(b.tokens, c, source), use) \in TokenSaves(b)
<1>1. b.tokens \in Seq(Tokens)
  BY DEF Sound, Databases
<1>2. /\ TokenOf(b.tokens, c, source) \in DOMAIN b.tokens
      /\ Usable(b.tokens[TokenOf(b.tokens, c, source)], c, source)
  BY <1>1, TokenOfMeans
<1>. DEFINE t == TokenOf(b.tokens, c, source)
<1>. HIDE DEF t
<1>3. t \in DOMAIN b.tokens /\ ~b.tokens[t].redeemed /\ t \in Nat
  BY <1>1, <1>2 DEF Usable, t
<1>4. Redeems(t, use) \in TokenSaves(b)
  BY <1>3 DEF Redeems, TokenSaves
<1>. QED BY <1>4 DEF t

LEMMA SeatedByTokenSaves ==
    ASSUME NEW b, Sound(b), NEW e \in Events, NEW k \in At(b.rows[e], "entered"),
           TokenOf(b.tokens, b.rows[e][k].who, None) # 0
    PROVE  SeatedByToken(e, b, k) \in Seq(TokenSaves(b) \cup RowSaves(b))
<1>1. Redeems(TokenOf(b.tokens, b.rows[e][k].who, None), e) \in TokenSaves(b)
  BY TokenSaved DEF Jobs
<1>2. Becomes(e, k, "selected") \in RowSaves(b)
  <2>1. b.rows[e] \in Seq(Rows)
    BY DEF Sound, Databases
  <2>2. At(b.rows[e], "entered") \subseteq Nat /\ At(b.rows[e], "entered") \subseteq DOMAIN b.rows[e]
    BY <2>1, AtMeans
  <2>. QED BY <2>2 DEF Becomes, RowSaves, At
<1>. QED BY <1>1, <1>2 DEF SeatedByToken

(* Whom a lottery samples are entered and not among the holders seated. *)
LEMMA SampledMeans ==
    ASSUME NEW e, NEW s, s.rows[e] \in Seq(Rows), Cap[e] \in Nat, NEW W \in Sampled(e, s), NEW others \in SetToSeqs(W)
    PROVE  /\ others \in Seq(At(s.rows[e], "entered"))
           /\ ToSet(others) \subseteq At(s.rows[e], "entered") \ ToSet(Holding(e, s))
           /\ Len(others) + Len(Holding(e, s)) <= Cap[e]
           /\ \A m, n \in DOMAIN others : m # n => others[m] # others[n]
<1>. DEFINE pool == At(s.rows[e], "entered") \ ToSet(Holding(e, s))
<1>1. Len(Holding(e, s)) \in Nat /\ Len(Holding(e, s)) <= Cap[e]
  BY HoldingMeans
<1>2. IsFiniteSet(pool) /\ Cardinality(pool) \in Nat
  BY AtMeans, FS_Subset, FS_CardinalityType
<1>3. W \in SUBSET pool /\ Cardinality(W) = Min({Cap[e] - Len(Holding(e, s)), Cardinality(pool)})
  BY DEF Sampled, kSubset
<1>4. Cardinality(W) \in Nat /\ Cardinality(W) <= Cap[e] - Len(Holding(e, s))
  <2>. DEFINE m == Cap[e] - Len(Holding(e, s))
              n == Cardinality(pool)
  <2>1. m \in Nat /\ n \in Nat
    BY <1>1, <1>2
  <2>2. Min({m, n}) \in Nat /\ Min({m, n}) <= m
    <3>. HIDE DEF m, n
    <3>. QED BY <2>1, MinOfTwo
  <2>. QED BY <1>3, <2>2
<1>5. others \in [1..Cardinality(W) -> W] /\ \A m, n \in 1..Cardinality(W) : m # n => others[m] # others[n]
  BY DEF SetToSeqs
<1>6. others \in Seq(W) /\ Len(others) = Cardinality(W) /\ DOMAIN others = 1..Cardinality(W)
  BY <1>4, <1>5
<1>. HIDE DEF pool
<1>7. ToSet(others) \subseteq pool
  BY <1>3, <1>5, <1>6 DEF ToSet
<1>8. others \in Seq(At(s.rows[e], "entered"))
  <2>1. W \subseteq At(s.rows[e], "entered")
    BY <1>3 DEF pool
  <2>. QED BY <1>6, <2>1
<1>. QED BY <1>1, <1>4, <1>5, <1>6, <1>7, <1>8 DEF pool

LEMMA CapIsPositive ==
    ASSUME InSchedule, NEW e \in Events
    PROVE  Cap[e] \in Nat \ {0}
BY CalendarAssumption DEF InSchedule

LEMMA LotterySaves ==
    ASSUME InSchedule, NEW b, Sound(b), NEW e \in Events, e \in Staff, NEW saves \in Lotteries(e, b)
    PROVE  saves \in Seq(SavesOf(b))
<1>. DEFINE held == Holding(e, b)
            W1 == TokenSaves(b) \cup RowSaves(b)
            pieces == [n \in DOMAIN held |-> SeatedByToken(e, b, held[n])]
<1>1. b.rows[e] \in Seq(Rows) /\ Cap[e] \in Nat
  BY CapIsPositive DEF Sound, Databases
<1>2. held \in Seq(Holders(e, b))
  BY <1>1, HoldingMeans
<1>a. PICK others \in UNION {SetToSeqs(W) : W \in Sampled(e, b)} :
         saves = FlattenSeq(pieces) \o Selected(e, others) \o <<Draws(e)>>
  BY Zenon DEF Lotteries
<1>3. PICK W \in Sampled(e, b) : others \in SetToSeqs(W)
  BY <1>a
<1>4. others \in Seq(At(b.rows[e], "entered"))
  BY <1>1, SampledMeans
<1>5. Selected(e, others) \in Seq(RowSaves(b))
  BY <1>4, SelectedSaves
<1>. HIDE DEF held
<1>6. pieces \in Seq(Seq(W1))
  <2>1. \A n \in DOMAIN held : SeatedByToken(e, b, held[n]) \in Seq(W1)
    BY <1>2, SeatedByTokenSaves DEF Holders
  <2>2. pieces \in [1..Len(held) -> Seq(W1)] /\ Len(held) \in Nat
    BY <1>2, <2>1
  <2>. QED BY <2>2
<1>. HIDE DEF pieces
<1>7. FlattenSeq(pieces) \in Seq(W1)
  <2>. HIDE DEF W1
  <2>. QED BY <1>6, FlattenSeqs
<1>8. Draws(e) \in DrawnSaves
  BY DEF Draws, DrawnSaves
<1>9. /\ FlattenSeq(pieces) \in Seq(SavesOf(b)) /\ Selected(e, others) \in Seq(SavesOf(b))
      /\ <<Draws(e)>> \in Seq(SavesOf(b))
  <2>1. W1 \subseteq SavesOf(b) /\ RowSaves(b) \subseteq SavesOf(b) /\ DrawnSaves \subseteq SavesOf(b)
    BY DEF SavesOf
  <2>. QED BY <1>5, <1>7, <1>8, <2>1
<1>. QED BY <1>a, <1>9

LEMMA ClusterOfMeans ==
    ASSUME InSchedule, NEW e, Clustered(e)
    PROVE  /\ ClusterOf(e) \in Clusters /\ e \in Members[ClusterOf(e)]
           /\ \A x \in Clusters : e \in Members[x] => x = ClusterOf(e)
<1>1. ClusterOf(e) \in Clusters /\ e \in Members[ClusterOf(e)]
  BY Zenon DEF Clustered, ClusterOf
<1>2. ASSUME NEW x \in Clusters, e \in Members[x] PROVE x = ClusterOf(e)
  <2>1. x \in DOMAIN Members /\ ClusterOf(e) \in DOMAIN Members
    BY <1>1 DEF InSchedule
  <2>2. x # ClusterOf(e) => Members[x] \cap Members[ClusterOf(e)] = {}
    BY <2>1, CalendarAssumption, Zenon
  <2>. QED BY <1>1, <1>2, <2>2
<1>. QED BY <1>1, <1>2

(* Expirable rows, in order. *)
LEMMA ExpirableMeans ==
    ASSUME NEW s, NEW e, s.rows[e] \in Seq(Rows)
    PROVE  /\ Expirable(e, s) \in SUBSET (Nat \ {0}) /\ Expirable(e, s) \subseteq DOMAIN s.rows[e]
           /\ IsFiniteSet(Expirable(e, s)) /\ Cardinality(Expirable(e, s)) \in Nat
           /\ \A k \in Expirable(e, s) : s.rows[e][k].status \in {"selected", "invited"}
<1>1. /\ At(s.rows[e], "selected") \in SUBSET (Nat \ {0}) /\ IsFiniteSet(At(s.rows[e], "selected"))
      /\ At(s.rows[e], "invited") \in SUBSET (Nat \ {0}) /\ IsFiniteSet(At(s.rows[e], "invited"))
  BY AtMeans
<1>2. IsFiniteSet(Expirable(e, s))
  BY <1>1, FS_Union DEF Expirable
<1>. QED BY <1>1, <1>2, FS_CardinalityType DEF Expirable, At

(* The first so many of those with a status, in order. *)
Waiting(r, status, n) == First(With(r, status), n)

LEMMA WaitingMeans ==
    ASSUME NEW S, NEW r \in Seq(S), NEW status, NEW n \in Nat
    PROVE  /\ Waiting(r, status, n) \in Seq(At(r, status)) /\ Len(Waiting(r, status, n)) <= n
           /\ \A k, l \in DOMAIN Waiting(r, status, n) : k # l => Waiting(r, status, n)[k] # Waiting(r, status, n)[l]
<1>. DEFINE I == At(r, status)
            pool == With(r, status)
<1>1. I \in SUBSET (Nat \ {0}) /\ IsFiniteSet(I)
  BY AtMeans
<1>2. pool = InOrder(I)
  BY DEF With
<1>. HIDE DEF I, pool
<1>3. pool \in Seq(I) /\ \A k, l \in DOMAIN pool : k # l => pool[k] # pool[l]
  BY <1>1, <1>2, InOrderMeans
<1>4. /\ First(pool, n) \in Seq(I) /\ Len(First(pool, n)) <= n
      /\ \A k \in DOMAIN First(pool, n) : k \in DOMAIN pool /\ First(pool, n)[k] = pool[k]
  BY <1>3, FirstMeans
<1>5. Waiting(r, status, n) = First(pool, n)
  BY DEF Waiting, pool
<1>. QED BY <1>3, <1>4, <1>5 DEF I

LEMMA BackfillIs ==
    ASSUME NEW e, NEW s
    PROVE  LET next == Waiting(s.tickets[ClusterOf(e)], "unseated", Cardinality(Expirable(e, s)))
           IN  Backfill(e, s) =
                 IF Clustered(e) THEN FlattenSeq([n \in DOMAIN next |-> Backfilled(e, s, next[n])])
                 ELSE IF e \in Staff THEN Selected(e, Waiting(s.rows[e], "entered", Cardinality(Expirable(e, s))))
                 ELSE <<>>
BY Zenon DEF Backfill, Waiting, First

LEMMA BackfilledSaves ==
    ASSUME InSchedule, NEW b, Sound(b), NEW e, Clustered(e), NEW k \in DOMAIN b.tickets[ClusterOf(e)]
    PROVE  Backfilled(e, b, k) \in Seq(NewRowSaves \cup TicketSaves(b))
<1>. DEFINE x == ClusterOf(e)
<1>1. x \in Clusters /\ e \in Events
  BY ClusterOfMeans, ClusteredIsStaff
<1>2. b.tickets[x] \in Seq(Applications(x)) /\ k \in Nat
  BY <1>1 DEF Sound, TicketsSound
<1>3. b.tickets[x][k].who \in Everyone
  <2>1. b.tickets[x][k] \in Applications(x)
    BY <1>2
  <2>. QED BY <2>1 DEF Applications
<1>4. Seats(e, b.tickets[x][k].who) \in NewRowSaves
  BY <1>1, <1>3 DEF Seats, NewRowSaves
<1>5. Marks(x, k, "seated") \in TicketSaves(b)
  BY <1>1, <1>2 DEF Marks, TicketSaves
<1>. QED BY <1>4, <1>5 DEF Backfilled

LEMMA ExpirySaves ==
    ASSUME InSchedule, NEW b, Sound(b), NEW e \in Events
    PROVE  Expiry(e, b) \in Seq(SavesOf(b))
<1>. DEFINE I == Expirable(e, b)
            gone == InOrder(I)
            released == [n \in DOMAIN gone |-> Becomes(e, gone[n], "released")]
            n0 == Cardinality(I)
<1>1. b.rows[e] \in Seq(Rows)
  BY DEF Sound, Databases
<1>2. I \in SUBSET (Nat \ {0}) /\ IsFiniteSet(I) /\ n0 \in Nat
  BY <1>1, ExpirableMeans
<1>3. \A k \in I : Becomes(e, k, "released") \in RowSaves(b)
  BY <1>1, ExpirableMeans DEF Becomes, RowSaves
<1>4. gone \in Seq(I)
  BY <1>2, InOrderMeans
<1>. HIDE DEF I, gone
<1>5. released \in Seq(RowSaves(b))
  <2>1. released \in [1..Len(gone) -> RowSaves(b)] /\ Len(gone) \in Nat
    BY <1>3, <1>4
  <2>. QED BY <2>1
<1>6. Backfill(e, b) \in Seq(SavesOf(b))
  <2>1. CASE Clustered(e)
    <3>. DEFINE q == b.tickets[ClusterOf(e)]
                next == Waiting(q, "unseated", n0)
                W1 == NewRowSaves \cup TicketSaves(b)
                pieces == [n \in DOMAIN next |-> Backfilled(e, b, next[n])]
    <3>1. q \in Seq(Applications(ClusterOf(e)))
      BY <2>1, ClusterOfMeans DEF Sound, TicketsSound
    <3>2. next \in Seq(At(q, "unseated")) /\ At(q, "unseated") \subseteq DOMAIN q
      BY <1>2, <3>1, WaitingMeans, AtMeans
    <3>3. \A k \in DOMAIN q : Backfilled(e, b, k) \in Seq(W1)
      BY <2>1, BackfilledSaves
    <3>4. Backfill(e, b) = FlattenSeq(pieces)
      BY <2>1, BackfillIs, Zenon DEF I
    <3>. HIDE DEF next, q, W1
    <3>5. pieces \in Seq(Seq(W1))
      <4>1. pieces \in [1..Len(next) -> Seq(W1)] /\ Len(next) \in Nat
        BY <3>2, <3>3
      <4>. QED BY <4>1
    <3>. HIDE DEF pieces
    <3>6. FlattenSeq(pieces) \in Seq(W1)
      BY <3>5, FlattenSeqs
    <3>. QED BY <3>4, <3>6 DEF SavesOf, W1
  <2>2. CASE ~Clustered(e) /\ e \in Staff
    <3>1. Backfill(e, b) = Selected(e, Waiting(b.rows[e], "entered", n0))
      BY <2>2, BackfillIs, Zenon DEF I
    <3>2. Waiting(b.rows[e], "entered", n0) \in Seq(At(b.rows[e], "entered"))
      BY <1>1, <1>2, WaitingMeans
    <3>3. Backfill(e, b) \in Seq(RowSaves(b))
      BY <3>1, <3>2, SelectedSaves
    <3>. QED BY <3>3 DEF SavesOf
  <2>3. CASE ~Clustered(e) /\ e \notin Staff
    <3>1. Backfill(e, b) = <<>>
      BY <2>3, BackfillIs, Zenon
    <3>. QED BY <3>1
  <2>. QED BY <2>1, <2>2, <2>3
<1>7. Expiry(e, b) = released \o Backfill(e, b)
  BY Zenon DEF Expiry, I, gone
<1>8. released \in Seq(SavesOf(b))
  BY <1>5 DEF SavesOf
<1>. HIDE DEF released
<1>. QED BY <1>6, <1>7, <1>8

LEMMA PostEventTokensSaves ==
    ASSUME NEW b, Sound(b), NEW e \in Events
    PROVE  PostEventTokens(e, b) \in Seq(SavesOf(b)) /\ PostEventTokens(e, b) \in Seq(NewTokenSaves)
<1>. DEFINE I == At(b.rows[e], "entered")
            pool == With(b.rows[e], "entered")
<1>1. b.rows[e] \in Seq(Rows)
  BY DEF Sound, Databases
<1>2. I \in SUBSET (Nat \ {0}) /\ IsFiniteSet(I) /\ I \subseteq DOMAIN b.rows[e]
  BY <1>1, AtMeans
<1>3. \A k \in I : Issues(b.rows[e][k].who, None) \in NewTokenSaves
  <2>a. \A k \in DOMAIN b.rows[e] : b.rows[e][k] \in Rows
    BY <1>1
  <2>1. \A k \in I : b.rows[e][k].who \in Everyone
    BY <1>2, <2>a DEF Rows
  <2>. QED BY <2>1 DEF Issues, NewTokenSaves
<1>4. pool \in Seq(I)
  BY <1>2, InOrderMeans DEF With
<1>5. PostEventTokens(e, b) = [n \in DOMAIN pool |-> Issues(b.rows[e][pool[n]].who, None)]
  BY Zenon DEF PostEventTokens
<1>. HIDE DEF I, pool
<1>6. [n \in DOMAIN pool |-> Issues(b.rows[e][pool[n]].who, None)] \in [1..Len(pool) -> NewTokenSaves] /\ Len(pool) \in Nat
  BY <1>3, <1>4
<1>7. PostEventTokens(e, b) \in Seq(NewTokenSaves)
  BY <1>5, <1>6
<1>. QED BY <1>7 DEF SavesOf

-----------------------------------------------------------------------------
(***************************************************************************)
(* A cluster's draw.                                                       *)
(***************************************************************************)
(* An order is one of all who have a pending ticket, each once. *)
LEMMA OrdersMean ==
    ASSUME NEW s, Sound(s), NEW x \in Clusters, NEW order \in Orders(x, s)
    PROVE  /\ order \in Seq(At(s.tickets[x], "pending")) /\ order \in Seq(DOMAIN s.tickets[x])
           /\ \A m, n \in DOMAIN order : m # n => order[m] # order[n]
           /\ \A k \in At(s.tickets[x], "pending") : \E n \in DOMAIN order : order[n] = k
<1>. DEFINE P == At(s.tickets[x], "pending")
            H == {k \in P : TokenOf(s.tokens, s.tickets[x][k].who, x) # 0}
<1>1. P \in SUBSET (Nat \ {0}) /\ IsFiniteSet(P) /\ P \subseteq DOMAIN s.tickets[x]
  <2>1. s.tickets[x] \in Seq(Applications(x))
    BY DEF Sound, TicketsSound
  <2>. QED BY <2>1, AtMeans
<1>2. H \in SUBSET (Nat \ {0}) /\ H \subseteq P /\ IsFiniteSet(H)
  BY <1>1, FS_Subset
<1>3. P \ H \subseteq P /\ IsFiniteSet(P \ H) /\ Cardinality(P \ H) \in Nat
  BY <1>1, FS_Subset, FS_CardinalityType
<1>4. PICK others \in SetToSeqs(P \ H) : order = InOrder(H) \o others
  BY Zenon DEF Orders
<1>. DEFINE a == InOrder(H)
            N == Cardinality(P \ H)
<1>. HIDE DEF P, H
<1>5. others \in [1..N -> P \ H] /\ \A m, n \in 1..N : m # n => others[m] # others[n]
  BY <1>4, Zenon DEF SetToSeqs
<1>6. \A k \in P \ H : \E n \in 1..N : others[n] = k
  <2>1. IsFiniteSet(1..N) /\ Cardinality(1..N) = N
    BY <1>3, FS_Interval
  <2>2. others \in Injection(1..N, P \ H)
    BY <1>5 DEF Injection, IsInjective
  <2>3. others \in Surjection(1..N, P \ H)
    BY <1>3, <2>1, <2>2, FS_Injection
  <2>. QED BY <2>3 DEF Surjection
<1>7. others \in Seq(P \ H) /\ Len(others) = N /\ N \in Nat
  <2>1. N \in Nat
    BY <1>3
  <2>. HIDE DEF N
  <2>. QED BY <1>5, <2>1
<1>8. /\ a \in Seq(H) /\ \A m, n \in DOMAIN a : m # n => a[m] # a[n]
      /\ \A k \in H : \E n \in DOMAIN a : a[n] = k
  BY <1>2, InOrderMeans
<1>. HIDE DEF a, N
<1>9. order = a \o others /\ a \in Seq(P) /\ others \in Seq(P)
  <2>1. order = a \o others
    BY <1>4 DEF a
  <2>a. a \in Seq(H)
    BY <1>8
  <2>b. \A n \in DOMAIN a : a[n] \in H
    BY <2>a
  <2>2. \A n \in DOMAIN a : a[n] \in P
    BY <1>2, <2>b
  <2>3. \A n \in DOMAIN others : others[n] \in P
    BY <1>7
  <2>. QED BY <1>7, <1>8, <2>1, <2>2, <2>3
<1>10. /\ order \in Seq(P) /\ DOMAIN a = 1..Len(a) /\ DOMAIN others = 1..N /\ DOMAIN order = 1..(Len(a) + N) /\ Len(a) \in Nat
       /\ \A n \in DOMAIN order : order[n] = IF n <= Len(a) THEN a[n] ELSE others[n - Len(a)]
  <2>1. a \in Seq(P) /\ others \in Seq(P) /\ Len(others) = N
    BY <1>7, <1>9
  <2>2. order = a \o others
    BY <1>9
  <2>. QED BY <2>1, <2>2
<1>11. \A n \in DOMAIN order : IF n <= Len(a) THEN n \in DOMAIN a /\ a[n] \in H ELSE n - Len(a) \in 1..N /\ others[n - Len(a)] \notin H
  <2>1. \A n \in DOMAIN a : a[n] \in H
    BY <1>8
  <2>2. \A n \in 1..N : others[n] \notin H
    BY <1>5
  <2>. QED BY <1>7, <1>10, <2>1, <2>2
<1>12. ASSUME NEW m \in DOMAIN order, NEW n \in DOMAIN order, m # n PROVE order[m] # order[n]
  BY <1>5, <1>8, <1>10, <1>11, <1>12
<1>13. ASSUME NEW k \in P PROVE \E n \in DOMAIN order : order[n] = k
  <2>1. CASE k \in H
    <3>1. PICK n \in DOMAIN a : a[n] = k
      BY <1>8, <2>1
    <3>2. n \in DOMAIN order /\ order[n] = k
      BY <1>7, <1>10, <3>1
    <3>. QED BY <3>2
  <2>2. CASE k \notin H
    <3>1. PICK n \in 1..N : others[n] = k
      BY <1>6, <2>2
    <3>2. Len(a) + n \in DOMAIN order /\ order[Len(a) + n] = k
      BY <1>7, <1>10, <3>1
    <3>. QED BY <3>2
  <2>. QED BY <2>1, <2>2
<1>14. order \in Seq(DOMAIN s.tickets[x])
  <2>. DEFINE D == DOMAIN s.tickets[x]
  <2>. HIDE DEF D
  <2>1. order \in Seq(P) /\ P \subseteq D
    BY <1>1, <1>10 DEF D
  <2>2. order \in Seq(D)
    BY <2>1
  <2>. QED BY <2>2 DEF D
<1>. QED BY <1>10, <1>12, <1>13, <1>14 DEF P

(* The seats of a cluster that are free when its draw begins. *)
Free(x, s) == [e \in Members[x] |-> Max({0, Cap[e] - Count(s.rows[e], "confirmed")})]

LEMMA FreeMeans ==
    ASSUME InSchedule, NEW s, Sound(s), NEW x \in Clusters, NEW e \in Members[x]
    PROVE  /\ Free(x, s)[e] \in Nat /\ Free(x, s)[e] <= Cap[e] /\ Cap[e] \in Nat /\ e \in Events
           /\ Cap[e] - Count(s.rows[e], "confirmed") <= Free(x, s)[e]
<1>1. e \in Events
  BY DEF InSchedule
<1>2. Cap[e] \in Nat \ {0}
  BY <1>1, CapIsPositive
<1>3. s.rows[e] \in Seq(Rows)
  BY <1>1 DEF Sound, Databases
<1>4. Count(s.rows[e], "confirmed") \in Nat
  BY <1>3, AtMeans DEF Count
<1>. DEFINE d == Cap[e] - Count(s.rows[e], "confirmed")
<1>5. d \in Int /\ d <= Cap[e]
  BY <1>2, <1>4
<1>6. Free(x, s)[e] = Max({0, d})
  BY DEF Free
<1>. HIDE DEF d
<1>7. \E m \in {0, d} : \A n \in {0, d} : m >= n
  <2>1. CASE d >= 0
    BY <1>5, <2>1
  <2>2. CASE d < 0
    BY <1>5, <2>2
  <2>. QED BY <1>5, <2>1, <2>2
<1>8. Max({0, d}) \in {0, d} /\ \A n \in {0, d} : Max({0, d}) >= n
  BY <1>7, Zenon DEF Max
<1>. QED BY <1>1, <1>2, <1>5, <1>6, <1>8 DEF d

(* Assigns(f, x, s, order, n): f[i] is what is left and given out after i  *)
(* tickets.                                                                *)
SeatAfter(before, x, s, k) == BestWish(s.tickets[x][k].wishes, before.left)
Assigns(f, x, s, order, n) ==
    f = [i \in 0..n |->
           IF i = 0 THEN [left |-> Free(x, s), to |-> <<>>]
           ELSE [left |-> [e \in Members[x] |->
                             f[i - 1].left[e] - IF e = SeatAfter(f[i - 1], x, s, order[i]) THEN 1 ELSE 0],
                 to |-> Append(f[i - 1].to, SeatAfter(f[i - 1], x, s, order[i]))]]

LEMMA AssignedIs ==
    ASSUME NEW W, NEW x, NEW s, NEW order \in Seq(W)
    PROVE  \E f : Assigns(f, x, s, order, Len(order)) /\ Assigned(x, s, order) = f[Len(order)].to
<1>. DEFINE N == Len(order)
            S == {n \in 0..N : \E f : Assigns(f, x, s, order, n)}
            First0 == [left |-> Free(x, s), to |-> <<>>]
            Next1(a, i) == [left |-> [e \in Members[x] |-> a.left[e] - IF e = SeatAfter(a, x, s, order[i]) THEN 1 ELSE 0],
                            to |-> Append(a.to, SeatAfter(a, x, s, order[i]))]
<1>1. N \in Nat
  OBVIOUS
<1>2. 0 \in S
  <2>1. Assigns([i \in 0..0 |-> First0], x, s, order, 0)
    BY DEF Assigns
  <2>. QED BY <1>1, <2>1
<1>3. ASSUME NEW n \in 1..N, n - 1 \in S PROVE n \in S
  <2>1. PICK f : Assigns(f, x, s, order, n - 1)
    BY <1>3
  <2>2. f = [i \in 0..(n - 1) |-> IF i = 0 THEN First0 ELSE Next1(f[i - 1], i)]
    BY <2>1, Zenon DEF Assigns
  <2>. HIDE DEF Next1, First0
  <2>. DEFINE g == [i \in 0..n |-> IF i < n THEN f[i] ELSE Next1(f[n - 1], n)]
  <2>3. ASSUME NEW i \in 0..n
        PROVE  g[i] = IF i = 0 THEN First0 ELSE Next1(g[i - 1], i)
    <3>1. CASE i < n
      <4>1. i \in 0..(n - 1) /\ g[i] = f[i]
        BY <1>1, <3>1
      <4>2. f[i] = IF i = 0 THEN First0 ELSE Next1(f[i - 1], i)
        BY <2>2, <4>1
      <4>3. i # 0 => g[i - 1] = f[i - 1]
        BY <1>1, <3>1
      <4>. HIDE DEF g
      <4>. QED BY <4>1, <4>2, <4>3
    <3>2. CASE i = n
      <4>1. i # 0 /\ g[i - 1] = f[i - 1] /\ g[i] = Next1(f[n - 1], n)
        BY <1>1, <3>2
      <4>. HIDE DEF g
      <4>. QED BY <3>2, <4>1
    <3>. QED BY <1>1, <3>1, <3>2
  <2>4. g = [i \in 0..n |-> IF i = 0 THEN First0 ELSE Next1(g[i - 1], i)]
    <3>1. g = [i \in 0..n |-> g[i]]
      OBVIOUS
    <3>. HIDE DEF g
    <3>. QED BY <2>3, <3>1
  <2>5. Assigns(g, x, s, order, n)
    <3>. HIDE DEF g
    <3>. USE DEF Next1, First0
    <3>. QED BY <2>4, Zenon DEF Assigns
  <2>. QED BY <1>3, <2>5
<1>4. \E f : Assigns(f, x, s, order, N)
  <2>1. \A n \in 1..N : n - 1 \in S => n \in S
    BY <1>3
  <2>. HIDE DEF N, S
  <2>2. N \in S
    BY <1>1, <1>2, <2>1, Climb
  <2>. QED BY <2>2 DEF S
<1>5. Assigned(x, s, order) = (CHOOSE f : Assigns(f, x, s, order, N))[N].to
  BY Zenon DEF Assigned, Assigns, SeatAfter, Free
<1>. QED BY <1>4, <1>5

(* A ranking is a sequence of a cluster's events, none twice. *)
LEMMA RankingsMean ==
    ASSUME NEW S, IsFiniteSet(S), NEW w
    PROVE  w \in SetToAllKPermutations(S) <=> w \in Seq(S) /\ \A m, n \in DOMAIN w : m # n => w[m] # w[n]
<1>1. ASSUME w \in SetToAllKPermutations(S)
      PROVE  w \in Seq(S) /\ \A m, n \in DOMAIN w : m # n => w[m] # w[n]
  <2>1. PICK t \in SUBSET S : w \in SetToSeqs(t)
    BY <1>1, Zenon DEF SetToAllKPermutations
  <2>2. w \in [1..Cardinality(t) -> t] /\ \A m, n \in 1..Cardinality(t) : m # n => w[m] # w[n]
    BY <2>1, Zenon DEF SetToSeqs
  <2>3. Cardinality(t) \in Nat
    BY FS_Subset, FS_CardinalityType
  <2>. QED BY <2>2, <2>3
<1>2. ASSUME w \in Seq(S), \A m, n \in DOMAIN w : m # n => w[m] # w[n]
      PROVE  w \in SetToAllKPermutations(S)
  <2>. DEFINE D == 1..Len(w)
              t == {w[n] : n \in D}
  <2>1. Len(w) \in Nat /\ DOMAIN w = D /\ IsFiniteSet(D) /\ Cardinality(D) = Len(w)
    <3>1. Len(w) \in Nat /\ DOMAIN w = D
      BY <1>2
    <3>2. \A n \in Nat : IsFiniteSet(1..n) /\ Cardinality(1..n) = n
      BY FS_Interval
    <3>. QED BY <3>1, <3>2
  <2>2. t \subseteq S /\ IsFiniteSet(t)
    BY <1>2, <2>1, FS_Subset
  <2>3. w \in [D -> t]
    BY <1>2, <2>1
  <2>4. w \in Injection(D, t)
    BY <1>2, <2>1, <2>3 DEF Injection, IsInjective
  <2>5. w \in Surjection(D, t)
    BY <2>3 DEF Surjection
  <2>. HIDE DEF t
  <2>6. Cardinality(t) = Len(w)
    <3>1. w \in Bijection(D, t)
      BY <2>4, <2>5 DEF Bijection
    <3>2. ExistsBijection(D, t)
      BY <3>1 DEF ExistsBijection
    <3>. QED BY <2>1, <2>2, <3>2, FS_Bijection
  <2>7. w \in SetToSeqs(t)
    BY <1>2, <2>1, <2>3, <2>6, Zenon DEF SetToSeqs
  <2>. QED BY <2>2, <2>7, Zenon DEF SetToAllKPermutations
<1>. QED BY <1>1, <1>2

LEMMA WishesMean ==
    ASSUME InSchedule, NEW s, Sound(s), NEW x \in Clusters, NEW k \in DOMAIN s.tickets[x]
    PROVE  /\ s.tickets[x][k].wishes \in Seq(Members[x]) /\ IsFiniteSet(Members[x]) /\ None \notin Members[x]
           /\ Members[x] \subseteq Staff /\ Members[x] \subseteq Events
           /\ s.tickets[x] \in Seq(Applications(x)) /\ s.tickets[x][k].who \in Everyone
           /\ s.tickets[x][k].status \in {"pending", "seated", "unseated"}
<1>1. Members[x] \subseteq Staff /\ Members[x] \subseteq Events /\ IsFiniteSet(UNION Schedules) /\ Staff \subseteq UNION Schedules
      /\ None \notin UNION Schedules
  BY CalendarAssumption DEF InSchedule
<1>2. IsFiniteSet(Members[x]) /\ None \notin Members[x]
  BY <1>1, FS_Subset
<1>3. s.tickets[x] \in Seq(Applications(x))
  BY DEF Sound, TicketsSound
<1>4. s.tickets[x][k] \in Applications(x)
  BY <1>3
<1>5. /\ s.tickets[x][k].wishes \in SetToAllKPermutations(Members[x]) /\ s.tickets[x][k].who \in Everyone
      /\ s.tickets[x][k].status \in {"pending", "seated", "unseated"}
  BY <1>4 DEF Applications
<1>. QED BY <1>1, <1>2, <1>3, <1>5, RankingsMean

(* What a draw gives out: to each ticket, in order, the best of its wishes  *)
(* with a seat left, and no more seats of an event than were free.  left[n] *)
(* has the seats left after the n-th ticket of an order.                    *)
Allots(left, x, s, order) ==
    /\ left \in [0..Len(order) -> [Members[x] -> Nat]]
    /\ \A n \in 1..Len(order) :
          /\ Assigned(x, s, order)[n] = BestWish(s.tickets[x][order[n]].wishes, left[n - 1])
          /\ \A e \in Members[x] :
                left[n][e] = left[n - 1][e] - IF Assigned(x, s, order)[n] = e THEN 1 ELSE 0
    /\ \A e \in Members[x] :
          Cardinality({n \in 1..Len(order) : Assigned(x, s, order)[n] = e}) + left[Len(order)][e] = Free(x, s)[e]

LEMMA AssignedMeans ==
    ASSUME InSchedule, NEW s, Sound(s), NEW x \in Clusters, NEW order \in Seq(DOMAIN s.tickets[x])
    PROVE  /\ Assigned(x, s, order) \in Seq(Members[x] \cup {None}) /\ Len(Assigned(x, s, order)) = Len(order)
           /\ \E left : Allots(left, x, s, order)
<1>. DEFINE N == Len(order)
            M == Members[x]
            q == s.tickets[x]
<1>1. N \in Nat /\ \A n \in 1..N : order[n] \in DOMAIN q
  OBVIOUS
<1>2. PICK f : Assigns(f, x, s, order, N) /\ Assigned(x, s, order) = f[N].to
  BY AssignedIs
<1>. DEFINE seat(i) == SeatAfter(f[i - 1], x, s, order[i])
<1>3. f[0] = [left |-> Free(x, s), to |-> <<>>]
  BY <1>1, <1>2 DEF Assigns
<1>4. ASSUME NEW i \in 1..N
      PROVE  f[i] = [left |-> [e \in M |-> f[i - 1].left[e] - IF e = seat(i) THEN 1 ELSE 0],
                     to |-> Append(f[i - 1].to, seat(i))]
  <2>1. i \in 0..N /\ i # 0
    BY <1>1
  <2>2. f[i] = IF i = 0 THEN [left |-> Free(x, s), to |-> <<>>]
           ELSE [left |-> [e \in Members[x] |->
                             f[i - 1].left[e] - IF e = SeatAfter(f[i - 1], x, s, order[i]) THEN 1 ELSE 0],
                 to |-> Append(f[i - 1].to, SeatAfter(f[i - 1], x, s, order[i]))]
    <3>. HIDE DEF N
    <3>. QED BY <1>2, <2>1, Zenon DEF Assigns, N
  <2>. QED BY <2>1, <2>2
<1>5. \A n \in 1..N : q[order[n]].wishes \in Seq(M)
  BY <1>1, WishesMean
<1>6. ASSUME NEW i \in 1..N PROVE None \notin M
  BY <1>1, WishesMean
<1>7. ASSUME NEW i \in 1..N
      PROVE  seat(i) = None \/ (seat(i) \in M /\ f[i - 1].left[seat(i)] > 0)
  <2>1. seat(i) = BestWish(q[order[i]].wishes, f[i - 1].left)
    BY DEF SeatAfter
  <2>2. q[order[i]].wishes \in Seq(M) /\ None \notin M
    BY <1>5, <1>6
  <2>. DEFINE w == q[order[i]].wishes
              l == f[i - 1].left
  <2>. HIDE DEF w, l, M
  <2>3. \/ BestWish(w, l) = None
        \/ \E n \in DOMAIN w : BestWish(w, l) = w[n] /\ l[w[n]] > 0
    BY <2>2, BestWishMeans DEF w
  <2>4. \A n \in DOMAIN w : w[n] \in M
    BY <2>2 DEF w
  <2>5. BestWish(w, l) = None \/ (BestWish(w, l) \in M /\ l[BestWish(w, l)] > 0)
    BY <2>3, <2>4
  <2>. QED BY <2>1, <2>5 DEF w, l
<1>. HIDE DEF seat, N
<1>. DEFINE Good(a, i) ==
                /\ a.left \in [M -> Nat] /\ a.to \in Seq(M \cup {None}) /\ Len(a.to) = i
                /\ \A m \in 1..i : a.to[m] = seat(m)
                /\ \A e \in M : Cardinality({m \in 1..i : a.to[m] = e}) + a.left[e] = Free(x, s)[e]
            S == {i \in 0..N : Good(f[i], i)}
<1>8. 0 \in S
  <2>1. Free(x, s) \in [M -> Nat]
    <3>1. \A e \in M : Free(x, s)[e] \in Nat
      BY FreeMeans
    <3>2. Free(x, s) = [e \in M |-> Free(x, s)[e]]
      BY DEF Free
    <3>. QED BY <3>1, <3>2
  <2>2. \A e \in M : {m \in 1..0 : <<>>[m] = e} = {}
    OBVIOUS
  <2>3. Cardinality({}) = 0
    BY FS_EmptySet
  <2>4. Good([left |-> Free(x, s), to |-> <<>>], 0)
    BY <2>1, <2>2, <2>3
  <2>. HIDE DEF Good
  <2>. QED BY <1>1, <1>3, <2>4
<1>9. ASSUME NEW i \in 1..N, i - 1 \in S PROVE i \in S
  <2>. DEFINE a == f[i - 1]
              b == [left |-> [e \in M |-> a.left[e] - IF e = seat(i) THEN 1 ELSE 0], to |-> Append(a.to, seat(i))]
  <2>1. Good(a, i - 1)
    BY <1>9
  <2>2. f[i] = b
    BY <1>4
  <2>3. seat(i) = None \/ (seat(i) \in M /\ a.left[seat(i)] > 0)
    BY <1>7
  <2>4. None \notin M
    BY <1>6
  <2>. HIDE DEF a, M
  <2>5. /\ a.left \in [M -> Nat] /\ a.to \in Seq(M \cup {None}) /\ Len(a.to) = i - 1
        /\ \A m \in 1..(i - 1) : a.to[m] = seat(m)
        /\ \A e \in M : Cardinality({m \in 1..(i - 1) : a.to[m] = e}) + a.left[e] = Free(x, s)[e]
    BY <2>1
  <2>6. b.left \in [M -> Nat] /\ \A e \in M : b.left[e] = a.left[e] - IF e = seat(i) THEN 1 ELSE 0
    <3>1. b.left = [e \in M |-> a.left[e] - IF e = seat(i) THEN 1 ELSE 0]
      OBVIOUS
    <3>. HIDE DEF b
    <3>2. a.left \in [M -> Nat]
      BY <2>5
    <3>3. \A e \in M : a.left[e] - (IF e = seat(i) THEN 1 ELSE 0) \in Nat
      BY <2>3, <2>4, <3>2
    <3>. QED BY <3>1, <3>3
  <2>7. /\ b.to \in Seq(M \cup {None}) /\ Len(b.to) = i /\ b.to[i] = seat(i)
        /\ \A m \in 1..(i - 1) : b.to[m] = a.to[m]
    BY <1>1, <2>3, <2>5
  <2>. HIDE DEF b
  <2>8. \A m \in 1..i : b.to[m] = seat(m)
    <3>1. \A m \in 1..i : m = i \/ m \in 1..(i - 1)
      BY <1>1
    <3>2. \A m \in 1..(i - 1) : a.to[m] = seat(m)
      BY <2>5
    <3>. QED BY <2>7, <3>1, <3>2
  <2>9. ASSUME NEW e \in M
        PROVE  Cardinality({m \in 1..i : b.to[m] = e}) + b.left[e] = Free(x, s)[e]
    <3>. DEFINE P == {m \in 1..(i - 1) : a.to[m] = e}
                Q == {m \in 1..i : b.to[m] = e}
    <3>1. IsFiniteSet(1..(i - 1)) /\ P \subseteq 1..(i - 1)
      <4>1. i - 1 \in Int
        BY <1>1
      <4>. QED BY <4>1, FS_Interval
    <3>a. Cardinality(P) + a.left[e] = Free(x, s)[e]
      BY <2>5
    <3>b. a.left[e] \in Nat /\ b.left[e] = a.left[e] - IF e = seat(i) THEN 1 ELSE 0
      BY <2>5, <2>6
    <3>2. IsFiniteSet(P) /\ Cardinality(P) \in Nat
      BY <3>1, FS_Subset, FS_CardinalityType
    <3>3. CASE seat(i) = e
      <4>1. Q = P \cup {i} /\ i \notin P
        BY <1>1, <2>7, <3>3
      <4>2. Cardinality(Q) = Cardinality(P) + 1
        <5>. HIDE DEF P, Q
        <5>. QED BY <3>2, <4>1, FS_AddElement
      <4>. HIDE DEF P, Q
      <4>1a. Cardinality(Q) + b.left[e] = Free(x, s)[e]
        BY <3>2, <3>3, <3>a, <3>b, <4>2
      <4>. QED BY <4>1a DEF Q
    <3>4. CASE seat(i) # e
      <4>1. Q = P
        BY <1>1, <2>7, <3>4
      <4>. HIDE DEF P, Q
      <4>2. Cardinality(Q) + b.left[e] = Free(x, s)[e]
        BY <3>4, <3>a, <3>b, <4>1
      <4>. QED BY <4>2 DEF Q
    <3>. QED BY <3>3, <3>4
  <2>10. Good(b, i)
    BY <2>6, <2>7, <2>8, <2>9
  <2>. HIDE DEF Good
  <2>. QED BY <2>2, <2>10
<1>10. \A i \in 0..N : Good(f[i], i)
  <2>1. ASSUME NEW n \in 0..N PROVE n \in S
    <3>2. n \in Nat /\ 1..n \subseteq 1..N
      BY <1>1
    <3>. HIDE DEF S
    <3>1. \A i \in 1..n : i - 1 \in S => i \in S
      BY <1>9, <3>2
    <3>. QED BY <1>8, <3>1, <3>2, Climb
  <2>. QED BY <2>1
<1>. DEFINE left == [i \in 0..N |-> f[i].left]
<1>11. left \in [0..N -> [M -> Nat]]
  BY <1>10
<1>12. /\ f[N].to \in Seq(M \cup {None}) /\ Len(f[N].to) = N /\ \A m \in 1..N : f[N].to[m] = seat(m)
       /\ \A e \in M : Cardinality({m \in 1..N : f[N].to[m] = e}) + f[N].left[e] = Free(x, s)[e]
  <2>a. N \in 0..N
    BY <1>1
  <2>1. Good(f[N], N)
    BY <1>10, <2>a, Zenon
  <2>. QED BY <2>1, Zenon
<1>13. ASSUME NEW n \in 1..N
       PROVE  /\ f[N].to[n] = BestWish(q[order[n]].wishes, left[n - 1])
              /\ \A e \in M : left[n][e] = left[n - 1][e] - IF f[N].to[n] = e THEN 1 ELSE 0
  <2>1. n - 1 \in 0..N /\ n \in 0..N
    BY <1>1
  <2>2. left[n - 1] = f[n - 1].left /\ left[n] = f[n].left
    BY <2>1
  <2>3. seat(n) = BestWish(q[order[n]].wishes, f[n - 1].left)
    BY DEF seat, SeatAfter
  <2>4. \A e \in M : f[n].left[e] = f[n - 1].left[e] - IF e = seat(n) THEN 1 ELSE 0
    <3>1. f[n] = [left |-> [e \in M |-> f[n - 1].left[e] - IF e = seat(n) THEN 1 ELSE 0],
                  to |-> Append(f[n - 1].to, seat(n))]
      BY <1>4, Zenon
    <3>2. f[n].left = [e \in M |-> f[n - 1].left[e] - IF e = seat(n) THEN 1 ELSE 0]
      BY <3>1
    <3>. QED BY <3>2
  <2>. HIDE DEF left
  <2>. QED BY <1>12, <2>2, <2>3, <2>4
<1>14. left[N] = f[N].left
  BY <1>1
<1>15. \A e \in M : Cardinality({m \in 1..N : f[N].to[m] = e}) + left[N][e] = Free(x, s)[e]
  BY <1>12, <1>14
<1>. HIDE DEF left, Good
<1>16. Allots(left, x, s, order)
  BY <1>2, <1>11, <1>12, <1>13, <1>15 DEF N, Allots
<1>. QED BY <1>2, <1>12, <1>16 DEF N

(* The parts of a draw, for the n-th ticket of an order. *)
WhoAt(x, s, order, n) == s.tickets[x][order[n]].who
Consoled(x, s, order, n) ==
    IF Assigned(x, s, order)[n] # None /\ Assigned(x, s, order)[n] = Head(s.tickets[x][order[n]].wishes)
    THEN <<>> ELSE <<Issues(WhoAt(x, s, order, n), x)>>
Redeeming(x, s, order, n) ==
    IF TokenOf(s.tokens, WhoAt(x, s, order, n), x) = 0 THEN <<>>
    ELSE <<Redeems(TokenOf(s.tokens, WhoAt(x, s, order, n), x), x)>> \o Consoled(x, s, order, n)
IssuingTo(x, s, order, n) ==
    IF TokenOf(s.tokens, WhoAt(x, s, order, n), x) = 0 THEN Consoled(x, s, order, n) ELSE <<>>
Seating(x, s, order, n) ==
    IF Assigned(x, s, order)[n] = None THEN <<>>
    ELSE <<Seats(Assigned(x, s, order)[n], WhoAt(x, s, order, n)), Marks(x, order[n], "seated")>>
         \o IssuingTo(x, s, order, n)
Leaving(x, s, order, n) ==
    IF Assigned(x, s, order)[n] # None THEN <<>>
    ELSE <<Marks(x, order[n], "unseated")>> \o IssuingTo(x, s, order, n)

Redemptions(x, s, order) == FlattenSeq([n \in DOMAIN order |-> Redeeming(x, s, order, n)])
Seatings(x, s, order) == FlattenSeq([n \in DOMAIN order |-> Seating(x, s, order, n)])
Leavings(x, s, order) == FlattenSeq([n \in DOMAIN order |-> Leaving(x, s, order, n)])
Closing(x) == [n \in DOMAIN SetToSeq(Members[x]) |-> Draws(SetToSeq(Members[x])[n])]

LEMMA ClusterDrawIs ==
    ASSUME NEW x, NEW s, NEW order
    PROVE  ClusterDraw(x, s, order) =
               Redemptions(x, s, order) \o Seatings(x, s, order) \o Leavings(x, s, order) \o Closing(x)
BY Zenon DEF ClusterDraw, Redemptions, Seatings, Leavings, Closing, Redeeming, Seating, Leaving, IssuingTo, Consoled, WhoAt

(* The saves of a draw: seats and marks as assigned, tokens, and its end. *)
SeatedAt(x, b, order) == {n \in DOMAIN order : Assigned(x, b, order)[n] # None}
SeatSaves(x, b, order) == {Seats(Assigned(x, b, order)[n], WhoAt(x, b, order, n)) : n \in SeatedAt(x, b, order)}
MarkSaves(x, b, order) ==
    {Marks(x, order[n], IF n \in SeatedAt(x, b, order) THEN "seated" ELSE "unseated") : n \in DOMAIN order}
SpendSaves(x, b) == {w \in TokenSaves(b) : w.use = x}
DrawSaves(x, b, order) ==
    SeatSaves(x, b, order) \cup MarkSaves(x, b, order) \cup SpendSaves(x, b) \cup NewTokenSaves

LEMMA DrawPieces ==
    ASSUME InSchedule, NEW b, Sound(b), NEW x \in Clusters, NEW order \in Seq(DOMAIN b.tickets[x]), NEW n \in DOMAIN order
    PROVE  /\ Redeeming(x, b, order, n) \in Seq(DrawSaves(x, b, order))
           /\ Seating(x, b, order, n) \in Seq(DrawSaves(x, b, order))
           /\ Leaving(x, b, order, n) \in Seq(DrawSaves(x, b, order))
<1>. DEFINE k == order[n]
            W == DrawSaves(x, b, order)
            c == WhoAt(x, b, order, n)
            t == TokenOf(b.tokens, c, x)
<1>1. k \in DOMAIN b.tickets[x]
  OBVIOUS
<1>2. c \in Everyone
  BY <1>1, WishesMean DEF WhoAt
<1>3. Issues(c, x) \in W
  <2>1. Issues(c, x) \in NewTokenSaves
    BY <1>2 DEF Issues, NewTokenSaves
  <2>. QED BY <2>1 DEF DrawSaves
<1>4. ASSUME t # 0 PROVE Redeems(t, x) \in W
  <2>1. Redeems(t, x) \in TokenSaves(b)
    BY <1>4, TokenSaved DEF Jobs
  <2>. QED BY <2>1 DEF DrawSaves, SpendSaves, Redeems
<1>5. n \in SeatedAt(x, b, order) => Seats(Assigned(x, b, order)[n], c) \in W /\ Marks(x, k, "seated") \in W
  BY DEF DrawSaves, SeatSaves, MarkSaves
<1>6. n \notin SeatedAt(x, b, order) => Marks(x, k, "unseated") \in W
  BY DEF DrawSaves, MarkSaves
<1>7. n \in SeatedAt(x, b, order) <=> Assigned(x, b, order)[n] # None
  BY DEF SeatedAt
<1>. HIDE DEF W
<1>8. Consoled(x, b, order, n) \in Seq(W)
  BY <1>3 DEF Consoled
<1>9. IssuingTo(x, b, order, n) \in Seq(W)
  BY <1>8 DEF IssuingTo
<1>10. Redeeming(x, b, order, n) \in Seq(W)
  <2>1. CASE t = 0
    BY <2>1 DEF Redeeming
  <2>2. CASE t # 0
    <3>1. Redeeming(x, b, order, n) = <<Redeems(t, x)>> \o Consoled(x, b, order, n)
      BY <2>2, Zenon DEF Redeeming
    <3>2. <<Redeems(t, x)>> \in Seq(W)
      BY <1>4, <2>2
    <3>. QED BY <1>8, <3>1, <3>2
  <2>. QED BY <2>1, <2>2
<1>11. Seating(x, b, order, n) \in Seq(W)
  <2>1. CASE Assigned(x, b, order)[n] = None
    BY <2>1 DEF Seating
  <2>2. CASE Assigned(x, b, order)[n] # None
    <3>1. Seating(x, b, order, n) = <<Seats(Assigned(x, b, order)[n], c), Marks(x, k, "seated")>> \o IssuingTo(x, b, order, n)
      BY <2>2, Zenon DEF Seating
    <3>2. <<Seats(Assigned(x, b, order)[n], c), Marks(x, k, "seated")>> \in Seq(W)
      BY <1>5, <1>7, <2>2
    <3>. QED BY <1>9, <3>1, <3>2
  <2>. QED BY <2>1, <2>2
<1>12. Leaving(x, b, order, n) \in Seq(W)
  <2>1. CASE Assigned(x, b, order)[n] # None
    BY <2>1 DEF Leaving
  <2>2. CASE Assigned(x, b, order)[n] = None
    <3>1. Leaving(x, b, order, n) = <<Marks(x, k, "unseated")>> \o IssuingTo(x, b, order, n)
      BY <2>2, Zenon DEF Leaving
    <3>2. <<Marks(x, k, "unseated")>> \in Seq(W)
      BY <1>6, <1>7, <2>2
    <3>. QED BY <1>9, <3>1, <3>2
  <2>. QED BY <2>1, <2>2
<1>. QED BY <1>10, <1>11, <1>12 DEF W

LEMMA DrawParts ==
    ASSUME InSchedule, NEW b, Sound(b), NEW x \in Clusters, NEW order \in Seq(DOMAIN b.tickets[x])
    PROVE  /\ [n \in DOMAIN order |-> Redeeming(x, b, order, n)] \in Seq(Seq(DrawSaves(x, b, order)))
           /\ [n \in DOMAIN order |-> Seating(x, b, order, n)] \in Seq(Seq(DrawSaves(x, b, order)))
           /\ [n \in DOMAIN order |-> Leaving(x, b, order, n)] \in Seq(Seq(DrawSaves(x, b, order)))
           /\ Redemptions(x, b, order) \in Seq(DrawSaves(x, b, order))
           /\ Seatings(x, b, order) \in Seq(DrawSaves(x, b, order))
           /\ Leavings(x, b, order) \in Seq(DrawSaves(x, b, order))
           /\ Closing(x) \in Seq(DrawnSaves) /\ Len(Closing(x)) # 0
<1>. DEFINE W == DrawSaves(x, b, order)
            r == [n \in DOMAIN order |-> Redeeming(x, b, order, n)]
            s == [n \in DOMAIN order |-> Seating(x, b, order, n)]
            l == [n \in DOMAIN order |-> Leaving(x, b, order, n)]
<1>1. DOMAIN order = 1..Len(order) /\ Len(order) \in Nat
  OBVIOUS
<1>2. \A n \in DOMAIN order : Redeeming(x, b, order, n) \in Seq(W) /\ Seating(x, b, order, n) \in Seq(W) /\ Leaving(x, b, order, n) \in Seq(W)
  BY DrawPieces
<1>3. r \in Seq(Seq(W)) /\ s \in Seq(Seq(W)) /\ l \in Seq(Seq(W))
  <2>. HIDE DEF W
  <2>1. \A f : f \in [1..Len(order) -> Seq(W)] => f \in Seq(Seq(W))
    BY <1>1
  <2>2. r \in [1..Len(order) -> Seq(W)] /\ s \in [1..Len(order) -> Seq(W)] /\ l \in [1..Len(order) -> Seq(W)]
    BY <1>1, <1>2
  <2>. QED BY <2>1, <2>2
<1>4. FlattenSeq(r) \in Seq(W) /\ FlattenSeq(s) \in Seq(W) /\ FlattenSeq(l) \in Seq(W)
  <2>. HIDE DEF W, r, s, l
  <2>. QED BY <1>3, FlattenSeqs
<1>5. Closing(x) \in Seq(DrawnSaves) /\ Len(Closing(x)) # 0
  <2>. DEFINE M == Members[x]
              N == Cardinality(M)
              m == SetToSeq(M)
  <2>1. IsFiniteSet(M) /\ M \subseteq Staff /\ M # {}
    BY CalendarAssumption, FS_Subset DEF InSchedule
  <2>2. N \in Nat /\ N # 0
    BY <2>1, FS_CardinalityType, FS_EmptySet
  <2>3. m \in [1..N -> M]
    <3>1. \E f : f \in Bijection(1..N, M)
      BY <2>1, FS_NatBijection, FS_CountingElements DEF ExistsBijection
    <3>2. \E f \in [1..N -> M] : IsInjective(f)
      BY <3>1 DEF Bijection, Injection
    <3>. QED BY <3>2, Zenon DEF SetToSeq
  <2>4. Closing(x) = [n \in DOMAIN m |-> Draws(m[n])]
    BY Zenon DEF Closing
  <2>5. \A e \in M : Draws(e) \in DrawnSaves
    BY <2>1 DEF Draws, DrawnSaves
  <2>. HIDE DEF m, N, M
  <2>6. Closing(x) \in [1..N -> DrawnSaves]
    BY <2>3, <2>4, <2>5
  <2>. QED BY <2>2, <2>6
<1>. QED BY <1>3, <1>4, <1>5 DEF Redemptions, Seatings, Leavings

LEMMA AssignedIn ==
    ASSUME InSchedule, NEW b, Sound(b), NEW x \in Clusters, NEW order \in Seq(DOMAIN b.tickets[x]),
           NEW n \in DOMAIN order, Assigned(x, b, order)[n] # None
    PROVE  Assigned(x, b, order)[n] \in Members[x]
<1>. DEFINE to == Assigned(x, b, order)
<1>1. to \in Seq(Members[x] \cup {None}) /\ Len(to) = Len(order)
  BY AssignedMeans
<1>2. to[n] # None /\ n \in 1..Len(order)
  OBVIOUS
<1>. HIDE DEF to
<1>3. to[n] \in Members[x] \cup {None}
  BY <1>1, <1>2
<1>. QED BY <1>2, <1>3 DEF to

LEMMA ClusterSaves ==
    ASSUME InSchedule, NEW b, Sound(b), NEW x \in Clusters, NEW order \in Seq(DOMAIN b.tickets[x])
    PROVE  /\ DrawSaves(x, b, order) \cup DrawnSaves \subseteq SavesOf(b)
           /\ ClusterDraw(x, b, order) \in Seq(DrawSaves(x, b, order) \cup DrawnSaves)
<1>1. SeatSaves(x, b, order) \subseteq NewRowSaves
  <2>. SUFFICES ASSUME NEW n \in SeatedAt(x, b, order)
                PROVE  Seats(Assigned(x, b, order)[n], WhoAt(x, b, order, n)) \in NewRowSaves
    BY DEF SeatSaves
  <2>1. n \in DOMAIN order /\ Assigned(x, b, order)[n] # None /\ order[n] \in DOMAIN b.tickets[x]
    BY DEF SeatedAt
  <2>2. Assigned(x, b, order)[n] \in Members[x]
    BY <2>1, AssignedIn
  <2>3. WhoAt(x, b, order, n) \in Everyone /\ Members[x] \subseteq Events
    BY <2>1, WishesMean DEF WhoAt
  <2>. QED BY <2>2, <2>3 DEF Seats, NewRowSaves, Clustered
<1>2. MarkSaves(x, b, order) \subseteq TicketSaves(b)
  <2>1. b.tickets[x] \in Seq(Applications(x))
    BY DEF Sound, TicketsSound
  <2>2. \A n \in DOMAIN order : order[n] \in DOMAIN b.tickets[x] /\ order[n] \in Nat
    BY <2>1
  <2>. QED BY <2>2 DEF MarkSaves, Marks, TicketSaves
<1>3. DrawSaves(x, b, order) \cup DrawnSaves \subseteq SavesOf(b)
  BY <1>1, <1>2 DEF DrawSaves, SavesOf, SpendSaves
<1>. DEFINE W == DrawSaves(x, b, order) \cup DrawnSaves
            r == Redemptions(x, b, order)
            s == Seatings(x, b, order)
            l == Leavings(x, b, order)
            c == Closing(x)
<1>4. r \in Seq(W) /\ s \in Seq(W) /\ l \in Seq(W) /\ c \in Seq(W)
  <2>1. /\ r \in Seq(DrawSaves(x, b, order)) /\ s \in Seq(DrawSaves(x, b, order)) /\ l \in Seq(DrawSaves(x, b, order))
        /\ c \in Seq(DrawnSaves)
    BY DrawParts
  <2>. QED BY <2>1
<1>5. ClusterDraw(x, b, order) = r \o s \o l \o c
  BY ClusterDrawIs
<1>. HIDE DEF W, r, s, l, c
<1>6. ClusterDraw(x, b, order) \in Seq(W)
  BY <1>4, <1>5
<1>. QED BY <1>3, <1>6 DEF W

-----------------------------------------------------------------------------
(***************************************************************************)
(* The state is well formed, whatever a step does.                         *)
(***************************************************************************)
LEMMA Frame ==
    ASSUME Events' = Events, Clusters' = Clusters
    PROVE  /\ Everyone' = Everyone /\ Rows' = Rows /\ Tokens' = Tokens /\ Jobs' = Jobs
           /\ \A x : Applications(x)' = Applications(x)
           /\ \A e : Clustered(e)' <=> Clustered(e)
           /\ Databases' = Databases
           /\ InSchedule => InSchedule'
<1>1. Everyone' = Everyone /\ Jobs' = Jobs
  BY DEF Everyone, Jobs
<1>2. Rows' = Rows /\ Tokens' = Tokens
  BY <1>1 DEF Rows, Tokens
<1>3. \A x : Applications(x)' = Applications(x)
  BY <1>1 DEF Applications
<1>4. \A e : Clustered(e)' <=> Clustered(e)
  BY DEF Clustered
<1>5. Databases' = Databases
  BY <1>2, <1>3 DEF Databases
<1>6. InSchedule => InSchedule'
  BY DEF InSchedule
<1>. QED BY <1>1, <1>2, <1>3, <1>4, <1>5, <1>6

LEMMA SoundNext ==
    ASSUME Events' = Events, Clusters' = Clusters, NEW t, Sound(t),
           rows' = t.rows, tickets' = t.tickets, tokens' = t.tokens, drawn' = t.drawn
    PROVE  Sound(State)'
<1>1. /\ Rows' = Rows /\ Databases' = Databases
      /\ \A x : Applications(x)' = Applications(x)
      /\ \A e : Clustered(e)' <=> Clustered(e)
  BY Frame
<1>2. t \in Databases /\ (\A e \in Events : RowsSound(e, t.rows[e])) /\ \A x \in Clusters : TicketsSound(x, t.tickets[x])
  BY DEF Sound
<1>3. State' = t
  BY <1>2 DEF State, Databases
<1>4. State' \in Databases'
  BY <1>1, <1>2, <1>3
<1>5. ASSUME NEW e \in Events PROVE RowsSound(e, State.rows[e])'
  <2>1. RowsSound(e, t.rows[e])
    BY <1>2
  <2>. DEFINE r == t.rows[e]
  <2>2. State.rows[e]' = r
    BY <1>3
  <2>. HIDE DEF r
  <2>3. RowsSound(e, r)
    BY <2>1 DEF r
  <2>. QED BY <1>1, <2>2, <2>3 DEF RowsSound
<1>6. ASSUME NEW x \in Clusters PROVE TicketsSound(x, State.tickets[x])'
  <2>1. TicketsSound(x, t.tickets[x])
    BY <1>2
  <2>. DEFINE q == t.tickets[x]
  <2>2. State.tickets[x]' = q
    BY <1>3
  <2>. HIDE DEF q
  <2>3. TicketsSound(x, q)
    BY <2>1 DEF q
  <2>. QED BY <1>1, <2>2, <2>3 DEF TicketsSound
<1>. QED BY <1>4, <1>5, <1>6 DEF Sound

(* What the script leaves has grown from what it found. *)
LEMMA ScriptLeaves ==
    ASSUME InSchedule, Sound(State), NEW e \in Events, Script(e)
    PROVE  \E t \in Grown(State) : Leaves(t)
<1>1. PICK saves \in Drawings(e) :
        LET s == Whole(State, saves)
            x == Whole(s, Expiring(e, s))
        IN  \E t \in Partly(State, saves) \cup Partly(s, Expiring(e, s)) \cup Partly(x, Issuing(e, x))
                     \cup {Whole(x, Issuing(e, x))} : Leaves(t)
  BY Zenon DEF Script, Sweep, SweepInterrupted
<1>. DEFINE s == Whole(State, saves)
            x == Whole(s, Expiring(e, s))
<1>2. PICK t \in Partly(State, saves) \cup Partly(s, Expiring(e, s)) \cup Partly(x, Issuing(e, x))
                     \cup {Whole(x, Issuing(e, x))} : Leaves(t)
  BY <1>1, Zenon
<1>3. saves \in Seq(SavesOf(State))
  <2>1. CASE LotteryDue(e)
    <3>1. saves \in Lotteries(e, State) /\ e \in Staff
      BY <2>1 DEF Drawings, LotteryDue
    <3>. QED BY <3>1, LotterySaves
  <2>2. CASE ~LotteryDue(e)
    <3>1. saves = <<>>
      BY <2>2 DEF Drawings
    <3>. QED BY <3>1
  <2>. QED BY <2>1, <2>2
<1>4. Partly(State, saves) \subseteq Grown(State) /\ s \in Grown(State)
  BY <1>3, GrownTrail
<1>. HIDE DEF s
<1>5. Sound(s)
  BY <1>4 DEF Grown
<1>6. Expiring(e, s) \in Seq(SavesOf(s))
  BY <1>5, ExpirySaves DEF Expiring
<1>7. Partly(s, Expiring(e, s)) \subseteq Grown(s) /\ x \in Grown(s)
  BY <1>5, <1>6, GrownTrail
<1>8. Partly(s, Expiring(e, s)) \subseteq Grown(State) /\ x \in Grown(State)
  BY <1>4, <1>7, GrownTwice
<1>. HIDE DEF x
<1>9. Sound(x)
  BY <1>8 DEF Grown
<1>10. Issuing(e, x) \in Seq(SavesOf(x))
  BY <1>9, PostEventTokensSaves DEF Issuing
<1>11. Partly(x, Issuing(e, x)) \subseteq Grown(x) /\ Whole(x, Issuing(e, x)) \in Grown(x)
  BY <1>9, <1>10, GrownTrail
<1>12. Partly(x, Issuing(e, x)) \subseteq Grown(State) /\ Whole(x, Issuing(e, x)) \in Grown(State)
  BY <1>8, <1>11, GrownTwice
<1>. QED BY <1>2, <1>4, <1>8, <1>12

LEMMA DrawLeaves ==
    ASSUME InSchedule, Sound(State), NEW x \in Clusters, Draw(x)
    PROVE  \E t \in Grown(State) : Leaves(t)
<1>1. PICK order \in Orders(x, State) :
        \E t \in Partly(State, ClusterDraw(x, State, order)) \cup {Whole(State, ClusterDraw(x, State, order))} : Leaves(t)
  BY Zenon DEF Draw, SweepCluster, SweepClusterInterrupted
<1>2. order \in Seq(DOMAIN State.tickets[x])
  BY OrdersMean
<1>. DEFINE saves == ClusterDraw(x, State, order)
<1>3. saves \in Seq(SavesOf(State))
  <2>1. saves \in Seq(DrawSaves(x, State, order) \cup DrawnSaves) /\ DrawSaves(x, State, order) \cup DrawnSaves \subseteq SavesOf(State)
    BY <1>2, ClusterSaves
  <2>. HIDE DEF saves
  <2>. QED BY <2>1
<1>4. Partly(State, saves) \subseteq Grown(State) /\ Whole(State, saves) \in Grown(State)
  BY <1>3, GrownTrail
<1>. QED BY <1>1, <1>4

(* Who waits for a seat that is free, in a database. *)
LEMMA LeavesSound ==
    ASSUME InSchedule, Sound(State), NEW t \in Grown(State), Leaves(t)
    PROVE  /\ Events' = Events /\ Clusters' = Clusters /\ InSchedule' /\ Sound(State)' /\ State' = t
           /\ UNCHANGED phase
<1>1. t \in Databases /\ Sound(t)
  BY DEF Grown
<1>2. rows' = t.rows /\ tickets' = t.tickets /\ tokens' = t.tokens /\ drawn' = t.drawn /\ UNCHANGED phase
  BY DEF Leaves
<1>3. Events' = Events /\ Clusters' = Clusters
  BY <1>1, <1>2 DEF Databases, Events, Clusters
<1>4. Sound(State)'
  BY <1>1, <1>2, <1>3, SoundNext
<1>. QED BY <1>1, <1>2, <1>3, <1>4, Frame DEF State, Databases

LEMMA LeavesNoneWaiting ==
    ASSUME InSchedule, Sound(State), NEW t \in Grown(State), Leaves(t), NEW e \in Events,
           crashes[e] \in Int, crashes'[e] \in Int, crashes[e] <= crashes'[e], Cap[e] \in Nat,
           Places(rows[e]) # {} => Count(rows[e], "confirmed") + crashes[e] >= Cap[e]
    PROVE  Places(rows'[e]) # {} => Count(rows'[e], "confirmed") + crashes'[e] >= Cap[e]
<1>. DEFINE p == rows[e]
            r == rows'[e]
<1>1. Kept(r, p) /\ p \in Seq(Rows) /\ r \in Seq(Rows)
  BY DEF Grown, State, Sound, Databases, Leaves
<1>. HIDE DEF p, r
<1>2. DOMAIN p = 1..Len(p) /\ DOMAIN r = 1..Len(r) /\ Len(p) <= Len(r) /\ Len(p) \in Nat /\ Len(r) \in Nat
  BY <1>1 DEF Kept
<1>3. \A k \in DOMAIN r : k \notin DOMAIN p => r[k].status \notin {"confirmed", "waitlisted"}
  BY <1>1, <1>2 DEF Kept
<1>4. \A k \in DOMAIN p : k \in DOMAIN r /\ (r[k].status = "confirmed" <=> p[k].status = "confirmed")
                          /\ (r[k].status = "waitlisted" <=> p[k].status = "waitlisted")
                          /\ r[k].place = p[k].place
  BY <1>1, <1>2 DEF Kept
<1>5. At(r, "confirmed") = At(p, "confirmed") /\ At(r, "waitlisted") = At(p, "waitlisted")
  BY <1>3, <1>4 DEF At
<1>6. Count(r, "confirmed") = Count(p, "confirmed") /\ (Places(r) # {} => Places(p) # {})
  BY <1>5 DEF Count, Places
<1>7. Count(p, "confirmed") \in Nat
  BY <1>1, AtMeans DEF Count
<1>. QED BY <1>6, <1>7 DEF p, r

-----------------------------------------------------------------------------
(***************************************************************************)
(* Rows that are replaced or added, as the commands do.                    *)
(***************************************************************************)
LEMMA ReplaceRow ==
    ASSUME NEW e, NEW r \in Seq(Rows), RowsSound(e, r), NEW k \in DOMAIN r, NEW v \in Rows, v.who = r[k].who,
           v.status # "waitlisted", v.status \in {"entered", "selected"} => e \in Staff,
           v.status = "invited" => ~(e \in Staff /\ e \in StaffHosted)
    PROVE  /\ [r EXCEPT ![k] = v] \in Seq(Rows) /\ RowsSound(e, [r EXCEPT ![k] = v])
           /\ DOMAIN [r EXCEPT ![k] = v] = DOMAIN r /\ [r EXCEPT ![k] = v][k] = v
           /\ \A l \in DOMAIN r : l # k => [r EXCEPT ![k] = v][l] = r[l]
<1>1. DOMAIN r = 1..Len(r) /\ r[k] \in Rows
  OBVIOUS
<1>. DEFINE q == [r EXCEPT ![k] = v]
<1>2. q \in Seq(Rows) /\ DOMAIN q = DOMAIN r /\ q[k] = v /\ \A l \in DOMAIN r : l # k => q[l] = r[l]
  BY <1>1
<1>. HIDE DEF q
<1>3. \A l \in DOMAIN q : q[l].who = r[l].who /\ (l = k \/ q[l] = r[l])
  BY <1>2
<1>4. \A l \in DOMAIN q :
          /\ ~Clustered(e) => q[l].who \in Interest[e]
          /\ q[l].status \in {"entered", "selected"} => e \in Staff
          /\ q[l].status = "waitlisted" => e \notin Staff
          /\ q[l].status = "invited" => ~(e \in Staff /\ e \in StaffHosted)
  BY <1>2, <1>3 DEF RowsSound
<1>5. ASSUME NEW l \in DOMAIN q, NEW m \in DOMAIN q, l < m
      PROVE  /\ q[l].who # q[m].who
             /\ {q[l].status, q[m].status} = {"waitlisted"} => q[l].place < q[m].place
  <2>1. /\ r[l].who # r[m].who
        /\ {r[l].status, r[m].status} = {"waitlisted"} => r[l].place < r[m].place
    BY <1>2, <1>5 DEF RowsSound
  <2>2. {q[l].status, q[m].status} = {"waitlisted"} => q[l] = r[l] /\ q[m] = r[m]
    BY <1>2, <1>3
  <2>. QED BY <1>3, <2>1, <2>2
<1>6. RowsSound(e, q)
  BY <1>4, <1>5 DEF RowsSound
<1>. QED BY <1>2, <1>6 DEF q

(* q is r but for the row at k. *)
Replaces(r, q, k) == DOMAIN q = DOMAIN r /\ k \in DOMAIN r /\ \A l \in DOMAIN r : l # k => q[l] = r[l]

LEMMA CountReplaced ==
    ASSUME NEW r \in Seq(Rows), NEW q \in Seq(Rows), NEW k, Replaces(r, q, k), NEW status
    PROVE  /\ Count(r, status) \in Nat /\ Count(q, status) \in Nat
           /\ Count(q, status) = Count(r, status) + (IF q[k].status = status THEN 1 ELSE 0)
                                                  - (IF r[k].status = status THEN 1 ELSE 0)
<1>. DEFINE A == At(r, status)
            B == At(q, status)
<1>0. DOMAIN q = DOMAIN r /\ k \in DOMAIN r /\ \A l \in DOMAIN r : l # k => q[l] = r[l]
  BY DEF Replaces
<1>1. IsFiniteSet(A) /\ Cardinality(A) \in Nat
  BY AtMeans
<1>2. B = (A \ {k}) \cup (IF q[k].status = status THEN {k} ELSE {})
  BY <1>0 DEF At
<1>3. k \in A <=> r[k].status = status
  BY <1>0 DEF At
<1>. HIDE DEF A, B
<1>4. IsFiniteSet(A \ {k}) /\ Cardinality(A \ {k}) = Cardinality(A) - IF k \in A THEN 1 ELSE 0
  BY <1>1, FS_RemoveElement
<1>5. Cardinality(A \ {k}) \in Nat
  BY <1>4, FS_CardinalityType
<1>6. Cardinality(B) = Cardinality(A \ {k}) + IF q[k].status = status THEN 1 ELSE 0
  <2>1. CASE q[k].status = status
    <3>1. B = (A \ {k}) \cup {k} /\ k \notin A \ {k}
      BY <1>2, <2>1
    <3>2. Cardinality(B) = Cardinality(A \ {k}) + 1
      BY <1>4, <3>1, FS_AddElement
    <3>. QED BY <2>1, <3>2
  <2>2. CASE q[k].status # status
    BY <1>2, <1>5, <2>2
  <2>. QED BY <2>1, <2>2
<1>. QED BY <1>1, <1>3, <1>4, <1>5, <1>6 DEF Count, A, B

LEMMA CountAppended ==
    ASSUME NEW S, NEW r \in Seq(S), NEW row \in S, NEW status
    PROVE  /\ Count(r, status) \in Nat /\ Count(Append(r, row), status) \in Nat
           /\ Count(Append(r, row), status) = Count(r, status) + IF row.status = status THEN 1 ELSE 0
<1>. DEFINE A == At(r, status)
            q == Append(r, row)
            B == At(q, status)
            n == Len(r) + 1
<1>1. IsFiniteSet(A) /\ Cardinality(A) \in Nat /\ A \subseteq DOMAIN r
  BY AtMeans
<1>2. DOMAIN r = 1..Len(r) /\ DOMAIN q = 1..n /\ q[n] = row /\ n \notin DOMAIN r /\ n \in DOMAIN q
      /\ \A l \in DOMAIN r : q[l] = r[l] /\ l \in DOMAIN q
  OBVIOUS
<1>3. \A l \in DOMAIN q : l = n \/ l \in DOMAIN r
  BY <1>2
<1>. HIDE DEF q, n
<1>4. B = A \cup (IF row.status = status THEN {n} ELSE {}) /\ n \notin A
  BY <1>1, <1>2, <1>3 DEF At
<1>. HIDE DEF A, B
<1>5. Cardinality(B) = Cardinality(A) + IF row.status = status THEN 1 ELSE 0
  <2>1. CASE row.status = status
    <3>1. Cardinality(B) = Cardinality(A) + 1
      BY <1>1, <1>4, <2>1, FS_AddElement
    <3>. QED BY <2>1, <3>1
  <2>2. CASE row.status # status
    BY <1>1, <1>4, <2>2
  <2>. QED BY <2>1, <2>2
<1>. QED BY <1>1, <1>5 DEF Count, A, B, q

(* Places of a waitlist: the first is someone's, a new one is behind all.  *)
LEMMA FiniteMax ==
    ASSUME NEW P, IsFiniteSet(P), P # {}
    PROVE  P \subseteq Nat => Max(P) \in P /\ \A p \in P : Max(P) >= p
<1>. DEFINE Above(q) == {p \in P : p > q}
            T == {Above(q) : q \in P}
<1>1. T \in SUBSET SUBSET P /\ T # {}
  OBVIOUS
<1>2. \A t : t \in T <=> \E q \in P : t = Above(q)
  OBVIOUS
<1>. HIDE DEF T
<1>3. PICK t \in T : \A y \in T : y \subseteq t => y = t
  BY <1>1, MinimalSubset
<1>. HAVE P \subseteq Nat
<1>4. PICK q \in P : t = Above(q)
  BY <1>2
<1>5. ASSUME NEW p \in P, p > q PROVE FALSE
  <2>a. \A z \in Nat : z > p => z > q
    <3>1. p \in Nat /\ q \in Nat
      OBVIOUS
    <3>. QED BY <1>5, <3>1
  <2>1. Above(p) \subseteq Above(q)
    BY <2>a
  <2>2. p \in Above(q) /\ p \notin Above(p)
    BY <1>5
  <2>3. Above(p) \in T
    BY <1>2
  <2>. QED BY <1>3, <1>4, <2>1, <2>2, <2>3
<1>6. \A p \in P : q >= p
  BY <1>5
<1>. QED BY <1>6, Zenon DEF Max

LEMMA PlacesMean ==
    ASSUME NEW r \in Seq(Rows)
    PROVE  /\ Places(r) \in SUBSET Nat /\ IsFiniteSet(Places(r))
           /\ \A p : p \in Places(r) <=> \E k \in At(r, "waitlisted") : r[k].place = p
<1>1. \A k \in DOMAIN r : r[k].place \in Nat
  <2>1. \A k \in DOMAIN r : r[k] \in Rows
    OBVIOUS
  <2>. QED BY <2>1 DEF Rows
<1>. DEFINE A == At(r, "waitlisted")
            P == Places(r)
            f == [k \in A |-> r[k].place]
<1>2. IsFiniteSet(A) /\ A \subseteq DOMAIN r
  BY AtMeans
<1>3. P = {r[k].place : k \in A}
  BY DEF Places
<1>. HIDE DEF A, P
<1>4. f \in Surjection(A, P)
  BY <1>3 DEF Surjection
<1>5. IsFiniteSet(P)
  BY <1>2, <1>4, FS_Surjection
<1>6. P \in SUBSET Nat
  BY <1>1, <1>2, <1>3
<1>. QED BY <1>3, <1>5, <1>6 DEF A, P

LEMMA NewPlaceMeans ==
    ASSUME NEW r \in Seq(Rows)
    PROVE  NewPlace(r) \in Nat /\ \A k \in DOMAIN r : r[k].status = "waitlisted" => r[k].place < NewPlace(r)
<1>. DEFINE P == Places(r) \cup {0}
<1>1. P \in SUBSET Nat /\ IsFiniteSet(P) /\ P # {}
  BY PlacesMean, FS_AddElement
<1>2. \A k \in DOMAIN r : r[k].status = "waitlisted" => r[k].place \in P
  BY PlacesMean DEF At
<1>3. NewPlace(r) = Max(P) + 1
  BY DEF NewPlace
<1>. HIDE DEF P
<1>4. Max(P) \in P /\ \A p \in P : Max(P) >= p
  BY <1>1, FiniteMax
<1>5. Max(P) \in Nat /\ \A p \in P : p \in Nat /\ p < Max(P) + 1
  <2>1. Max(P) \in Nat /\ \A p \in P : p \in Nat
    BY <1>1, <1>4, Zenon
  <2>. QED BY <1>4, <2>1
<1>. QED BY <1>2, <1>3, <1>5

LEMMA NextUpMeans ==
    ASSUME NEW r \in Seq(Rows), \A k, l \in DOMAIN r : k < l => r[k].who # r[l].who, Places(r) # {}
    PROVE  RowOf(r, NextUp(r)) \in DOMAIN r /\ r[RowOf(r, NextUp(r))].status = "waitlisted"
<1>1. Min(Places(r)) \in Places(r)
  BY PlacesMean, MinMeans
<1>2. PICK k \in At(r, "waitlisted") : r[k].place = Min(Places(r))
  BY <1>1, PlacesMean
<1>. DEFINE c == r[k].who
<1>3. k \in DOMAIN r /\ r[k].status = "waitlisted"
  BY DEF At
<1>4. RowOf(r, c) \in DOMAIN r /\ r[RowOf(r, c)].who = c /\ RowOf(r, c) # 0
  <2>1. RowOf(r, c) # 0
    BY <1>3, RowOfMeans
  <2>. QED BY <2>1, RowOfMeans
<1>5. RowOf(r, c) = k
  <2>1. RowOf(r, c) \in Nat /\ k \in Nat
    BY <1>3, <1>4
  <2>2. ~(RowOf(r, c) < k) /\ ~(k < RowOf(r, c))
    BY <1>3, <1>4
  <2>. QED BY <2>1, <2>2
<1>6. Is(r, c, {"waitlisted"}) /\ r[RowOf(r, c)].place = Min(Places(r))
  BY <1>2, <1>3, <1>4, <1>5 DEF Is
<1>7. c \in {row.who : row \in ToSet(r)}
  BY <1>3 DEF ToSet
<1>8. Is(r, NextUp(r), {"waitlisted"})
  <2>. HIDE DEF c
  <2>. QED BY <1>6, <1>7, Zenon DEF NextUp
<1>9. RowOf(r, NextUp(r)) # 0 /\ r[RowOf(r, NextUp(r))].status = "waitlisted"
  BY <1>8 DEF Is
<1>. QED BY <1>9, RowOfMeans

LEMMA IsMeans ==
    ASSUME NEW S, NEW r \in Seq(S), \A k, l \in DOMAIN r : k < l => r[k].who # r[l].who, NEW c, NEW statuses
    PROVE  Is(r, c, statuses) <=> \E k \in DOMAIN r : r[k].who = c /\ r[k].status \in statuses
<1>1. ASSUME Is(r, c, statuses) PROVE \E k \in DOMAIN r : r[k].who = c /\ r[k].status \in statuses
  <2>1. RowOf(r, c) \in DOMAIN r /\ r[RowOf(r, c)].who = c
    BY <1>1, RowOfMeans DEF Is
  <2>. QED BY <1>1, <2>1 DEF Is
<1>2. ASSUME NEW k \in DOMAIN r, r[k].who = c, r[k].status \in statuses PROVE Is(r, c, statuses)
  <2>1. RowOf(r, c) # 0
    BY <1>2, RowOfMeans
  <2>2. RowOf(r, c) \in DOMAIN r /\ r[RowOf(r, c)].who = c
    BY <2>1, RowOfMeans
  <2>3. RowOf(r, c) = k
    <3>1. RowOf(r, c) \in Nat /\ k \in Nat
      BY <2>2
    <3>2. ~(RowOf(r, c) < k) /\ ~(k < RowOf(r, c))
      BY <1>2, <2>2
    <3>. QED BY <3>1, <3>2
  <2>. QED BY <1>2, <2>1, <2>3 DEF Is
<1>. QED BY <1>1, <1>2

(* Nobody waits for a seat of an event, but for n of them. *)
Waits(e, r, n) == Places(r) # {} => Count(r, "confirmed") + n >= Cap[e]

(* A command gives nobody a seat in a lottery, nor more seats in all. *)
SeatStatuses == {"selected", "confirmed"}
Tame(r, q) ==
    /\ Taken(q) <= Taken(r)
    /\ \A c : Is(q, c, SeatStatuses) => Is(r, c, SeatStatuses)

LEMMA ReplacedWaits ==
    ASSUME NEW r \in Seq(Rows), NEW q \in Seq(Rows), NEW k, Replaces(r, q, k), q[k].status # "waitlisted"
    PROVE  /\ Places(q) # {} => Places(r) # {}
           /\ Count(r, "confirmed") \in Nat
           /\ Count(q, "confirmed") = Count(r, "confirmed") + (IF q[k].status = "confirmed" THEN 1 ELSE 0)
                                                            - (IF r[k].status = "confirmed" THEN 1 ELSE 0)
<1>1. At(q, "waitlisted") \subseteq At(r, "waitlisted")
  BY DEF At, Replaces
<1>2. Places(q) # {} => Places(r) # {}
  BY <1>1 DEF Places
<1>3. /\ Count(r, "confirmed") \in Nat
      /\ Count(q, "confirmed") = Count(r, "confirmed") + (IF q[k].status = "confirmed" THEN 1 ELSE 0)
                                                       - (IF r[k].status = "confirmed" THEN 1 ELSE 0)
  BY CountReplaced
<1>. QED BY <1>2, <1>3

LEMMA ReplacedTame ==
    ASSUME NEW e, NEW r \in Seq(Rows), NEW q \in Seq(Rows), RowsSound(e, r), RowsSound(e, q), NEW k,
           Replaces(r, q, k), q[k].who = r[k].who,
           q[k].status \in SeatStatuses => r[k].status \in SeatStatuses
    PROVE  Tame(r, q)
<1>1. Taken(q) <= Taken(r)
  <2>2. /\ Count(r, "confirmed") \in Nat /\ Count(q, "confirmed") \in Nat
        /\ Count(q, "confirmed") = Count(r, "confirmed") + (IF q[k].status = "confirmed" THEN 1 ELSE 0)
                                                         - (IF r[k].status = "confirmed" THEN 1 ELSE 0)
    BY CountReplaced
  <2>3. /\ Count(r, "selected") \in Nat /\ Count(q, "selected") \in Nat
        /\ Count(q, "selected") = Count(r, "selected") + (IF q[k].status = "selected" THEN 1 ELSE 0)
                                                         - (IF r[k].status = "selected" THEN 1 ELSE 0)
    BY CountReplaced
  <2>4. CASE q[k].status \in SeatStatuses
    <3>1. /\ q[k].status = "confirmed" \/ q[k].status = "selected"
          /\ r[k].status = "confirmed" \/ r[k].status = "selected"
      BY <2>4 DEF SeatStatuses
    <3>. DEFINE qc == Count(q, "confirmed")
                qs == Count(q, "selected")
                rc == Count(r, "confirmed")
                rs == Count(r, "selected")
    <3>3. qc \in Nat /\ qs \in Nat /\ rc \in Nat /\ rs \in Nat
      BY <2>2, <2>3
    <3>4. /\ q[k].status = "confirmed" /\ r[k].status = "confirmed" => qc = rc + 1 - 1 /\ qs = rs + 0 - 0
          /\ q[k].status = "confirmed" /\ r[k].status = "selected" => qc = rc + 1 - 0 /\ qs = rs + 0 - 1
          /\ q[k].status = "selected" /\ r[k].status = "confirmed" => qc = rc + 0 - 1 /\ qs = rs + 1 - 0
          /\ q[k].status = "selected" /\ r[k].status = "selected" => qc = rc + 0 - 0 /\ qs = rs + 1 - 1
      BY <2>2, <2>3
    <3>. HIDE DEF qc, qs, rc, rs
    <3>2. qc + qs = rc + rs
      BY <3>1, <3>3, <3>4
    <3>. USE DEF qc, qs, rc, rs
    <3>. QED BY <2>2, <2>3, <3>2 DEF Taken
  <2>5. CASE q[k].status \notin SeatStatuses
    <3>1. q[k].status # "confirmed" /\ q[k].status # "selected"
      BY <2>5 DEF SeatStatuses
    <3>2. Count(q, "confirmed") <= Count(r, "confirmed") /\ Count(q, "selected") <= Count(r, "selected")
      BY <2>2, <2>3, <3>1
    <3>. QED BY <2>2, <2>3, <3>2 DEF Taken
  <2>. QED BY <2>4, <2>5
<1>2. ASSUME NEW c, Is(q, c, SeatStatuses) PROVE Is(r, c, SeatStatuses)
  <2>1. \A l, m \in DOMAIN q : l < m => q[l].who # q[m].who
    BY DEF RowsSound
  <2>2. \A l, m \in DOMAIN r : l < m => r[l].who # r[m].who
    BY DEF RowsSound
  <2>3. PICK l \in DOMAIN q : q[l].who = c /\ q[l].status \in SeatStatuses
    BY <1>2, <2>1, IsMeans
  <2>4. l \in DOMAIN r /\ r[l].who = c /\ r[l].status \in SeatStatuses
    BY <2>3 DEF Replaces
  <2>. QED BY <2>2, <2>4, IsMeans
<1>. QED BY <1>1, <1>2 DEF Tame

LEMMA AppendedTame ==
    ASSUME NEW e, NEW r \in Seq(Rows), NEW row \in Rows, Append(r, row) \in Seq(Rows), RowsSound(e, r), RowsSound(e, Append(r, row)),
           row.status \notin SeatStatuses
    PROVE  Tame(r, Append(r, row))
<1>. DEFINE q == Append(r, row)
<1>1. Taken(q) <= Taken(r)
  <2>1. /\ Count(r, "confirmed") \in Nat
        /\ Count(q, "confirmed") = Count(r, "confirmed") + IF row.status = "confirmed" THEN 1 ELSE 0
    BY CountAppended
  <2>2. /\ Count(r, "selected") \in Nat
        /\ Count(q, "selected") = Count(r, "selected") + IF row.status = "selected" THEN 1 ELSE 0
    BY CountAppended
  <2>. QED BY <2>1, <2>2 DEF Taken, SeatStatuses
<1>2. ASSUME NEW c, Is(q, c, SeatStatuses) PROVE Is(r, c, SeatStatuses)
  <2>1. \A l, m \in DOMAIN q : l < m => q[l].who # q[m].who
    BY DEF RowsSound
  <2>2. \A l, m \in DOMAIN r : l < m => r[l].who # r[m].who
    BY DEF RowsSound
  <2>3. PICK l \in DOMAIN q : q[l].who = c /\ q[l].status \in SeatStatuses
    <3>. HIDE DEF q
    <3>1. q \in Seq(Rows)
      BY DEF q
    <3>. QED BY <1>2, <2>1, <3>1, IsMeans
  <2>4. l = Len(r) + 1 \/ (l \in DOMAIN r /\ q[l] = r[l])
    BY <2>3
  <2>5. q[Len(r) + 1] = row
    OBVIOUS
  <2>6. l \in DOMAIN r /\ r[l].who = c /\ r[l].status \in SeatStatuses
    BY <2>3, <2>4, <2>5
  <2>. QED BY <2>2, <2>6, IsMeans
<1>. QED BY <1>1, <1>2 DEF Tame

LEMMA AppendedWaits ==
    ASSUME NEW r \in Seq(Rows), NEW row \in Rows, row.status # "waitlisted"
    PROVE  /\ Places(Append(r, row)) # {} => Places(r) # {}
           /\ Count(r, "confirmed") \in Nat
           /\ Count(Append(r, row), "confirmed") = Count(r, "confirmed") + IF row.status = "confirmed" THEN 1 ELSE 0
<1>. DEFINE q == Append(r, row)
<1>1. /\ DOMAIN r = 1..Len(r) /\ Len(r) \in Nat /\ DOMAIN q = 1..(Len(r) + 1) /\ q[Len(r) + 1] = row
      /\ \A l \in DOMAIN r : q[l] = r[l]
  OBVIOUS
<1>2. \A l \in DOMAIN q : l = Len(r) + 1 \/ l \in DOMAIN r
  BY <1>1
<1>. HIDE DEF q
<1>3. At(q, "waitlisted") \subseteq At(r, "waitlisted")
  BY <1>1, <1>2 DEF At
<1>4. Places(q) # {} => Places(r) # {}
  BY <1>3 DEF Places
<1>5. /\ Count(r, "confirmed") \in Nat
      /\ Count(q, "confirmed") = Count(r, "confirmed") + IF row.status = "confirmed" THEN 1 ELSE 0
  BY CountAppended DEF q
<1>. QED BY <1>4, <1>5 DEF q

(* r may replace the rows p of an event, after n interruptions more. *)
Follows(e, p, r, n) ==
    /\ r \in Seq(Rows) /\ RowsSound(e, r)
    /\ \A m \in Nat : Waits(e, p, m) => Waits(e, r, m + n)
    /\ e \in Staff \cap StaffHosted => Tame(p, r)

LEMMA NobodyWaitsForALottery ==
    ASSUME NEW e \in Staff, NEW r \in Seq(Rows), RowsSound(e, r)
    PROVE  Places(r) = {}
<1>1. At(r, "waitlisted") = {}
  BY DEF At, RowsSound
<1>. QED BY <1>1 DEF Places

LEMMA ReplacedFollows ==
    ASSUME NEW e, NEW p \in Seq(Rows), RowsSound(e, p), NEW k \in DOMAIN p, NEW v \in Rows, NEW n \in {0, 1},
           Cap[e] \in Nat, v.who = p[k].who,
           v.status # "waitlisted", v.status \in {"entered", "selected"} => e \in Staff,
           v.status = "invited" => ~(e \in Staff /\ e \in StaffHosted),
           \/ v.status = "confirmed" \/ p[k].status # "confirmed" \/ n = 1 \/ e \in Staff,
           e \in Staff \cap StaffHosted /\ v.status \in SeatStatuses => p[k].status \in SeatStatuses
    PROVE  Follows(e, p, [p EXCEPT ![k] = v], n)
<1>. DEFINE r == [p EXCEPT ![k] = v]
<1>1. r \in Seq(Rows) /\ RowsSound(e, r) /\ r[k] = v /\ Replaces(p, r, k)
  BY ReplaceRow DEF Replaces
<1>. HIDE DEF r
<1>2. ASSUME NEW m \in Nat, Waits(e, p, m) PROVE Waits(e, r, m + n)
  <2>1. /\ Places(r) # {} => Places(p) # {}
        /\ Count(p, "confirmed") \in Nat
        /\ Count(r, "confirmed") = Count(p, "confirmed") + (IF r[k].status = "confirmed" THEN 1 ELSE 0)
                                                         - (IF p[k].status = "confirmed" THEN 1 ELSE 0)
    BY <1>1, ReplacedWaits
  <2>2. CASE e \in Staff
    BY <1>1, <2>2, NobodyWaitsForALottery DEF Waits
  <2>3. CASE e \notin Staff
    <3>. SUFFICES ASSUME Places(r) # {} PROVE Count(r, "confirmed") + (m + n) >= Cap[e]
      BY DEF Waits
    <3>1. Count(p, "confirmed") + m >= Cap[e]
      BY <1>2, <2>1 DEF Waits
    <3>2. Count(r, "confirmed") + n >= Count(p, "confirmed") /\ Count(r, "confirmed") \in Int
      BY <1>1, <2>1, <2>3
    <3>. QED BY <2>1, <3>1, <3>2
  <2>. QED BY <2>2, <2>3
<1>3. ASSUME e \in Staff \cap StaffHosted PROVE Tame(p, r)
  <2>1. r[k].who = p[k].who /\ (r[k].status \in SeatStatuses => p[k].status \in SeatStatuses)
    BY <1>1, <1>3
  <2>. QED BY <1>1, <2>1, ReplacedTame
<1>. QED BY <1>1, <1>2, <1>3 DEF Follows, r

LEMMA AppendedFollows ==
    ASSUME NEW e, NEW p \in Seq(Rows), RowsSound(e, p), NEW v \in Rows, RowOf(p, v.who) = 0, Cap[e] \in Nat,
           ~Clustered(e) => v.who \in Interest[e],
           v.status = "waitlisted" => /\ e \notin Staff /\ Count(p, "confirmed") >= Cap[e]
                                      /\ \A k \in DOMAIN p : p[k].status = "waitlisted" => p[k].place < v.place,
           v.status \in {"entered", "selected"} => e \in Staff,
           v.status = "invited" => ~(e \in Staff /\ e \in StaffHosted),
           e \in Staff \cap StaffHosted => v.status \notin SeatStatuses
    PROVE  Follows(e, p, Append(p, v), 0)
<1>. DEFINE r == Append(p, v)
<1>1. r \in Seq(Rows) /\ RowsSound(e, r)
  <2>1. \A k \in DOMAIN p : p[k].who # v.who
    BY RowOfMeans
  <2>. QED BY <2>1, RowsSoundAppend
<1>2. ASSUME NEW m \in Nat, Waits(e, p, m) PROVE Waits(e, r, m + 0)
  <2>0. /\ Count(p, "confirmed") \in Nat
        /\ Count(r, "confirmed") = Count(p, "confirmed") + IF v.status = "confirmed" THEN 1 ELSE 0
    BY CountAppended
  <2>1. CASE v.status = "waitlisted"
    BY <2>0, <2>1 DEF Waits
  <2>2. CASE v.status # "waitlisted"
    <3>1. Places(r) # {} => Places(p) # {}
      BY <2>2, AppendedWaits
    <3>2. Count(r, "confirmed") >= Count(p, "confirmed") /\ Count(r, "confirmed") \in Nat
      BY <2>0
    <3>. HIDE DEF r
    <3>. QED BY <1>2, <2>0, <3>1, <3>2 DEF Waits
  <2>. QED BY <2>1, <2>2
<1>3. ASSUME e \in Staff \cap StaffHosted PROVE Tame(p, r)
  BY <1>1, <1>3, AppendedTame
<1>. QED BY <1>1, <1>2, <1>3 DEF Follows

(* A command: what it writes to an event may replace what was there, and no
   token is spent. *)
Unspent ==
    /\ tokens' \in Seq(Tokens) /\ DOMAIN tokens' = DOMAIN tokens
    /\ \A t \in DOMAIN tokens :
          /\ tokens'[t].holder = tokens[t].holder /\ tokens'[t].redeemed = tokens[t].redeemed
          /\ tokens[t].redeemed => tokens'[t] = tokens[t]

Commanded(e, r, n) ==
    /\ Follows(e, rows[e], r, n)
    /\ rows' = [rows EXCEPT ![e] = r] /\ UNCHANGED <<tickets, drawn, phase>>
    /\ Unspent
    /\ (n = 0 /\ UNCHANGED crashes) \/ (n = 1 /\ Interrupted(e))

LEMMA EventIs ==
    ASSUME InSchedule, Sound(State), NEW e \in Events
    PROVE  /\ rows[e] \in Seq(Rows) /\ RowsSound(e, rows[e]) /\ Cap[e] \in Nat \ {0}
           /\ tokens \in Seq(Tokens) /\ e \in UNION Schedules
           /\ UNCHANGED tokens => Unspent
<1>1. State.rows = rows /\ State.tokens = tokens
  BY DEF State
<1>2. rows \in [Events -> Seq(Rows)] /\ tokens \in Seq(Tokens) /\ RowsSound(e, rows[e])
  BY <1>1 DEF Sound, Databases
<1>3. Cap[e] \in Nat \ {0} /\ e \in UNION Schedules
  BY CalendarAssumption DEF InSchedule
<1>. QED BY <1>2, <1>3 DEF Unspent

LEMMA RsvpCommanded ==
    ASSUME InSchedule, Sound(State), NEW e \in Events, NEW c \in Everyone, c \in Interest[e], Rsvp(e, c)
    PROVE  \E r : Commanded(e, r, 0)
<1>. DEFINE p == rows[e]
            v == IF e \in Staff THEN Row(c, "entered", 0)
                 ELSE IF Full(e) THEN Row(c, "waitlisted", NewPlace(p)) ELSE Row(c, "confirmed", 0)
<1>1. p \in Seq(Rows) /\ RowsSound(e, p) /\ Cap[e] \in Nat /\ (UNCHANGED tokens => Unspent)
  BY EventIs
<1>2. NewPlace(p) \in Nat /\ \A k \in DOMAIN p : p[k].status = "waitlisted" => p[k].place < NewPlace(p)
  BY <1>1, NewPlaceMeans
<1>3. /\ v \in Rows /\ v.who = c
      /\ v.status = "waitlisted" => e \notin Staff /\ Full(e) /\ v.place = NewPlace(p)
      /\ v.status = "entered" => e \in Staff
      /\ v.status \in {"entered", "waitlisted", "confirmed"}
      /\ e \in Staff => v.status = "entered"
  BY <1>2 DEF Row, Rows, Statuses
<1>4. RowOf(p, c) = 0 /\ rows' = [rows EXCEPT ![e] = Append(p, v)] /\ UNCHANGED <<tickets, drawn, phase, tokens, crashes>>
  BY DEF Rsvp, Writes
<1>. HIDE DEF v
<1>5. v.status = "waitlisted" => Count(p, "confirmed") >= Cap[e]
  BY <1>3 DEF Full
<1>. HIDE DEF p
<1>6. Follows(e, p, Append(p, v), 0)
  <2>1. v.status \notin {"invited", "selected"}
    BY <1>3
  <2>2. e \in Staff \cap StaffHosted => v.status \notin SeatStatuses
    BY <1>3 DEF SeatStatuses
  <2>. QED BY <1>1, <1>2, <1>3, <1>4, <1>5, <2>1, <2>2, AppendedFollows
<1>7. Follows(e, rows[e], Append(p, v), 0) /\ Unspent
  BY <1>1, <1>4, <1>6 DEF p
<1>8. UNCHANGED <<tickets, drawn, phase>> /\ UNCHANGED crashes
  BY <1>4
<1>9. Commanded(e, Append(p, v), 0)
  BY <1>4, <1>7, <1>8, Zenon DEF Commanded
<1>. QED BY <1>9

(* The row of a character, and of who is next on a waitlist. *)
LEMMA RowIs ==
    ASSUME InSchedule, Sound(State), NEW e \in Events, NEW c, RowOf(rows[e], c) # 0
    PROVE  /\ RowOf(rows[e], c) \in DOMAIN rows[e] /\ rows[e][RowOf(rows[e], c)].who = c
           /\ rows[e][RowOf(rows[e], c)] \in Rows
<1>1. rows[e] \in Seq(Rows)
  BY EventIs
<1>2. RowOf(rows[e], c) \in DOMAIN rows[e] /\ rows[e][RowOf(rows[e], c)].who = c
  BY <1>1, RowOfMeans
<1>. QED BY <1>1, <1>2

LEMMA SetFollows ==
    ASSUME NEW e, NEW p \in Seq(Rows), RowsSound(e, p), NEW c, RowOf(p, c) # 0, NEW status \in {"confirmed", "invited"},
           Cap[e] \in Nat,
           status = "invited" => ~(e \in Staff /\ e \in StaffHosted) /\ p[RowOf(p, c)].status # "confirmed",
           e \in Staff \cap StaffHosted => p[RowOf(p, c)].status \in SeatStatuses
    PROVE  Follows(e, p, Set(p, c, status), 0)
<1>. DEFINE k == RowOf(p, c)
            v == Row(c, status, 0)
<1>1. k \in DOMAIN p /\ p[k].who = c
  BY RowOfMeans
<1>2. c \in Everyone
  <2>1. p[k] \in Rows
    BY <1>1
  <2>. QED BY <1>1, <2>1 DEF Rows
<1>3. v \in Rows /\ v.who = c /\ v.status = status
  BY <1>2 DEF Row, Rows, Statuses
<1>4. Set(p, c, status) = [p EXCEPT ![k] = v]
  BY DEF Set
<1>. HIDE DEF k, v
<1>5. v.status # "waitlisted" /\ v.status \notin {"entered", "selected"}
      /\ (v.status = "confirmed" \/ p[k].status # "confirmed")
  BY <1>3 DEF k
<1>6. (v.status = "invited" => ~(e \in Staff /\ e \in StaffHosted)) /\ v.who = p[k].who
  BY <1>1, <1>3
<1>7. e \in Staff \cap StaffHosted /\ v.status \in SeatStatuses => p[k].status \in SeatStatuses
  BY DEF k
<1>8. Follows(e, p, [p EXCEPT ![k] = v], 0)
  BY <1>1, <1>3, <1>5, <1>6, <1>7, ReplacedFollows
<1>. QED BY <1>4, <1>8

LEMMA ReleaseFollows ==
    ASSUME NEW e, NEW p \in Seq(Rows), RowsSound(e, p), NEW c, RowOf(p, c) # 0, NEW n \in {0, 1}, Cap[e] \in Nat,
           p[RowOf(p, c)].status # "confirmed" \/ n = 1 \/ e \in Staff
    PROVE  /\ Follows(e, p, Release(p, c), n)
           /\ Release(p, c)[RowOf(p, c)].status = "released"
           /\ Replaces(p, Release(p, c), RowOf(p, c))
<1>. DEFINE k == RowOf(p, c)
            v == [p[k] EXCEPT !.status = "released"]
<1>1. k \in DOMAIN p /\ p[k].who = c
  BY RowOfMeans
<1>2. p[k] \in Rows
  BY <1>1
<1>3. v \in Rows /\ v.who = p[k].who /\ v.status = "released"
  BY <1>2 DEF Rows, Statuses
<1>4. Release(p, c) = [p EXCEPT ![k] = v]
  BY DEF Release
<1>5. p[k].status # "confirmed" \/ n = 1 \/ e \in Staff
  OBVIOUS
<1>. HIDE DEF k, v
<1>6. v.status # "waitlisted" /\ v.status \notin {"entered", "selected"} /\ v.status # "invited" /\ v.status \notin SeatStatuses
  BY <1>3 DEF SeatStatuses
<1>7. Follows(e, p, [p EXCEPT ![k] = v], n)
  BY <1>1, <1>3, <1>5, <1>6, ReplacedFollows
<1>8. [p EXCEPT ![k] = v][k] = v /\ Replaces(p, [p EXCEPT ![k] = v], k)
  BY <1>1 DEF Replaces
<1>. QED BY <1>3, <1>4, <1>7, <1>8 DEF k

LEMMA WriteCommanded ==
    ASSUME InSchedule, Sound(State), NEW e \in Events, NEW r, Follows(e, rows[e], r, 0), Writes(e, r), UNCHANGED crashes
    PROVE  Commanded(e, r, 0)
<1>1. rows' = [rows EXCEPT ![e] = r] /\ UNCHANGED <<tickets, drawn, phase>> /\ UNCHANGED tokens
  BY DEF Writes
<1>2. Unspent
  BY <1>1, EventIs
<1>. QED BY <1>1, <1>2, Zenon DEF Commanded

(* Who is promoted takes the seat of who cancelled. *)
LEMMA CancelFollows ==
    ASSUME NEW e, e \notin Staff, NEW p \in Seq(Rows), RowsSound(e, p), NEW c, Is(p, c, {"confirmed"}), Cap[e] \in Nat
    PROVE  Follows(e, p, Promoted(Release(p, c)), 0)
<1>. DEFINE k == RowOf(p, c)
            r == Release(p, c)
            q == Promoted(r)
<1>. SUFFICES Follows(e, p, q, 0)
  OBVIOUS
<1>. HIDE DEF q
<1>1. k # 0 /\ p[k].status = "confirmed" /\ k \in DOMAIN p
  BY RowOfMeans DEF Is
<1>2. Follows(e, p, r, 1) /\ r[k].status = "released" /\ Replaces(p, r, k)
  BY <1>1, ReleaseFollows
<1>3. r \in Seq(Rows) /\ RowsSound(e, r)
  BY <1>2 DEF Follows
<1>4. /\ Count(p, "confirmed") \in Nat
      /\ Count(r, "confirmed") = Count(p, "confirmed") - 1
      /\ Places(r) # {} => Places(p) # {}
  <2>1. r[k].status # "waitlisted" /\ r[k].status # "confirmed"
    BY <1>2
  <2>. HIDE DEF r, k
  <2>2. /\ Places(r) # {} => Places(p) # {}
        /\ Count(p, "confirmed") \in Nat
        /\ Count(r, "confirmed") = Count(p, "confirmed") + (IF r[k].status = "confirmed" THEN 1 ELSE 0)
                                                         - (IF p[k].status = "confirmed" THEN 1 ELSE 0)
    BY <1>2, <1>3, <2>1, ReplacedWaits
  <2>3. Count(r, "confirmed") = Count(p, "confirmed") + 0 - 1
    BY <1>1, <2>1, <2>2
  <2>. QED BY <2>2, <2>3
<1>. HIDE DEF r, k
<1>5. CASE Places(r) = {}
  <2>1. q = r
    BY <1>5 DEF Promoted, q
  <2>2. \A m \in Nat : Waits(e, q, m + 0)
    BY <1>5, <2>1 DEF Waits
  <2>3. q \in Seq(Rows) /\ RowsSound(e, q)
    BY <1>3, <2>1
  <2>. QED BY <2>2, <2>3 DEF Follows
<1>6. CASE Places(r) # {}
  <2>. DEFINE u == RowOf(r, NextUp(r))
              v == Row(NextUp(r), "confirmed", 0)
  <2>1. u \in DOMAIN r /\ r[u].status = "waitlisted"
    <3>1. \A l, m \in DOMAIN r : l < m => r[l].who # r[m].who
      BY <1>3 DEF RowsSound
    <3>. QED BY <1>3, <1>6, <3>1, NextUpMeans
  <2>2. u # 0 /\ r[u].who = NextUp(r)
    <3>1. u # 0
      BY <1>3, <2>1
    <3>. QED BY <1>3, <3>1, RowOfMeans
  <2>3. q = Set(r, NextUp(r), "confirmed")
    BY <1>6 DEF Promoted, q
  <2>4. Follows(e, r, q, 0)
    BY <1>3, <2>2, <2>3, SetFollows
  <2>5. q \in Seq(Rows) /\ RowsSound(e, q)
    BY <2>4 DEF Follows
  <2>6. q = [r EXCEPT ![u] = v] /\ v.status = "confirmed"
    BY <2>3 DEF Set, Row
  <2>7. Replaces(r, q, u) /\ q[u].status = "confirmed"
    BY <2>1, <2>6 DEF Replaces
  <2>. HIDE DEF u, v
  <2>8. /\ Places(q) # {} => Places(r) # {}
        /\ Count(q, "confirmed") = Count(r, "confirmed") + 1
    <3>1. q[u].status # "waitlisted" /\ r[u].status # "confirmed"
      BY <2>1, <2>7
    <3>. QED BY <1>3, <1>4, <2>5, <2>7, <3>1, ReplacedWaits, SMTT(20)
  <2>9. Count(q, "confirmed") = Count(p, "confirmed")
    BY <1>4, <2>8
  <2>10. ASSUME NEW m \in Nat, Waits(e, p, m) PROVE Waits(e, q, m + 0)
    <3>1. m + 0 = m
      OBVIOUS
    <3>2. Waits(e, q, m)
      BY <1>4, <2>8, <2>9, <2>10 DEF Waits
    <3>. QED BY <3>1, <3>2
  <2>. QED BY <2>5, <2>10 DEF Follows
<1>. QED BY <1>5, <1>6

LEMMA CancelCommanded ==
    ASSUME InSchedule, Sound(State), NEW e \in Events, NEW c, Cancel(e, c)
    PROVE  \E r : Commanded(e, r, 0)
<1>. DEFINE p == rows[e]
            r == IF Is(p, c, {"confirmed"}) /\ e \notin Staff THEN Promoted(Release(p, c)) ELSE Release(p, c)
<1>1. p \in Seq(Rows) /\ RowsSound(e, p) /\ Cap[e] \in Nat
  BY EventIs
<1>2. RowOf(p, c) # 0 /\ Writes(e, r) /\ UNCHANGED crashes
  BY DEF Cancel, HasRsvp
<1>3. Follows(e, p, r, 0)
  <2>. HIDE DEF p
  <2>1. CASE Is(p, c, {"confirmed"}) /\ e \notin Staff
    BY <1>1, <2>1, CancelFollows
  <2>2. CASE ~(Is(p, c, {"confirmed"}) /\ e \notin Staff)
    <3>1. p[RowOf(p, c)].status # "confirmed" \/ e \in Staff
      BY <1>2, <2>2 DEF Is
    <3>. QED BY <1>1, <1>2, <2>2, <3>1, ReleaseFollows
  <2>. QED BY <2>1, <2>2
<1>. HIDE DEF r
<1>4. Commanded(e, r, 0)
  BY <1>2, <1>3, WriteCommanded
<1>. QED BY <1>4

LEMMA CancelInterruptedCommanded ==
    ASSUME InSchedule, Sound(State), NEW e \in Events, NEW c, CancelInterrupted(e, c)
    PROVE  \E r : Commanded(e, r, 1)
<1>. DEFINE p == rows[e]
            r == Release(p, c)
<1>1. p \in Seq(Rows) /\ RowsSound(e, p) /\ Cap[e] \in Nat /\ (UNCHANGED tokens => Unspent)
  BY EventIs
<1>2. RowOf(p, c) # 0 /\ Writes(e, r) /\ Interrupted(e)
  BY DEF CancelInterrupted, Is
<1>3. Follows(e, p, r, 1)
  BY <1>1, <1>2, ReleaseFollows
<1>4. rows' = [rows EXCEPT ![e] = r] /\ UNCHANGED <<tickets, drawn, phase>> /\ Unspent
  BY <1>1, <1>2 DEF Writes
<1>. HIDE DEF r
<1>5. Commanded(e, r, 1)
  BY <1>2, <1>3, <1>4, Zenon DEF Commanded
<1>. QED BY <1>5

LEMMA ConfirmCommanded ==
    ASSUME InSchedule, Sound(State), NEW e \in Events, NEW c, Confirm(e, c)
    PROVE  \E r : Commanded(e, r, 0)
<1>. DEFINE p == rows[e]
            r == Set(p, c, "confirmed")
<1>1. p \in Seq(Rows) /\ RowsSound(e, p) /\ Cap[e] \in Nat
  BY EventIs
<1>2. RowOf(p, c) # 0 /\ p[RowOf(p, c)].status \in {"selected", "invited"} /\ Writes(e, r) /\ UNCHANGED crashes
  BY DEF Confirm, Is
<1>3. e \in Staff \cap StaffHosted => p[RowOf(p, c)].status \in SeatStatuses
  <2>1. RowOf(p, c) \in DOMAIN p
    BY <1>1, <1>2, RowOfMeans
  <2>. QED BY <1>1, <1>2, <2>1 DEF RowsSound, SeatStatuses
<1>4. Follows(e, p, r, 0)
  <2>. HIDE DEF p
  <2>. QED BY <1>1, <1>2, <1>3, SetFollows
<1>. HIDE DEF r
<1>5. Commanded(e, r, 0)
  BY <1>2, <1>4, WriteCommanded
<1>. QED BY <1>5

LEMMA InvitedFollows ==
    ASSUME InSchedule, NEW e, NEW p \in Seq(Rows), RowsSound(e, p), NEW c \in Interest[e], c \in Everyone, RowOf(p, c) = 0,
           ~(e \in Staff /\ e \in StaffHosted), Cap[e] \in Nat
    PROVE  Follows(e, p, Append(p, Row(c, "invited", 0)), 0)
<1>. DEFINE v == Row(c, "invited", 0)
<1>1. v \in Rows /\ v.who = c /\ v.status = "invited"
  BY DEF Row, Rows, Statuses
<1>. HIDE DEF v
<1>2. v.status \notin {"entered", "selected"} /\ v.status # "waitlisted"
  BY <1>1
<1>3. Follows(e, p, Append(p, v), 0)
  BY <1>1, <1>2, AppendedFollows
<1>. QED BY <1>3 DEF v

LEMMA HostCommanded ==
    ASSUME InSchedule, Sound(State), NEW e \in Events, Host(e)
    PROVE  \E r : Commanded(e, r, 0)
<1>. DEFINE p == rows[e]
<1>1. p \in Seq(Rows) /\ RowsSound(e, p) /\ Cap[e] \in Nat
  BY EventIs
<1>2. Interest[e] \subseteq Everyone
  BY DEF Everyone
<1>3. ASSUME NEW c \in Interest[e], Invite(e, c) PROVE \E r : Commanded(e, r, 0)
  <2>. DEFINE q == Append(p, Row(c, "invited", 0))
              r == IF RowOf(p, c) = 0 THEN q ELSE Set(p, c, "invited")
  <2>1. ~(e \in Staff /\ e \in StaffHosted) /\ Writes(e, r) /\ UNCHANGED crashes
    BY <1>3 DEF Invite
  <2>2. RowOf(p, c) # 0 => p[RowOf(p, c)].status # "confirmed"
    BY <1>3 DEF Invite, HasRsvp, Is
  <2>. HIDE DEF p, q
  <2>3. CASE RowOf(p, c) = 0
    <3>1. Follows(e, p, q, 0)
      BY <1>1, <1>2, <2>1, <2>3, InvitedFollows DEF q
    <3>2. Writes(e, q)
      BY <2>1, <2>3
    <3>3. Commanded(e, q, 0)
      BY <2>1, <3>1, <3>2, WriteCommanded DEF p
    <3>. QED BY <3>3
  <2>4. CASE RowOf(p, c) # 0
    <3>. DEFINE i == Set(p, c, "invited")
    <3>1. Follows(e, p, i, 0)
      BY <1>1, <2>1, <2>2, <2>4, SetFollows
    <3>2. Writes(e, i)
      BY <2>1, <2>4
    <3>. HIDE DEF i
    <3>3. Commanded(e, i, 0)
      BY <2>1, <3>1, <3>2, WriteCommanded DEF p
    <3>. QED BY <3>3
  <2>. QED BY <2>3, <2>4
<1>4. ASSUME NEW c \in Interest[e], InviteFromWeb(e, c) PROVE \E r : Commanded(e, r, 0)
  <2>. DEFINE q == Append(p, Row(c, "invited", 0))
  <2>1. e \notin Staff /\ RowOf(p, c) = 0 /\ Writes(e, q) /\ UNCHANGED crashes
    BY <1>4 DEF InviteFromWeb
  <2>2. Follows(e, p, q, 0)
    <3>. HIDE DEF p
    <3>. QED BY <1>1, <1>2, <2>1, InvitedFollows
  <2>. HIDE DEF q
  <2>3. Commanded(e, q, 0)
    BY <2>1, <2>2, WriteCommanded
  <2>. QED BY <2>3
<1>5. ASSUME Ping(e) PROVE \E r : Commanded(e, r, 0)
  <2>. DEFINE c == NextUp(p)
              q == Set(p, c, "invited")
  <2>1. Places(p) # {} /\ Writes(e, q) /\ UNCHANGED crashes
    BY <1>5 DEF Ping
  <2>2. e \notin Staff
    BY <1>1, <2>1, NobodyWaitsForALottery
  <2>3. RowOf(p, c) \in DOMAIN p /\ p[RowOf(p, c)].status = "waitlisted"
    <3>1. \A k, l \in DOMAIN p : k < l => p[k].who # p[l].who
      BY <1>1 DEF RowsSound
    <3>. HIDE DEF p
    <3>. QED BY <1>1, <2>1, <3>1, NextUpMeans
  <2>4. RowOf(p, c) # 0 /\ p[RowOf(p, c)].status # "confirmed"
    <3>1. 0 \notin DOMAIN p
      BY <1>1
    <3>. QED BY <2>3, <3>1
  <2>5. Follows(e, p, q, 0)
    <3>. HIDE DEF p, c
    <3>. QED BY <1>1, <2>2, <2>4, SetFollows
  <2>. HIDE DEF q
  <2>6. Commanded(e, q, 0)
    BY <2>1, <2>5, WriteCommanded
  <2>. QED BY <2>6
<1>. QED BY <1>3, <1>4, <1>5 DEF Host

(* A token is earmarked, not spent. *)
LEMMA RedeemCommanded ==
    ASSUME InSchedule, Sound(State), NEW e \in Events, NEW c \in Everyone, c \in Interest[e], Redeem(e, c)
    PROVE  \E r : Commanded(e, r, 0)
<1>. DEFINE p == rows[e]
            t == TokenOf(tokens, c, None)
            k == RowOf(p, c)
            r == IF k = 0 THEN Append(p, Row(c, "entered", 0))
                 ELSE IF Is(p, c, {"released"}) THEN [p EXCEPT ![k].status = "entered"] ELSE p
<1>1. p \in Seq(Rows) /\ RowsSound(e, p) /\ Cap[e] \in Nat /\ tokens \in Seq(Tokens)
  BY EventIs
<1>2. /\ e \in Staff /\ t # 0 /\ rows' = [rows EXCEPT ![e] = r]
      /\ tokens' = [tokens EXCEPT ![t].use = e] /\ UNCHANGED <<tickets, drawn, phase, crashes>>
  BY DEF Redeem
<1>3. Unspent
  <2>1. t \in DOMAIN tokens /\ ~tokens[t].redeemed
    <3>. HIDE DEF t
    <3>1. t \in DOMAIN tokens /\ Usable(tokens[t], c, None)
      BY <1>1, <1>2, TokenOfMeans DEF t
    <3>. QED BY <3>1 DEF Usable
  <2>. DEFINE v == [tokens[t] EXCEPT !.use = e]
  <2>2. tokens[t] \in Tokens
    BY <1>1, <2>1
  <2>3. v \in Tokens /\ v.holder = tokens[t].holder /\ v.redeemed = tokens[t].redeemed
    BY <2>2 DEF Tokens, Jobs
  <2>4. tokens' = [tokens EXCEPT ![t] = v]
    BY <1>2
  <2>. HIDE DEF v, t
  <2>5. tokens' \in Seq(Tokens) /\ DOMAIN tokens' = DOMAIN tokens
    BY <1>1, <2>1, <2>3, <2>4
  <2>6. \A u \in DOMAIN tokens : tokens'[u] = IF u = t THEN v ELSE tokens[u]
    BY <2>1, <2>4
  <2>. QED BY <2>1, <2>3, <2>5, <2>6 DEF Unspent
<1>4. Follows(e, p, r, 0)
  <2>1. CASE k = 0
    <3>. DEFINE v == Row(c, "entered", 0)
    <3>1. v \in Rows /\ v.who = c /\ v.status = "entered"
      BY DEF Row, Rows, Statuses
    <3>. HIDE DEF v, p
    <3>2. v.status \notin SeatStatuses /\ v.status # "waitlisted" /\ v.status # "invited"
      BY <3>1 DEF SeatStatuses
    <3>3. Follows(e, p, Append(p, v), 0)
      BY <1>1, <1>2, <2>1, <3>1, <3>2, AppendedFollows
    <3>4. r = Append(p, v)
      BY <2>1 DEF v
    <3>. QED BY <3>3, <3>4
  <2>2. CASE k # 0 /\ Is(p, c, {"released"})
    <3>1. k \in DOMAIN p /\ p[k].status = "released" /\ p[k] \in Rows
      BY <1>1, <2>2, RowOfMeans DEF Is
    <3>. DEFINE v == [p[k] EXCEPT !.status = "entered"]
    <3>2. v \in Rows /\ v.who = p[k].who /\ v.status = "entered"
      BY <3>1 DEF Rows, Statuses
    <3>3. r = [p EXCEPT ![k] = v]
      BY <2>2
    <3>. HIDE DEF v, k, p
    <3>4. v.status \notin SeatStatuses /\ v.status # "waitlisted" /\ v.status # "invited" /\ p[k].status # "confirmed"
      BY <3>1, <3>2 DEF SeatStatuses
    <3>5. Follows(e, p, [p EXCEPT ![k] = v], 0)
      BY <1>1, <1>2, <3>1, <3>2, <3>4, ReplacedFollows
    <3>. HIDE DEF r
    <3>. QED BY <3>3, <3>5
  <2>3. CASE k # 0 /\ ~Is(p, c, {"released"})
    <3>1. r = p
      BY <2>3
    <3>. HIDE DEF r, p
    <3>2. Tame(p, p)
      <4>1. Count(p, "confirmed") \in Nat /\ Count(p, "selected") \in Nat
        BY <1>1, AtMeans DEF Count
      <4>. QED BY <4>1 DEF Tame, Taken
    <3>3. \A m \in Nat : m + 0 = m
      OBVIOUS
    <3>. QED BY <1>1, <3>1, <3>2, <3>3 DEF Follows
  <2>. QED BY <2>1, <2>2, <2>3
<1>. HIDE DEF r
<1>5. Commanded(e, r, 0)
  BY <1>2, <1>3, <1>4, Zenon DEF Commanded
<1>. QED BY <1>5

LEMMA EventCommanded ==
    ASSUME InSchedule, Sound(State), NEW e \in Events, Host(e) \/ \E c \in Everyone : Player(e, c)
    PROVE  \E r, n : n \in {0, 1} /\ Commanded(e, r, n)
<1>1. ASSUME NEW c \in Everyone, Player(e, c) PROVE \E r, n : n \in {0, 1} /\ Commanded(e, r, n)
  <2>1. CASE c \in Interest[e] /\ Rsvp(e, c)
    BY <2>1, RsvpCommanded
  <2>2. CASE c \in Interest[e] /\ Redeem(e, c)
    BY <2>2, RedeemCommanded
  <2>3. CASE Cancel(e, c)
    BY <2>3, CancelCommanded
  <2>4. CASE Confirm(e, c)
    BY <2>4, ConfirmCommanded
  <2>5. CASE CancelInterrupted(e, c)
    BY <2>5, CancelInterruptedCommanded
  <2>. QED BY <1>1, <2>1, <2>2, <2>3, <2>4, <2>5 DEF Player
<1>2. ASSUME Host(e) PROVE \E r, n : n \in {0, 1} /\ Commanded(e, r, n)
  BY <1>2, HostCommanded
<1>. QED BY <1>1, <1>2

(* An application: nobody's, but the applicant's, is touched. *)
Submitted(x, q) ==
    /\ TicketsSound(x, q) /\ tickets' = [tickets EXCEPT ![x] = q]
    /\ UNCHANGED <<rows, drawn, phase, tokens>>
    /\ UNCHANGED crashes \/ Interrupted(x)
    /\ \A d : Is(tickets[x], d, {"seated"}) => Is(q, d, {"seated"})

LEMMA TicketsAre ==
    ASSUME InSchedule, Sound(State), NEW x \in Clusters
    PROVE  /\ tickets[x] \in Seq(Applications(x)) /\ TicketsSound(x, tickets[x])
           /\ \A k, l \in DOMAIN tickets[x] : k < l => tickets[x][k].who # tickets[x][l].who
<1>1. State.tickets = tickets
  BY DEF State
<1>2. TicketsSound(x, tickets[x])
  BY <1>1 DEF Sound
<1>. QED BY <1>2 DEF TicketsSound

LEMMA FrontMeans ==
    ASSUME NEW S, NEW w \in Seq(S), w # <<>>
    PROVE  /\ Front(w) \in Seq(S) /\ DOMAIN Front(w) = 1..(Len(w) - 1)
           /\ \A n \in 1..(Len(w) - 1) : Front(w)[n] = w[n]
<1>. DEFINE m == Len(w) - 1
<1>1. m \in Nat /\ m <= Len(w)
  OBVIOUS
<1>2. Front(w) = SubSeq(w, 1, m)
  BY DEF Front
<1>. HIDE DEF m
<1>3. Front(w) \in Seq(S) /\ Len(Front(w)) = m /\ \A k \in 1..m : Front(w)[k] = w[k]
  BY <1>1, <1>2
<1>. QED BY <1>3 DEF m

LEMMA RankingIs ==
    ASSUME InSchedule, NEW x \in Clusters, NEW c, NEW w \in Rankings(x, c)
    PROVE  w \in SetToAllKPermutations(Members[x]) /\ Front(w) \in SetToAllKPermutations(Members[x])
<1>. DEFINE S == {e \in Members[x] : c \in Interest[e]}
<1>1. IsFiniteSet(Members[x]) /\ IsFiniteSet(S)
  <2>1. Members[x] \subseteq UNION Schedules /\ IsFiniteSet(UNION Schedules)
    BY CalendarAssumption DEF InSchedule
  <2>. QED BY <2>1, FS_Subset
<1>2. w \in SetToAllKPermutations(S) /\ w # <<>>
  BY DEF Rankings
<1>3. S \subseteq Members[x]
  OBVIOUS
<1>. HIDE DEF S
<1>4. w \in Seq(S) /\ \A m, n \in DOMAIN w : m # n => w[m] # w[n]
  BY <1>1, <1>2, RankingsMean
<1>5. w \in Seq(Members[x])
  BY <1>3, <1>4
<1>. DEFINE f == SubSeq(w, 1, Len(w) - 1)
            N == Len(w)
<1>6. N \in Nat /\ N # 0 /\ DOMAIN w = 1..N
  BY <1>2, <1>4
<1>7. f \in Seq(Members[x]) /\ DOMAIN f = 1..(N - 1) /\ \A n \in 1..(N - 1) : f[n] = w[n]
  <2>1. Front(w) = f
    BY DEF Front, f
  <2>. HIDE DEF f, N
  <2>2. Front(w) \in Seq(Members[x]) /\ DOMAIN Front(w) = 1..(Len(w) - 1) /\ \A n \in 1..(Len(w) - 1) : Front(w)[n] = w[n]
    BY <1>2, <1>5, FrontMeans
  <2>. QED BY <2>1, <2>2 DEF N
<1>. HIDE DEF f, N
<1>8. \A m, n \in DOMAIN f : m # n => f[m] # f[n]
  <2>1. \A n \in DOMAIN f : n \in DOMAIN w /\ f[n] = w[n]
    BY <1>6, <1>7
  <2>. QED BY <1>4, <2>1
<1>9. w \in SetToAllKPermutations(Members[x]) /\ f \in SetToAllKPermutations(Members[x])
  BY <1>1, <1>4, <1>5, <1>7, <1>8, RankingsMean
<1>. QED BY <1>9 DEF f, N, Front

LEMMA RankSubmitted ==
    ASSUME InSchedule, Sound(State), NEW x \in Clusters, NEW c \in Everyone,
           NEW w \in SetToAllKPermutations(Members[x]), Submits(x, c, w), UNCHANGED crashes \/ Interrupted(x)
    PROVE  \E q : Submitted(x, q)
<1>. DEFINE p == tickets[x]
            k == RowOf(p, c)
            q == IF k = 0 THEN Append(p, Ticket(c, w)) ELSE [p EXCEPT ![k].wishes = w]
<1>1. p \in Seq(Applications(x)) /\ TicketsSound(x, p) /\ \A m, n \in DOMAIN p : m < n => p[m].who # p[n].who
  BY TicketsAre
<1>2. tickets' = [tickets EXCEPT ![x] = q] /\ UNCHANGED <<rows, drawn, phase, tokens>>
  BY DEF Submits
<1>. HIDE DEF p
<1>3. CASE k = 0
  <2>. DEFINE v == Ticket(c, w)
              N == Len(p)
  <2>1. v \in Applications(x) /\ v.who = c
    BY DEF Ticket, Applications
  <2>2. \A n \in DOMAIN p : p[n].who # c
    BY <1>1, <1>3, RowOfMeans
  <2>3. q = Append(p, v)
    BY <1>3
  <2>4. N \in Nat /\ DOMAIN p = 1..N
    BY <1>1
  <2>. HIDE DEF v, q
  <2>5. q \in Seq(Applications(x)) /\ DOMAIN q = 1..(N + 1) /\ q[N + 1] = v /\ \A n \in DOMAIN p : q[n] = p[n]
    BY <1>1, <2>1, <2>3
  <2>. HIDE DEF N
  <2>6. \A n \in DOMAIN q : n = N + 1 \/ n \in DOMAIN p
    BY <2>4, <2>5
  <2>7. \A m, n \in DOMAIN q : m # n => q[m].who # q[n].who
    BY <1>1, <2>1, <2>2, <2>5, <2>6 DEF TicketsSound
  <2>8. TicketsSound(x, q)
    BY <2>5, <2>7 DEF TicketsSound
  <2>9. ASSUME NEW d, Is(p, d, {"seated"}) PROVE Is(q, d, {"seated"})
    <3>1. PICK n \in DOMAIN p : p[n].who = d /\ p[n].status \in {"seated"}
      BY <1>1, <2>9, IsMeans
    <3>2. n \in DOMAIN q /\ q[n] = p[n]
      BY <2>4, <2>5
    <3>3. \A m, l \in DOMAIN q : m < l => q[m].who # q[l].who
      BY <2>5, <2>7
    <3>. QED BY <2>5, <3>1, <3>2, <3>3, IsMeans
  <2>10. Submitted(x, q)
    BY <1>2, <2>8, <2>9 DEF Submitted, p
  <2>. QED BY <2>10
<1>4. CASE k # 0
  <2>. DEFINE v == [p[k] EXCEPT !.wishes = w]
  <2>1. k \in DOMAIN p /\ p[k] \in Applications(x)
    BY <1>1, <1>4, RowOfMeans
  <2>2. v \in Applications(x) /\ v.who = p[k].who /\ v.status = p[k].status
    BY <2>1 DEF Applications
  <2>3. q = [p EXCEPT ![k] = v]
    BY <1>4
  <2>. HIDE DEF v, q, k
  <2>4. q \in Seq(Applications(x)) /\ DOMAIN q = DOMAIN p
    BY <1>1, <2>1, <2>2, <2>3
  <2>5. \A n \in DOMAIN p : q[n].who = p[n].who /\ q[n].status = p[n].status
    BY <2>1, <2>2, <2>3
  <2>6. \A m, n \in DOMAIN q : m # n => q[m].who # q[n].who
    BY <1>1, <2>4, <2>5 DEF TicketsSound
  <2>7. TicketsSound(x, q)
    BY <2>4, <2>6 DEF TicketsSound
  <2>8. ASSUME NEW d, Is(p, d, {"seated"}) PROVE Is(q, d, {"seated"})
    <3>1. PICK n \in DOMAIN p : p[n].who = d /\ p[n].status \in {"seated"}
      BY <1>1, <2>8, IsMeans
    <3>2. n \in DOMAIN q /\ q[n].who = d /\ q[n].status \in {"seated"}
      BY <2>4, <2>5, <3>1
    <3>3. \A m, l \in DOMAIN q : m < l => q[m].who # q[l].who
      BY <1>1, <2>4, <2>5
    <3>. QED BY <2>4, <3>2, <3>3, IsMeans
  <2>9. Submitted(x, q)
    BY <1>2, <2>7, <2>8 DEF Submitted, p
  <2>. QED BY <2>9
<1>. QED BY <1>3, <1>4

LEMMA WithdrawSubmitted ==
    ASSUME InSchedule, Sound(State), NEW x \in Clusters, NEW c, Withdraw(x, c)
    PROVE  \E q : Submitted(x, q)
<1>. DEFINE p == tickets[x]
            k == RowOf(p, c)
            N == Len(p)
            q == RemoveAt(p, k)
<1>1. p \in Seq(Applications(x)) /\ TicketsSound(x, p) /\ \A m, n \in DOMAIN p : m < n => p[m].who # p[n].who
  BY TicketsAre
<1>2. tickets' = [tickets EXCEPT ![x] = q] /\ UNCHANGED <<rows, drawn, phase, tokens, crashes>>
  BY DEF Withdraw
<1>3. k # 0 /\ p[k].status = "pending"
  BY DEF Withdraw, Is
<1>. HIDE DEF p
<1>4. k \in DOMAIN p /\ p[k].who = c
  BY <1>1, <1>3, RowOfMeans
<1>. HIDE DEF k
<1>5. N \in Nat /\ DOMAIN p = 1..N /\ k \in Nat /\ 1 <= k /\ k <= N
  BY <1>1, <1>4
<1>6. /\ q \in Seq(Applications(x)) /\ DOMAIN q = 1..(N - 1)
      /\ \A n \in 1..(N - 1) : q[n] = IF n < k THEN p[n] ELSE p[n + 1]
  <2>. DEFINE a == SubSeq(p, 1, k - 1)
              b == SubSeq(p, k + 1, N)
  <2>1. a \in Seq(Applications(x)) /\ Len(a) = k - 1 /\ \A n \in 1..(k - 1) : a[n] = p[n]
    BY <1>1, <1>5
  <2>2. b \in Seq(Applications(x)) /\ Len(b) = N - k /\ \A n \in 1..(N - k) : b[n] = p[k + n]
    <3>1. k + 1 \in Int /\ N \in Int /\ \A i \in (k + 1)..N : p[i] \in Applications(x)
      BY <1>1, <1>5
    <3>. HIDE DEF N
    <3>2. /\ b \in Seq(Applications(x)) /\ Len(b) = IF k + 1 <= N THEN N - (k + 1) + 1 ELSE 0
          /\ \A i \in 1..(N - (k + 1) + 1) : b[i] = p[(k + 1) + i - 1]
      BY <3>1, SubSeqProperties
    <3>3. N - (k + 1) + 1 = N - k /\ (k + 1 <= N \/ N - k = 0)
      BY <1>5
    <3>4. \A i \in 1..(N - k) : (k + 1) + i - 1 = k + i
      BY <1>5
    <3>. QED BY <3>2, <3>3, <3>4
  <2>3. q = a \o b
    BY DEF RemoveAt
  <2>. HIDE DEF a, b, q, N
  <2>4. q \in Seq(Applications(x)) /\ Len(q) = N - 1 /\ DOMAIN q = 1..(N - 1)
    BY <1>5, <2>1, <2>2, <2>3
  <2>5. \A n \in 1..(N - 1) : q[n] = IF n <= Len(a) THEN a[n] ELSE b[n - Len(a)]
    BY <1>5, <2>1, <2>2, <2>3, <2>4
  <2>6. ASSUME NEW n \in 1..(N - 1) PROVE q[n] = IF n < k THEN p[n] ELSE p[n + 1]
    <3>1. CASE n < k
      <4>1. n \in 1..(k - 1) /\ n <= Len(a)
        BY <1>5, <2>1, <3>1
      <4>. QED BY <2>1, <2>5, <3>1, <4>1
    <3>2. CASE ~(n < k)
      <4>1. n - (k - 1) \in 1..(N - k) /\ ~(n <= Len(a)) /\ k + (n - (k - 1)) = n + 1
        BY <1>5, <2>1, <3>2
      <4>. QED BY <2>1, <2>2, <2>5, <3>2, <4>1
    <3>. QED BY <3>1, <3>2
  <2>. QED BY <2>4, <2>6
<1>. HIDE DEF q, N
<1>7. \A m, n \in DOMAIN q : m # n => q[m].who # q[n].who
  <2>1. \A n \in DOMAIN q : n \in DOMAIN p /\ n + 1 \in DOMAIN p /\ n \in Nat
    BY <1>5, <1>6
  <2>. SUFFICES ASSUME NEW m \in DOMAIN q, NEW n \in DOMAIN q, m < n
                PROVE  q[m].who # q[n].who
    BY <2>1
  <2>2. q[m] = IF m < k THEN p[m] ELSE p[m + 1]
    BY <1>6
  <2>3. q[n] = IF n < k THEN p[n] ELSE p[n + 1]
    BY <1>6
  <2>4. m < n + 1 /\ m + 1 < n + 1
    BY <2>1
  <2>5. ~(m < k) => ~(n < k)
    BY <1>5, <2>1
  <2>. QED BY <1>1, <2>1, <2>2, <2>3, <2>4, <2>5
<1>8. TicketsSound(x, q)
  BY <1>6, <1>7 DEF TicketsSound
<1>9. ASSUME NEW d, Is(p, d, {"seated"}) PROVE Is(q, d, {"seated"})
  <2>1. PICK n \in DOMAIN p : p[n].who = d /\ p[n].status \in {"seated"}
    BY <1>1, <1>9, IsMeans
  <2>2. n # k
    BY <1>3, <2>1
  <2>3. \E m \in DOMAIN q : q[m] = p[n]
    <3>1. CASE n < k
      <4>1. n \in 1..(N - 1)
        BY <1>5, <3>1
      <4>. QED BY <1>6, <3>1, <4>1
    <3>2. CASE ~(n < k)
      <4>1. n - 1 \in 1..(N - 1) /\ ~(n - 1 < k) /\ (n - 1) + 1 = n
        BY <1>5, <2>2, <3>2
      <4>2. q[n - 1] = p[n]
        BY <1>6, <4>1
      <4>. QED BY <1>6, <4>1, <4>2
    <3>. QED BY <3>1, <3>2
  <2>4. \A m, l \in DOMAIN q : m < l => q[m].who # q[l].who
    BY <1>6, <1>7
  <2>. QED BY <1>6, <2>1, <2>3, <2>4, IsMeans
<1>10. Submitted(x, q)
  BY <1>2, <1>8, <1>9 DEF Submitted, p
<1>. QED BY <1>10

LEMMA ApplicantSubmitted ==
    ASSUME InSchedule, Sound(State), NEW x \in Clusters, NEW c \in Everyone, Applicant(x, c)
    PROVE  \E q : Submitted(x, q)
<1>1. CASE Rank(x, c)
  BY <1>1, RankingIs, RankSubmitted DEF Rank
<1>2. CASE RankInterrupted(x, c)
  BY <1>2, RankingIs, RankSubmitted DEF RankInterrupted
<1>3. CASE Withdraw(x, c)
  BY <1>3, WithdrawSubmitted
<1>. QED BY <1>1, <1>2, <1>3 DEF Applicant

-----------------------------------------------------------------------------
(***************************************************************************)
(* Interruptions.                                                          *)
(***************************************************************************)
LEMMA JobsFinite ==
    ASSUME InSchedule
    PROVE  IsFiniteSet(Jobs)
<1>1. IsFiniteSet(Events) /\ IsFiniteSet(Clusters)
  <2>1. Events \subseteq UNION Schedules /\ Clusters \subseteq DOMAIN Members
    BY DEF InSchedule
  <2>. QED BY <2>1, CalendarAssumption, FS_Subset
<1>. QED BY <1>1, FS_Union DEF Jobs

LEMMA CrashedIsTotal == \A T : Crashed(T) = Total(crashes, T)
BY Zenon DEF Crashed, Total

LEMMA CrashedMeans ==
    ASSUME InSchedule, crashes \in [Jobs -> Nat], NEW S \in SUBSET Jobs
    PROVE  Crashed(S) \in Nat /\ \A job \in S : crashes[job] <= Crashed(S)
<1>1. IsFiniteSet(S)
  BY JobsFinite, FS_Subset
<1>2. Crashed(S) = Total(crashes, S)
  BY CrashedIsTotal
<1>3. \A job \in S : crashes[job] \in Nat
  OBVIOUS
<1>4. Crashed(S) \in Nat
  BY <1>1, <1>2, <1>3, TotalNat
<1>5. ASSUME NEW job \in S PROVE crashes[job] <= Crashed(S)
  <2>1. \A i \in S : crashes[i] \in Int
    BY <1>3
  <2>2. Crashed(S) = crashes[job] + Total(crashes, S \ {job})
    BY <1>1, <1>2, <2>1, TotalRemove
  <2>3. IsFiniteSet(S \ {job}) /\ \A i \in S \ {job} : crashes[i] \in Nat
    BY <1>1, <1>3, FS_Subset
  <2>4. Total(crashes, S \ {job}) \in Nat
    BY <2>3, TotalNat
  <2>. QED BY <1>3, <2>2, <2>4
<1>. QED BY <1>4, <1>5

LEMMA CrashedGrows ==
    ASSUME InSchedule, crashes \in [Jobs -> Nat], NEW job \in Jobs, Interrupted(job), NEW S \in SUBSET Jobs
    PROVE  Crashed(S)' = Crashed(S) + IF job \in S THEN 1 ELSE 0
<1>. DEFINE f == crashes
            g == [crashes EXCEPT ![job] = @ + 1]
<1>1. IsFiniteSet(S)
  BY JobsFinite, FS_Subset
<1>2. Crashed(S) = Total(f, S)
  BY Zenon DEF Crashed, Total
<1>3. crashes' = g
  BY DEF Interrupted
<1>4. Crashed(S)' = Total(g, S)
  <2>. HIDE DEF g
  <2>1. (\A T : Crashed(T) = Total(crashes, T))'
    BY CrashedIsTotal, PTL
  <2>. QED BY <1>3, <2>1
<1>5. \A i \in S : f[i] \in Int /\ g[i] \in Int
  OBVIOUS
<1>6. \A i \in S : i # job => g[i] = f[i]
  OBVIOUS
<1>7. job \in S => g[job] = f[job] + 1 /\ f[job] \in Nat
  OBVIOUS
<1>. HIDE DEF f, g
<1>8. CASE job \in S
  <2>1. Total(g, S) = Total(f, S) + g[job] - f[job]
    BY <1>1, <1>5, <1>6, <1>8, TotalChange
  <2>2. Total(f, S) \in Int
    BY <1>1, <1>5, TotalInt
  <2>. QED BY <1>2, <1>4, <1>7, <1>8, <2>1, <2>2
<1>9. CASE job \notin S
  <2>1. Total(g, S) = Total(f, S)
    BY <1>1, <1>6, <1>9, TotalAgree
  <2>2. Total(f, S) \in Int
    BY <1>1, <1>5, TotalInt
  <2>. QED BY <1>2, <1>4, <1>9, <2>1, <2>2
<1>. QED BY <1>8, <1>9

LEMMA CrashesBounded ==
    ASSUME InSchedule, crashes \in [Jobs -> 0..MaxCrashes], NEW job \in Jobs, UNCHANGED crashes \/ Interrupted(job)
    PROVE  crashes' \in [Jobs -> 0..MaxCrashes] /\ \A i \in Jobs : crashes[i] <= crashes'[i]
<1>0. MaxCrashes \in Nat /\ \A i \in Jobs : crashes[i] \in Nat
  BY CalendarAssumption
<1>1. CASE UNCHANGED crashes
  BY <1>0, <1>1
<1>2. CASE Interrupted(job)
  <2>1. crashes \in [Jobs -> Nat] /\ Crashed(Jobs) < MaxCrashes /\ crashes' = [crashes EXCEPT ![job] = @ + 1]
    BY <1>0, <1>2 DEF Interrupted
  <2>2. crashes[job] <= Crashed(Jobs) /\ Crashed(Jobs) \in Nat
    BY <2>1, CrashedMeans
  <2>3. crashes[job] + 1 \in 0..MaxCrashes
    BY <1>0, <2>1, <2>2
  <2>4. \A i \in Jobs : crashes'[i] = IF i = job THEN crashes[job] + 1 ELSE crashes[i]
    BY <2>1
  <2>5. crashes' \in [Jobs -> 0..MaxCrashes]
    BY <2>1, <2>3
  <2>. QED BY <1>0, <2>4, <2>5
<1>. QED BY <1>1, <1>2

-----------------------------------------------------------------------------
(***************************************************************************)
(* The steps, by what they write.                                          *)
(***************************************************************************)
(* What a step may be: the passing of time, a sweep of an event or cluster, *)
(* a command or an application.                                             *)
Timed == \E e \in Events : Time(e)
Swept == \E t \in Grown(State), job \in Jobs : Leaves(t) /\ (UNCHANGED crashes \/ Interrupted(job))
Answered == \E e \in Events : \E r, n : n \in {0, 1} /\ Commanded(e, r, n)
Applied == \E x \in Clusters : \E q : Submitted(x, q)

LEMMA StepsAre ==
    ASSUME InSchedule, Sound(State), Next
    PROVE  Timed \/ Swept \/ Answered \/ Applied
<1>1. ASSUME NEW e \in Events, Script(e) PROVE Swept
  <2>1. PICK t \in Grown(State) : Leaves(t)
    BY <1>1, ScriptLeaves
  <2>2. e \in Jobs /\ (UNCHANGED crashes \/ Interrupted(e))
    BY <1>1 DEF Script, Sweep, SweepInterrupted, Jobs
  <2>. QED BY <2>1, <2>2 DEF Swept
<1>2. ASSUME NEW x \in Clusters, Draw(x) PROVE Swept
  <2>1. PICK t \in Grown(State) : Leaves(t)
    BY <1>2, DrawLeaves
  <2>2. x \in Jobs /\ (UNCHANGED crashes \/ Interrupted(x))
    BY <1>2 DEF Draw, SweepCluster, SweepClusterInterrupted, Jobs
  <2>. QED BY <2>1, <2>2 DEF Swept
<1>3. ASSUME NEW e \in Events, Host(e) \/ \E c \in Everyone : Player(e, c) PROVE Answered
  BY <1>3, EventCommanded DEF Answered
<1>4. ASSUME NEW x \in Clusters, NEW c \in Everyone, Applicant(x, c) PROVE Applied
  BY <1>4, ApplicantSubmitted DEF Applied
<1>. QED BY <1>1, <1>2, <1>3, <1>4, Zenon DEF Next, Timed

LEMMA TimeKeeps ==
    ASSUME TypeOK, Together, Timed
    PROVE  TypeOK' /\ Together' /\ UNCHANGED <<rows, tickets, drawn, tokens, crashes>>
<1>1. PICK e \in Events : Time(e)
  BY DEF Timed
<1>. DEFINE S == IF Clustered(e) THEN Members[ClusterOf(e)] ELSE {e}
<1>2. /\ UNCHANGED <<rows, tickets, drawn, tokens, crashes>> /\ phase[e] < Gone
      /\ phase' = [d \in Events |-> IF d \in S THEN phase[d] + 1 ELSE phase[d]]
  BY <1>1 DEF Time
<1>3. /\ Events' = Events /\ Clusters' = Clusters /\ State' = State
  BY <1>2 DEF Events, Clusters, State
<1>4. /\ Jobs' = Jobs /\ InSchedule /\ InSchedule'
  BY <1>3, Frame DEF TypeOK, InSchedule
<1>5. Sound(State)'
  <2>1. Sound(State) /\ State = [rows |-> rows, tickets |-> tickets, tokens |-> tokens, drawn |-> drawn]
    BY DEF TypeOK, State
  <2>. DEFINE t == State
  <2>2. rows' = t.rows /\ tickets' = t.tickets /\ tokens' = t.tokens /\ drawn' = t.drawn
    BY <1>2, <2>1
  <2>. HIDE DEF t
  <2>3. Sound(t)
    BY <2>1 DEF t
  <2>. QED BY <1>3, <2>2, <2>3, SoundNext
<1>6. \A d \in S : d \in Events => phase[d] = phase[e]
  <2>1. CASE Clustered(e)
    <3>1. ClusterOf(e) \in Clusters /\ e \in Members[ClusterOf(e)]
      BY <1>4, <2>1, ClusterOfMeans
    <3>. QED BY <2>1, <3>1 DEF Together
  <2>2. CASE ~Clustered(e)
    BY <2>2
  <2>. QED BY <2>1, <2>2
<1>7. \A x \in Clusters : Members[x] \subseteq S \/ Members[x] \cap S = {}
  <2>1. CASE Clustered(e)
    <3>1. ClusterOf(e) \in Clusters /\ \A x \in Clusters : x \in DOMAIN Members
      BY <1>4, <2>1, ClusterOfMeans DEF InSchedule
    <3>2. S = Members[ClusterOf(e)]
      BY <2>1
    <3>. QED BY <3>1, <3>2, CalendarAssumption
  <2>2. CASE ~Clustered(e)
    BY <2>2 DEF Clustered
  <2>. QED BY <2>1, <2>2
<1>. HIDE DEF S
<1>8. phase \in [Events -> Phases] /\ crashes \in [Jobs -> 0..MaxCrashes]
  BY DEF TypeOK
<1>9. \A n \in Phases : n < Gone => n + 1 \in Phases
  BY DEF Phases, Gone
<1>10. phase' \in [Events -> Phases]
  <2>1. \A d \in Events : (IF d \in S THEN phase[d] + 1 ELSE phase[d]) \in Phases
    BY <1>2, <1>6, <1>8, <1>9
  <2>. QED BY <1>2, <2>1
<1>11. TypeOK'
  BY <1>2, <1>3, <1>4, <1>5, <1>8, <1>10 DEF TypeOK, InSchedule
<1>12. ASSUME NEW x \in Clusters, NEW d \in Members[x], NEW f \in Members[x]
      PROVE  phase'[d] = phase'[f]
  <2>1. d \in Events /\ f \in Events /\ phase[d] = phase[f]
    BY <1>4 DEF Together, InSchedule
  <2>2. d \in S <=> f \in S
    BY <1>7
  <2>. QED BY <1>2, <2>1, <2>2
<1>13. Together'
  BY <1>3, <1>12 DEF Together
<1>. QED BY <1>2, <1>11, <1>13

(* What holds whoever acts; the seats of lotteries are counted after it. *)
Basics == TypeOK /\ Together /\ NoneWaitsByAFreeSeat

LEMMA BasicsMean ==
    ASSUME Basics
    PROVE  /\ InSchedule /\ Sound(State) /\ crashes \in [Jobs -> 0..MaxCrashes] /\ crashes \in [Jobs -> Nat]
           /\ \A e \in Events : Waits(e, rows[e], crashes[e])
<1>1. InSchedule /\ Sound(State) /\ crashes \in [Jobs -> 0..MaxCrashes]
  BY DEF Basics, TypeOK, InSchedule
<1>2. \A e \in Events : Waits(e, rows[e], crashes[e])
  BY DEF Basics, NoneWaitsByAFreeSeat, Waits
<1>3. 0..MaxCrashes \subseteq Nat
  BY CalendarAssumption
<1>4. crashes \in [Jobs -> Nat]
  BY <1>1, <1>3
<1>. QED BY <1>1, <1>2, <1>4

LEMMA AnsweredMeans ==
    ASSUME InSchedule, Sound(State), NEW e \in Events, NEW r, NEW n, Commanded(e, r, n)
    PROVE  /\ Events' = Events /\ Clusters' = Clusters /\ InSchedule' /\ Sound(State)' /\ UNCHANGED phase
           /\ rows'[e] = r /\ \A d \in Events : d # e => rows'[d] = rows[d]
<1>. DEFINE t == [rows |-> rows', tickets |-> tickets, tokens |-> tokens', drawn |-> drawn]
<1>1. State \in Databases /\ State = [rows |-> rows, tickets |-> tickets, tokens |-> tokens, drawn |-> drawn]
  BY DEF Sound, State
<1>2. /\ rows \in [Events -> Seq(Rows)] /\ \A d \in Events : RowsSound(d, rows[d])
      /\ \A x \in Clusters : TicketsSound(x, tickets[x])
      /\ drawn \in SUBSET Staff /\ tickets \in [Clusters -> Seq(UNION {Applications(x) : x \in Clusters})]
  BY <1>1 DEF Sound, Databases
<1>3. r \in Seq(Rows) /\ RowsSound(e, r)
  BY DEF Commanded, Follows
<1>4. rows' = [rows EXCEPT ![e] = r] /\ UNCHANGED <<tickets, drawn, phase>> /\ tokens' \in Seq(Tokens)
  BY DEF Commanded, Unspent
<1>5. rows' \in [Events -> Seq(Rows)] /\ rows'[e] = r /\ \A d \in Events : d # e => rows'[d] = rows[d]
  BY <1>2, <1>3, <1>4
<1>6. Events' = Events /\ Clusters' = Clusters
  BY <1>2, <1>4, <1>5 DEF Events, Clusters
<1>7. t = [rows |-> rows', tickets |-> tickets, tokens |-> tokens', drawn |-> drawn]
  OBVIOUS
<1>. HIDE DEF t
<1>8. t \in Databases
  BY <1>2, <1>4, <1>5, <1>7 DEF Databases
<1>9. \A d \in Events : RowsSound(d, t.rows[d])
  BY <1>2, <1>3, <1>5, <1>7
<1>10. Sound(t)
  BY <1>2, <1>7, <1>8, <1>9 DEF Sound
<1>11. rows' = t.rows /\ tickets' = t.tickets /\ tokens' = t.tokens /\ drawn' = t.drawn
  BY <1>4, <1>7
<1>12. Sound(State)'
  BY <1>6, <1>10, <1>11, SoundNext
<1>. QED BY <1>4, <1>5, <1>6, <1>12, Frame

LEMMA AppliedMeans ==
    ASSUME InSchedule, Sound(State), NEW x \in Clusters, NEW q, Submitted(x, q)
    PROVE  /\ Events' = Events /\ Clusters' = Clusters /\ InSchedule' /\ Sound(State)' /\ UNCHANGED phase
           /\ tickets'[x] = q /\ \A y \in Clusters : y # x => tickets'[y] = tickets[y]
<1>. DEFINE t == [rows |-> rows, tickets |-> tickets', tokens |-> tokens, drawn |-> drawn]
            A == UNION {Applications(y) : y \in Clusters}
<1>1. State \in Databases /\ State = [rows |-> rows, tickets |-> tickets, tokens |-> tokens, drawn |-> drawn]
  BY DEF Sound, State
<1>2. /\ rows \in [Events -> Seq(Rows)] /\ \A d \in Events : RowsSound(d, rows[d])
      /\ \A y \in Clusters : TicketsSound(y, tickets[y])
      /\ drawn \in SUBSET Staff /\ tickets \in [Clusters -> Seq(A)] /\ tokens \in Seq(Tokens)
  BY <1>1 DEF Sound, Databases
<1>3. q \in Seq(A) /\ TicketsSound(x, q)
  <2>1. q \in Seq(Applications(x)) /\ TicketsSound(x, q)
    BY DEF Submitted, TicketsSound
  <2>2. Applications(x) \subseteq A
    OBVIOUS
  <2>. HIDE DEF A
  <2>. QED BY <2>1, <2>2
<1>. HIDE DEF A
<1>4. tickets' = [tickets EXCEPT ![x] = q] /\ UNCHANGED <<rows, drawn, phase, tokens>>
  BY DEF Submitted
<1>5. tickets' \in [Clusters -> Seq(A)] /\ tickets'[x] = q /\ \A y \in Clusters : y # x => tickets'[y] = tickets[y]
  BY <1>2, <1>3, <1>4
<1>6. Events' = Events /\ Clusters' = Clusters
  BY <1>2, <1>4, <1>5 DEF Events, Clusters
<1>7. t = [rows |-> rows, tickets |-> tickets', tokens |-> tokens, drawn |-> drawn]
  OBVIOUS
<1>. HIDE DEF t
<1>8. t \in Databases
  BY <1>2, <1>4, <1>5, <1>7 DEF Databases, A
<1>9. \A y \in Clusters : TicketsSound(y, t.tickets[y])
  BY <1>2, <1>3, <1>5, <1>7
<1>10. Sound(t)
  BY <1>2, <1>7, <1>8, <1>9 DEF Sound
<1>11. rows' = t.rows /\ tickets' = t.tickets /\ tokens' = t.tokens /\ drawn' = t.drawn
  BY <1>4, <1>7
<1>12. Sound(State)'
  BY <1>6, <1>10, <1>11, SoundNext
<1>. QED BY <1>4, <1>5, <1>6, <1>12, Frame

LEMMA BasicsKept ==
    ASSUME Basics, Events' = Events, Clusters' = Clusters, InSchedule', Sound(State)', UNCHANGED phase,
           crashes' \in [Jobs -> 0..MaxCrashes],
           \A e \in Events : Waits(e, rows'[e], crashes'[e])
    PROVE  Basics'
<1>1. Jobs' = Jobs
  BY Frame
<1>2. TypeOK'
  BY <1>1 DEF Basics, TypeOK, InSchedule
<1>3. Together'
  BY DEF Basics, Together
<1>4. NoneWaitsByAFreeSeat'
  BY DEF Waits, NoneWaitsByAFreeSeat
<1>. QED BY <1>2, <1>3, <1>4 DEF Basics

LEMMA BasicsStep == Basics /\ [Next]_vars => Basics'
<1>. SUFFICES ASSUME Basics, [Next]_vars PROVE Basics'
  OBVIOUS
<1>0. /\ InSchedule /\ Sound(State) /\ crashes \in [Jobs -> 0..MaxCrashes] /\ crashes \in [Jobs -> Nat]
      /\ \A e \in Events : Waits(e, rows[e], crashes[e])
  BY BasicsMean
<1>1. CASE UNCHANGED vars
  <2>1. UNCHANGED <<rows, tickets, drawn, phase, tokens, crashes>>
    BY <1>1 DEF vars
  <2>2. Events' = Events /\ Clusters' = Clusters /\ State' = State
    BY <2>1 DEF Events, Clusters, State
  <2>3. InSchedule' /\ Sound(State)'
    <3>. DEFINE t == State
    <3>1. rows' = t.rows /\ tickets' = t.tickets /\ tokens' = t.tokens /\ drawn' = t.drawn
      BY <2>1 DEF State
    <3>. HIDE DEF t
    <3>2. Sound(t)
      BY <1>0 DEF t
    <3>. QED BY <1>0, <2>2, <3>1, <3>2, SoundNext, Frame
  <2>. QED BY <1>0, <2>1, <2>2, <2>3, BasicsKept
<1>2. CASE Timed
  <2>1. TypeOK' /\ Together' /\ UNCHANGED <<rows, tickets, drawn, tokens, crashes>>
    BY <1>2, TimeKeeps DEF Basics
  <2>2. NoneWaitsByAFreeSeat'
    BY <2>1 DEF Basics, NoneWaitsByAFreeSeat, Events
  <2>. QED BY <2>1, <2>2 DEF Basics
<1>3. CASE Swept
  <2>1. PICK t \in Grown(State), job \in Jobs : Leaves(t) /\ (UNCHANGED crashes \/ Interrupted(job))
    BY <1>3 DEF Swept
  <2>2. Events' = Events /\ Clusters' = Clusters /\ InSchedule' /\ Sound(State)' /\ UNCHANGED phase
    BY <1>0, <2>1, LeavesSound
  <2>3. crashes' \in [Jobs -> 0..MaxCrashes] /\ \A i \in Jobs : crashes[i] <= crashes'[i]
    BY <1>0, <2>1, CrashesBounded
  <2>4. ASSUME NEW e \in Events PROVE Waits(e, rows'[e], crashes'[e])
    <3>1. e \in Jobs /\ Cap[e] \in Nat
      BY <1>0, EventIs DEF Jobs
    <3>2. crashes[e] \in Int /\ crashes'[e] \in Int /\ crashes[e] <= crashes'[e]
      BY <1>0, <2>3, <3>1
    <3>3. Places(rows[e]) # {} => Count(rows[e], "confirmed") + crashes[e] >= Cap[e]
      BY <1>0 DEF Waits
    <3>4. Places(rows'[e]) # {} => Count(rows'[e], "confirmed") + crashes'[e] >= Cap[e]
      BY <1>0, <2>1, <3>1, <3>2, <3>3, LeavesNoneWaiting
    <3>. QED BY <3>4 DEF Waits
  <2>. QED BY <2>2, <2>3, <2>4, BasicsKept
<1>4. CASE Answered
  <2>1. PICK e \in Events : \E r, n : n \in {0, 1} /\ Commanded(e, r, n)
    BY <1>4 DEF Answered
  <2>2. PICK r, n : n \in {0, 1} /\ Commanded(e, r, n)
    BY <2>1
  <2>3. /\ Events' = Events /\ Clusters' = Clusters /\ InSchedule' /\ Sound(State)' /\ UNCHANGED phase
        /\ rows'[e] = r /\ \A d \in Events : d # e => rows'[d] = rows[d]
    BY <1>0, <2>2, AnsweredMeans
  <2>4. e \in Jobs /\ Events \subseteq Jobs
    BY DEF Jobs
  <2>5. crashes' \in [Jobs -> 0..MaxCrashes] /\ crashes'[e] = crashes[e] + n
        /\ \A d \in Events : d # e => crashes'[d] = crashes[d]
    <3>1. (n = 0 /\ UNCHANGED crashes) \/ (n = 1 /\ Interrupted(e))
      BY <2>2 DEF Commanded
    <3>2. crashes' \in [Jobs -> 0..MaxCrashes]
      BY <1>0, <2>4, <3>1, CrashesBounded
    <3>3. crashes[e] \in Nat
      BY <1>0, <2>4
    <3>4. CASE n = 0 /\ UNCHANGED crashes
      BY <3>2, <3>3, <3>4
    <3>5. CASE n = 1 /\ Interrupted(e)
      <4>1. crashes' = [crashes EXCEPT ![e] = @ + 1]
        BY <3>5 DEF Interrupted
      <4>. QED BY <1>0, <2>4, <3>2, <3>5, <4>1
    <3>. QED BY <3>1, <3>4, <3>5
  <2>6. ASSUME NEW d \in Events PROVE Waits(d, rows'[d], crashes'[d])
    <3>1. CASE d = e
      <4>1. crashes[e] \in Nat /\ Waits(e, rows[e], crashes[e])
        BY <1>0, <2>4
      <4>2. Waits(e, r, crashes[e] + n)
        BY <2>2, <4>1 DEF Commanded, Follows
      <4>. QED BY <2>3, <2>5, <3>1, <4>2
    <3>2. CASE d # e
      BY <1>0, <2>3, <2>5, <3>2
    <3>. QED BY <3>1, <3>2
  <2>. QED BY <2>3, <2>5, <2>6, BasicsKept
<1>5. CASE Applied
  <2>1. PICK x \in Clusters : \E q : Submitted(x, q)
    BY <1>5 DEF Applied
  <2>2. PICK q : Submitted(x, q)
    BY <2>1
  <2>3. Events' = Events /\ Clusters' = Clusters /\ InSchedule' /\ Sound(State)' /\ UNCHANGED phase
    BY <1>0, <2>2, AppliedMeans
  <2>4. UNCHANGED rows /\ (UNCHANGED crashes \/ Interrupted(x)) /\ x \in Jobs
    BY <2>2 DEF Submitted, Jobs
  <2>5. crashes' \in [Jobs -> 0..MaxCrashes] /\ \A i \in Jobs : crashes[i] <= crashes'[i]
    BY <1>0, <2>4, CrashesBounded
  <2>6. ASSUME NEW d \in Events PROVE Waits(d, rows'[d], crashes'[d])
    <3>1. d \in Jobs /\ Cap[d] \in Nat /\ rows[d] \in Seq(Rows)
      BY <1>0, EventIs DEF Jobs
    <3>2. crashes[d] \in Nat /\ crashes'[d] \in Nat /\ crashes[d] <= crashes'[d] /\ Waits(d, rows[d], crashes[d])
      BY <1>0, <2>5, <3>1, CalendarAssumption
    <3>3. Count(rows[d], "confirmed") \in Nat
      BY <3>1, AtMeans DEF Count
    <3>. QED BY <2>4, <3>1, <3>2, <3>3 DEF Waits
  <2>. QED BY <2>3, <2>5, <2>6, BasicsKept
<1>6. Next => Timed \/ Swept \/ Answered \/ Applied
  BY <1>0, StepsAre
<1>. QED BY <1>1, <1>2, <1>3, <1>4, <1>5, <1>6

LEMMA Initially ==
    ASSUME Init
    PROVE  /\ Basics
           /\ (\A e \in Events : rows[e] = <<>>) /\ (\A x \in Clusters : tickets[x] = <<>>) /\ drawn = {}
<1>1. PICK scheduled \in Schedules :
        LET clusters == {x \in DOMAIN Members : Members[x] \subseteq scheduled}
        IN  /\ rows = [e \in scheduled |-> <<>>] /\ tickets = [x \in clusters |-> <<>>]
            /\ phase = [e \in scheduled |-> 0]
            /\ tokens = [n \in DOMAIN Veterans[scheduled] |-> NewToken(Veterans[scheduled][n], None)]
            /\ crashes = [job \in scheduled \cup clusters |-> 0]
  BY DEF Init
<1>2. Events = scheduled /\ Clusters = {x \in DOMAIN Members : Members[x] \subseteq Events}
  BY <1>1 DEF Events, Clusters
<1>3. /\ rows = [e \in Events |-> <<>>] /\ tickets = [x \in Clusters |-> <<>>] /\ phase = [e \in Events |-> 0]
      /\ tokens = [n \in DOMAIN Veterans[Events] |-> NewToken(Veterans[Events][n], None)]
      /\ crashes = [job \in Jobs |-> 0]
  BY <1>1, <1>2 DEF Jobs
<1>4. drawn = {}
  BY DEF Init
<1>5. tokens \in Seq(Tokens)
  <2>. DEFINE v == Veterans[Events]
  <2>1. v \in Seq(Everyone)
    BY <1>2, CalendarAssumption DEF Everyone
  <2>. HIDE DEF v
  <2>2. \A c \in Everyone : NewToken(c, None) \in Tokens
    BY DEF NewToken, Tokens
  <2>3. tokens = [n \in DOMAIN v |-> NewToken(v[n], None)]
    BY <1>3 DEF v
  <2>4. Len(v) \in Nat /\ DOMAIN v = 1..Len(v) /\ \A n \in 1..Len(v) : v[n] \in Everyone
    BY <2>1
  <2>5. tokens \in [1..Len(v) -> Tokens]
    BY <2>2, <2>3, <2>4
  <2>. QED BY <2>4, <2>5
<1>6. /\ \A e \in Events : rows[e] = <<>>
      /\ \A x \in Clusters : tickets[x] = <<>>
  BY <1>3
<1>7. Sound(State)
  <2>1. \A S : <<>> \in Seq(S)
    OBVIOUS
  <2>2. rows \in [Events -> Seq(Rows)]
    BY <1>3, <2>1
  <2>3. tickets \in [Clusters -> Seq(UNION {Applications(x) : x \in Clusters})]
    BY <1>3, <2>1
  <2>4. State \in Databases
    BY <1>4, <1>5, <2>2, <2>3 DEF State, Databases
  <2>5. \A e \in Events : RowsSound(e, State.rows[e])
    <3>1. \A e : RowsSound(e, <<>>)
      BY DEF RowsSound
    <3>. QED BY <1>6, <3>1 DEF State
  <2>6. \A x \in Clusters : TicketsSound(x, State.tickets[x])
    <3>1. \A x : TicketsSound(x, <<>>)
      BY <2>1 DEF TicketsSound
    <3>. QED BY <1>6, <3>1 DEF State
  <2>. QED BY <2>4, <2>5, <2>6 DEF Sound
<1>8. phase \in [Events -> Phases] /\ crashes \in [Jobs -> 0..MaxCrashes]
  BY <1>3, CalendarAssumption DEF Phases
<1>9. TypeOK
  BY <1>2, <1>7, <1>8 DEF TypeOK
<1>10. Together
  <2>1. \A x \in Clusters : Members[x] \subseteq Events
    BY <1>2
  <2>. QED BY <1>3, <2>1 DEF Together
<1>11. NoneWaitsByAFreeSeat
  <2>1. Places(<<>>) = {}
    BY DEF Places, At
  <2>. QED BY <1>6, <2>1 DEF NoneWaitsByAFreeSeat
<1>. QED BY <1>4, <1>6, <1>9, <1>10, <1>11 DEF Basics

LEMMA BasicsAlways == Spec => []Basics
<1>1. Init => Basics
  BY Initially
<1>2. Basics /\ [Next]_vars => Basics'
  BY BasicsStep
<1>. QED BY <1>1, <1>2, PTL DEF Spec

(* The state is well formed: in particular a character has one row in an   *)
(* event and one application to a cluster, a lottery's statuses are for    *)
(* staff events and a waitlist's for others, and the places of a waitlist  *)
(* follow the order of its rows, whatever is cancelled, swept or refused.  *)
THEOREM TypeCorrect == Spec => []TypeOK
<1>1. Basics => TypeOK
  BY DEF Basics
<1>. QED BY <1>1, BasicsAlways, PTL

(* Nobody waits for a seat that is free, but for one seat each time a      *)
(* cancellation died before the promotion.                                 *)
THEOREM NoneWaitsByAFreeSeatAlways == Spec => []NoneWaitsByAFreeSeat
<1>1. Basics => NoneWaitsByAFreeSeat
  BY DEF Basics
<1>. QED BY <1>1, BasicsAlways, PTL

-----------------------------------------------------------------------------
(***************************************************************************)
(* What a sweep's saves have done, and no more.                            *)
(***************************************************************************)
RowsEffect(t, u, w) ==
    /\ \A e \in Events :
          /\ \A k \in DOMAIN t.rows[e] :
                /\ k \in DOMAIN u.rows[e] /\ u.rows[e][k].who = t.rows[e][k].who
                /\ u.rows[e][k].status = IF w.save = "row" /\ w.event = e /\ w.at = k THEN w.to
                                         ELSE t.rows[e][k].status
          /\ \A k \in DOMAIN u.rows[e] : k \notin DOMAIN t.rows[e] =>
                /\ w.save = "seat" /\ w.event = e
                /\ u.rows[e][k].who = w.who /\ u.rows[e][k].status = "selected"
    /\ w.save = "seat" => \E k \in DOMAIN u.rows[w.event] : k \notin DOMAIN t.rows[w.event]
TicketsEffect(t, u, w) ==
    \A x \in Clusters : \A k \in DOMAIN t.tickets[x] :
        u.tickets[x][k].status = IF w.save = "ticket" /\ w.cluster = x /\ w.at = k THEN w.to
                                 ELSE t.tickets[x][k].status
TokensEffect(t, u, w) ==
    \A k \in DOMAIN t.tokens :
        /\ w.save = "token" /\ w.at = k => u.tokens[k].redeemed /\ u.tokens[k].use = w.use
        /\ ~(w.save = "token" /\ w.at = k) => u.tokens[k] = t.tokens[k]
DrawnEffect(t, u, w) ==
    \A e : e \in u.drawn <=> e \in t.drawn \/ (w.save = "drawn" /\ w.event = e)
Effect(t, u, w) == RowsEffect(t, u, w) /\ TicketsEffect(t, u, w) /\ TokensEffect(t, u, w) /\ DrawnEffect(t, u, w)

LEMMA SavedMeans ==
    ASSUME InSchedule, NEW b, Sound(b), NEW t \in Grown(b), NEW w \in SavesOf(b)
    PROVE  Effect(t, Saved(t, w), w)
<1>. DEFINE u == Saved(t, w)
<1>1. /\ t \in Databases /\ t.rows \in [Events -> Seq(Rows)] /\ t.tokens \in Seq(Tokens)
      /\ t.tickets \in [Clusters -> Seq(UNION {Applications(x) : x \in Clusters})]
      /\ \A x \in Clusters : t.tickets[x] \in Seq(Applications(x))
      /\ \A e \in Events : Kept(t.rows[e], b.rows[e])
      /\ \A x \in Clusters : SameApplicants(t.tickets[x], b.tickets[x]) /\ b.tickets[x] \in Seq(Applications(x))
      /\ SameHolders(t.tokens, b.tokens) /\ b.rows \in [Events -> Seq(Rows)] /\ b.tokens \in Seq(Tokens)
  BY DEF Grown, Databases, Sound, TicketsSound
<1>2. CASE w \in RowSaves(b)
  <2>. DEFINE e == w.event
              k == w.at
              p == t.rows[e]
              q == [p EXCEPT ![k].status = w.to]
              v == [t.rows EXCEPT ![e] = q]
  <2>1. e \in Events /\ k \in DOMAIN b.rows[e] /\ w.save = "row"
    BY <1>2 DEF RowSaves
  <2>2. u = [t EXCEPT !.rows = v]
    BY <1>1, <2>1 DEF Saved, Databases
  <2>3. p \in Seq(Rows) /\ Len(b.rows[e]) <= Len(p) /\ b.rows[e] \in Seq(Rows)
    BY <1>1, <2>1 DEF Kept
  <2>. HIDE DEF p, k, e, u
  <2>4. k \in DOMAIN p /\ p[k] \in Rows
    BY <2>1, <2>3
  <2>5. /\ DOMAIN q = DOMAIN p /\ q[k].who = p[k].who /\ q[k].status = w.to
        /\ \A l \in DOMAIN p : l # k => q[l] = p[l]
    BY <2>3, <2>4 DEF Rows
  <2>. HIDE DEF q
  <2>6. v[e] = q /\ \A d \in Events : d # e => v[d] = t.rows[d]
    BY <1>1, <2>1
  <2>. HIDE DEF v
  <2>7. u.rows = v /\ u.tickets = t.tickets /\ u.tokens = t.tokens /\ u.drawn = t.drawn
    BY <1>1, <2>2 DEF Databases
  <2>8. RowsEffect(t, u, w)
    <3>1. ASSUME NEW d \in Events, NEW l \in DOMAIN t.rows[d]
          PROVE  /\ l \in DOMAIN u.rows[d] /\ u.rows[d][l].who = t.rows[d][l].who
                 /\ u.rows[d][l].status = IF w.save = "row" /\ w.event = d /\ w.at = l THEN w.to ELSE t.rows[d][l].status
      BY <2>1, <2>5, <2>6, <2>7 DEF e, k, p
    <3>2. ASSUME NEW d \in Events, NEW l \in DOMAIN u.rows[d] PROVE l \in DOMAIN t.rows[d]
      BY <2>5, <2>6, <2>7 DEF e, p
    <3>. QED BY <2>1, <3>1, <3>2 DEF RowsEffect
  <2>. QED BY <2>1, <2>7, <2>8 DEF Effect, TicketsEffect, TokensEffect, DrawnEffect, u
<1>3. CASE w \in NewRowSaves
  <2>. DEFINE e == w.event
              row == Row(w.who, "selected", 0)
              p == t.rows[e]
              q == Append(p, row)
              v == [t.rows EXCEPT ![e] = q]
  <2>1. e \in Events /\ w.save = "seat"
    BY <1>3 DEF NewRowSaves
  <2>2. u = [t EXCEPT !.rows = v]
    BY <1>1, <2>1 DEF Saved, Databases
  <2>3. p \in Seq(Rows) /\ row.who = w.who /\ row.status = "selected"
    BY <1>1, <2>1 DEF Row
  <2>. HIDE DEF p, e, u, row
  <2>4. /\ DOMAIN q = 1..(Len(p) + 1) /\ DOMAIN p = 1..Len(p) /\ q[Len(p) + 1] = row /\ Len(p) \in Nat
        /\ \A l \in DOMAIN p : q[l] = p[l]
    BY <2>3
  <2>. HIDE DEF q
  <2>5. \A l \in DOMAIN q : l = Len(p) + 1 \/ l \in DOMAIN p
    BY <2>4
  <2>6. v[e] = q /\ \A d \in Events : d # e => v[d] = t.rows[d]
    BY <1>1, <2>1
  <2>. HIDE DEF v
  <2>7. u.rows = v /\ u.tickets = t.tickets /\ u.tokens = t.tokens /\ u.drawn = t.drawn
    BY <1>1, <2>2 DEF Databases
  <2>8. RowsEffect(t, u, w)
    <3>1. ASSUME NEW d \in Events, NEW l \in DOMAIN t.rows[d]
          PROVE  l \in DOMAIN u.rows[d] /\ u.rows[d][l] = t.rows[d][l]
      <4>1. CASE d = e
        <5>1. l \in DOMAIN p /\ l \in DOMAIN q
          BY <2>4, <4>1 DEF p
        <5>. QED BY <2>4, <2>6, <2>7, <4>1, <5>1 DEF p
      <4>. QED BY <2>6, <2>7, <4>1
    <3>2. ASSUME NEW d \in Events, NEW l \in DOMAIN u.rows[d], l \notin DOMAIN t.rows[d]
          PROVE  w.event = d /\ u.rows[d][l].who = w.who /\ u.rows[d][l].status = "selected"
      <4>1. d = e
        BY <2>6, <2>7, <3>2
      <4>2. l = Len(p) + 1 /\ u.rows[d] = q
        BY <2>5, <2>6, <2>7, <3>2, <4>1 DEF p
      <4>. QED BY <2>3, <2>4, <4>1, <4>2 DEF e
    <3>3. \E l \in DOMAIN u.rows[w.event] : l \notin DOMAIN t.rows[w.event]
      <4>1. Len(p) + 1 \in DOMAIN q /\ Len(p) + 1 \notin DOMAIN p
        BY <2>4
      <4>. QED BY <2>6, <2>7, <4>1 DEF e, p
    <3>4. ASSUME NEW d \in Events, NEW l \in DOMAIN t.rows[d]
          PROVE  /\ l \in DOMAIN u.rows[d] /\ u.rows[d][l].who = t.rows[d][l].who
                 /\ u.rows[d][l].status = IF w.save = "row" /\ w.event = d /\ w.at = l THEN w.to
                                          ELSE t.rows[d][l].status
      BY <2>1, <3>1
    <3>5. ASSUME NEW d \in Events, NEW l \in DOMAIN u.rows[d]
          PROVE  l \notin DOMAIN t.rows[d] =>
                    /\ w.save = "seat" /\ w.event = d
                    /\ u.rows[d][l].who = w.who /\ u.rows[d][l].status = "selected"
      BY <2>1, <3>2
    <3>. QED BY <3>3, <3>4, <3>5 DEF RowsEffect
  <2>. QED BY <2>1, <2>7, <2>8 DEF Effect, TicketsEffect, TokensEffect, DrawnEffect, u
<1>4. CASE w \in TicketSaves(b)
  <2>. DEFINE x == w.cluster
              k == w.at
              p == t.tickets[x]
              q == [p EXCEPT ![k].status = w.to]
              v == [t.tickets EXCEPT ![x] = q]
  <2>1. x \in Clusters /\ k \in DOMAIN b.tickets[x] /\ w.save = "ticket"
    BY <1>4 DEF TicketSaves
  <2>2. u = [t EXCEPT !.tickets = v]
    BY <1>1, <2>1 DEF Saved, Databases
  <2>3. p \in Seq(Applications(x)) /\ Len(b.tickets[x]) = Len(p) /\ b.tickets[x] \in Seq(Applications(x))
    BY <1>1, <2>1 DEF SameApplicants
  <2>. HIDE DEF p, k, x, u
  <2>4. k \in DOMAIN p /\ p[k] \in Applications(x)
    BY <2>1, <2>3
  <2>5. /\ DOMAIN q = DOMAIN p /\ q[k].status = w.to
        /\ \A l \in DOMAIN p : l # k => q[l] = p[l]
    BY <2>3, <2>4 DEF Applications
  <2>. HIDE DEF q
  <2>6. v[x] = q /\ \A y \in Clusters : y # x => v[y] = t.tickets[y]
    BY <1>1, <2>1
  <2>. HIDE DEF v
  <2>7. u.rows = t.rows /\ u.tickets = v /\ u.tokens = t.tokens /\ u.drawn = t.drawn
    BY <1>1, <2>2 DEF Databases
  <2>8. TicketsEffect(t, u, w)
    BY <2>1, <2>5, <2>6, <2>7 DEF TicketsEffect, x, k, p
  <2>. QED BY <2>1, <2>7, <2>8 DEF Effect, RowsEffect, TokensEffect, DrawnEffect, u
<1>5. CASE w \in TokenSaves(b)
  <2>. DEFINE k == w.at
              p == t.tokens
              a == [p[k] EXCEPT !.use = w.use, !.redeemed = TRUE]
              q == [p EXCEPT ![k] = a]
  <2>1. k \in DOMAIN b.tokens /\ w.save = "token"
    BY <1>5 DEF TokenSaves
  <2>2. k \in DOMAIN p
    BY <1>1, <2>1 DEF SameHolders
  <2>3. p[k] \in Tokens
    BY <1>1, <2>2
  <2>4. u = [t EXCEPT !.tokens = q]
    <3>1. u = [t EXCEPT !.tokens[k].use = w.use, !.tokens[k].redeemed = TRUE]
      BY <2>1 DEF Saved
    <3>. QED BY <1>1, <2>2, <2>3, <3>1 DEF Databases, Tokens
  <2>5. a.redeemed /\ a.use = w.use
    BY <2>3 DEF Tokens
  <2>. HIDE DEF k, u, a
  <2>6. q[k] = a /\ \A l \in DOMAIN p : l # k => q[l] = p[l]
    BY <1>1, <2>2
  <2>. HIDE DEF q
  <2>7. u.rows = t.rows /\ u.tickets = t.tickets /\ u.tokens = q /\ u.drawn = t.drawn
    BY <1>1, <2>4 DEF Databases
  <2>8. TokensEffect(t, u, w)
    BY <2>1, <2>5, <2>6, <2>7 DEF TokensEffect, k
  <2>. QED BY <2>1, <2>7, <2>8 DEF Effect, RowsEffect, TicketsEffect, DrawnEffect, u
<1>6. CASE w \in NewTokenSaves
  <2>. DEFINE q == Append(t.tokens, NewToken(w.who, w.source))
  <2>1. w.save = "issue"
    BY <1>6 DEF NewTokenSaves
  <2>2. u = [t EXCEPT !.tokens = q]
    BY <2>1 DEF Saved
  <2>. HIDE DEF u
  <2>3. \A k \in DOMAIN t.tokens : q[k] = t.tokens[k]
    BY <1>1
  <2>. HIDE DEF q
  <2>4. u.rows = t.rows /\ u.tickets = t.tickets /\ u.tokens = q /\ u.drawn = t.drawn
    BY <1>1, <2>2 DEF Databases
  <2>. QED BY <2>1, <2>3, <2>4 DEF Effect, RowsEffect, TicketsEffect, TokensEffect, DrawnEffect, u
<1>7. CASE w \in DrawnSaves
  <2>1. w.save = "drawn"
    BY <1>7 DEF DrawnSaves
  <2>2. u = [t EXCEPT !.drawn = @ \cup {w.event}]
    BY <2>1 DEF Saved
  <2>. HIDE DEF u
  <2>3. u.rows = t.rows /\ u.tickets = t.tickets /\ u.tokens = t.tokens /\ u.drawn = t.drawn \cup {w.event}
    BY <1>1, <2>2 DEF Databases
  <2>. QED BY <2>1, <2>3 DEF Effect, RowsEffect, TicketsEffect, TokensEffect, DrawnEffect, u
<1>. QED BY <1>2, <1>3, <1>4, <1>5, <1>6, <1>7 DEF SavesOf

(* Seen from the database b that it was worked out from: that t differs    *)
(* from b by some of the saves W alone; that a save has been made in it.   *)
Moved(b, t, W) ==
    /\ \A e \in Events : \A k \in DOMAIN t.rows[e] :
          IF k \in DOMAIN b.rows[e]
          THEN t.rows[e][k].status = b.rows[e][k].status \/ Becomes(e, k, t.rows[e][k].status) \in W
          ELSE t.rows[e][k].status = "selected" /\ Seats(e, t.rows[e][k].who) \in W
    /\ \A x \in Clusters : \A k \in DOMAIN b.tickets[x] :
          t.tickets[x][k].status = b.tickets[x][k].status \/ Marks(x, k, t.tickets[x][k].status) \in W
    /\ \A k \in DOMAIN b.tokens :
          t.tokens[k] = b.tokens[k] \/ (t.tokens[k].redeemed /\ Redeems(k, t.tokens[k].use) \in W)
    /\ \A e : e \in t.drawn => e \in b.drawn \/ Draws(e) \in W

Made(b, t, w) ==
    /\ w.save = "row" => t.rows[w.event][w.at].status = w.to
    /\ w.save = "seat" =>
          \E k \in DOMAIN t.rows[w.event] :
              /\ k \notin DOMAIN b.rows[w.event]
              /\ t.rows[w.event][k].who = w.who /\ t.rows[w.event][k].status = "selected"
    /\ w.save = "ticket" => t.tickets[w.cluster][w.at].status = w.to
    /\ w.save = "token" => t.tokens[w.at].redeemed /\ t.tokens[w.at].use = w.use
    /\ w.save = "drawn" => w.event \in t.drawn

(* No save undoes another. *)
Clash(v, w) ==
    \/ v.save = "row" /\ w.save = "row" /\ v.event = w.event /\ v.at = w.at /\ v.to # w.to
    \/ v.save = "ticket" /\ w.save = "ticket" /\ v.cluster = w.cluster /\ v.at = w.at /\ v.to # w.to
    \/ v.save = "token" /\ w.save = "token" /\ v.at = w.at /\ v.use # w.use

LEMMA SaveKinds ==
    ASSUME NEW b, NEW w \in SavesOf(b)
    PROVE  /\ w.save \in {"row", "seat", "ticket", "token", "issue", "drawn"}
           /\ w.save = "row" => /\ w \in RowSaves(b) /\ w = Becomes(w.event, w.at, w.to) /\ w.event \in Events
                                /\ w.at \in DOMAIN b.rows[w.event]
           /\ w.save = "seat" => w \in NewRowSaves /\ w = Seats(w.event, w.who) /\ w.event \in Events
           /\ w.save = "ticket" => /\ w \in TicketSaves(b) /\ w = Marks(w.cluster, w.at, w.to) /\ w.cluster \in Clusters
                                   /\ w.at \in DOMAIN b.tickets[w.cluster]
           /\ w.save = "token" => /\ w \in TokenSaves(b) /\ w = Redeems(w.at, w.use) /\ w.at \in DOMAIN b.tokens
                                  /\ ~b.tokens[w.at].redeemed
           /\ w.save = "drawn" => w \in DrawnSaves /\ w = Draws(w.event)
<1>1. CASE w \in RowSaves(b)
  BY <1>1 DEF RowSaves, Becomes
<1>2. CASE w \in NewRowSaves
  BY <1>2 DEF NewRowSaves, Seats
<1>3. CASE w \in TicketSaves(b)
  BY <1>3 DEF TicketSaves, Marks
<1>4. CASE w \in TokenSaves(b)
  BY <1>4 DEF TokenSaves, Redeems
<1>5. CASE w \in NewTokenSaves
  BY <1>5 DEF NewTokenSaves
<1>6. CASE w \in DrawnSaves
  BY <1>6 DEF DrawnSaves, Draws
<1>. QED BY <1>1, <1>2, <1>3, <1>4, <1>5, <1>6 DEF SavesOf

LEMMA GrownLengths ==
    ASSUME InSchedule, NEW b, Sound(b), NEW t \in Grown(b)
    PROVE  /\ \A e \in Events : /\ DOMAIN b.rows[e] \subseteq DOMAIN t.rows[e]
                                /\ t.rows[e] \in Seq(Rows) /\ b.rows[e] \in Seq(Rows)
                                /\ RowsSound(e, t.rows[e]) /\ RowsSound(e, b.rows[e])
                                /\ Kept(t.rows[e], b.rows[e])
           /\ \A x \in Clusters : /\ DOMAIN t.tickets[x] = DOMAIN b.tickets[x]
                                  /\ t.tickets[x] \in Seq(Applications(x)) /\ b.tickets[x] \in Seq(Applications(x))
                                  /\ SameApplicants(t.tickets[x], b.tickets[x])
           /\ DOMAIN b.tokens \subseteq DOMAIN t.tokens /\ t.tokens \in Seq(Tokens) /\ b.tokens \in Seq(Tokens)
           /\ SameHolders(t.tokens, b.tokens) /\ b.drawn \subseteq t.drawn
<1>1. /\ \A e \in Events : t.rows[e] \in Seq(Rows) /\ b.rows[e] \in Seq(Rows) /\ Len(b.rows[e]) <= Len(t.rows[e])
                           /\ Kept(t.rows[e], b.rows[e]) /\ RowsSound(e, t.rows[e]) /\ RowsSound(e, b.rows[e])
      /\ \A x \in Clusters : /\ t.tickets[x] \in Seq(Applications(x)) /\ b.tickets[x] \in Seq(Applications(x))
                             /\ SameApplicants(t.tickets[x], b.tickets[x]) /\ Len(t.tickets[x]) = Len(b.tickets[x])
      /\ t.tokens \in Seq(Tokens) /\ b.tokens \in Seq(Tokens) /\ Len(b.tokens) <= Len(t.tokens)
      /\ SameHolders(t.tokens, b.tokens) /\ b.drawn \subseteq t.drawn
  BY DEF Grown, Sound, Databases, TicketsSound, Kept, SameApplicants, SameHolders
<1>2. ASSUME NEW S, NEW p \in Seq(S), NEW q \in Seq(S), Len(p) <= Len(q) PROVE DOMAIN p \subseteq DOMAIN q
  BY <1>2
<1>3. ASSUME NEW S, NEW p \in Seq(S), NEW q \in Seq(S), Len(p) = Len(q) PROVE DOMAIN p = DOMAIN q
  BY <1>3
<1>4. ASSUME NEW e \in Events PROVE DOMAIN b.rows[e] \subseteq DOMAIN t.rows[e]
  BY <1>1, <1>2
<1>5. ASSUME NEW x \in Clusters PROVE DOMAIN t.tickets[x] = DOMAIN b.tickets[x]
  BY <1>1, <1>3
<1>6. DOMAIN b.tokens \subseteq DOMAIN t.tokens
  BY <1>1, <1>2
<1>. QED BY <1>1, <1>4, <1>5, <1>6

LEMMA MovedOn ==
    ASSUME InSchedule, NEW b, Sound(b), NEW t \in Grown(b), NEW u \in Grown(b), NEW w \in SavesOf(b), Effect(t, u, w),
           NEW V \in SUBSET SavesOf(b), Moved(b, t, V), \A v \in V : Made(b, t, v) /\ ~Clash(v, w)
    PROVE  Moved(b, u, V \cup {w}) /\ \A v \in V \cup {w} : Made(b, u, v)
<1>1. /\ w.save = "row" => w = Becomes(w.event, w.at, w.to) /\ w.event \in Events /\ w.at \in DOMAIN b.rows[w.event]
      /\ w.save = "seat" => w = Seats(w.event, w.who) /\ w.event \in Events
      /\ w.save = "ticket" => w = Marks(w.cluster, w.at, w.to) /\ w.cluster \in Clusters /\ w.at \in DOMAIN b.tickets[w.cluster]
      /\ w.save = "token" => w = Redeems(w.at, w.use) /\ w.at \in DOMAIN b.tokens
      /\ w.save = "drawn" => w = Draws(w.event)
  BY SaveKinds
<1>2. /\ \A e \in Events : DOMAIN b.rows[e] \subseteq DOMAIN t.rows[e]
      /\ \A x \in Clusters : DOMAIN t.tickets[x] = DOMAIN b.tickets[x]
      /\ DOMAIN b.tokens \subseteq DOMAIN t.tokens
  BY GrownLengths
<1>3. /\ \A e \in Events : \A k \in DOMAIN t.rows[e] :
            /\ k \in DOMAIN u.rows[e] /\ u.rows[e][k].who = t.rows[e][k].who
            /\ w.save = "row" /\ w.event = e /\ w.at = k => u.rows[e][k].status = w.to
            /\ ~(w.save = "row" /\ w.event = e /\ w.at = k) => u.rows[e][k].status = t.rows[e][k].status
      /\ \A e \in Events : \A k \in DOMAIN u.rows[e] : k \notin DOMAIN t.rows[e] =>
            /\ w.save = "seat" /\ w.event = e
            /\ u.rows[e][k].who = w.who /\ u.rows[e][k].status = "selected"
      /\ w.save = "seat" => \E k \in DOMAIN u.rows[w.event] : k \notin DOMAIN t.rows[w.event]
  <2>0. RowsEffect(t, u, w)
    BY DEF Effect
  <2>1. ASSUME NEW e \in Events, NEW k \in DOMAIN t.rows[e]
        PROVE  /\ k \in DOMAIN u.rows[e] /\ u.rows[e][k].who = t.rows[e][k].who
               /\ w.save = "row" /\ w.event = e /\ w.at = k => u.rows[e][k].status = w.to
               /\ ~(w.save = "row" /\ w.event = e /\ w.at = k) => u.rows[e][k].status = t.rows[e][k].status
    BY <2>0 DEF RowsEffect
  <2>2. ASSUME NEW e \in Events, NEW k \in DOMAIN u.rows[e], k \notin DOMAIN t.rows[e]
        PROVE  w.save = "seat" /\ w.event = e /\ u.rows[e][k].who = w.who /\ u.rows[e][k].status = "selected"
    BY <2>0, <2>2 DEF RowsEffect
  <2>3. w.save = "seat" => \E k \in DOMAIN u.rows[w.event] : k \notin DOMAIN t.rows[w.event]
    BY <2>0, Zenon DEF RowsEffect
  <2>. QED BY <2>1, <2>2, <2>3
<1>4. \A e \in Events : \A k \in DOMAIN u.rows[e] :
          IF k \in DOMAIN b.rows[e]
          THEN u.rows[e][k].status = b.rows[e][k].status \/ Becomes(e, k, u.rows[e][k].status) \in V \cup {w}
          ELSE u.rows[e][k].status = "selected" /\ Seats(e, u.rows[e][k].who) \in V \cup {w}
  <2>. SUFFICES ASSUME NEW e \in Events, NEW k \in DOMAIN u.rows[e]
                PROVE  IF k \in DOMAIN b.rows[e]
                       THEN u.rows[e][k].status = b.rows[e][k].status \/ Becomes(e, k, u.rows[e][k].status) \in V \cup {w}
                       ELSE u.rows[e][k].status = "selected" /\ Seats(e, u.rows[e][k].who) \in V \cup {w}
    OBVIOUS
  <2>1. k \in DOMAIN t.rows[e] =>
          IF k \in DOMAIN b.rows[e]
          THEN t.rows[e][k].status = b.rows[e][k].status \/ Becomes(e, k, t.rows[e][k].status) \in V
          ELSE t.rows[e][k].status = "selected" /\ Seats(e, t.rows[e][k].who) \in V
    BY DEF Moved
  <2>2. CASE k \notin DOMAIN t.rows[e]
    <3>1. k \notin DOMAIN b.rows[e]
      BY <1>2, <2>2
    <3>2. w.save = "seat" /\ w.event = e /\ u.rows[e][k].who = w.who /\ u.rows[e][k].status = "selected"
      BY <1>3, <2>2
    <3>. QED BY <1>1, <3>1, <3>2
  <2>3. CASE k \in DOMAIN t.rows[e] /\ w.save = "row" /\ w.event = e /\ w.at = k
    BY <1>1, <1>3, <2>3
  <2>4. CASE k \in DOMAIN t.rows[e] /\ ~(w.save = "row" /\ w.event = e /\ w.at = k)
    BY <1>3, <2>1, <2>4
  <2>. QED BY <2>2, <2>3, <2>4
<1>5. \A x \in Clusters : \A k \in DOMAIN b.tickets[x] :
          u.tickets[x][k].status = b.tickets[x][k].status \/ Marks(x, k, u.tickets[x][k].status) \in V \cup {w}
  <2>. SUFFICES ASSUME NEW x \in Clusters, NEW k \in DOMAIN b.tickets[x]
                PROVE  u.tickets[x][k].status = b.tickets[x][k].status \/ Marks(x, k, u.tickets[x][k].status) \in V \cup {w}
    OBVIOUS
  <2>1. u.tickets[x][k].status = IF w.save = "ticket" /\ w.cluster = x /\ w.at = k THEN w.to ELSE t.tickets[x][k].status
    BY <1>2 DEF Effect, TicketsEffect
  <2>2. t.tickets[x][k].status = b.tickets[x][k].status \/ Marks(x, k, t.tickets[x][k].status) \in V
    BY DEF Moved
  <2>. QED BY <1>1, <2>1, <2>2
<1>6. \A k \in DOMAIN b.tokens :
          u.tokens[k] = b.tokens[k] \/ (u.tokens[k].redeemed /\ Redeems(k, u.tokens[k].use) \in V \cup {w})
  <2>. SUFFICES ASSUME NEW k \in DOMAIN b.tokens
                PROVE  u.tokens[k] = b.tokens[k] \/ (u.tokens[k].redeemed /\ Redeems(k, u.tokens[k].use) \in V \cup {w})
    OBVIOUS
  <2>1. /\ w.save = "token" /\ w.at = k => u.tokens[k].redeemed /\ u.tokens[k].use = w.use
        /\ ~(w.save = "token" /\ w.at = k) => u.tokens[k] = t.tokens[k]
    BY <1>2 DEF Effect, TokensEffect
  <2>2. t.tokens[k] = b.tokens[k] \/ (t.tokens[k].redeemed /\ Redeems(k, t.tokens[k].use) \in V)
    BY DEF Moved
  <2>. QED BY <1>1, <2>1, <2>2
<1>7. \A e : e \in u.drawn => e \in b.drawn \/ Draws(e) \in V \cup {w}
  BY <1>1 DEF Effect, DrawnEffect, Moved
<1>8. Moved(b, u, V \cup {w})
  BY <1>4, <1>5, <1>6, <1>7 DEF Moved
<1>9. ASSUME NEW v \in V PROVE Made(b, u, v)
  <2>0. Made(b, t, v) /\ ~Clash(v, w) /\ v \in SavesOf(b)
    OBVIOUS
  <2>1. v.save = "row" => u.rows[v.event][v.at].status = v.to
    <3>1. v.save = "row" => v.event \in Events /\ v.at \in DOMAIN t.rows[v.event] /\ t.rows[v.event][v.at].status = v.to
      BY <1>2, <2>0, SaveKinds DEF Made
    <3>. QED BY <1>3, <2>0, <3>1 DEF Clash
  <2>2. v.save = "seat" =>
          \E k \in DOMAIN u.rows[v.event] :
              /\ k \notin DOMAIN b.rows[v.event]
              /\ u.rows[v.event][k].who = v.who /\ u.rows[v.event][k].status = "selected"
    <3>. SUFFICES ASSUME v.save = "seat"
                  PROVE  \E k \in DOMAIN u.rows[v.event] :
                            /\ k \notin DOMAIN b.rows[v.event]
                            /\ u.rows[v.event][k].who = v.who /\ u.rows[v.event][k].status = "selected"
      OBVIOUS
    <3>1. v.event \in Events
      BY <2>0, SaveKinds
    <3>2. PICK k \in DOMAIN t.rows[v.event] :
              /\ k \notin DOMAIN b.rows[v.event]
              /\ t.rows[v.event][k].who = v.who /\ t.rows[v.event][k].status = "selected"
      BY <2>0 DEF Made
    <3>3. ~(w.save = "row" /\ w.event = v.event /\ w.at = k)
      BY <1>1, <3>2
    <3>. QED BY <1>3, <3>1, <3>2, <3>3
  <2>3. v.save = "ticket" => u.tickets[v.cluster][v.at].status = v.to
    <3>1. v.save = "ticket" =>
             v.cluster \in Clusters /\ v.at \in DOMAIN t.tickets[v.cluster] /\ t.tickets[v.cluster][v.at].status = v.to
      BY <1>2, <2>0, SaveKinds DEF Made
    <3>. QED BY <2>0, <3>1 DEF Clash, Effect, TicketsEffect
  <2>4. v.save = "token" => u.tokens[v.at].redeemed /\ u.tokens[v.at].use = v.use
    <3>1. v.save = "token" => v.at \in DOMAIN t.tokens /\ t.tokens[v.at].redeemed /\ t.tokens[v.at].use = v.use
      BY <1>2, <2>0, SaveKinds DEF Made
    <3>. QED BY <2>0, <3>1 DEF Clash, Effect, TokensEffect
  <2>5. v.save = "drawn" => v.event \in u.drawn
    BY <2>0 DEF Made, Effect, DrawnEffect
  <2>. QED BY <2>1, <2>2, <2>3, <2>4, <2>5 DEF Made
<1>10. Made(b, u, w)
  <2>1. w.save = "row" => u.rows[w.event][w.at].status = w.to
    BY <1>1, <1>2, <1>3
  <2>2. w.save = "seat" =>
          \E k \in DOMAIN u.rows[w.event] :
              /\ k \notin DOMAIN b.rows[w.event]
              /\ u.rows[w.event][k].who = w.who /\ u.rows[w.event][k].status = "selected"
    <3>. SUFFICES ASSUME w.save = "seat"
                  PROVE  \E k \in DOMAIN u.rows[w.event] :
                            /\ k \notin DOMAIN b.rows[w.event]
                            /\ u.rows[w.event][k].who = w.who /\ u.rows[w.event][k].status = "selected"
      OBVIOUS
    <3>1. PICK k \in DOMAIN u.rows[w.event] : k \notin DOMAIN t.rows[w.event]
      BY <1>3
    <3>2. w.event \in Events /\ k \notin DOMAIN b.rows[w.event]
      BY <1>1, <1>2, <3>1
    <3>3. u.rows[w.event][k].who = w.who /\ u.rows[w.event][k].status = "selected"
      BY <1>3, <3>1, <3>2
    <3>. QED BY <3>1, <3>2, <3>3
  <2>3. w.save = "ticket" => u.tickets[w.cluster][w.at].status = w.to
    BY <1>1, <1>2 DEF Effect, TicketsEffect
  <2>4. w.save = "token" => u.tokens[w.at].redeemed /\ u.tokens[w.at].use = w.use
    BY <1>1, <1>2 DEF Effect, TokensEffect
  <2>5. w.save = "drawn" => w.event \in u.drawn
    BY DEF Effect, DrawnEffect
  <2>. QED BY <2>1, <2>2, <2>3, <2>4, <2>5 DEF Made
<1>. QED BY <1>8, <1>9, <1>10

(* What n of the saves lead to from b, and what a sweep of them leaves. *)
Reached(b, saves, n) ==
    {t \in Grown(b) : Moved(b, t, {saves[i] : i \in 1..n}) /\ \A i \in 1..n : Made(b, t, saves[i])}

Orderly(saves) == \A i, j \in DOMAIN saves : ~Clash(saves[i], saves[j])

LEMMA TrailReaches ==
    ASSUME InSchedule, NEW b, Sound(b), NEW saves \in Seq(SavesOf(b)), Orderly(saves)
    PROVE  /\ \A t \in Partly(b, saves) : \E n \in 0..Len(saves) : t \in Reached(b, saves, n)
           /\ Whole(b, saves) \in Partly(b, saves)
           /\ ~Stopped(b, saves) => Whole(b, saves) \in Reached(b, saves, Len(saves))
           /\ Stopped(b, saves) =>
                 \E n \in DOMAIN saves : Whole(b, saves) \in Reached(b, saves, n - 1) /\ saves[n].save = "seat"
<1>. DEFINE G == [n \in 0..Len(saves) |-> Reached(b, saves, n)]
<1>1. Len(saves) \in Nat /\ DOMAIN saves = 1..Len(saves) /\ \A n \in 1..Len(saves) : saves[n] \in SavesOf(b)
  OBVIOUS
<1>2. \A n \in 0..Len(saves) : G[n] = Reached(b, saves, n)
  OBVIOUS
<1>. HIDE DEF G
<1>3. b \in G[0]
  <2>1. b \in Grown(b)
    BY GrownSelf
  <2>2. Moved(b, b, {saves[i] : i \in 1..0}) /\ \A i \in 1..0 : Made(b, b, saves[i])
    BY DEF Moved
  <2>. QED BY <1>1, <1>2, <2>1, <2>2 DEF Reached
<1>4. ASSUME NEW n \in DOMAIN saves, NEW t \in G[n - 1], ~Refused(t, saves[n])
      PROVE  Saved(t, saves[n]) \in G[n]
  <2>. DEFINE w == saves[n]
              u == Saved(t, w)
              V == {saves[i] : i \in 1..(n - 1)}
  <2>1. n \in 1..Len(saves) /\ n - 1 \in 0..Len(saves) /\ w \in SavesOf(b)
    BY <1>1
  <2>2. t \in Reached(b, saves, n - 1)
    BY <1>2, <2>1
  <2>3. t \in Grown(b) /\ Moved(b, t, V) /\ \A i \in 1..(n - 1) : Made(b, t, saves[i])
    BY <2>2 DEF Reached
  <2>4. V \subseteq SavesOf(b) /\ \A v \in V : Made(b, t, v) /\ ~Clash(v, w)
    <3>1. \A i \in 1..(n - 1) : i \in DOMAIN saves /\ saves[i] \in SavesOf(b) /\ ~Clash(saves[i], w)
      BY <1>1, <2>1 DEF Orderly
    <3>. QED BY <2>3, <3>1
  <2>5. Effect(t, u, w) /\ u \in Grown(b)
    BY <1>4, <2>1, <2>3, SavedMeans, SaveGrows
  <2>6. {saves[i] : i \in 1..n} = V \cup {w}
    <3>1. \A i \in 1..n : i = n \/ i \in 1..(n - 1)
      BY <2>1
    <3>2. n \in 1..n /\ 1..(n - 1) \subseteq 1..n
      BY <2>1
    <3>. QED BY <3>1, <3>2
  <2>. HIDE DEF w, u, V
  <2>7. Moved(b, u, V \cup {w}) /\ \A v \in V \cup {w} : Made(b, u, v)
    BY <2>1, <2>3, <2>4, <2>5, MovedOn
  <2>8. u \in Reached(b, saves, n)
    BY <2>5, <2>6, <2>7 DEF Reached
  <2>. QED BY <1>2, <2>1, <2>8 DEF u, w
<1>5. \A n \in DOMAIN saves : \A t \in G[n - 1] : Refused(t, saves[n]) \/ Saved(t, saves[n]) \in G[n]
  BY <1>4
<1>6. /\ \A t \in Partly(b, saves) : \E n \in 0..Len(saves) : t \in G[n]
      /\ Whole(b, saves) \in Partly(b, saves)
      /\ ~Stopped(b, saves) => Whole(b, saves) \in G[Len(saves)]
      /\ Stopped(b, saves) =>
            \E n \in DOMAIN saves : Whole(b, saves) \in G[n - 1] /\ Refused(Whole(b, saves), saves[n])
  BY <1>3, <1>5, TrailSteps
<1>7. Len(saves) \in 0..Len(saves) /\ \A n \in DOMAIN saves : n - 1 \in 0..Len(saves)
  BY <1>1
<1>. QED BY <1>2, <1>6, <1>7 DEF Refused

LEMMA MovedMore ==
    ASSUME NEW b, NEW t, NEW V, NEW W, V \subseteq W, Moved(b, t, V)
    PROVE  Moved(b, t, W)
BY DEF Moved

(* After n of the saves of a part that comes first and one that follows it. *)
LEMMA ReachedParts ==
    ASSUME NEW b, NEW W, NEW front \in Seq(W), NEW back \in Seq(W),
           NEW n \in 0..Len(front \o back), NEW t \in Reached(b, front \o back, n)
    PROVE  /\ t \in Grown(b) /\ Moved(b, t, ToSet(front) \cup ToSet(back))
           /\ n <= Len(front) => Moved(b, t, ToSet(front))
           /\ n >= Len(front) => \A i \in DOMAIN front : Made(b, t, front[i])
           /\ n = Len(front \o back) => \A i \in DOMAIN back : Made(b, t, back[i])
<1>. DEFINE saves == front \o back
            l == Len(front)
            m == Len(back)
            V == {saves[i] : i \in 1..n}
<1>1. /\ l \in Nat /\ m \in Nat /\ Len(saves) = l + m /\ DOMAIN front = 1..l /\ DOMAIN back = 1..m
      /\ \A i \in 1..l : saves[i] = front[i]
      /\ \A i \in 1..m : saves[l + i] = back[i]
      /\ \A i \in 1..(l + m) : i > l => saves[i] = back[i - l]
  OBVIOUS
<1>2. t \in Grown(b) /\ Moved(b, t, V) /\ \A i \in 1..n : Made(b, t, saves[i])
  BY DEF Reached
<1>3. n \in 0..(l + m)
  BY <1>1
<1>. HIDE DEF saves, l, m
<1>4. V \subseteq ToSet(front) \cup ToSet(back)
  <2>. SUFFICES ASSUME NEW i \in 1..n PROVE saves[i] \in ToSet(front) \cup ToSet(back)
    OBVIOUS
  <2>1. CASE i <= l
    <3>1. i \in DOMAIN front /\ saves[i] = front[i]
      BY <1>1, <2>1
    <3>. QED BY <3>1 DEF ToSet
  <2>2. CASE i > l
    <3>1. i - l \in DOMAIN back /\ saves[i] = back[i - l]
      BY <1>1, <1>3, <2>2
    <3>. QED BY <3>1 DEF ToSet
  <2>. QED BY <1>1, <1>3, <2>1, <2>2
<1>5. ASSUME n <= l PROVE V \subseteq ToSet(front)
  <2>1. \A i \in 1..n : i \in DOMAIN front /\ saves[i] = front[i]
    BY <1>1, <1>3, <1>5
  <2>. QED BY <2>1 DEF ToSet
<1>6. ASSUME n >= l, NEW i \in DOMAIN front PROVE Made(b, t, front[i])
  <2>1. i \in 1..n /\ saves[i] = front[i]
    BY <1>1, <1>3, <1>6
  <2>. QED BY <1>2, <2>1
<1>7. ASSUME n = l + m, NEW i \in DOMAIN back PROVE Made(b, t, back[i])
  <2>1. l + i \in 1..n /\ saves[l + i] = back[i]
    BY <1>1, <1>7
  <2>. QED BY <1>2, <2>1
<1>. HIDE DEF V
<1>8. Moved(b, t, ToSet(front) \cup ToSet(back)) /\ (n <= l => Moved(b, t, ToSet(front)))
  BY <1>2, <1>4, <1>5, MovedMore
<1>9. Len(front \o back) = l + m /\ l = Len(front)
  BY <1>1 DEF saves, l
<1>. QED BY <1>2, <1>6, <1>7, <1>8, <1>9

(* Saves that come in pairs: the first of a pair is followed by the second. *)
Chained(s, P) ==
    \A i \in DOMAIN s : s[i] \in {p[1] : p \in P} => i + 1 \in DOMAIN s /\ <<s[i], s[i + 1]>> \in P

LEMMA ChainedJoin ==
    ASSUME NEW W, NEW P, NEW r \in Seq(W), NEW s \in Seq(W), Chained(r, P), Chained(s, P)
    PROVE  Chained(r \o s, P)
<1>. DEFINE q == r \o s
            F == {p[1] : p \in P}
            l == Len(r)
            m == Len(s)
<1>1. /\ l \in Nat /\ m \in Nat /\ DOMAIN r = 1..l /\ DOMAIN s = 1..m /\ DOMAIN q = 1..(l + m)
      /\ \A i \in 1..l : q[i] = r[i]
      /\ \A i \in 1..(l + m) : i > l => q[i] = s[i - l]
  OBVIOUS
<1>. HIDE DEF q, l, m
<1>2. ASSUME NEW i \in DOMAIN q, q[i] \in F PROVE i + 1 \in DOMAIN q /\ <<q[i], q[i + 1]>> \in P
  <2>1. CASE i <= l
    <3>1. i \in DOMAIN r /\ r[i] \in F /\ q[i] = r[i]
      BY <1>1, <1>2, <2>1
    <3>2. i + 1 \in DOMAIN r /\ <<r[i], r[i + 1]>> \in P
      BY <3>1 DEF Chained
    <3>3. i + 1 \in DOMAIN q /\ q[i + 1] = r[i + 1]
      BY <1>1, <3>2
    <3>. QED BY <3>1, <3>2, <3>3
  <2>2. CASE i > l
    <3>. DEFINE j == i - l
    <3>1. j \in DOMAIN s /\ s[j] \in F /\ q[i] = s[j]
      BY <1>1, <1>2, <2>2
    <3>2. j + 1 \in DOMAIN s /\ <<s[j], s[j + 1]>> \in P
      <4>. HIDE DEF j
      <4>. QED BY <3>1 DEF Chained
    <3>3. i + 1 \in DOMAIN q /\ i + 1 > l /\ (i + 1) - l = j + 1
      BY <1>1, <2>2, <3>2
    <3>4. q[i + 1] = s[j + 1]
      BY <1>1, <3>3
    <3>. HIDE DEF j
    <3>. QED BY <3>1, <3>2, <3>3, <3>4
  <2>. QED BY <1>1, <2>1, <2>2
<1>. QED BY <1>2 DEF Chained, q

LEMMA FlattenChained ==
    ASSUME NEW W, NEW P, NEW seqs \in Seq(Seq(W)), \A n \in DOMAIN seqs : Chained(seqs[n], P)
    PROVE  FlattenSeq(seqs) \in Seq(W) /\ Chained(FlattenSeq(seqs), P)
<1>. DEFINE V == {s \in Seq(W) : Chained(s, P)}
<1>1. <<>> \in V
  BY DEF Chained
<1>2. \A r, s \in V : r \o s \in V
  <2>. SUFFICES ASSUME NEW r \in V, NEW s \in V PROVE r \o s \in V
    OBVIOUS
  <2>1. r \in Seq(W) /\ s \in Seq(W) /\ Chained(r, P) /\ Chained(s, P)
    OBVIOUS
  <2>2. Chained(r \o s, P)
    BY <2>1, ChainedJoin
  <2>. QED BY <2>1, <2>2
<1>3. seqs \in Seq(V)
  <2>1. \A n \in 1..Len(seqs) : seqs[n] \in V
    OBVIOUS
  <2>2. Len(seqs) \in Nat /\ seqs = [n \in 1..Len(seqs) |-> seqs[n]]
    OBVIOUS
  <2>. HIDE DEF V
  <2>3. seqs \in [1..Len(seqs) -> V]
    BY <2>1, <2>2
  <2>. QED BY <2>2, <2>3
<1>4. V \in SUBSET Seq(W)
  OBVIOUS
<1>5. FlattenSeq(seqs) \in V
  <2>. HIDE DEF V
  <2>. QED BY <1>1, <1>2, <1>3, <1>4, FlattenClosed
<1>. QED BY <1>5

LEMMA ReachedChain ==
    ASSUME NEW b, NEW saves, NEW P, Chained(saves, P), NEW n \in Nat, NEW t \in Reached(b, saves, n),
           n <= Len(saves), NEW W, saves \in Seq(W), NEW i \in 1..n, saves[i] \in {p[1] : p \in P}
    PROVE  /\ i + 1 \in DOMAIN saves /\ <<saves[i], saves[i + 1]>> \in P
           /\ i = n \/ Made(b, t, saves[i + 1])
<1>1. i \in DOMAIN saves /\ i \in Nat
  OBVIOUS
<1>2. i + 1 \in DOMAIN saves /\ <<saves[i], saves[i + 1]>> \in P
  BY <1>1 DEF Chained
<1>3. i # n => i + 1 \in 1..n
  OBVIOUS
<1>. QED BY <1>2, <1>3 DEF Reached

-----------------------------------------------------------------------------
(***************************************************************************)
(* Seats.                                                                  *)
(***************************************************************************)
LEMMA AtMost ==
    ASSUME NEW S, NEW D, IsFiniteSet(D), NEW f, \A k \in S : f[k] \in D, \A j, k \in S : f[j] = f[k] => j = k
    PROVE  IsFiniteSet(S) /\ Cardinality(S) \in Nat /\ Cardinality(D) \in Nat /\ Cardinality(S) <= Cardinality(D)
<1>. DEFINE g == [k \in S |-> f[k]]
<1>1. g \in Injection(S, D)
  BY DEF Injection, IsInjective
<1>. HIDE DEF g
<1>. QED BY <1>1, FS_Injection, FS_CardinalityType

LEMMA ToSetSize ==
    ASSUME NEW S, NEW s \in Seq(S)
    PROVE  IsFiniteSet(ToSet(s)) /\ Cardinality(ToSet(s)) \in Nat /\ Cardinality(ToSet(s)) <= Len(s) /\ ToSet(s) \subseteq S
<1>1. Len(s) \in Nat /\ DOMAIN s = 1..Len(s) /\ s \in [1..Len(s) -> S]
  OBVIOUS
<1>2. IsFiniteSet(1..Len(s)) /\ Cardinality(1..Len(s)) = Len(s)
  BY <1>1, FS_Interval
<1>3. s \in Surjection(1..Len(s), ToSet(s))
  BY <1>1 DEF Surjection, ToSet
<1>4. IsFiniteSet(ToSet(s)) /\ Cardinality(ToSet(s)) <= Len(s)
  BY <1>2, <1>3, FS_Surjection
<1>. QED BY <1>1, <1>4, FS_CardinalityType DEF ToSet

(* The rows that are seated, confirmed or not. *)
SeatsIn(r) == {k \in DOMAIN r : r[k].status \in SeatStatuses}

LEMMA TakenIs ==
    ASSUME NEW S, NEW r \in Seq(S)
    PROVE  IsFiniteSet(SeatsIn(r)) /\ Taken(r) = Cardinality(SeatsIn(r)) /\ Taken(r) \in Nat
<1>. DEFINE A == At(r, "confirmed")
            B == At(r, "selected")
<1>1. IsFiniteSet(A) /\ IsFiniteSet(B) /\ Cardinality(A) \in Nat /\ Cardinality(B) \in Nat
  BY AtMeans
<1>2. SeatsIn(r) = A \cup B /\ A \cap B = {}
  BY DEF SeatsIn, SeatStatuses, At
<1>3. Taken(r) = Cardinality(A) + Cardinality(B)
  BY DEF Taken, Count
<1>. HIDE DEF A, B
<1>4. IsFiniteSet(A \cup B) /\ Cardinality(A \cup B) = Cardinality(A) + Cardinality(B)
  <2>1. Cardinality(A \cap B) = 0
    BY <1>2, FS_EmptySet
  <2>2. IsFiniteSet(A \cup B) /\ Cardinality(A \cup B) = Cardinality(A) + Cardinality(B) - Cardinality(A \cap B)
    BY <1>1, FS_Union
  <2>. QED BY <1>1, <2>1, <2>2
<1>. QED BY <1>1, <1>2, <1>3, <1>4

(* Seats are new by no more than D, if each new one is of another of D. *)
LEMMA TakenGrows ==
    ASSUME NEW S, NEW p \in Seq(S), NEW r \in Seq(S), NEW D, IsFiniteSet(D), NEW f,
           \A k \in SeatsIn(r) : k \in SeatsIn(p) \/ f[k] \in D,
           \A j, k \in SeatsIn(r) : j \notin SeatsIn(p) /\ k \notin SeatsIn(p) /\ f[j] = f[k] => j = k
    PROVE  Taken(r) <= Taken(p) + Cardinality(D) /\ Cardinality(D) \in Nat /\ Taken(r) \in Nat /\ Taken(p) \in Nat
<1>. DEFINE N == SeatsIn(r) \ SeatsIn(p)
            P == SeatsIn(p)
            R == SeatsIn(r)
<1>1. IsFiniteSet(P) /\ IsFiniteSet(R) /\ Taken(p) = Cardinality(P) /\ Taken(r) = Cardinality(R)
      /\ Cardinality(P) \in Nat /\ Cardinality(R) \in Nat
  BY TakenIs
<1>2. \A k \in N : f[k] \in D
  OBVIOUS
<1>3. \A j, k \in N : f[j] = f[k] => j = k
  OBVIOUS
<1>4. R \subseteq P \cup N
  OBVIOUS
<1>. HIDE DEF N, P, R
<1>5. IsFiniteSet(N) /\ Cardinality(N) \in Nat /\ Cardinality(D) \in Nat /\ Cardinality(N) <= Cardinality(D)
  BY <1>2, <1>3, AtMost
<1>6. /\ IsFiniteSet(P \cup N) /\ Cardinality(P \cup N) = Cardinality(P) + Cardinality(N) - Cardinality(P \cap N)
      /\ Cardinality(P \cap N) \in Nat
  BY <1>1, <1>5, FS_Union, FS_Intersection, FS_CardinalityType
<1>7. Cardinality(R) <= Cardinality(P \cup N)
  BY <1>4, <1>6, FS_Subset
<1>. QED BY <1>1, <1>5, <1>6, <1>7

(* An event that no save is about. *)
SameRows(p, r) == DOMAIN r = DOMAIN p /\ \A k \in DOMAIN p : r[k].who = p[k].who /\ r[k].status = p[k].status

LEMMA MovedElsewhere ==
    ASSUME InSchedule, NEW b, Sound(b), NEW t \in Grown(b), NEW W, Moved(b, t, W), NEW d \in Events,
           \A w \in W : w.save \in {"row", "seat"} => w.event # d
    PROVE  SameRows(b.rows[d], t.rows[d])
<1>1. DOMAIN b.rows[d] \subseteq DOMAIN t.rows[d] /\ Kept(t.rows[d], b.rows[d])
  BY GrownLengths
<1>2. \A k \in DOMAIN t.rows[d] :
          IF k \in DOMAIN b.rows[d]
          THEN t.rows[d][k].status = b.rows[d][k].status \/ Becomes(d, k, t.rows[d][k].status) \in W
          ELSE t.rows[d][k].status = "selected" /\ Seats(d, t.rows[d][k].who) \in W
  BY DEF Moved
<1>3. \A k, status : Becomes(d, k, status) \notin W
  BY DEF Becomes
<1>4. \A c : Seats(d, c) \notin W
  BY DEF Seats
<1>5. \A k \in DOMAIN t.rows[d] : k \in DOMAIN b.rows[d] /\ t.rows[d][k].status = b.rows[d][k].status
  BY <1>2, <1>3, <1>4
<1>. QED BY <1>1, <1>5 DEF SameRows, Kept

LEMMA SameRowsMean ==
    ASSUME NEW e, NEW p \in Seq(Rows), NEW r \in Seq(Rows), RowsSound(e, p), RowsSound(e, r), SameRows(p, r)
    PROVE  Taken(r) = Taken(p) /\ \A c, statuses : Is(r, c, statuses) <=> Is(p, c, statuses)
<1>1. DOMAIN r = DOMAIN p /\ \A k \in DOMAIN p : r[k].who = p[k].who /\ r[k].status = p[k].status
  BY DEF SameRows
<1>2. SeatsIn(r) = SeatsIn(p)
  BY <1>1 DEF SeatsIn
<1>3. Taken(r) = Taken(p)
  BY <1>2, TakenIs
<1>4. /\ \A k, l \in DOMAIN p : k < l => p[k].who # p[l].who
      /\ \A k, l \in DOMAIN r : k < l => r[k].who # r[l].who
  BY DEF RowsSound
<1>5. ASSUME NEW c, NEW statuses PROVE Is(r, c, statuses) <=> Is(p, c, statuses)
  <2>1. Is(r, c, statuses) <=> \E k \in DOMAIN r : r[k].who = c /\ r[k].status \in statuses
    BY <1>4, IsMeans
  <2>2. Is(p, c, statuses) <=> \E k \in DOMAIN p : p[k].who = c /\ p[k].status \in statuses
    BY <1>4, IsMeans
  <2>. QED BY <1>1, <2>1, <2>2
<1>. QED BY <1>3, <1>5

-----------------------------------------------------------------------------
(***************************************************************************)
(* A lottery's saves.                                                      *)
(***************************************************************************)
LotterySeats(e, S) == {Becomes(e, k, "selected") : k \in S}
TokenFor(e, b, k) == Redeems(TokenOf(b.tokens, b.rows[e][k].who, None), e)
LotteryTokens(e, b) == {TokenFor(e, b, k) : k \in ToSet(Holding(e, b))}
LotteryPairs(e, b) == {<<TokenFor(e, b, k), Becomes(e, k, "selected")>> : k \in ToSet(Holding(e, b))}
LotteryKinds(e, b, S) == LotteryTokens(e, b) \cup LotterySeats(e, S) \cup {Draws(e)}

(* That a lottery's saves are those that seat S, by a token or by lot. *)
Lots(e, b, saves, S) ==
    /\ saves \in Seq(LotteryKinds(e, b, S)) /\ saves # <<>> /\ Last(saves) = Draws(e)
    /\ Chained(saves, LotteryPairs(e, b))
    /\ ToSet(Holding(e, b)) \subseteq S /\ S \subseteq At(b.rows[e], "entered")
    /\ IsFiniteSet(S) /\ Cardinality(S) <= Cap[e]

LEMMA NoPairIn ==
    ASSUME NEW e, NEW b, NEW W, NEW s \in Seq(W), \A w \in W : w.save # "token"
    PROVE  Chained(s, LotteryPairs(e, b))
<1>1. \A p \in LotteryPairs(e, b) : p[1].save = "token"
  BY DEF LotteryPairs, TokenFor, Redeems
<1>2. \A i \in DOMAIN s : s[i] \in W
  OBVIOUS
<1>. QED BY <1>1, <1>2 DEF Chained

LEMMA LotteryIs ==
    ASSUME InSchedule, NEW b, Sound(b), NEW e \in Events, NEW saves \in Lotteries(e, b)
    PROVE  \E S : Lots(e, b, saves, S)
<1>. DEFINE held == Holding(e, b)
            pieces == [n \in DOMAIN held |-> SeatedByToken(e, b, held[n])]
            P == LotteryPairs(e, b)
<1>1. b.rows[e] \in Seq(Rows) /\ Cap[e] \in Nat
  BY CapIsPositive DEF Sound, Databases
<1>2. /\ held \in Seq(Holders(e, b)) /\ Holders(e, b) \subseteq At(b.rows[e], "entered")
  BY <1>1, HoldingMeans DEF Holders
<1>3. PICK others \in UNION {SetToSeqs(W) : W \in Sampled(e, b)} :
         saves = FlattenSeq(pieces) \o Selected(e, others) \o <<Draws(e)>>
  BY Zenon DEF Lotteries
<1>4. PICK W \in Sampled(e, b) : others \in SetToSeqs(W)
  BY <1>3
<1>5. /\ others \in Seq(At(b.rows[e], "entered")) /\ Len(others) + Len(held) <= Cap[e]
  BY <1>1, <1>4, SampledMeans
<1>. DEFINE S == ToSet(held) \cup ToSet(others)
            K == LotteryKinds(e, b, S)
<1>6. IsFiniteSet(S) /\ Cardinality(S) <= Cap[e] /\ S \subseteq At(b.rows[e], "entered")
  <2>1. /\ IsFiniteSet(ToSet(held)) /\ Cardinality(ToSet(held)) \in Nat /\ Cardinality(ToSet(held)) <= Len(held)
        /\ ToSet(held) \subseteq Holders(e, b)
    BY <1>2, ToSetSize
  <2>2. /\ IsFiniteSet(ToSet(others)) /\ Cardinality(ToSet(others)) \in Nat /\ Cardinality(ToSet(others)) <= Len(others)
        /\ ToSet(others) \subseteq At(b.rows[e], "entered")
    BY <1>5, ToSetSize
  <2>3. /\ IsFiniteSet(S) /\ Cardinality(S) = Cardinality(ToSet(held)) + Cardinality(ToSet(others))
                                              - Cardinality(ToSet(held) \cap ToSet(others))
        /\ Cardinality(ToSet(held) \cap ToSet(others)) \in Nat
    BY <2>1, <2>2, FS_Union, FS_Intersection, FS_CardinalityType
  <2>4. Len(held) \in Nat /\ Len(others) \in Nat
    BY <1>2, <1>5
  <2>. QED BY <1>1, <1>2, <1>5, <2>1, <2>2, <2>3, <2>4
<1>7. pieces \in Seq(Seq(K)) /\ \A n \in DOMAIN pieces : Chained(pieces[n], P)
  <2>1. ASSUME NEW n \in DOMAIN held
        PROVE  SeatedByToken(e, b, held[n]) \in Seq(K) /\ Chained(SeatedByToken(e, b, held[n]), P)
    <3>. DEFINE k == held[n]
    <3>1. k \in ToSet(held)
      BY DEF ToSet
    <3>. HIDE DEF k, held
    <3>2. SeatedByToken(e, b, k) = <<TokenFor(e, b, k), Becomes(e, k, "selected")>>
      BY DEF SeatedByToken, TokenFor
    <3>3. TokenFor(e, b, k) \in K /\ Becomes(e, k, "selected") \in K
      BY <3>1 DEF LotteryKinds, LotteryTokens, LotterySeats, held
    <3>4. <<TokenFor(e, b, k), Becomes(e, k, "selected")>> \in P
      BY <3>1 DEF LotteryPairs, held
    <3>5. \A p \in P : p[1].save = "token"
      BY DEF LotteryPairs, TokenFor, Redeems
    <3>6. Becomes(e, k, "selected").save # "token"
      BY DEF Becomes
    <3>. DEFINE v == TokenFor(e, b, k)
                w == Becomes(e, k, "selected")
    <3>. HIDE DEF v, w, K, P
    <3>7. <<v, w>> \in Seq(K)
      BY <3>3 DEF v, w
    <3>8. Chained(<<v, w>>, P)
      <4>1. w \notin {p[1] : p \in P}
        BY <3>5, <3>6 DEF w
      <4>2. \A i \in DOMAIN <<v, w>> : (i = 1 /\ <<v, w>>[i] = v /\ <<v, w>>[i + 1] = w) \/ (i = 2 /\ <<v, w>>[i] = w)
        OBVIOUS
      <4>3. 2 \in DOMAIN <<v, w>> /\ <<v, w>> \in P
        BY <3>4 DEF v, w
      <4>. QED BY <4>1, <4>2, <4>3 DEF Chained
    <3>. QED BY <3>2, <3>7, <3>8 DEF v, w, k
  <2>. HIDE DEF K, P, held
  <2>2. Len(held) \in Nat /\ DOMAIN held = 1..Len(held)
    BY <1>2
  <2>3. pieces \in [1..Len(held) -> Seq(K)]
    BY <2>1, <2>2
  <2>4. DOMAIN pieces = DOMAIN held /\ \A n \in DOMAIN held : pieces[n] = SeatedByToken(e, b, held[n])
    OBVIOUS
  <2>. HIDE DEF pieces
  <2>. QED BY <2>1, <2>2, <2>3, <2>4
<1>8. FlattenSeq(pieces) \in Seq(K) /\ Chained(FlattenSeq(pieces), P)
  <2>. HIDE DEF pieces, K, P
  <2>. QED BY <1>7, FlattenChained
<1>9. Selected(e, others) \in Seq(K) /\ Chained(Selected(e, others), P)
  <2>1. Selected(e, others) \in Seq(LotterySeats(e, S))
    <3>1. \A n \in 1..Len(others) : Becomes(e, others[n], "selected") \in LotterySeats(e, S)
      <4>1. \A n \in 1..Len(others) : others[n] \in S
        BY <1>5 DEF ToSet
      <4>. HIDE DEF S
      <4>. QED BY <4>1 DEF LotterySeats
    <3>2. Selected(e, others) = [n \in 1..Len(others) |-> Becomes(e, others[n], "selected")] /\ Len(others) \in Nat
      BY <1>5 DEF Selected
    <3>. HIDE DEF S
    <3>. QED BY <3>1, <3>2
  <2>2. \A w \in LotterySeats(e, S) : w.save # "token"
    BY DEF LotterySeats, Becomes
  <2>3. Chained(Selected(e, others), P)
    BY <2>1, <2>2, NoPairIn
  <2>4. LotterySeats(e, S) \subseteq K
    BY DEF LotteryKinds
  <2>. HIDE DEF K, P, S
  <2>. QED BY <2>1, <2>3, <2>4
<1>10. <<Draws(e)>> \in Seq(K) /\ Chained(<<Draws(e)>>, P)
  <2>1. Draws(e) \in K /\ <<Draws(e)>> \in Seq({Draws(e)}) /\ \A w \in {Draws(e)} : w.save # "token"
    BY DEF LotteryKinds, Draws
  <2>2. Chained(<<Draws(e)>>, P)
    <3>. DEFINE z == <<Draws(e)>>
                Z == {Draws(e)}
    <3>1. z \in Seq(Z) /\ \A w \in Z : w.save # "token"
      BY <2>1
    <3>. HIDE DEF z, Z
    <3>2. Chained(z, LotteryPairs(e, b))
      BY <3>1, NoPairIn
    <3>. QED BY <3>2 DEF z
  <2>. HIDE DEF K, P
  <2>. QED BY <2>1, <2>2
<1>. DEFINE x == FlattenSeq(pieces)
            y == Selected(e, others)
            z == <<Draws(e)>>
<1>11. saves \in Seq(K) /\ Chained(saves, P) /\ saves # <<>> /\ Last(saves) = Draws(e)
  <2>. HIDE DEF K, P, x, y
  <2>1. saves = (x \o y) \o z
    BY <1>3 DEF x, y
  <2>2. x \in Seq(K) /\ y \in Seq(K) /\ z \in Seq(K) /\ Chained(x, P) /\ Chained(y, P) /\ Chained(z, P)
    BY <1>8, <1>9, <1>10 DEF x, y
  <2>3. x \o y \in Seq(K) /\ Chained(x \o y, P)
    BY <2>2, ChainedJoin
  <2>4. Chained((x \o y) \o z, P)
    BY <2>2, <2>3, ChainedJoin
  <2>. DEFINE q == x \o y
  <2>. HIDE DEF q
  <2>5. q \in Seq(K) /\ saves = q \o z
    BY <2>1, <2>3 DEF q
  <2>6. saves \in Seq(K) /\ Len(saves) = Len(q) + 1 /\ saves[Len(q) + 1] = Draws(e)
    BY <2>2, <2>5
  <2>7. Len(q) \in Nat
    BY <2>5
  <2>. QED BY <2>1, <2>4, <2>6, <2>7 DEF Last
<1>. QED BY <1>6, <1>11 DEF Lots

LEMMA LotsAreSaves ==
    ASSUME InSchedule, NEW b, Sound(b), NEW e \in Events, e \in Staff, NEW saves, NEW S, Lots(e, b, saves, S)
    PROVE  LotteryKinds(e, b, S) \subseteq SavesOf(b) /\ saves \in Seq(SavesOf(b)) /\ Orderly(saves) /\ ~Stopped(b, saves)
<1>. DEFINE K == LotteryKinds(e, b, S)
<1>1. b.rows[e] \in Seq(Rows) /\ Cap[e] \in Nat
  BY CapIsPositive DEF Sound, Databases
<1>2. LotterySeats(e, S) \subseteq RowSaves(b)
  <2>1. At(b.rows[e], "entered") \subseteq Nat /\ At(b.rows[e], "entered") \subseteq DOMAIN b.rows[e]
    BY <1>1, AtMeans
  <2>2. \A k \in S : k \in Nat /\ k \in DOMAIN b.rows[e] /\ b.rows[e][k].status = "entered"
    BY <2>1 DEF Lots, At
  <2>. QED BY <2>2 DEF LotterySeats, Becomes, RowSaves
<1>3. LotteryTokens(e, b) \subseteq TokenSaves(b)
  <2>. SUFFICES ASSUME NEW k \in ToSet(Holding(e, b)) PROVE TokenFor(e, b, k) \in TokenSaves(b)
    BY DEF LotteryTokens
  <2>1. TokenOf(b.tokens, b.rows[e][k].who, None) # 0
    <3>1. Holding(e, b) \in Seq(Holders(e, b))
      BY <1>1, HoldingMeans
    <3>2. ToSet(Holding(e, b)) \subseteq Holders(e, b)
      BY <3>1, ToSetSize
    <3>. QED BY <3>2 DEF Holders
  <2>. QED BY <2>1, TokenSaved DEF TokenFor, Jobs
<1>4. Draws(e) \in DrawnSaves
  BY DEF Draws, DrawnSaves
<1>5. K \subseteq SavesOf(b)
  BY <1>2, <1>3, <1>4 DEF LotteryKinds, SavesOf
<1>6. saves \in Seq(K)
  BY DEF Lots
<1>7. \A w \in K : /\ w.save \in {"row", "token", "drawn"}
                   /\ w.save = "row" => w.to = "selected"
                   /\ w.save = "token" => w.use = e
  BY DEF LotteryKinds, LotterySeats, LotteryTokens, TokenFor, Becomes, Redeems, Draws
<1>. HIDE DEF K
<1>8. (\A v, w \in K : ~Clash(v, w)) /\ \A w \in K : w.save # "seat"
  BY <1>7 DEF Clash
<1>9. \A i \in DOMAIN saves : saves[i] \in K
  BY <1>6
<1>10. saves \in Seq(SavesOf(b)) /\ Orderly(saves)
  BY <1>5, <1>6, <1>8, <1>9 DEF Orderly
<1>11. ~Stopped(b, saves)
  <2>1. Stopped(b, saves) =>
          \E n \in DOMAIN saves : Whole(b, saves) \in Reached(b, saves, n - 1) /\ saves[n].save = "seat"
    BY <1>10, TrailReaches
  <2>. QED BY <1>8, <1>9, <2>1
<1>. QED BY <1>5, <1>10, <1>11 DEF K

(* What a lottery, whole or in part, has done to b. *)
Drew(e, b, t) ==
    /\ t \in Grown(b) /\ \A d \in Events : d # e => SameRows(b.rows[d], t.rows[d])
    /\ Taken(t.rows[e]) <= Taken(b.rows[e]) + Cap[e]
    /\ \A x \in Clusters : \A k \in DOMAIN b.tickets[x] : t.tickets[x][k].status = b.tickets[x][k].status
    /\ t.drawn \subseteq b.drawn \cup {e}

LEMMA LotteryDrew ==
    ASSUME InSchedule, NEW b, Sound(b), NEW e \in Events, e \in Staff, NEW saves, NEW S, Lots(e, b, saves, S),
           NEW n \in 0..Len(saves), NEW t \in Reached(b, saves, n)
    PROVE  Drew(e, b, t) /\ (n = Len(saves) => e \in t.drawn)
<1>. DEFINE K == LotteryKinds(e, b, S)
            V == {saves[i] : i \in 1..n}
            p == b.rows[e]
            r == t.rows[e]
<1>1. saves \in Seq(K) /\ IsFiniteSet(S) /\ Cardinality(S) <= Cap[e] /\ saves # <<>> /\ Last(saves) = Draws(e)
  BY DEF Lots
<1>2. t \in Grown(b) /\ Moved(b, t, V) /\ \A i \in 1..n : Made(b, t, saves[i])
  BY DEF Reached
<1>3. V \subseteq K
  <2>. HIDE DEF K
  <2>. QED BY <1>1
<1>4. Moved(b, t, K)
  <2>. HIDE DEF V, K
  <2>. QED BY <1>2, <1>3, MovedMore
<1>5. \A w \in K : w.save \in {"row", "token", "drawn"} /\ (w.save = "row" => w.event = e /\ w.at \in S)
                   /\ (w.save = "drawn" => w.event = e)
  BY DEF LotteryKinds, LotterySeats, LotteryTokens, TokenFor, Becomes, Redeems, Draws
<1>. HIDE DEF K, V
<1>6. ASSUME NEW d \in Events, d # e PROVE SameRows(b.rows[d], t.rows[d])
  <2>1. \A w \in K : w.save \in {"row", "seat"} => w.event # d
    BY <1>5, <1>6
  <2>. QED BY <1>2, <1>4, <2>1, MovedElsewhere
<1>7. p \in Seq(Rows) /\ r \in Seq(Rows) /\ DOMAIN p \subseteq DOMAIN r
  BY <1>2, GrownLengths
<1>8. Taken(r) <= Taken(p) + Cap[e]
  <2>. DEFINE f == [k \in Nat |-> k]
  <2>1. \A k \in DOMAIN r :
          IF k \in DOMAIN p
          THEN r[k].status = p[k].status \/ Becomes(e, k, r[k].status) \in K
          ELSE r[k].status = "selected" /\ Seats(e, r[k].who) \in K
    BY <1>4 DEF Moved
  <2>2. \A c : Seats(e, c) \notin K
    BY <1>5 DEF Seats
  <2>3. \A k, status : Becomes(e, k, status) \in K => k \in S
    BY <1>5 DEF Becomes
  <2>. HIDE DEF p, r
  <2>4. \A k \in SeatsIn(r) : k \in SeatsIn(p) \/ k \in S
    BY <2>1, <2>2, <2>3 DEF SeatsIn
  <2>5. SeatsIn(r) \subseteq Nat
    BY <1>7 DEF SeatsIn
  <2>6. \A k \in SeatsIn(r) : k \in SeatsIn(p) \/ f[k] \in S
    BY <2>4, <2>5
  <2>7. \A j, k \in SeatsIn(r) : j \notin SeatsIn(p) /\ k \notin SeatsIn(p) /\ f[j] = f[k] => j = k
    BY <2>5
  <2>. HIDE DEF f
  <2>8. /\ Taken(r) <= Taken(p) + Cardinality(S) /\ Cardinality(S) \in Nat /\ Taken(r) \in Nat /\ Taken(p) \in Nat
    BY <1>1, <1>7, <2>6, <2>7, TakenGrows
  <2>. QED BY <1>1, <2>8, CapIsPositive
<1>9. \A x \in Clusters : \A k \in DOMAIN b.tickets[x] : t.tickets[x][k].status = b.tickets[x][k].status
  <2>1. \A x, k, status : Marks(x, k, status) \notin K
    BY <1>5 DEF Marks
  <2>. QED BY <1>4, <2>1 DEF Moved
<1>10. t.drawn \subseteq b.drawn \cup {e}
  <2>1. \A d : Draws(d) \in K => d = e
    BY <1>5 DEF Draws
  <2>. QED BY <1>4, <2>1 DEF Moved
<1>11. ASSUME n = Len(saves) PROVE e \in t.drawn
  <2>1. n \in 1..n /\ saves[n] = Draws(e)
    BY <1>1, <1>11 DEF Last
  <2>2. Made(b, t, Draws(e))
    BY <1>2, <2>1
  <2>. QED BY <2>2 DEF Made, Draws
<1>. QED BY <1>2, <1>6, <1>8, <1>9, <1>10, <1>11 DEF Drew

-----------------------------------------------------------------------------
(***************************************************************************)
(* An expiry's saves: it releases, and then fills as many seats again.     *)
(***************************************************************************)
Releases(e, b) == {Becomes(e, k, "released") : k \in Expirable(e, b)}
QueueOf(e, b) == b.tickets[ClusterOf(e)]
Pool(e, b) == IF Clustered(e) THEN At(QueueOf(e, b), "unseated") ELSE At(b.rows[e], "entered")
BackSeats(e, b, S) == {Seats(e, QueueOf(e, b)[k].who) : k \in S}
BackMarks(e, S) == {Marks(ClusterOf(e), k, "seated") : k \in S}
BackPairs(e, b) == {<<Seats(e, QueueOf(e, b)[k].who), Marks(ClusterOf(e), k, "seated")>> : k \in At(QueueOf(e, b), "unseated")}
BackKinds(e, b, S) ==
    IF Clustered(e) THEN BackSeats(e, b, S) \cup BackMarks(e, S)
    ELSE IF e \in Staff THEN LotterySeats(e, S) ELSE {}

(* That front releases who expires, and back seats S of the pool. *)
Expires(e, b, front, back, S) ==
    /\ Expiry(e, b) = front \o back
    /\ front \in Seq(Releases(e, b)) /\ \A k \in Expirable(e, b) : \E i \in DOMAIN front : front[i] = Becomes(e, k, "released")
    /\ back \in Seq(BackKinds(e, b, S)) /\ Chained(front \o back, BackPairs(e, b))
    /\ S \subseteq Pool(e, b) /\ IsFiniteSet(S) /\ Cardinality(S) <= Cardinality(Expirable(e, b))

LEMMA NoBackPairIn ==
    ASSUME NEW e, NEW b, NEW W, NEW s \in Seq(W), \A w \in W : w.save # "seat"
    PROVE  Chained(s, BackPairs(e, b))
<1>1. \A p \in BackPairs(e, b) : p[1].save = "seat"
  BY DEF BackPairs, Seats
<1>2. \A i \in DOMAIN s : s[i] \in W
  OBVIOUS
<1>. QED BY <1>1, <1>2 DEF Chained

LEMMA BackfillOf ==
    ASSUME InSchedule, NEW b, Sound(b), NEW e \in Events
    PROVE  \E S : /\ S \subseteq Pool(e, b) /\ IsFiniteSet(S) /\ Cardinality(S) <= Cardinality(Expirable(e, b))
                  /\ Backfill(e, b) \in Seq(BackKinds(e, b, S)) /\ Chained(Backfill(e, b), BackPairs(e, b))
<1>. DEFINE n0 == Cardinality(Expirable(e, b))
            P == BackPairs(e, b)
<1>1. b.rows[e] \in Seq(Rows)
  BY DEF Sound, Databases
<1>2. n0 \in Nat
  BY <1>1, ExpirableMeans
<1>3. CASE Clustered(e)
  <2>. DEFINE q == QueueOf(e, b)
              next == Waiting(q, "unseated", n0)
              S == ToSet(next)
              K == BackKinds(e, b, S)
              pieces == [n \in DOMAIN next |-> Backfilled(e, b, next[n])]
  <2>1. q \in Seq(Applications(ClusterOf(e)))
    BY <1>3, ClusterOfMeans DEF Sound, TicketsSound, QueueOf
  <2>2. next \in Seq(At(q, "unseated")) /\ Len(next) <= n0
    <3>. HIDE DEF q, n0
    <3>. QED BY <1>2, <2>1, WaitingMeans
  <2>3. IsFiniteSet(S) /\ Cardinality(S) \in Nat /\ Cardinality(S) <= Len(next) /\ S \subseteq At(q, "unseated")
    <3>. HIDE DEF q, n0
    <3>. QED BY <2>2, ToSetSize
  <2>4. Backfill(e, b) = FlattenSeq(pieces)
    BY <1>3, BackfillIs, Zenon DEF QueueOf
  <2>5. ASSUME NEW n \in DOMAIN next
        PROVE  Backfilled(e, b, next[n]) \in Seq(K) /\ Chained(Backfilled(e, b, next[n]), P)
    <3>. DEFINE k == next[n]
                v == Seats(e, q[k].who)
                w == Marks(ClusterOf(e), k, "seated")
    <3>1. k \in S /\ k \in At(q, "unseated")
      BY <2>3 DEF ToSet
    <3>. HIDE DEF k, S
    <3>2. Backfilled(e, b, k) = <<v, w>>
      BY DEF Backfilled, QueueOf
    <3>3. v \in K /\ w \in K /\ <<v, w>> \in P
      BY <1>3, <3>1 DEF BackKinds, BackSeats, BackMarks, BackPairs
    <3>4. \A p \in P : p[1].save = "seat"
      BY DEF BackPairs, Seats
    <3>5. w.save # "seat"
      BY DEF Marks
    <3>. HIDE DEF v, w, K, P
    <3>6. <<v, w>> \in Seq(K)
      BY <3>3
    <3>7. Chained(<<v, w>>, P)
      <4>1. w \notin {p[1] : p \in P}
        BY <3>4, <3>5
      <4>2. \A i \in DOMAIN <<v, w>> : (i = 1 /\ <<v, w>>[i] = v /\ <<v, w>>[i + 1] = w) \/ (i = 2 /\ <<v, w>>[i] = w)
        OBVIOUS
      <4>3. 2 \in DOMAIN <<v, w>>
        OBVIOUS
      <4>. QED BY <3>3, <4>1, <4>2, <4>3 DEF Chained
    <3>. QED BY <3>2, <3>6, <3>7 DEF k
  <2>6. pieces \in Seq(Seq(K)) /\ \A n \in DOMAIN pieces : Chained(pieces[n], P)
    <3>. HIDE DEF K, P, next
    <3>1. Len(next) \in Nat /\ DOMAIN next = 1..Len(next)
      BY <2>2
    <3>2. pieces \in [1..Len(next) -> Seq(K)]
      BY <2>5, <3>1
    <3>3. DOMAIN pieces = DOMAIN next /\ \A n \in DOMAIN next : pieces[n] = Backfilled(e, b, next[n])
      OBVIOUS
    <3>. HIDE DEF pieces
    <3>. QED BY <2>5, <3>1, <3>2, <3>3
  <2>7. Backfill(e, b) \in Seq(K) /\ Chained(Backfill(e, b), P)
    <3>. HIDE DEF K, P, pieces
    <3>. QED BY <2>4, <2>6, FlattenChained
  <2>8. Cardinality(S) <= n0 /\ S \subseteq Pool(e, b)
    <3>1. Len(next) \in Nat
      <4>. HIDE DEF next
      <4>. QED BY <2>2
    <3>2. S \subseteq Pool(e, b)
      BY <1>3, <2>3 DEF Pool
    <3>. HIDE DEF S, next, n0
    <3>. QED BY <1>2, <2>2, <2>3, <3>1, <3>2
  <2>. QED BY <2>3, <2>7, <2>8
<1>4. CASE ~Clustered(e) /\ e \in Staff
  <2>. DEFINE next == Waiting(b.rows[e], "entered", n0)
              S == ToSet(next)
  <2>1. next \in Seq(At(b.rows[e], "entered")) /\ Len(next) <= n0
    BY <1>1, <1>2, WaitingMeans
  <2>2. IsFiniteSet(S) /\ Cardinality(S) \in Nat /\ Cardinality(S) <= Len(next) /\ S \subseteq At(b.rows[e], "entered")
    BY <2>1, ToSetSize
  <2>3. Backfill(e, b) = Selected(e, next)
    BY <1>4, BackfillIs, Zenon
  <2>. HIDE DEF next, n0
  <2>4. Selected(e, next) \in Seq(LotterySeats(e, S))
    <3>1. \A n \in 1..Len(next) : Becomes(e, next[n], "selected") \in LotterySeats(e, S)
      <4>1. \A n \in 1..Len(next) : next[n] \in S
        BY <2>1 DEF ToSet
      <4>. HIDE DEF S
      <4>. QED BY <4>1 DEF LotterySeats
    <3>2. Selected(e, next) = [n \in 1..Len(next) |-> Becomes(e, next[n], "selected")] /\ Len(next) \in Nat
      BY <2>1 DEF Selected
    <3>. HIDE DEF S
    <3>. QED BY <3>1, <3>2
  <2>. HIDE DEF S
  <2>5. \A w \in LotterySeats(e, S) : w.save # "seat"
    BY DEF LotterySeats, Becomes
  <2>6. Chained(Selected(e, next), P)
    BY <2>4, <2>5, NoBackPairIn
  <2>7. BackKinds(e, b, S) = LotterySeats(e, S) /\ S \subseteq Pool(e, b)
    BY <1>4, <2>2 DEF BackKinds, Pool
  <2>8. Cardinality(S) <= n0
    BY <1>2, <2>1, <2>2
  <2>. QED BY <2>2, <2>3, <2>4, <2>6, <2>7, <2>8 DEF n0
<1>5. CASE ~Clustered(e) /\ e \notin Staff
  <2>1. Backfill(e, b) = <<>>
    BY <1>5, BackfillIs, Zenon
  <2>2. Cardinality({}) = 0 /\ IsFiniteSet({})
    BY FS_EmptySet
  <2>3. <<>> \in Seq(BackKinds(e, b, {})) /\ Chained(<<>>, P)
    BY DEF Chained
  <2>4. {} \subseteq Pool(e, b) /\ Cardinality({}) <= n0
    BY <1>2, <2>2
  <2>. QED BY <2>1, <2>2, <2>3, <2>4
<1>. QED BY <1>3, <1>4, <1>5

LEMMA ExpiryIs ==
    ASSUME InSchedule, NEW b, Sound(b), NEW e \in Events
    PROVE  \E front, back, S : Expires(e, b, front, back, S)
<1>. DEFINE I == Expirable(e, b)
            gone == InOrder(I)
            front == [n \in DOMAIN gone |-> Becomes(e, gone[n], "released")]
            back == Backfill(e, b)
            P == BackPairs(e, b)
            R == Releases(e, b)
<1>1. b.rows[e] \in Seq(Rows)
  BY DEF Sound, Databases
<1>2. I \in SUBSET (Nat \ {0}) /\ IsFiniteSet(I)
  BY <1>1, ExpirableMeans
<1>3. Expiry(e, b) = front \o back
  BY Zenon DEF Expiry
<1>. HIDE DEF I
<1>4. gone \in Seq(I) /\ DOMAIN gone = 1..Len(gone) /\ Len(gone) \in Nat /\ \A k \in I : \E n \in DOMAIN gone : gone[n] = k
  BY <1>2, InOrderMeans
<1>. HIDE DEF gone
<1>5. front \in Seq(R) /\ \A k \in I : \E i \in DOMAIN front : front[i] = Becomes(e, k, "released")
  <2>1. \A n \in 1..Len(gone) : Becomes(e, gone[n], "released") \in R
    <3>1. \A n \in 1..Len(gone) : gone[n] \in I
      BY <1>4
    <3>. QED BY <3>1 DEF Releases, I
  <2>2. DOMAIN front = DOMAIN gone /\ \A n \in DOMAIN gone : front[n] = Becomes(e, gone[n], "released")
    OBVIOUS
  <2>. HIDE DEF R
  <2>3. front \in Seq(R)
    BY <1>4, <2>1
  <2>. HIDE DEF front
  <2>. QED BY <1>4, <2>2, <2>3
<1>6. Chained(front, P)
  <2>1. \A w \in R : w.save # "seat"
    BY DEF Releases, Becomes
  <2>. HIDE DEF R, front
  <2>. QED BY <1>5, <2>1, NoBackPairIn
<1>7. PICK S : /\ S \subseteq Pool(e, b) /\ IsFiniteSet(S) /\ Cardinality(S) <= Cardinality(I)
               /\ back \in Seq(BackKinds(e, b, S)) /\ Chained(back, P)
  BY BackfillOf DEF I
<1>8. Chained(front \o back, P)
  <2>. DEFINE W == R \cup BackKinds(e, b, S)
  <2>. HIDE DEF front, back, P, R
  <2>1. front \in Seq(W) /\ back \in Seq(W)
    BY <1>5, <1>7
  <2>. HIDE DEF W
  <2>. QED BY <1>6, <1>7, <2>1, ChainedJoin
<1>. HIDE DEF front, back
<1>9. Expires(e, b, front, back, S)
  BY <1>3, <1>5, <1>7, <1>8 DEF Expires, I
<1>. QED BY <1>9

LEMMA GrowsBy ==
    ASSUME NEW R, NEW P, IsFiniteSet(P), NEW D, IsFiniteSet(D), NEW f, \A k \in R : k \in P \/ f[k] \in D,
           \A j, k \in R : j \notin P /\ k \notin P /\ f[j] = f[k] => j = k
    PROVE  /\ IsFiniteSet(R) /\ Cardinality(R) \in Nat /\ Cardinality(P) \in Nat /\ Cardinality(D) \in Nat
           /\ Cardinality(R) <= Cardinality(P) + Cardinality(D)
<1>. DEFINE N == R \ P
<1>1. (\A k \in N : f[k] \in D) /\ (\A j, k \in N : f[j] = f[k] => j = k) /\ R \subseteq P \cup N
  OBVIOUS
<1>. HIDE DEF N
<1>2. IsFiniteSet(N) /\ Cardinality(N) \in Nat /\ Cardinality(D) \in Nat /\ Cardinality(N) <= Cardinality(D)
  BY <1>1, AtMost
<1>3. /\ IsFiniteSet(P \cup N) /\ Cardinality(P \cup N) = Cardinality(P) + Cardinality(N) - Cardinality(P \cap N)
      /\ Cardinality(P \cap N) \in Nat /\ Cardinality(P) \in Nat
  BY <1>2, FS_Union, FS_Intersection, FS_CardinalityType
<1>4. IsFiniteSet(R) /\ Cardinality(R) \in Nat /\ Cardinality(R) <= Cardinality(P \cup N)
  BY <1>1, <1>3, FS_Subset, FS_CardinalityType
<1>. QED BY <1>2, <1>3, <1>4

ExpiryKinds(e, b, S) == Releases(e, b) \cup BackKinds(e, b, S)

LEMMA ExpiryKindsMean ==
    ASSUME InSchedule, NEW b, Sound(b), NEW e \in Events, NEW front, NEW back, NEW S, Expires(e, b, front, back, S),
           NEW w \in ExpiryKinds(e, b, S)
    PROVE  /\ w.save \in {"row", "seat", "ticket"}
           /\ w.save = "row" => /\ w.event = e /\ w.at \in DOMAIN b.rows[e]
                                /\ \/ w.to = "released" /\ w.at \in Expirable(e, b)
                                   \/ /\ w.to = "selected" /\ b.rows[e][w.at].status = "entered"
                                      /\ w.at \in S /\ ~Clustered(e)
           /\ w.save = "seat" => /\ Clustered(e) /\ w.event = e
                                 /\ \E k \in S : k \in At(QueueOf(e, b), "unseated") /\ w.who = QueueOf(e, b)[k].who
           /\ w.save = "ticket" => /\ Clustered(e) /\ w.cluster = ClusterOf(e) /\ w.at \in At(QueueOf(e, b), "unseated")
                                   /\ w.to = "seated"
<1>0. b.rows[e] \in Seq(Rows)
  BY DEF Sound, Databases
<1>1. CASE w \in Releases(e, b)
  BY <1>0, <1>1, ExpirableMeans DEF Releases, Becomes
<1>2. CASE Clustered(e) /\ w \in BackSeats(e, b, S)
  BY <1>2 DEF BackSeats, Seats, Expires, Pool
<1>3. CASE Clustered(e) /\ w \in BackMarks(e, S)
  BY <1>3 DEF BackMarks, Marks, Expires, Pool
<1>4. CASE ~Clustered(e) /\ w \in LotterySeats(e, S)
  BY <1>4 DEF LotterySeats, Becomes, Expires, Pool, At
<1>. QED BY <1>1, <1>2, <1>3, <1>4 DEF ExpiryKinds, BackKinds

LEMMA ExpiryAreSaves ==
    ASSUME InSchedule, NEW b, Sound(b), NEW e \in Events, NEW front, NEW back, NEW S, Expires(e, b, front, back, S)
    PROVE  /\ front \in Seq(ExpiryKinds(e, b, S)) /\ back \in Seq(ExpiryKinds(e, b, S))
           /\ Expiry(e, b) \in Seq(ExpiryKinds(e, b, S))
           /\ Expiry(e, b) \in Seq(SavesOf(b)) /\ Orderly(Expiry(e, b)) /\ Expiry(e, b) = front \o back
<1>. DEFINE K == ExpiryKinds(e, b, S)
            saves == Expiry(e, b)
<1>1. front \in Seq(Releases(e, b)) /\ back \in Seq(BackKinds(e, b, S)) /\ saves = front \o back
  BY DEF Expires
<1>2. Releases(e, b) \subseteq K /\ BackKinds(e, b, S) \subseteq K
  BY DEF ExpiryKinds
<1>3. saves \in Seq(SavesOf(b))
  BY ExpirySaves
<1>4. b.rows[e] \in Seq(Rows)
  BY DEF Sound, Databases
<1>5. \A w \in K : /\ w.save \in {"row", "seat", "ticket"}
                   /\ w.save = "row" => \/ w.to = "released" /\ w.at \in Expirable(e, b)
                                        \/ w.to = "selected" /\ b.rows[e][w.at].status = "entered"
                   /\ w.save = "ticket" => w.to = "seated"
  BY ExpiryKindsMean
<1>6. \A k \in Expirable(e, b) : b.rows[e][k].status # "entered"
  BY <1>4, ExpirableMeans
<1>. HIDE DEF K
<1>7. \A v, w \in K : ~Clash(v, w)
  BY <1>5, <1>6 DEF Clash
<1>8. front \in Seq(K) /\ back \in Seq(K)
  BY <1>1, <1>2
<1>. HIDE DEF saves
<1>9. saves \in Seq(K)
  BY <1>1, <1>8
<1>10. Orderly(saves)
  <2>1. \A i \in DOMAIN saves : saves[i] \in K
    BY <1>9
  <2>. QED BY <1>7, <2>1 DEF Orderly
<1>. QED BY <1>1, <1>3, <1>8, <1>9, <1>10 DEF K, saves

(* What an expiry, whole or in part, has done to b. *)
Lapsed(e, b, t) ==
    /\ t \in Grown(b) /\ \A d \in Events : d # e => SameRows(b.rows[d], t.rows[d])
    /\ e \in Staff \cap StaffHosted => Taken(t.rows[e]) <= Taken(b.rows[e])
    /\ \A x \in Clusters : \A k \in DOMAIN b.tickets[x] :
          \/ t.tickets[x][k].status = b.tickets[x][k].status
          \/ /\ e \in Members[x] /\ b.tickets[x][k].status = "unseated" /\ t.tickets[x][k].status = "seated"
    /\ t.drawn \subseteq b.drawn
    /\ \A k \in DOMAIN b.tokens : t.tokens[k] = b.tokens[k]

LEMMA ExpiryLapsed ==
    ASSUME InSchedule, NEW b, Sound(b), NEW e \in Events, NEW n \in 0..Len(Expiry(e, b)), NEW t \in Reached(b, Expiry(e, b), n)
    PROVE  Lapsed(e, b, t)
<1>1. PICK front, back, S : Expires(e, b, front, back, S)
  BY ExpiryIs
<1>. DEFINE K == ExpiryKinds(e, b, S)
            p == b.rows[e]
            r == t.rows[e]
<1>2. front \in Seq(K) /\ back \in Seq(K) /\ Expiry(e, b) = front \o back
  BY <1>1, ExpiryAreSaves
<1>3. /\ t \in Grown(b) /\ Moved(b, t, ToSet(front) \cup ToSet(back))
      /\ n <= Len(front) => Moved(b, t, ToSet(front))
      /\ n >= Len(front) => \A i \in DOMAIN front : Made(b, t, front[i])
  <2>. HIDE DEF K
  <2>1. n \in 0..Len(front \o back) /\ t \in Reached(b, front \o back, n)
    BY <1>2
  <2>. QED BY <1>2, <2>1, ReachedParts
<1>4. Moved(b, t, K)
  <2>. HIDE DEF K
  <2>1. ToSet(front) \cup ToSet(back) \subseteq K
    BY <1>2, ToSetSize
  <2>. QED BY <1>3, <2>1, MovedMore
<1>5. \A w \in K : /\ w.save \in {"row", "seat", "ticket"} /\ (w.save \in {"row", "seat"} => w.event = e)
                   /\ w.save = "ticket" => /\ Clustered(e) /\ w.cluster = ClusterOf(e)
                                           /\ w.at \in At(QueueOf(e, b), "unseated") /\ w.to = "seated"
  BY <1>1, ExpiryKindsMean
<1>6. \A w \in K : /\ w.save = "row" => \/ w.to = "released" /\ w.at \in Expirable(e, b)
                                        \/ w.to = "selected" /\ w.at \in S /\ ~Clustered(e)
                   /\ w.save = "seat" => Clustered(e) /\ \E k \in S : w.who = QueueOf(e, b)[k].who
  BY <1>1, ExpiryKindsMean
<1>. HIDE DEF K
<1>7. ASSUME NEW d \in Events, d # e PROVE SameRows(b.rows[d], t.rows[d])
  <2>1. \A w \in K : w.save \in {"row", "seat"} => w.event # d
    BY <1>5, <1>7
  <2>. QED BY <1>3, <1>4, <2>1, MovedElsewhere
<1>8. ASSUME NEW x \in Clusters, NEW k \in DOMAIN b.tickets[x]
      PROVE  \/ t.tickets[x][k].status = b.tickets[x][k].status
             \/ /\ e \in Members[x] /\ b.tickets[x][k].status = "unseated" /\ t.tickets[x][k].status = "seated"
  <2>1. t.tickets[x][k].status = b.tickets[x][k].status \/ Marks(x, k, t.tickets[x][k].status) \in K
    BY <1>4 DEF Moved
  <2>2. \A status : Marks(x, k, status) \in K =>
            Clustered(e) /\ x = ClusterOf(e) /\ k \in At(QueueOf(e, b), "unseated") /\ status = "seated"
    BY <1>5 DEF Marks
  <2>3. Clustered(e) => e \in Members[ClusterOf(e)]
    BY ClusterOfMeans
  <2>. QED BY <2>1, <2>2, <2>3 DEF At, QueueOf
<1>9. t.drawn \subseteq b.drawn
  <2>1. \A d : Draws(d) \notin K
    BY <1>5 DEF Draws
  <2>. QED BY <1>4, <2>1 DEF Moved
<1>10. \A k \in DOMAIN b.tokens : t.tokens[k] = b.tokens[k]
  <2>1. \A k, use : Redeems(k, use) \notin K
    BY <1>5 DEF Redeems
  <2>. QED BY <1>4, <2>1 DEF Moved
<1>11. p \in Seq(Rows) /\ r \in Seq(Rows) /\ RowsSound(e, p) /\ RowsSound(e, r) /\ DOMAIN p \subseteq DOMAIN r /\ Kept(r, p)
  BY <1>3, GrownLengths
<1>12. IsFiniteSet(SeatsIn(p)) /\ Taken(p) = Cardinality(SeatsIn(p)) /\ Taken(p) \in Nat
       /\ IsFiniteSet(SeatsIn(r)) /\ Taken(r) = Cardinality(SeatsIn(r)) /\ Taken(r) \in Nat
  <2>. HIDE DEF p, r
  <2>. QED BY <1>11, TakenIs
<1>13. ASSUME n <= Len(front) PROVE Taken(r) <= Taken(p)
  <2>1. Moved(b, t, Releases(e, b))
    <3>1. front \in Seq(Releases(e, b))
      BY <1>1 DEF Expires
    <3>2. ToSet(front) \subseteq Releases(e, b)
      BY <3>1, ToSetSize
    <3>. QED BY <1>3, <1>13, <3>2, MovedMore
  <2>2. \A k \in DOMAIN r :
          IF k \in DOMAIN p
          THEN r[k].status = p[k].status \/ Becomes(e, k, r[k].status) \in Releases(e, b)
          ELSE r[k].status = "selected" /\ Seats(e, r[k].who) \in Releases(e, b)
    BY <2>1 DEF Moved
  <2>3. /\ \A c : Seats(e, c) \notin Releases(e, b)
        /\ \A k, status : Becomes(e, k, status) \in Releases(e, b) => status = "released"
    BY DEF Releases, Seats, Becomes
  <2>. HIDE DEF p, r
  <2>4. SeatsIn(r) \subseteq SeatsIn(p)
    BY <2>2, <2>3 DEF SeatsIn, SeatStatuses
  <2>. QED BY <1>12, <2>4, FS_Subset
<1>14. ASSUME n >= Len(front), e \in Staff \cap StaffHosted PROVE Taken(r) <= Taken(p)
  <2>. DEFINE C == At(p, "confirmed")
              L == At(p, "selected")
              q == QueueOf(e, b)
              f == [k \in DOMAIN r |-> IF Clustered(e) THEN CHOOSE l \in S : q[l].who = r[k].who ELSE k]
  <2>1. Expirable(e, b) = L
    <3>1. At(p, "invited") = {}
      BY <1>11, <1>14 DEF RowsSound, At
    <3>. QED BY <3>1 DEF Expirable
  <2>2. IsFiniteSet(C) /\ Cardinality(C) \in Nat /\ Cardinality(L) \in Nat /\ Taken(p) = Cardinality(C) + Cardinality(L)
    <3>. HIDE DEF p
    <3>. QED BY <1>11, AtMeans DEF Taken, Count
  <2>3. IsFiniteSet(S) /\ Cardinality(S) <= Cardinality(L)
    BY <1>1, <2>1 DEF Expires
  <2>4. \A k \in L : r[k].status = "released"
    <3>1. \A k \in L : \E i \in DOMAIN front : front[i] = Becomes(e, k, "released")
      BY <1>1, <2>1 DEF Expires
    <3>2. \A k \in L : Made(b, t, Becomes(e, k, "released"))
      BY <1>3, <1>14, <3>1
    <3>. QED BY <3>2 DEF Made, Becomes
  <2>5. \A k \in DOMAIN r :
          IF k \in DOMAIN p
          THEN r[k].status = p[k].status \/ Becomes(e, k, r[k].status) \in K
          ELSE r[k].status = "selected" /\ Seats(e, r[k].who) \in K
    BY <1>4 DEF Moved
  <2>6. /\ \A k, status : Becomes(e, k, status) \in K => status = "released" \/ (k \in S /\ ~Clustered(e))
        /\ \A c : Seats(e, c) \in K => Clustered(e) /\ \E l \in S : c = q[l].who
    BY <1>6 DEF Becomes, Seats
  <2>7. \A k \in SeatsIn(r) : k \in C \/ (IF Clustered(e) THEN k \notin DOMAIN p /\ \E l \in S : q[l].who = r[k].who ELSE k \in S)
    <3>. SUFFICES ASSUME NEW k \in SeatsIn(r), k \notin C
                  PROVE  IF Clustered(e) THEN k \notin DOMAIN p /\ \E l \in S : q[l].who = r[k].who ELSE k \in S
      OBVIOUS
    <3>1. k \in DOMAIN r /\ r[k].status \in {"selected", "confirmed"}
      BY DEF SeatsIn, SeatStatuses
    <3>2. CASE k \notin DOMAIN p
      BY <2>5, <2>6, <3>1, <3>2
    <3>3. CASE k \in DOMAIN p
      <4>1. r[k].status # p[k].status
        BY <2>4, <3>1, <3>3 DEF At
      <4>2. Becomes(e, k, r[k].status) \in K
        BY <2>5, <3>1, <3>3, <4>1
      <4>. QED BY <2>6, <3>1, <4>2
    <3>. QED BY <3>2, <3>3
  <2>8. \A k \in SeatsIn(r) : k \in C \/ f[k] \in S
    <3>. SUFFICES ASSUME NEW k \in SeatsIn(r), k \notin C PROVE f[k] \in S
      OBVIOUS
    <3>1. k \in DOMAIN r
      BY DEF SeatsIn
    <3>2. f[k] = IF Clustered(e) THEN CHOOSE l \in S : q[l].who = r[k].who ELSE k
      BY <3>1
    <3>. QED BY <2>7, <3>2
  <2>9. \A j, k \in SeatsIn(r) : j \notin C /\ k \notin C /\ f[j] = f[k] => j = k
    <3>. SUFFICES ASSUME NEW j \in SeatsIn(r), NEW k \in SeatsIn(r), j \notin C, k \notin C, f[j] = f[k] PROVE j = k
      OBVIOUS
    <3>1. j \in DOMAIN r /\ k \in DOMAIN r
      BY DEF SeatsIn
    <3>2. CASE ~Clustered(e)
      BY <3>1, <3>2
    <3>3. CASE Clustered(e)
      <4>1. q[f[j]].who = r[j].who /\ q[f[k]].who = r[k].who
        BY <2>7, <3>1, <3>3
      <4>2. r[j].who = r[k].who
        BY <4>1
      <4>3. j \in Nat /\ k \in Nat
        BY <1>11, <3>1
      <4>4. ~(j < k) /\ ~(k < j)
        BY <1>11, <3>1, <4>2 DEF RowsSound
      <4>. QED BY <4>3, <4>4
    <3>. QED BY <3>2, <3>3
  <2>. HIDE DEF C, L, f, p, r
  <2>10. Cardinality(SeatsIn(r)) <= Cardinality(C) + Cardinality(S) /\ Cardinality(S) \in Nat
    BY <2>2, <2>3, <2>8, <2>9, GrowsBy
  <2>. QED BY <1>12, <2>2, <2>3, <2>10
<1>15. e \in Staff \cap StaffHosted => Taken(r) <= Taken(p)
  <2>1. Len(front) \in Nat /\ n \in Int
    BY <1>2
  <2>. QED BY <1>13, <1>14, <2>1
<1>. QED BY <1>3, <1>7, <1>8, <1>9, <1>10, <1>15 DEF Lapsed

(* Who has a seat, or a ticket marked as seated. *)
LEMMA RowsIs ==
    ASSUME NEW e, NEW r \in Seq(Rows), RowsSound(e, r), NEW c, NEW statuses
    PROVE  Is(r, c, statuses) <=> \E k \in DOMAIN r : r[k].who = c /\ r[k].status \in statuses
<1>1. \A k, l \in DOMAIN r : k < l => r[k].who # r[l].who
  BY DEF RowsSound
<1>. QED BY <1>1, IsMeans

LEMMA TicketsIs ==
    ASSUME NEW x, NEW q \in Seq(Applications(x)), TicketsSound(x, q), NEW c, NEW statuses
    PROVE  /\ Is(q, c, statuses) <=> \E k \in DOMAIN q : q[k].who = c /\ q[k].status \in statuses
           /\ \A k, l \in DOMAIN q : q[k].who = q[l].who => k = l
<1>1. \A k, l \in DOMAIN q : k # l => q[k].who # q[l].who
  BY DEF TicketsSound
<1>2. DOMAIN q \subseteq Nat
  OBVIOUS
<1>3. \A k, l \in DOMAIN q : k < l => q[k].who # q[l].who
  BY <1>1, <1>2
<1>. QED BY <1>1, <1>3, IsMeans

LEMMA QueueIs ==
    ASSUME InSchedule, NEW b, Sound(b), NEW t \in Grown(b), NEW x \in Clusters
    PROVE  /\ b.tickets[x] \in Seq(Applications(x)) /\ TicketsSound(x, b.tickets[x])
           /\ t.tickets[x] \in Seq(Applications(x)) /\ TicketsSound(x, t.tickets[x])
           /\ DOMAIN t.tickets[x] = DOMAIN b.tickets[x]
           /\ \A k \in DOMAIN b.tickets[x] : t.tickets[x][k].who = b.tickets[x][k].who
<1>1. Sound(t)
  BY DEF Grown
<1>2. SameApplicants(t.tickets[x], b.tickets[x]) /\ DOMAIN t.tickets[x] = DOMAIN b.tickets[x]
  BY GrownLengths
<1>. QED BY <1>1, <1>2 DEF Sound, TicketsSound, SameApplicants

(* A seat that an expiry fills in a cluster's event is of a ticket that was *)
(* not seated, which it marks next.                                         *)
LEMMA ExpirySeats ==
    ASSUME InSchedule, NEW b, Sound(b), NEW e \in Events, Clustered(e), NEW n \in 0..Len(Expiry(e, b)),
           NEW t \in Reached(b, Expiry(e, b), n), NEW c, Is(t.rows[e], c, SeatStatuses), ~Is(b.rows[e], c, SeatStatuses)
    PROVE  /\ ~Is(b.tickets[ClusterOf(e)], c, {"seated"})
           /\ \/ Is(t.tickets[ClusterOf(e)], c, {"seated"})
              \/ n + 1 \in DOMAIN Expiry(e, b) /\ Expiry(e, b)[n + 1].save = "ticket"
<1>1. PICK front, back, S : Expires(e, b, front, back, S)
  BY ExpiryIs
<1>. DEFINE K == ExpiryKinds(e, b, S)
            saves == Expiry(e, b)
            P == BackPairs(e, b)
            V == {saves[i] : i \in 1..n}
            p == b.rows[e]
            r == t.rows[e]
            x == ClusterOf(e)
            q == b.tickets[x]
<1>2. saves \in Seq(K) /\ Chained(saves, P) /\ n \in Nat /\ n <= Len(saves) /\ DOMAIN saves = 1..Len(saves)
  <2>. HIDE DEF K, P
  <2>1. saves \in Seq(K) /\ saves = front \o back
    BY <1>1, ExpiryAreSaves DEF K
  <2>2. Chained(saves, P)
    <3>1. Chained(front \o back, P)
      BY <1>1 DEF Expires, P
    <3>. HIDE DEF saves
    <3>. QED BY <2>1, <3>1
  <2>3. n \in 0..Len(saves)
    OBVIOUS
  <2>. HIDE DEF saves
  <2>4. Len(saves) \in Nat /\ DOMAIN saves = 1..Len(saves)
    BY <2>1
  <2>5. n \in Nat /\ n <= Len(saves)
    BY <2>3, <2>4
  <2>. QED BY <2>1, <2>2, <2>4, <2>5
<1>3. t \in Grown(b) /\ Moved(b, t, V)
  BY DEF Reached
<1>4. p \in Seq(Rows) /\ r \in Seq(Rows) /\ RowsSound(e, p) /\ RowsSound(e, r) /\ Kept(r, p)
  BY <1>3, GrownLengths
<1>5. x \in Clusters
  BY ClusterOfMeans
<1>6. /\ q \in Seq(Applications(x)) /\ TicketsSound(x, q)
      /\ t.tickets[x] \in Seq(Applications(x)) /\ TicketsSound(x, t.tickets[x])
      /\ DOMAIN t.tickets[x] = DOMAIN q /\ \A k \in DOMAIN q : t.tickets[x][k].who = q[k].who
  BY <1>3, <1>5, QueueIs
<1>7. PICK k \in DOMAIN r : r[k].who = c /\ r[k].status \in SeatStatuses
  <2>. HIDE DEF r
  <2>1. Is(r, c, SeatStatuses)
    BY DEF r
  <2>. QED BY <1>4, <2>1, RowsIs
<1>8. \A l \in DOMAIN p : p[l].who = c => p[l].status \notin SeatStatuses
  <2>. HIDE DEF p
  <2>1. ~Is(p, c, SeatStatuses)
    BY DEF p
  <2>. QED BY <1>4, <2>1, RowsIs
<1>9. V \subseteq K
  <2>. HIDE DEF K, saves
  <2>. QED BY <1>2
<1>10. \A w \in K : /\ w.save = "row" => w.to = "released"
                    /\ w.save = "seat" => \E l \in S : l \in At(QueueOf(e, b), "unseated") /\ w.who = QueueOf(e, b)[l].who
  BY <1>1, ExpiryKindsMean
<1>11. Seats(e, c) \in V
  <2>1. IF k \in DOMAIN p
        THEN r[k].status = p[k].status \/ Becomes(e, k, r[k].status) \in V
        ELSE r[k].status = "selected" /\ Seats(e, r[k].who) \in V
    BY <1>3 DEF Moved
  <2>. HIDE DEF K, V
  <2>2. \A l, status : Becomes(e, l, status) \in V => status = "released"
    BY <1>9, <1>10 DEF Becomes
  <2>3. k \in DOMAIN p => r[k].who = p[k].who
    BY <1>4 DEF Kept
  <2>. HIDE DEF p, r
  <2>. QED BY <1>7, <1>8, <2>1, <2>2, <2>3 DEF SeatStatuses
<1>12. PICK i \in 1..n : saves[i] = Seats(e, c)
  BY <1>11
<1>13. PICK l \in At(q, "unseated") : c = q[l].who
  <2>1. Seats(e, c) \in K
    BY <1>9, <1>11
  <2>. HIDE DEF K
  <2>. QED BY <1>10, <2>1 DEF Seats, QueueOf
<1>14. Seats(e, c) \in {v[1] : v \in P}
  <2>1. <<Seats(e, q[l].who), Marks(x, l, "seated")>> \in P
    BY DEF BackPairs, QueueOf
  <2>. HIDE DEF P
  <2>2. <<Seats(e, c), Marks(x, l, "seated")>> \in P
    BY <1>13, <2>1
  <2>3. <<Seats(e, c), Marks(x, l, "seated")>>[1] = Seats(e, c)
    OBVIOUS
  <2>. QED BY <2>2, <2>3
<1>15. i + 1 \in DOMAIN saves /\ <<saves[i], saves[i + 1]>> \in P /\ (i = n \/ Made(b, t, saves[i + 1]))
  <2>. HIDE DEF P, K, saves, V
  <2>1. t \in Reached(b, saves, n)
    BY DEF saves
  <2>2. saves[i] \in {v[1] : v \in P}
    BY <1>12, <1>14
  <2>. QED BY <1>2, <2>1, <2>2, ReachedChain
<1>16. PICK m \in At(q, "unseated") : saves[i] = Seats(e, q[m].who) /\ saves[i + 1] = Marks(x, m, "seated")
  <2>. HIDE DEF saves
  <2>. QED BY <1>15 DEF BackPairs, QueueOf
<1>17. q[m].who = c /\ m \in DOMAIN q /\ q[m].status = "unseated"
  BY <1>12, <1>16 DEF Seats, At
<1>18. ~Is(q, c, {"seated"})
  <2>. HIDE DEF q
  <2>1. Is(q, c, {"seated"}) => \E j \in DOMAIN q : q[j].who = c /\ q[j].status \in {"seated"}
    BY <1>6, TicketsIs
  <2>2. \A j \in DOMAIN q : q[j].who = q[m].who => j = m
    BY <1>6, <1>17, TicketsIs
  <2>. QED BY <1>17, <2>1, <2>2
<1>19. CASE i = n
  <2>1. saves[n + 1].save = "ticket"
    BY <1>16, <1>19 DEF Marks
  <2>. QED BY <1>15, <1>18, <1>19, <2>1
<1>20. CASE Made(b, t, saves[i + 1])
  <2>1. t.tickets[x][m].status = "seated"
    BY <1>16, <1>20 DEF Made, Marks
  <2>2. m \in DOMAIN t.tickets[x] /\ t.tickets[x][m].who = c
    BY <1>6, <1>17
  <2>. DEFINE z == t.tickets[x]
  <2>. HIDE DEF z
  <2>3. Is(z, c, {"seated"})
    <3>1. z \in Seq(Applications(x)) /\ TicketsSound(x, z)
      BY <1>6 DEF z
    <3>2. m \in DOMAIN z /\ z[m].who = c /\ z[m].status \in {"seated"}
      BY <2>1, <2>2 DEF z
    <3>. QED BY <3>1, <3>2, TicketsIs
  <2>. QED BY <1>18, <2>3 DEF z
<1>. QED BY <1>15, <1>19, <1>20

-----------------------------------------------------------------------------
(***************************************************************************)
(* The saves of a cluster's draw.                                          *)
(***************************************************************************)
Closes(x) == {Draws(e) : e \in Members[x]}
DrawKinds(x, b, order) == DrawSaves(x, b, order) \cup Closes(x)

(* That front does what the order gives, before back closes the events.    *)
Ranks(x, b, order, front, back) ==
    /\ ClusterDraw(x, b, order) = front \o back
    /\ front \in Seq(DrawSaves(x, b, order)) /\ back \in Seq(Closes(x)) /\ back # <<>>
    /\ \A n \in SeatedAt(x, b, order) :
          /\ \E i \in DOMAIN front : front[i] = Seats(Assigned(x, b, order)[n], WhoAt(x, b, order, n))
          /\ \E i \in DOMAIN front : front[i] = Marks(x, order[n], "seated")

LEMMA ClosingIs ==
    ASSUME InSchedule, NEW x \in Clusters
    PROVE  Closing(x) \in Seq(Closes(x)) /\ Closing(x) # <<>>
<1>. DEFINE M == Members[x]
            N == Cardinality(M)
            m == SetToSeq(M)
<1>1. IsFiniteSet(M) /\ M # {}
  BY CalendarAssumption, FS_Subset DEF InSchedule
<1>2. N \in Nat /\ N # 0
  BY <1>1, FS_CardinalityType, FS_EmptySet
<1>3. m \in [1..N -> M]
  <2>1. \E f : f \in Bijection(1..N, M)
    BY <1>1, FS_NatBijection, FS_CountingElements DEF ExistsBijection
  <2>2. \E f \in [1..N -> M] : IsInjective(f)
    BY <2>1 DEF Bijection, Injection
  <2>. QED BY <2>2, Zenon DEF SetToSeq
<1>4. Closing(x) = [n \in DOMAIN m |-> Draws(m[n])]
  BY Zenon DEF Closing
<1>5. \A e \in M : Draws(e) \in Closes(x)
  BY DEF Closes
<1>. HIDE DEF m, N, M
<1>6. Closing(x) \in [1..N -> Closes(x)]
  BY <1>3, <1>4, <1>5
<1>. QED BY <1>2, <1>6

LEMMA SeatingsHave ==
    ASSUME InSchedule, NEW b, Sound(b), NEW x \in Clusters, NEW order \in Seq(DOMAIN b.tickets[x]),
           NEW n \in SeatedAt(x, b, order)
    PROVE  /\ \E i \in DOMAIN Seatings(x, b, order) :
                 Seatings(x, b, order)[i] = Seats(Assigned(x, b, order)[n], WhoAt(x, b, order, n))
           /\ \E i \in DOMAIN Seatings(x, b, order) : Seatings(x, b, order)[i] = Marks(x, order[n], "seated")
<1>. DEFINE W == DrawSaves(x, b, order)
            seqs == [m \in DOMAIN order |-> Seating(x, b, order, m)]
            v == Seats(Assigned(x, b, order)[n], WhoAt(x, b, order, n))
            w == Marks(x, order[n], "seated")
            rest == IssuingTo(x, b, order, n)
            s == Seating(x, b, order, n)
<1>1. n \in DOMAIN order /\ Assigned(x, b, order)[n] # None
  BY DEF SeatedAt
<1>2. s = <<v, w>> \o rest
  BY <1>1, Zenon DEF Seating
<1>3. s \in Seq(W) /\ rest \in Seq(W)
  <2>1. s \in Seq(W)
    BY <1>1, DrawPieces
  <2>2. rest \in Seq(W)
    <3>1. Issues(WhoAt(x, b, order, n), x) \in W
      <4>1. WhoAt(x, b, order, n) \in Everyone
        BY <1>1, WishesMean DEF WhoAt
      <4>. QED BY <4>1 DEF Issues, NewTokenSaves, DrawSaves
    <3>. HIDE DEF W
    <3>. QED BY <3>1 DEF IssuingTo, Consoled
  <2>. QED BY <2>1, <2>2
<1>4. seqs \in Seq(Seq(W))
  BY DrawParts
<1>5. DOMAIN seqs = DOMAIN order /\ seqs[n] = s
  BY <1>1
<1>. HIDE DEF W, v, w, rest, s, seqs
<1>6. 1 \in DOMAIN s /\ 2 \in DOMAIN s /\ s[1] = v /\ s[2] = w
  <2>1. <<v, w>> \in Seq({v, w}) /\ Len(rest) \in Nat
    BY <1>3
  <2>. QED BY <1>2, <1>3, <2>1
<1>7. /\ \E j \in DOMAIN FlattenSeq(seqs) : FlattenSeq(seqs)[j] = v
      /\ \E j \in DOMAIN FlattenSeq(seqs) : FlattenSeq(seqs)[j] = w
  <2>1. n \in DOMAIN seqs /\ 1 \in DOMAIN seqs[n] /\ 2 \in DOMAIN seqs[n] /\ seqs[n][1] = v /\ seqs[n][2] = w
    BY <1>1, <1>5, <1>6
  <2>2. \E j \in DOMAIN FlattenSeq(seqs) : FlattenSeq(seqs)[j] = seqs[n][1]
    BY <1>4, <2>1, FlattenHas
  <2>3. \E j \in DOMAIN FlattenSeq(seqs) : FlattenSeq(seqs)[j] = seqs[n][2]
    BY <1>4, <2>1, FlattenHas
  <2>. QED BY <2>1, <2>2, <2>3
<1>8. Seatings(x, b, order) = FlattenSeq(seqs)
  BY Zenon DEF Seatings, seqs
<1>. QED BY <1>7, <1>8 DEF v, w

LEMMA DrawIs ==
    ASSUME InSchedule, NEW b, Sound(b), NEW x \in Clusters, NEW order \in Seq(DOMAIN b.tickets[x])
    PROVE  \E front, back : Ranks(x, b, order, front, back)
<1>. DEFINE W == DrawSaves(x, b, order)
            r == Redemptions(x, b, order)
            s == Seatings(x, b, order)
            l == Leavings(x, b, order)
            front == (r \o s) \o l
            back == Closing(x)
<1>1. r \in Seq(W) /\ s \in Seq(W) /\ l \in Seq(W)
  BY DrawParts
<1>2. back \in Seq(Closes(x)) /\ back # <<>>
  BY ClosingIs
<1>3. ClusterDraw(x, b, order) = front \o back
  BY ClusterDrawIs
<1>4. front \in Seq(W)
  <2>. HIDE DEF W, r, s, l
  <2>. QED BY <1>1
<1>5. \A i \in DOMAIN s : \E j \in DOMAIN front : front[j] = s[i]
  <2>. HIDE DEF W, r, s, l
  <2>. SUFFICES ASSUME NEW i \in DOMAIN s PROVE \E j \in DOMAIN front : front[j] = s[i]
    OBVIOUS
  <2>. DEFINE k == Len(r) + i
  <2>1. k \in DOMAIN front /\ front[k] = s[i]
    BY <1>1
  <2>. QED BY <2>1
<1>. HIDE DEF front, back, s
<1>6. ASSUME NEW n \in SeatedAt(x, b, order)
      PROVE  /\ \E i \in DOMAIN front : front[i] = Seats(Assigned(x, b, order)[n], WhoAt(x, b, order, n))
             /\ \E i \in DOMAIN front : front[i] = Marks(x, order[n], "seated")
  <2>1. /\ \E i \in DOMAIN s : s[i] = Seats(Assigned(x, b, order)[n], WhoAt(x, b, order, n))
        /\ \E i \in DOMAIN s : s[i] = Marks(x, order[n], "seated")
    BY SeatingsHave DEF s
  <2>. QED BY <1>5, <2>1
<1>7. Ranks(x, b, order, front, back)
  BY <1>2, <1>3, <1>4, <1>6 DEF Ranks
<1>. QED BY <1>7

LEMMA DrawKindsMean ==
    ASSUME InSchedule, NEW b, Sound(b), NEW x \in Clusters, NEW order \in Orders(x, b), NEW w \in DrawKinds(x, b, order)
    PROVE  /\ w.save \in {"seat", "ticket", "token", "issue", "drawn"}
           /\ w.save = "seat" => /\ w.event \in Members[x]
                                 /\ \E n \in SeatedAt(x, b, order) :
                                       w.event = Assigned(x, b, order)[n] /\ w.who = WhoAt(x, b, order, n)
           /\ w.save = "ticket" => /\ w.cluster = x /\ w.at \in At(b.tickets[x], "pending")
                                   /\ w.to = IF \E n \in SeatedAt(x, b, order) : order[n] = w.at THEN "seated" ELSE "unseated"
           /\ w.save = "token" => w.use = x
           /\ w.save = "drawn" => w.event \in Members[x]
<1>1. order \in Seq(At(b.tickets[x], "pending")) /\ order \in Seq(DOMAIN b.tickets[x])
      /\ \A m, n \in DOMAIN order : m # n => order[m] # order[n]
  BY OrdersMean
<1>2. CASE w \in SeatSaves(x, b, order)
  <2>1. PICK n \in SeatedAt(x, b, order) : w = Seats(Assigned(x, b, order)[n], WhoAt(x, b, order, n))
    BY <1>2 DEF SeatSaves
  <2>2. Assigned(x, b, order)[n] \in Members[x]
    BY <1>1, AssignedIn DEF SeatedAt
  <2>. QED BY <2>1, <2>2 DEF Seats
<1>3. CASE w \in MarkSaves(x, b, order)
  <2>1. PICK n \in DOMAIN order : w = Marks(x, order[n], IF n \in SeatedAt(x, b, order) THEN "seated" ELSE "unseated")
    BY <1>3 DEF MarkSaves
  <2>2. order[n] \in At(b.tickets[x], "pending")
    BY <1>1
  <2>3. \A m \in SeatedAt(x, b, order) : order[m] = order[n] => m = n
    BY <1>1 DEF SeatedAt
  <2>. QED BY <2>1, <2>2, <2>3 DEF Marks
<1>4. CASE w \in SpendSaves(x, b)
  BY <1>4 DEF SpendSaves, TokenSaves
<1>5. CASE w \in NewTokenSaves
  BY <1>5 DEF NewTokenSaves
<1>6. CASE w \in Closes(x)
  BY <1>6 DEF Closes, Draws
<1>. QED BY <1>2, <1>3, <1>4, <1>5, <1>6 DEF DrawKinds, DrawSaves

LEMMA DrawAreSaves ==
    ASSUME InSchedule, NEW b, Sound(b), NEW x \in Clusters, NEW order \in Orders(x, b), NEW front, NEW back,
           Ranks(x, b, order, front, back)
    PROVE  /\ front \in Seq(DrawKinds(x, b, order)) /\ back \in Seq(DrawKinds(x, b, order))
           /\ ClusterDraw(x, b, order) \in Seq(SavesOf(b)) /\ Orderly(ClusterDraw(x, b, order))
<1>. DEFINE K == DrawKinds(x, b, order)
            saves == ClusterDraw(x, b, order)
<1>1. saves = front \o back /\ front \in Seq(DrawSaves(x, b, order)) /\ back \in Seq(Closes(x))
  BY DEF Ranks
<1>2. DrawSaves(x, b, order) \subseteq K /\ Closes(x) \subseteq K
  BY DEF DrawKinds
<1>3. K \subseteq SavesOf(b)
  <2>1. order \in Seq(DOMAIN b.tickets[x])
    BY OrdersMean
  <2>2. DrawSaves(x, b, order) \cup DrawnSaves \subseteq SavesOf(b)
    BY <2>1, ClusterSaves
  <2>3. Closes(x) \subseteq DrawnSaves
    <3>1. Members[x] \subseteq Staff
      BY CalendarAssumption DEF InSchedule
    <3>. QED BY <3>1 DEF Closes, Draws, DrawnSaves
  <2>. QED BY <2>2, <2>3 DEF DrawKinds
<1>4. \A w \in K : /\ w.save \in {"seat", "ticket", "token", "issue", "drawn"}
                   /\ w.save = "ticket" => /\ w.cluster = x
                                           /\ w.to = IF \E n \in SeatedAt(x, b, order) : order[n] = w.at THEN "seated" ELSE "unseated"
                   /\ w.save = "token" => w.use = x
  BY DrawKindsMean
<1>. HIDE DEF K, saves
<1>5. \A v, w \in K : ~Clash(v, w)
  <2>. SUFFICES ASSUME NEW v \in K, NEW w \in K PROVE ~Clash(v, w)
    OBVIOUS
  <2>1. v.save # "row"
    BY <1>4
  <2>2. v.save = "token" /\ w.save = "token" => v.use = w.use
    BY <1>4
  <2>3. v.save = "ticket" /\ w.save = "ticket" /\ v.at = w.at => v.to = w.to
    BY <1>4
  <2>. QED BY <2>1, <2>2, <2>3 DEF Clash
<1>6. front \in Seq(K) /\ back \in Seq(K)
  BY <1>1, <1>2
<1>7. saves \in Seq(K)
  BY <1>1, <1>6
<1>8. saves \in Seq(SavesOf(b))
  BY <1>3, <1>7
<1>9. Orderly(saves)
  <2>1. \A i \in DOMAIN saves : saves[i] \in K
    BY <1>7
  <2>. QED BY <1>5, <2>1 DEF Orderly
<1>. QED BY <1>6, <1>8, <1>9 DEF K, saves

(* A draw gives a character at most one seat, of their own ticket's. *)
LEMMA OneTicketEach ==
    ASSUME InSchedule, NEW b, Sound(b), NEW x \in Clusters, NEW order \in Orders(x, b),
           NEW m \in DOMAIN order, NEW n \in DOMAIN order, WhoAt(x, b, order, m) = WhoAt(x, b, order, n)
    PROVE  m = n
<1>. DEFINE q == b.tickets[x]
<1>1. order \in Seq(DOMAIN q) /\ \A i, j \in DOMAIN order : i # j => order[i] # order[j]
  BY OrdersMean
<1>2. order[m] \in DOMAIN q /\ order[n] \in DOMAIN q /\ q[order[m]].who = q[order[n]].who
  <2>1. order[m] \in DOMAIN q /\ order[n] \in DOMAIN q
    <3>. HIDE DEF q
    <3>. QED BY <1>1
  <2>. QED BY <2>1 DEF WhoAt
<1>3. \A i, j \in DOMAIN q : i # j => q[i].who # q[j].who
  BY DEF Sound, TicketsSound
<1>. QED BY <1>1, <1>2, <1>3

(* A seat that a draw has given is of one of the order's tickets. *)
LEMMA NewSeat ==
    ASSUME InSchedule, NEW b, Sound(b), NEW x \in Clusters, NEW order \in Orders(x, b),
           NEW t \in Grown(b), Moved(b, t, DrawKinds(x, b, order)), NEW e \in Events, NEW k \in SeatsIn(t.rows[e]),
           k \notin SeatsIn(b.rows[e])
    PROVE  /\ k \in DOMAIN t.rows[e] /\ k \notin DOMAIN b.rows[e] /\ t.rows[e][k].status = "selected"
           /\ \E n \in SeatedAt(x, b, order) : e = Assigned(x, b, order)[n] /\ t.rows[e][k].who = WhoAt(x, b, order, n)
<1>. DEFINE K == DrawKinds(x, b, order)
            p == b.rows[e]
            r == t.rows[e]
<1>1. k \in DOMAIN r /\ r[k].status \in SeatStatuses
  BY DEF SeatsIn
<1>2. IF k \in DOMAIN p
      THEN r[k].status = p[k].status \/ Becomes(e, k, r[k].status) \in K
      ELSE r[k].status = "selected" /\ Seats(e, r[k].who) \in K
  BY <1>1 DEF Moved
<1>3. \A w \in K : /\ w.save # "row"
                   /\ w.save = "seat" => \E n \in SeatedAt(x, b, order) :
                                             w.event = Assigned(x, b, order)[n] /\ w.who = WhoAt(x, b, order, n)
  BY DrawKindsMean
<1>. HIDE DEF K
<1>4. Becomes(e, k, r[k].status) \notin K
  BY <1>3 DEF Becomes
<1>5. k \notin DOMAIN p
  BY <1>1, <1>2, <1>4 DEF SeatsIn
<1>6. \E n \in SeatedAt(x, b, order) : e = Assigned(x, b, order)[n] /\ r[k].who = WhoAt(x, b, order, n)
  BY <1>2, <1>3, <1>5 DEF Seats
<1>. QED BY <1>1, <1>2, <1>5, <1>6

(* What a cluster's draw, whole or in part, has done to b. *)
Ranked(x, b, t) ==
    /\ t \in Grown(b) /\ \A d \in Events : d \notin Members[x] => SameRows(b.rows[d], t.rows[d])
    /\ \A d \in Members[x] : Taken(t.rows[d]) <= Taken(b.rows[d]) + Cap[d]
    /\ \A y \in Clusters : \A k \in DOMAIN b.tickets[y] :
          t.tickets[y][k].status = b.tickets[y][k].status \/ (y = x /\ b.tickets[y][k].status = "pending")
    /\ t.drawn \subseteq b.drawn \cup Members[x]

LEMMA DrawRanked ==
    ASSUME InSchedule, NEW b, Sound(b), NEW x \in Clusters, NEW order \in Orders(x, b),
           NEW n \in 0..Len(ClusterDraw(x, b, order)), NEW t \in Reached(b, ClusterDraw(x, b, order), n)
    PROVE  Ranked(x, b, t)
<1>. DEFINE K == DrawKinds(x, b, order)
            to == Assigned(x, b, order)
<1>1. PICK front, back : Ranks(x, b, order, front, back)
  BY OrdersMean, DrawIs
<1>2. front \in Seq(K) /\ back \in Seq(K) /\ ClusterDraw(x, b, order) = front \o back
  BY <1>1, DrawAreSaves DEF Ranks
<1>3. t \in Grown(b) /\ Moved(b, t, ToSet(front) \cup ToSet(back))
  <2>. HIDE DEF K
  <2>1. n \in 0..Len(front \o back) /\ t \in Reached(b, front \o back, n)
    BY <1>2
  <2>. QED BY <1>2, <2>1, ReachedParts
<1>4. Moved(b, t, K)
  <2>. HIDE DEF K
  <2>1. ToSet(front) \cup ToSet(back) \subseteq K
    BY <1>2, ToSetSize
  <2>. QED BY <1>3, <2>1, MovedMore
<1>5. \A w \in K : /\ w.save # "row" /\ (w.save = "seat" => w.event \in Members[x])
                   /\ w.save = "ticket" => w.cluster = x /\ w.at \in At(b.tickets[x], "pending")
                   /\ w.save = "drawn" => w.event \in Members[x]
  BY DrawKindsMean
<1>6. ASSUME NEW d \in Events, d \notin Members[x] PROVE SameRows(b.rows[d], t.rows[d])
  <2>. HIDE DEF K
  <2>1. \A w \in K : w.save \in {"row", "seat"} => w.event # d
    BY <1>5, <1>6
  <2>. QED BY <1>3, <1>4, <2>1, MovedElsewhere
<1>7. ASSUME NEW y \in Clusters, NEW k \in DOMAIN b.tickets[y]
      PROVE  t.tickets[y][k].status = b.tickets[y][k].status \/ (y = x /\ b.tickets[y][k].status = "pending")
  <2>. HIDE DEF K
  <2>1. t.tickets[y][k].status = b.tickets[y][k].status \/ Marks(y, k, t.tickets[y][k].status) \in K
    BY <1>4 DEF Moved
  <2>2. \A status : Marks(y, k, status) \in K => y = x /\ k \in At(b.tickets[x], "pending")
    BY <1>5 DEF Marks
  <2>. QED BY <2>1, <2>2 DEF At
<1>8. t.drawn \subseteq b.drawn \cup Members[x]
  <2>. HIDE DEF K
  <2>1. \A d : Draws(d) \in K => d \in Members[x]
    BY <1>5 DEF Draws
  <2>. QED BY <1>4, <2>1 DEF Moved
<1>9. ASSUME NEW d \in Members[x] PROVE Taken(t.rows[d]) <= Taken(b.rows[d]) + Cap[d]
  <2>. DEFINE D == {i \in 1..Len(order) : to[i] = d}
              p == b.rows[d]
              r == t.rows[d]
              f == [k \in DOMAIN r |-> CHOOSE i \in D : WhoAt(x, b, order, i) = r[k].who]
  <2>1. order \in Seq(DOMAIN b.tickets[x]) /\ Len(order) \in Nat /\ DOMAIN order = 1..Len(order)
    <3>1. order \in Seq(DOMAIN b.tickets[x])
      BY OrdersMean
    <3>. QED BY <3>1
  <2>2. PICK left : Allots(left, x, b, order)
    BY <2>1, AssignedMeans
  <2>3. d \in Events /\ Free(x, b)[d] \in Nat /\ Free(x, b)[d] <= Cap[d] /\ Cap[d] \in Nat
    BY FreeMeans
  <2>4. IsFiniteSet(D) /\ Cardinality(D) <= Cap[d] /\ Cardinality(D) \in Nat
    <3>1. IsFiniteSet(1..Len(order)) /\ D \subseteq 1..Len(order)
      BY <2>1, FS_Interval
    <3>2. IsFiniteSet(D) /\ Cardinality(D) \in Nat
      <4>. HIDE DEF D
      <4>. QED BY <3>1, FS_Subset, FS_CardinalityType
    <3>3. Cardinality(D) + left[Len(order)][d] = Free(x, b)[d]
      BY <2>2 DEF Allots
    <3>4. left[Len(order)][d] \in Nat
      <4>1. left \in [0..Len(order) -> [Members[x] -> Nat]] /\ Len(order) \in 0..Len(order)
        BY <2>1, <2>2 DEF Allots
      <4>. QED BY <4>1
    <3>. HIDE DEF D
    <3>. QED BY <2>3, <3>2, <3>3, <3>4
  <2>5. p \in Seq(Rows) /\ r \in Seq(Rows) /\ RowsSound(d, r)
    BY <1>3, <2>3, GrownLengths
  <2>6. ASSUME NEW k \in SeatsIn(r), k \notin SeatsIn(p)
        PROVE  k \in DOMAIN r /\ f[k] \in D /\ WhoAt(x, b, order, f[k]) = r[k].who
    <3>1. k \in DOMAIN r /\ r[k].status \in SeatStatuses
      BY DEF SeatsIn
    <3>2. \E i \in SeatedAt(x, b, order) : d = to[i] /\ r[k].who = WhoAt(x, b, order, i)
      <4>1. \E i \in SeatedAt(x, b, order) : d = Assigned(x, b, order)[i] /\ t.rows[d][k].who = WhoAt(x, b, order, i)
        <5>1. Moved(b, t, DrawKinds(x, b, order)) /\ k \in SeatsIn(t.rows[d]) /\ k \notin SeatsIn(b.rows[d])
          BY <1>4, <2>6
        <5>. HIDE DEF K, to, r, p, f, D
        <5>. QED BY <1>3, <2>3, <5>1, NewSeat
      <4>. QED BY <4>1
    <3>3. \E i \in D : WhoAt(x, b, order, i) = r[k].who
      BY <2>1, <3>2 DEF SeatedAt
    <3>4. f[k] = CHOOSE i \in D : WhoAt(x, b, order, i) = r[k].who
      BY <3>1
    <3>. HIDE DEF D, r, f
    <3>. QED BY <3>1, <3>3, <3>4
  <2>7. ASSUME NEW j \in SeatsIn(r), NEW k \in SeatsIn(r), j \notin SeatsIn(p), k \notin SeatsIn(p), f[j] = f[k]
        PROVE  j = k
    <3>1. j \in DOMAIN r /\ k \in DOMAIN r /\ r[j].who = r[k].who
      BY <2>6, <2>7
    <3>2. j \in Nat /\ k \in Nat
      <4>. HIDE DEF r
      <4>. QED BY <2>5, <3>1
    <3>3. ~(j < k) /\ ~(k < j)
      BY <2>5, <3>1 DEF RowsSound
    <3>. QED BY <3>2, <3>3
  <2>. HIDE DEF D, f, p, r
  <2>8. Taken(r) <= Taken(p) + Cardinality(D) /\ Taken(r) \in Nat /\ Taken(p) \in Nat
    BY <2>4, <2>5, <2>6, <2>7, TakenGrows
  <2>. QED BY <2>3, <2>4, <2>8 DEF p, r
<1>. QED BY <1>3, <1>6, <1>7, <1>8, <1>9 DEF Ranked

(* Where a sweep has seated a character who was not seated there before. *)
NewIn(x, b, t, c) == {d \in Members[x] : Is(t.rows[d], c, SeatStatuses) /\ ~Is(b.rows[d], c, SeatStatuses)}

LEMMA NewInMeans ==
    ASSUME InSchedule, NEW b, Sound(b), NEW x \in Clusters, NEW t \in Grown(b), NEW c, NEW d \in NewIn(x, b, t, c)
    PROVE  d \in Events /\ \E k \in SeatsIn(t.rows[d]) : k \notin SeatsIn(b.rows[d]) /\ t.rows[d][k].who = c
<1>. DEFINE p == b.rows[d]
            r == t.rows[d]
<1>1. d \in Events /\ Is(r, c, SeatStatuses) /\ ~Is(p, c, SeatStatuses)
  BY DEF NewIn, InSchedule
<1>2. p \in Seq(Rows) /\ r \in Seq(Rows) /\ RowsSound(d, p) /\ RowsSound(d, r) /\ Kept(r, p)
  BY <1>1, GrownLengths
<1>. HIDE DEF p, r
<1>3. PICK k \in DOMAIN r : r[k].who = c /\ r[k].status \in SeatStatuses
  BY <1>1, <1>2, RowsIs
<1>4. k \notin SeatsIn(p)
  <2>. SUFFICES ASSUME k \in SeatsIn(p) PROVE FALSE
    OBVIOUS
  <2>1. k \in DOMAIN p /\ p[k].status \in SeatStatuses
    BY DEF SeatsIn
  <2>2. p[k].who = c
    BY <1>2, <1>3, <2>1 DEF Kept
  <2>. QED BY <1>1, <1>2, <2>1, <2>2, RowsIs
<1>5. k \in SeatsIn(r)
  BY <1>3 DEF SeatsIn
<1>. QED BY <1>1, <1>3, <1>4, <1>5 DEF p, r

LEMMA DrawSeats ==
    ASSUME InSchedule, NEW b, Sound(b), NEW x \in Clusters, NEW order \in Orders(x, b),
           NEW n \in 0..Len(ClusterDraw(x, b, order)), NEW t \in Reached(b, ClusterDraw(x, b, order), n), NEW c,
           NEW d \in NewIn(x, b, t, c)
    PROVE  /\ \A e \in NewIn(x, b, t, c) : e = d
           /\ ~Is(b.tickets[x], c, {"seated"})
           /\ n = Len(ClusterDraw(x, b, order)) => Is(t.tickets[x], c, {"seated"})
<1>. DEFINE K == DrawKinds(x, b, order)
            q == b.tickets[x]
            z == t.tickets[x]
<1>1. PICK front, back : Ranks(x, b, order, front, back)
  BY OrdersMean, DrawIs
<1>2. front \in Seq(K) /\ back \in Seq(K) /\ ClusterDraw(x, b, order) = front \o back
  BY <1>1, DrawAreSaves DEF Ranks
<1>3. /\ t \in Grown(b) /\ Moved(b, t, ToSet(front) \cup ToSet(back))
      /\ n >= Len(front) => \A i \in DOMAIN front : Made(b, t, front[i])
  <2>. HIDE DEF K
  <2>1. n \in 0..Len(front \o back) /\ t \in Reached(b, front \o back, n)
    BY <1>2
  <2>. QED BY <1>2, <2>1, ReachedParts
<1>4. Moved(b, t, DrawKinds(x, b, order))
  <2>. DEFINE V == ToSet(front) \cup ToSet(back)
  <2>1. V \subseteq K
    <3>. HIDE DEF K
    <3>. QED BY <1>2, ToSetSize
  <2>. HIDE DEF V
  <2>2. Moved(b, t, V)
    BY <1>3 DEF V
  <2>. QED BY <2>1, <2>2, MovedMore
<1>5. order \in Seq(At(q, "pending")) /\ order \in Seq(DOMAIN q)
  BY OrdersMean
<1>6. /\ q \in Seq(Applications(x)) /\ TicketsSound(x, q) /\ z \in Seq(Applications(x)) /\ TicketsSound(x, z)
      /\ DOMAIN z = DOMAIN q /\ \A k \in DOMAIN q : z[k].who = q[k].who
  BY <1>3, QueueIs
<1>7. ASSUME NEW e \in NewIn(x, b, t, c)
      PROVE  \E i \in SeatedAt(x, b, order) : e = Assigned(x, b, order)[i] /\ c = WhoAt(x, b, order, i)
  <2>1. e \in Events
    BY <1>3, NewInMeans
  <2>2. PICK k \in SeatsIn(t.rows[e]) : k \notin SeatsIn(b.rows[e]) /\ t.rows[e][k].who = c
    BY <1>3, NewInMeans
  <2>3. \E i \in SeatedAt(x, b, order) : e = Assigned(x, b, order)[i] /\ t.rows[e][k].who = WhoAt(x, b, order, i)
    BY <1>3, <1>4, <2>1, <2>2, NewSeat
  <2>. QED BY <2>2, <2>3
<1>8. PICK i \in SeatedAt(x, b, order) : d = Assigned(x, b, order)[i] /\ c = WhoAt(x, b, order, i)
  BY <1>7
<1>9. ASSUME NEW e \in NewIn(x, b, t, c) PROVE e = d
  <2>1. PICK j \in SeatedAt(x, b, order) : e = Assigned(x, b, order)[j] /\ c = WhoAt(x, b, order, j)
    BY <1>7
  <2>2. i \in DOMAIN order /\ j \in DOMAIN order /\ WhoAt(x, b, order, i) = WhoAt(x, b, order, j)
    BY <1>8, <2>1 DEF SeatedAt
  <2>3. i = j
    BY <2>2, OneTicketEach
  <2>. QED BY <1>8, <2>1, <2>3
<1>10. /\ order[i] \in DOMAIN q /\ q[order[i]].status = "pending" /\ q[order[i]].who = c
  <2>1. i \in DOMAIN order
    BY DEF SeatedAt
  <2>2. order[i] \in At(q, "pending")
    <3>. HIDE DEF q
    <3>. QED BY <1>5, <2>1
  <2>. QED BY <1>8, <2>2 DEF At, WhoAt
<1>11. ~Is(q, c, {"seated"})
  <2>. HIDE DEF q
  <2>1. Is(q, c, {"seated"}) => \E j \in DOMAIN q : q[j].who = c /\ q[j].status \in {"seated"}
    BY <1>6, TicketsIs
  <2>2. \A j \in DOMAIN q : q[j].who = q[order[i]].who => j = order[i]
    BY <1>6, <1>10, TicketsIs
  <2>. QED BY <1>10, <2>1, <2>2
<1>12. ASSUME n = Len(ClusterDraw(x, b, order)) PROVE Is(z, c, {"seated"})
  <2>1. n >= Len(front)
    <3>. HIDE DEF K
    <3>1. Len(front) \in Nat /\ Len(back) \in Nat /\ n = Len(front) + Len(back)
      BY <1>2, <1>12
    <3>. QED BY <3>1
  <2>2. \E j \in DOMAIN front : front[j] = Marks(x, order[i], "seated")
    BY <1>1 DEF Ranks
  <2>3. Made(b, t, Marks(x, order[i], "seated"))
    BY <1>3, <2>1, <2>2
  <2>4. z[order[i]].status = "seated"
    BY <2>3 DEF Made, Marks
  <2>. HIDE DEF z, q
  <2>5. order[i] \in DOMAIN z /\ z[order[i]].who = c /\ z[order[i]].status \in {"seated"}
    BY <1>6, <1>10, <2>4
  <2>. QED BY <1>6, <2>5, TicketsIs
<1>. QED BY <1>9, <1>11, <1>12

LEMMA DrawEnds ==
    ASSUME InSchedule, NEW b, Sound(b), NEW x \in Clusters, NEW order \in Orders(x, b),
           NEW n \in 0..Len(ClusterDraw(x, b, order)), NEW t \in Reached(b, ClusterDraw(x, b, order), n)
    PROVE  n = Len(ClusterDraw(x, b, order)) => Members[x] \cap t.drawn # {}
<1>. DEFINE K == DrawKinds(x, b, order)
<1>1. PICK front, back : Ranks(x, b, order, front, back)
  BY OrdersMean, DrawIs
<1>2. front \in Seq(K) /\ back \in Seq(K) /\ ClusterDraw(x, b, order) = front \o back /\ back \in Seq(Closes(x)) /\ back # <<>>
  BY <1>1, DrawAreSaves DEF Ranks
<1>3. n = Len(front \o back) => \A i \in DOMAIN back : Made(b, t, back[i])
  <2>. HIDE DEF K
  <2>1. n \in 0..Len(front \o back) /\ t \in Reached(b, front \o back, n)
    BY <1>2
  <2>. QED BY <1>2, <2>1, ReachedParts
<1>4. 1 \in DOMAIN back /\ back[1] \in Closes(x)
  <2>. HIDE DEF K
  <2>. QED BY <1>2
<1>5. PICK e \in Members[x] : back[1] = Draws(e)
  BY <1>4 DEF Closes
<1>6. Made(b, t, Draws(e)) => e \in t.drawn
  BY DEF Made, Draws
<1>. QED BY <1>2, <1>3, <1>4, <1>5, <1>6

-----------------------------------------------------------------------------
(***************************************************************************)
(* A sweep of an event: its lottery, its expiry, its tokens, of each of    *)
(* which the saves up to some n-th have been made.                         *)
(***************************************************************************)
LotteryStep(e, b, s) ==
    \/ s = b
    \/ /\ LotteryDue(e)
       /\ \E saves, S, n : /\ Lots(e, b, saves, S) /\ n \in 0..Len(saves) /\ s \in Reached(b, saves, n)
                           /\ n = Len(saves) \/ Interrupted(e)
ExpiryStep(e, s, u) ==
    \/ u = s
    \/ \E n \in 0..Len(Expiry(e, s)) :
          /\ u \in Reached(s, Expiry(e, s), n)
          /\ n = Len(Expiry(e, s)) \/ Expiry(e, s)[n + 1].save = "seat" \/ Interrupted(e)
IssueStep(e, u, t) ==
    \/ t = u
    \/ TokensDue(e) /\ \E n \in 0..Len(PostEventTokens(e, u)) : t \in Reached(u, PostEventTokens(e, u), n)

LEMMA NothingSaved ==
    ASSUME NEW b
    PROVE  Whole(b, <<>>) = b /\ Partly(b, <<>>) = {b}
<1>. DEFINE G == [n \in {0} |-> {b}]
            z == <<>>
<1>1. z \in Seq({}) /\ DOMAIN z = {} /\ 0..Len(z) = {0} /\ G[0] = {b}
  OBVIOUS
<1>. HIDE DEF G, z
<1>2. /\ \A t \in Partly(b, z) : \E n \in 0..Len(z) : t \in G[n]
      /\ Whole(b, z) \in Partly(b, z)
  BY <1>1, TrailSteps
<1>3. \A t \in Partly(b, z) : t = b
  BY <1>1, <1>2
<1>4. Whole(b, z) = b /\ Partly(b, z) = {b}
  BY <1>2, <1>3
<1>. QED BY <1>4 DEF z

LEMMA LotteryStepIs ==
    ASSUME InSchedule, Sound(State), NEW e \in Events, NEW saves \in Drawings(e)
    PROVE  /\ LotteryStep(e, State, Whole(State, saves))
           /\ Interrupted(e) => \A s \in Partly(State, saves) : LotteryStep(e, State, s)
           /\ \A s \in Partly(State, saves) \cup {Whole(State, saves)} : s \in Grown(State) /\ Sound(s)
<1>. DEFINE b == State
<1>1. CASE LotteryDue(e)
  <2>1. saves \in Lotteries(e, b) /\ e \in Staff
    BY <1>1 DEF Drawings, LotteryDue
  <2>2. PICK S : Lots(e, b, saves, S)
    BY <2>1, LotteryIs
  <2>3. saves \in Seq(SavesOf(b)) /\ Orderly(saves) /\ ~Stopped(b, saves)
    BY <2>1, <2>2, LotsAreSaves
  <2>4. Len(saves) \in 0..Len(saves)
    BY <2>3
  <2>. HIDE DEF b
  <2>5. /\ \A s \in Partly(b, saves) : \E n \in 0..Len(saves) : s \in Reached(b, saves, n)
        /\ Whole(b, saves) \in Reached(b, saves, Len(saves))
    BY <2>3, TrailReaches DEF b
  <2>6. LotteryStep(e, b, Whole(b, saves))
    BY <1>1, <2>2, <2>4, <2>5 DEF LotteryStep
  <2>7. Interrupted(e) => \A s \in Partly(b, saves) : LotteryStep(e, b, s)
    BY <1>1, <2>2, <2>5 DEF LotteryStep
  <2>8. \A s \in Partly(b, saves) \cup {Whole(b, saves)} : s \in Grown(b)
    BY <2>5 DEF Reached
  <2>. QED BY <2>6, <2>7, <2>8 DEF b, Grown
<1>2. CASE ~LotteryDue(e)
  <2>1. saves = <<>>
    BY <1>2 DEF Drawings
  <2>2. Whole(b, saves) = b /\ Partly(b, saves) = {b}
    BY <2>1, NothingSaved
  <2>. HIDE DEF b
  <2>3. b \in Grown(b) /\ Sound(b)
    BY GrownSelf DEF b
  <2>. QED BY <2>2, <2>3 DEF LotteryStep, b
<1>. QED BY <1>1, <1>2

LEMMA ExpiryStepIs ==
    ASSUME InSchedule, NEW s, Sound(s), NEW e \in Events
    PROVE  /\ ExpiryStep(e, s, Whole(s, Expiring(e, s)))
           /\ Interrupted(e) => \A u \in Partly(s, Expiring(e, s)) : ExpiryStep(e, s, u)
           /\ \A u \in Partly(s, Expiring(e, s)) \cup {Whole(s, Expiring(e, s))} : u \in Grown(s) /\ Sound(u)
<1>1. CASE phase[e] >= Deadline
  <2>. DEFINE saves == Expiry(e, s)
  <2>1. Expiring(e, s) = saves
    BY <1>1 DEF Expiring
  <2>2. saves \in Seq(SavesOf(s)) /\ Orderly(saves)
    BY ExpiryIs, ExpiryAreSaves
  <2>. HIDE DEF saves
  <2>3. /\ \A u \in Partly(s, saves) : \E n \in 0..Len(saves) : u \in Reached(s, saves, n)
        /\ ~Stopped(s, saves) => Whole(s, saves) \in Reached(s, saves, Len(saves))
        /\ Stopped(s, saves) =>
              \E n \in DOMAIN saves : Whole(s, saves) \in Reached(s, saves, n - 1) /\ saves[n].save = "seat"
    BY <2>2, TrailReaches
  <2>4. Len(saves) \in 0..Len(saves) /\ \A n \in DOMAIN saves : n - 1 \in 0..Len(saves) /\ (n - 1) + 1 = n
    BY <2>2
  <2>5. \E n \in 0..Len(saves) : Whole(s, saves) \in Reached(s, saves, n) /\ (n = Len(saves) \/ saves[n + 1].save = "seat")
    <3>1. CASE ~Stopped(s, saves)
      BY <2>3, <2>4, <3>1
    <3>2. CASE Stopped(s, saves)
      <4>1. PICK n \in DOMAIN saves : Whole(s, saves) \in Reached(s, saves, n - 1) /\ saves[n].save = "seat"
        BY <2>3, <3>2
      <4>. DEFINE m == n - 1
      <4>2. m \in 0..Len(saves) /\ m + 1 = n
        BY <2>4
      <4>. HIDE DEF m
      <4>3. Whole(s, saves) \in Reached(s, saves, m) /\ saves[m + 1].save = "seat"
        BY <4>1, <4>2 DEF m
      <4>. QED BY <4>2, <4>3
    <3>. QED BY <3>1, <3>2
  <2>6. ExpiryStep(e, s, Whole(s, saves))
    BY <2>5 DEF ExpiryStep, saves
  <2>7. Interrupted(e) => \A u \in Partly(s, saves) : ExpiryStep(e, s, u)
    BY <2>3 DEF ExpiryStep, saves
  <2>8. \A u \in Partly(s, saves) \cup {Whole(s, saves)} : u \in Grown(s)
    BY <2>3, <2>5 DEF Reached
  <2>. QED BY <2>1, <2>6, <2>7, <2>8 DEF Grown
<1>2. CASE ~(phase[e] >= Deadline)
  <2>1. Expiring(e, s) = <<>>
    BY <1>2 DEF Expiring
  <2>2. Whole(s, Expiring(e, s)) = s /\ Partly(s, Expiring(e, s)) = {s}
    BY <2>1, NothingSaved
  <2>3. s \in Grown(s)
    BY GrownSelf
  <2>. QED BY <2>2, <2>3 DEF ExpiryStep
<1>. QED BY <1>1, <1>2

LEMMA IssueStepIs ==
    ASSUME InSchedule, NEW u, Sound(u), NEW e \in Events
    PROVE  \A t \in Partly(u, Issuing(e, u)) \cup {Whole(u, Issuing(e, u))} : IssueStep(e, u, t)
<1>1. CASE TokensDue(e)
  <2>. DEFINE saves == PostEventTokens(e, u)
  <2>1. Issuing(e, u) = saves
    BY <1>1 DEF Issuing
  <2>2. saves \in Seq(SavesOf(u)) /\ saves \in Seq(NewTokenSaves)
    BY PostEventTokensSaves
  <2>. HIDE DEF saves
  <2>3. Orderly(saves)
    <3>1. \A i \in DOMAIN saves : saves[i] \in NewTokenSaves
      BY <2>2
    <3>2. \A i \in DOMAIN saves : saves[i].save = "issue"
      BY <3>1 DEF NewTokenSaves
    <3>. QED BY <3>2 DEF Orderly, Clash
  <2>4. /\ \A t \in Partly(u, saves) : \E n \in 0..Len(saves) : t \in Reached(u, saves, n)
        /\ Whole(u, saves) \in Partly(u, saves)
    BY <2>2, <2>3, TrailReaches
  <2>. QED BY <1>1, <2>1, <2>4 DEF IssueStep, saves
<1>2. CASE ~TokensDue(e)
  <2>1. Issuing(e, u) = <<>>
    BY <1>2 DEF Issuing
  <2>2. Whole(u, Issuing(e, u)) = u /\ Partly(u, Issuing(e, u)) = {u}
    BY <2>1, NothingSaved
  <2>. QED BY <2>2 DEF IssueStep
<1>. QED BY <1>1, <1>2

LEMMA SweepIs ==
    ASSUME InSchedule, Sound(State), NEW e \in Events, Script(e)
    PROVE  \E s, u, t : /\ LotteryStep(e, State, s) /\ Sound(s) /\ s \in Grown(State)
                        /\ ExpiryStep(e, s, u) /\ Sound(u) /\ u \in Grown(s)
                        /\ IssueStep(e, u, t)
                        /\ Leaves(t) /\ (UNCHANGED crashes \/ Interrupted(e))
<1>1. CASE Sweep(e)
  <2>1. PICK saves \in Drawings(e) :
          LET s == Whole(State, saves)
              x == Whole(s, Expiring(e, s))
          IN  Leaves(Whole(x, Issuing(e, x)))
    BY <1>1, Zenon DEF Sweep
  <2>. DEFINE s == Whole(State, saves)
              u == Whole(s, Expiring(e, s))
              t == Whole(u, Issuing(e, u))
  <2>2. Leaves(t) /\ UNCHANGED crashes
    BY <1>1, <2>1, Zenon DEF Sweep
  <2>3. LotteryStep(e, State, s) /\ Sound(s) /\ s \in Grown(State)
    BY LotteryStepIs
  <2>. HIDE DEF s
  <2>4. ExpiryStep(e, s, u) /\ Sound(u) /\ u \in Grown(s)
    BY <2>3, ExpiryStepIs
  <2>. HIDE DEF u
  <2>5. IssueStep(e, u, t)
    BY <2>4, IssueStepIs
  <2>. QED BY <2>2, <2>3, <2>4, <2>5
<1>2. CASE SweepInterrupted(e)
  <2>1. PICK saves \in Drawings(e) :
          LET s == Whole(State, saves)
              x == Whole(s, Expiring(e, s))
          IN  \E part \in Partly(State, saves) \cup Partly(s, Expiring(e, s)) \cup Partly(x, Issuing(e, x)) :
                 part # State /\ Leaves(part)
    BY <1>2, Zenon DEF SweepInterrupted
  <2>. DEFINE s == Whole(State, saves)
              u == Whole(s, Expiring(e, s))
  <2>2. PICK t \in Partly(State, saves) \cup Partly(s, Expiring(e, s)) \cup Partly(u, Issuing(e, u)) : Leaves(t)
    BY <2>1, Zenon
  <2>3. Interrupted(e)
    BY <1>2, Zenon DEF SweepInterrupted
  <2>4. /\ LotteryStep(e, State, s) /\ Sound(s) /\ s \in Grown(State)
        /\ \A w \in Partly(State, saves) : LotteryStep(e, State, w) /\ Sound(w) /\ w \in Grown(State)
    BY <2>3, LotteryStepIs
  <2>. HIDE DEF s
  <2>5. /\ ExpiryStep(e, s, u) /\ Sound(u) /\ u \in Grown(s)
        /\ \A w \in Partly(s, Expiring(e, s)) : ExpiryStep(e, s, w) /\ Sound(w) /\ w \in Grown(s)
    BY <2>3, <2>4, ExpiryStepIs
  <2>. HIDE DEF u
  <2>6. \A w \in Partly(u, Issuing(e, u)) : IssueStep(e, u, w)
    BY <2>5, IssueStepIs
  <2>7. \A w : ExpiryStep(e, w, w) /\ IssueStep(e, w, w)
    BY DEF ExpiryStep, IssueStep
  <2>8. CASE t \in Partly(State, saves)
    <3>1. LotteryStep(e, State, t) /\ Sound(t) /\ t \in Grown(State)
      BY <2>4, <2>8
    <3>2. t \in Grown(t)
      BY <3>1, GrownSelf
    <3>. QED BY <2>2, <2>3, <2>7, <3>1, <3>2
  <2>9. CASE t \in Partly(s, Expiring(e, s))
    BY <2>2, <2>3, <2>4, <2>5, <2>7, <2>9
  <2>10. CASE t \in Partly(u, Issuing(e, u))
    BY <2>2, <2>3, <2>4, <2>5, <2>6, <2>10
  <2>. QED BY <2>2, <2>8, <2>9, <2>10
<1>. QED BY <1>1, <1>2 DEF Script

(* t is b but for the event e, and the tickets of a cluster that e is of;  *)
(* with at most m seats more, if staff host it.                            *)
Touched(e, b, t, m) ==
    /\ t \in Grown(b) /\ \A d \in Events : d # e => SameRows(b.rows[d], t.rows[d])
    /\ \A x \in Clusters : e \notin Members[x] =>
          \A k \in DOMAIN b.tickets[x] : t.tickets[x][k].status = b.tickets[x][k].status
    /\ e \in Staff \cap StaffHosted => Taken(t.rows[e]) <= Taken(b.rows[e]) + m

LEMMA RowsTaken ==
    ASSUME NEW b, Sound(b), NEW e \in Events
    PROVE  b.rows[e] \in Seq(Rows) /\ RowsSound(e, b.rows[e]) /\ Taken(b.rows[e]) \in Nat
<1>1. b.rows[e] \in Seq(Rows) /\ RowsSound(e, b.rows[e])
  BY DEF Sound, Databases
<1>. QED BY <1>1, TakenIs

LEMMA TouchedSelf ==
    ASSUME NEW b, Sound(b), NEW e \in Events
    PROVE  Touched(e, b, b, 0)
<1>1. b \in Grown(b) /\ Taken(b.rows[e]) \in Nat
  BY GrownSelf, RowsTaken
<1>2. \A d \in Events : SameRows(b.rows[d], b.rows[d])
  BY DEF SameRows
<1>. QED BY <1>1, <1>2 DEF Touched

LEMMA TouchedTwice ==
    ASSUME InSchedule, NEW b, Sound(b), NEW t, Sound(t), NEW u, NEW e \in Events, NEW m \in Nat, NEW n \in Nat,
           Touched(e, b, t, m), Touched(e, t, u, n)
    PROVE  Touched(e, b, u, m + n)
<1>1. t \in Grown(b) /\ u \in Grown(t)
  BY DEF Touched
<1>2. u \in Grown(b)
  BY <1>1, GrownTwice
<1>3. ASSUME NEW d \in Events, d # e PROVE SameRows(b.rows[d], u.rows[d])
  <2>1. SameRows(b.rows[d], t.rows[d]) /\ SameRows(t.rows[d], u.rows[d])
    BY <1>3 DEF Touched
  <2>. QED BY <2>1 DEF SameRows
<1>4. ASSUME NEW x \in Clusters, e \notin Members[x], NEW k \in DOMAIN b.tickets[x]
      PROVE  u.tickets[x][k].status = b.tickets[x][k].status
  <2>1. k \in DOMAIN t.tickets[x]
    BY <1>1, GrownLengths
  <2>. QED BY <1>4, <2>1 DEF Touched
<1>5. e \in Staff \cap StaffHosted => Taken(u.rows[e]) <= Taken(b.rows[e]) + (m + n)
  <2>1. Sound(u)
    BY <1>1 DEF Grown
  <2>2. Taken(b.rows[e]) \in Nat /\ Taken(t.rows[e]) \in Nat /\ Taken(u.rows[e]) \in Nat
    BY <2>1, RowsTaken
  <2>3. e \in Staff \cap StaffHosted => Taken(t.rows[e]) <= Taken(b.rows[e]) + m /\ Taken(u.rows[e]) <= Taken(t.rows[e]) + n
    BY DEF Touched
  <2>. QED BY <2>2, <2>3
<1>. QED BY <1>2, <1>3, <1>4, <1>5 DEF Touched

LEMMA LotteryTouches ==
    ASSUME InSchedule, Sound(State), NEW e \in Events, NEW s, LotteryStep(e, State, s)
    PROVE  \/ Touched(e, State, s, 0)
           \/ /\ Touched(e, State, s, Cap[e]) /\ LotteryDue(e)
              /\ e \in s.drawn \/ Interrupted(e)
<1>. DEFINE b == State
<1>1. CASE s = State
  BY <1>1, TouchedSelf
<1>2. ASSUME LotteryDue(e), NEW saves, NEW S, NEW n \in 0..Len(saves), Lots(e, State, saves, S),
             s \in Reached(State, saves, n), n = Len(saves) \/ Interrupted(e)
      PROVE  Touched(e, State, s, Cap[e]) /\ (e \in s.drawn \/ Interrupted(e))
  <2>1. e \in Staff
    BY <1>2 DEF LotteryDue
  <2>. HIDE DEF b
  <2>2. Sound(b) /\ Lots(e, b, saves, S) /\ s \in Reached(b, saves, n)
    BY <1>2 DEF b
  <2>3. Drew(e, b, s) /\ (n = Len(saves) => e \in s.drawn)
    BY <1>2, <2>1, <2>2, LotteryDrew
  <2>4. Touched(e, b, s, Cap[e])
    BY <2>3 DEF Drew, Touched
  <2>. QED BY <1>2, <2>3, <2>4 DEF b
<1>. QED BY <1>1, <1>2, Zenon DEF LotteryStep

LEMMA ExpiryTouches ==
    ASSUME InSchedule, NEW s, Sound(s), NEW e \in Events, NEW u, ExpiryStep(e, s, u)
    PROVE  Touched(e, s, u, 0) /\ u.drawn = s.drawn
<1>1. CASE u = s
  BY <1>1, TouchedSelf
<1>2. CASE \E n \in 0..Len(Expiry(e, s)) : u \in Reached(s, Expiry(e, s), n)
  <2>1. Lapsed(e, s, u)
    BY <1>2, ExpiryLapsed
  <2>2. \A x \in Clusters : e \notin Members[x] =>
          \A k \in DOMAIN s.tickets[x] : u.tickets[x][k].status = s.tickets[x][k].status
    BY <2>1 DEF Lapsed
  <2>3. Taken(s.rows[e]) \in Nat
    BY RowsTaken
  <2>4. s.drawn \subseteq u.drawn
    BY <2>1 DEF Lapsed, Grown
  <2>. QED BY <2>1, <2>2, <2>3, <2>4 DEF Lapsed, Touched
<1>. QED BY <1>1, <1>2, Zenon DEF ExpiryStep

LEMMA IssueTouches ==
    ASSUME InSchedule, NEW u, Sound(u), NEW e \in Events, NEW t, IssueStep(e, u, t)
    PROVE  /\ Touched(e, u, t, 0) /\ t.drawn = u.drawn /\ SameRows(u.rows[e], t.rows[e])
           /\ \A k \in DOMAIN u.tokens : t.tokens[k] = u.tokens[k]
<1>1. CASE t = u
  <2>1. SameRows(u.rows[e], u.rows[e])
    BY DEF SameRows
  <2>. QED BY <1>1, <2>1, TouchedSelf
<1>2. ASSUME NEW n \in 0..Len(PostEventTokens(e, u)), t \in Reached(u, PostEventTokens(e, u), n)
      PROVE  /\ Touched(e, u, t, 0) /\ t.drawn = u.drawn /\ SameRows(u.rows[e], t.rows[e])
             /\ \A k \in DOMAIN u.tokens : t.tokens[k] = u.tokens[k]
  <2>. DEFINE saves == PostEventTokens(e, u)
              V == {saves[i] : i \in 1..n}
  <2>1. t \in Grown(u) /\ Moved(u, t, V)
    BY <1>2 DEF Reached
  <2>2. saves \in Seq(NewTokenSaves)
    BY PostEventTokensSaves
  <2>3. n \in 0..Len(saves)
    BY <1>2
  <2>. HIDE DEF saves
  <2>4. \A w \in V : w.save = "issue"
    <3>1. \A i \in 1..n : saves[i] \in NewTokenSaves
      BY <2>2, <2>3
    <3>. QED BY <3>1 DEF NewTokenSaves
  <2>. HIDE DEF V
  <2>5. \A d \in Events : SameRows(u.rows[d], t.rows[d])
    BY <2>1, <2>4, MovedElsewhere
  <2>6. \A x \in Clusters : \A k \in DOMAIN u.tickets[x] : t.tickets[x][k].status = u.tickets[x][k].status
    <3>1. \A x, k, status : Marks(x, k, status) \notin V
      BY <2>4 DEF Marks
    <3>. QED BY <2>1, <3>1 DEF Moved
  <2>7. \A k \in DOMAIN u.tokens : t.tokens[k] = u.tokens[k]
    <3>1. \A k, use : Redeems(k, use) \notin V
      BY <2>4 DEF Redeems
    <3>. QED BY <2>1, <3>1 DEF Moved
  <2>8. t.drawn \subseteq u.drawn /\ u.drawn \subseteq t.drawn
    <3>1. \A d : Draws(d) \notin V
      BY <2>4 DEF Draws
    <3>. QED BY <2>1, <3>1 DEF Moved, Grown
  <2>9. Taken(t.rows[e]) = Taken(u.rows[e]) /\ Taken(u.rows[e]) \in Nat
    <3>1. Sound(t)
      BY <2>1 DEF Grown
    <3>2. /\ u.rows[e] \in Seq(Rows) /\ RowsSound(e, u.rows[e]) /\ Taken(u.rows[e]) \in Nat
          /\ t.rows[e] \in Seq(Rows) /\ RowsSound(e, t.rows[e])
      BY <3>1, RowsTaken
    <3>. QED BY <2>5, <3>2, SameRowsMean
  <2>. QED BY <2>1, <2>5, <2>6, <2>7, <2>8, <2>9 DEF Touched
<1>. QED BY <1>1, <1>2 DEF IssueStep

-----------------------------------------------------------------------------
(***************************************************************************)
(* Seats and marks, after a sweep of an event or a cluster.                *)
(***************************************************************************)
Drawn(s, e) == IF Clustered(e) THEN Members[ClusterOf(e)] \cap s.drawn # {} ELSE e \in s.drawn
GivesSeats(job, b, t, d) ==
    \/ Taken(t.rows[d]) <= Taken(b.rows[d])
    \/ /\ Taken(t.rows[d]) <= Taken(b.rows[d]) + Cap[d]
       /\ job \in {d} \cup {x \in Clusters : d \in Members[x]}
       /\ Interrupted(job) \/ (~Drawn(b, d) /\ Drawn(t, d))
MarksSeats(job, b, t, x, c) ==
    /\ Is(b.tickets[x], c, {"seated"}) => Is(t.tickets[x], c, {"seated"})
    /\ \A d \in NewIn(x, b, t, c) :
          /\ \A e \in NewIn(x, b, t, c) : e = d
          /\ \/ Interrupted(job) /\ job \in {x} \cup Members[x]
             \/ ~Is(b.tickets[x], c, {"seated"}) /\ Is(t.tickets[x], c, {"seated"})
Sweeps(job, b, t) ==
    /\ t \in Grown(b)
    /\ \A d \in Events \cap Staff \cap StaffHosted : GivesSeats(job, b, t, d)
    /\ \A x \in Clusters : \A c : MarksSeats(job, b, t, x, c)

LEMMA SeatedStays ==
    ASSUME InSchedule, NEW b, Sound(b), NEW t \in Grown(b), NEW x \in Clusters,
           \A k \in DOMAIN b.tickets[x] : b.tickets[x][k].status = "seated" => t.tickets[x][k].status = "seated",
           NEW c, Is(b.tickets[x], c, {"seated"})
    PROVE  Is(t.tickets[x], c, {"seated"})
<1>. DEFINE q == b.tickets[x]
            z == t.tickets[x]
<1>1. /\ q \in Seq(Applications(x)) /\ TicketsSound(x, q) /\ z \in Seq(Applications(x)) /\ TicketsSound(x, z)
      /\ DOMAIN z = DOMAIN q /\ \A k \in DOMAIN q : z[k].who = q[k].who
  BY QueueIs
<1>2. Is(q, c, {"seated"}) /\ \A k \in DOMAIN q : q[k].status = "seated" => z[k].status = "seated"
  OBVIOUS
<1>. HIDE DEF q, z
<1>3. PICK k \in DOMAIN q : q[k].who = c /\ q[k].status \in {"seated"}
  BY <1>1, <1>2, TicketsIs
<1>4. k \in DOMAIN z /\ z[k].who = c /\ z[k].status \in {"seated"}
  BY <1>1, <1>2, <1>3
<1>. QED BY <1>1, <1>4, TicketsIs DEF z

LEMMA NotNewIn ==
    ASSUME InSchedule, NEW b, Sound(b), NEW t \in Grown(b), NEW x \in Clusters, NEW d \in Members[x],
           SameRows(b.rows[d], t.rows[d]), NEW c
    PROVE  d \notin NewIn(x, b, t, c)
<1>1. d \in Events /\ Sound(t)
  BY DEF Grown, InSchedule
<1>2. /\ b.rows[d] \in Seq(Rows) /\ RowsSound(d, b.rows[d])
      /\ t.rows[d] \in Seq(Rows) /\ RowsSound(d, t.rows[d])
  BY <1>1, RowsTaken
<1>3. Is(t.rows[d], c, SeatStatuses) <=> Is(b.rows[d], c, SeatStatuses)
  BY <1>2, SameRowsMean
<1>. QED BY <1>3 DEF NewIn

LEMMA SweptAlone ==
    ASSUME InSchedule, Sound(State), NEW e \in Events, ~Clustered(e), NEW s, NEW u, NEW t,
           LotteryStep(e, State, s), Sound(s), s \in Grown(State), ExpiryStep(e, s, u), Sound(u), u \in Grown(s),
           IssueStep(e, u, t)
    PROVE  Sweeps(e, State, t)
<1>. DEFINE b == State
<1>0. Sound(b) /\ drawn = b.drawn
  BY DEF State
<1>1. /\ Touched(e, s, u, 0) /\ u.drawn = s.drawn
      /\ Touched(e, u, t, 0) /\ t.drawn = u.drawn
  BY ExpiryTouches, IssueTouches
<1>2. PICK m \in Nat : /\ Touched(e, b, s, m)
                       /\ m = 0 \/ (m = Cap[e] /\ e \notin b.drawn /\ (e \in s.drawn \/ Interrupted(e)))
  <2>1. Cap[e] \in Nat
    BY CapIsPositive
  <2>2. \/ Touched(e, b, s, 0)
        \/ Touched(e, b, s, Cap[e]) /\ e \notin b.drawn /\ (e \in s.drawn \/ Interrupted(e))
    BY <1>0, LotteryTouches DEF LotteryDue
  <2>. QED BY <2>1, <2>2
<1>. HIDE DEF b
<1>3. Touched(e, b, t, m)
  <2>1. Touched(e, b, u, m + 0)
    BY <1>0, <1>1, <1>2, TouchedTwice
  <2>2. m + 0 = m
    OBVIOUS
  <2>3. Touched(e, b, u, m)
    BY <2>1, <2>2
  <2>4. Touched(e, b, t, m + 0)
    BY <1>0, <1>1, <2>3, TouchedTwice
  <2>. QED BY <2>2, <2>4
<1>4. t \in Grown(b) /\ Sound(t)
  BY <1>3 DEF Touched, Grown
<1>5. ASSUME NEW d \in Events \cap Staff \cap StaffHosted PROVE GivesSeats(e, b, t, d)
  <2>1. Taken(b.rows[d]) \in Nat /\ Taken(t.rows[d]) \in Nat
    BY <1>0, <1>4, RowsTaken
  <2>2. CASE d # e
    <3>1. SameRows(b.rows[d], t.rows[d])
      BY <1>3, <2>2 DEF Touched
    <3>2. /\ b.rows[d] \in Seq(Rows) /\ RowsSound(d, b.rows[d])
          /\ t.rows[d] \in Seq(Rows) /\ RowsSound(d, t.rows[d])
      BY <1>0, <1>4, RowsTaken
    <3>3. Taken(t.rows[d]) = Taken(b.rows[d])
      BY <3>1, <3>2, SameRowsMean
    <3>. QED BY <2>1, <3>3 DEF GivesSeats
  <2>3. CASE d = e
    <3>1. Taken(t.rows[d]) <= Taken(b.rows[d]) + m
      BY <1>3, <2>3 DEF Touched
    <3>2. CASE m = 0
      BY <2>1, <3>1, <3>2 DEF GivesSeats
    <3>3. CASE m = Cap[e] /\ e \notin b.drawn /\ (e \in s.drawn \/ Interrupted(e))
      <4>1. Interrupted(e) \/ (~Drawn(b, e) /\ Drawn(t, e))
        BY <1>1, <3>3 DEF Drawn
      <4>. QED BY <2>3, <3>1, <3>3, <4>1 DEF GivesSeats
    <3>. QED BY <1>2, <3>2, <3>3
  <2>. QED BY <2>2, <2>3
<1>6. ASSUME NEW x \in Clusters, NEW c PROVE MarksSeats(e, b, t, x, c)
  <2>1. e \notin Members[x]
    BY DEF Clustered
  <2>2. \A k \in DOMAIN b.tickets[x] : t.tickets[x][k].status = b.tickets[x][k].status
    BY <1>3, <2>1 DEF Touched
  <2>3. Is(b.tickets[x], c, {"seated"}) => Is(t.tickets[x], c, {"seated"})
    BY <1>0, <1>4, <2>2, SeatedStays
  <2>4. ASSUME NEW d \in NewIn(x, b, t, c) PROVE FALSE
    <3>1. d \in Members[x] /\ d \in Events /\ d # e
      BY <2>1 DEF NewIn, InSchedule
    <3>2. SameRows(b.rows[d], t.rows[d])
      BY <1>3, <3>1 DEF Touched
    <3>. QED BY <1>0, <1>4, <3>1, <3>2, NotNewIn
  <2>. QED BY <2>3, <2>4 DEF MarksSeats
<1>. QED BY <1>4, <1>5, <1>6 DEF Sweeps, b

LEMMA SweptClustered ==
    ASSUME InSchedule, NEW b, Sound(b), NEW e \in Events, Clustered(e), NEW t, ExpiryStep(e, b, t)
    PROVE  Sweeps(e, b, t)
<1>1. Touched(e, b, t, 0)
  BY ExpiryTouches
<1>2. t \in Grown(b) /\ Sound(t)
  BY <1>1 DEF Touched, Grown
<1>3. ASSUME NEW d \in Events \cap Staff \cap StaffHosted PROVE GivesSeats(e, b, t, d)
  <2>1. Taken(b.rows[d]) \in Nat /\ Taken(t.rows[d]) \in Nat
    BY <1>2, RowsTaken
  <2>2. CASE d # e
    <3>1. SameRows(b.rows[d], t.rows[d])
      BY <1>1, <2>2 DEF Touched
    <3>2. /\ b.rows[d] \in Seq(Rows) /\ RowsSound(d, b.rows[d])
          /\ t.rows[d] \in Seq(Rows) /\ RowsSound(d, t.rows[d])
      BY <1>2, RowsTaken
    <3>3. Taken(t.rows[d]) = Taken(b.rows[d])
      BY <3>1, <3>2, SameRowsMean
    <3>. QED BY <2>1, <3>3 DEF GivesSeats
  <2>3. CASE d = e
    BY <1>1, <2>1, <2>3 DEF Touched, GivesSeats
  <2>. QED BY <2>2, <2>3
<1>4. ASSUME NEW x \in Clusters, NEW k \in DOMAIN b.tickets[x], b.tickets[x][k].status = "seated"
      PROVE  t.tickets[x][k].status = "seated"
  <2>1. CASE t = b
    BY <1>4, <2>1
  <2>2. CASE \E n \in 0..Len(Expiry(e, b)) : t \in Reached(b, Expiry(e, b), n)
    <3>1. Lapsed(e, b, t)
      BY <2>2, ExpiryLapsed
    <3>. QED BY <1>4, <3>1 DEF Lapsed
  <2>. QED BY <2>1, <2>2, Zenon DEF ExpiryStep
<1>5. ASSUME NEW x \in Clusters, NEW c, NEW d \in NewIn(x, b, t, c)
      PROVE  /\ d = e
             /\ \/ Interrupted(e) /\ e \in {x} \cup Members[x]
                \/ ~Is(b.tickets[x], c, {"seated"}) /\ Is(t.tickets[x], c, {"seated"})
  <2>1. d \in Members[x] /\ d \in Events
    BY DEF NewIn, InSchedule
  <2>2. d = e
    <3>1. d # e => SameRows(b.rows[d], t.rows[d])
      BY <1>1, <2>1 DEF Touched
    <3>. QED BY <1>2, <1>5, <2>1, <3>1, NotNewIn
  <2>3. x = ClusterOf(e)
    <3>1. ClusterOf(e) \in Clusters /\ e \in Members[ClusterOf(e)]
      BY ClusterOfMeans
    <3>. QED BY <2>1, <2>2, <3>1, CalendarAssumption DEF InSchedule
  <2>4. Is(t.rows[e], c, SeatStatuses) /\ ~Is(b.rows[e], c, SeatStatuses)
    BY <2>2 DEF NewIn
  <2>5. CASE t = b
    BY <2>4, <2>5
  <2>6. ASSUME NEW n \in 0..Len(Expiry(e, b)), t \in Reached(b, Expiry(e, b), n),
               n = Len(Expiry(e, b)) \/ Expiry(e, b)[n + 1].save = "seat" \/ Interrupted(e)
        PROVE  \/ Interrupted(e) /\ e \in {x} \cup Members[x]
               \/ ~Is(b.tickets[x], c, {"seated"}) /\ Is(t.tickets[x], c, {"seated"})
    <3>1. /\ ~Is(b.tickets[ClusterOf(e)], c, {"seated"})
          /\ \/ Is(t.tickets[ClusterOf(e)], c, {"seated"})
             \/ n + 1 \in DOMAIN Expiry(e, b) /\ Expiry(e, b)[n + 1].save = "ticket"
      BY <2>4, <2>6, ExpirySeats
    <3>2. n = Len(Expiry(e, b)) => n + 1 \notin DOMAIN Expiry(e, b)
      <4>. DEFINE saves == Expiry(e, b)
      <4>1. saves \in Seq(SavesOf(b))
        BY ExpirySaves
      <4>. HIDE DEF saves
      <4>2. n = Len(saves) => n + 1 \notin DOMAIN saves
        BY <4>1
      <4>. QED BY <4>2 DEF saves
    <3>. QED BY <2>1, <2>2, <2>3, <2>6, <3>1, <3>2
  <2>. QED BY <2>2, <2>5, <2>6, Zenon DEF ExpiryStep
<1>6. ASSUME NEW x \in Clusters, NEW c PROVE MarksSeats(e, b, t, x, c)
  <2>1. Is(b.tickets[x], c, {"seated"}) => Is(t.tickets[x], c, {"seated"})
    BY <1>2, <1>4, SeatedStays
  <2>. QED BY <1>5, <2>1 DEF MarksSeats
<1>. QED BY <1>2, <1>3, <1>6 DEF Sweeps

LEMMA ScriptSweeps ==
    ASSUME InSchedule, Sound(State), NEW e \in Events, Script(e)
    PROVE  \E t : Leaves(t) /\ Sweeps(e, State, t) /\ (UNCHANGED crashes \/ Interrupted(e))
<1>1. PICK s, u, t : /\ LotteryStep(e, State, s) /\ Sound(s) /\ s \in Grown(State)
                     /\ ExpiryStep(e, s, u) /\ Sound(u) /\ u \in Grown(s)
                     /\ IssueStep(e, u, t)
                     /\ Leaves(t) /\ (UNCHANGED crashes \/ Interrupted(e))
  BY SweepIs
<1>2. CASE ~Clustered(e)
  BY <1>1, <1>2, SweptAlone
<1>3. CASE Clustered(e)
  <2>1. s = State /\ t = u
    BY <1>1, <1>3 DEF LotteryStep, IssueStep, LotteryDue, TokensDue
  <2>2. ExpiryStep(e, State, t)
    BY <1>1, <2>1
  <2>. DEFINE b == State
  <2>. HIDE DEF b
  <2>3. Sound(b) /\ ExpiryStep(e, b, t)
    BY <2>2 DEF b
  <2>4. Sweeps(e, b, t)
    BY <1>3, <2>3, SweptClustered
  <2>. QED BY <1>1, <2>4 DEF b
<1>. QED BY <1>2, <1>3

LEMMA DrawStep ==
    ASSUME InSchedule, Sound(State), NEW x \in Clusters, Draw(x)
    PROVE  \E order \in Orders(x, State) :
              \E n \in 0..Len(ClusterDraw(x, State, order)) :
                 \E t \in Reached(State, ClusterDraw(x, State, order), n) :
                    /\ Leaves(t) /\ ~HasRun(x)
                    /\ (n = Len(ClusterDraw(x, State, order)) /\ UNCHANGED crashes) \/ Interrupted(x)
<1>1. ~HasRun(x)
  BY Zenon DEF Draw, SweepCluster, SweepClusterInterrupted, ClusterDue
<1>2. ASSUME NEW order \in Orders(x, State)
      PROVE  LET saves == ClusterDraw(x, State, order)
             IN  /\ \A t \in Partly(State, saves) : \E n \in 0..Len(saves) : t \in Reached(State, saves, n)
                 /\ ~Stopped(State, saves) => Whole(State, saves) \in Reached(State, saves, Len(saves))
                 /\ Len(saves) \in 0..Len(saves)
  <2>. DEFINE saves == ClusterDraw(x, State, order)
  <2>1. saves \in Seq(SavesOf(State)) /\ Orderly(saves)
    BY OrdersMean, DrawIs, DrawAreSaves
  <2>. HIDE DEF saves
  <2>2. Len(saves) \in 0..Len(saves)
    BY <2>1
  <2>. QED BY <2>1, <2>2, TrailReaches DEF saves
<1>3. CASE SweepCluster(x)
  <2>1. PICK order \in Orders(x, State) :
          LET saves == ClusterDraw(x, State, order)
          IN  ~Stopped(State, saves) /\ Leaves(Whole(State, saves))
    BY <1>3, Zenon DEF SweepCluster
  <2>2. UNCHANGED crashes
    BY <1>3, Zenon DEF SweepCluster
  <2>3. /\ Whole(State, ClusterDraw(x, State, order)) \in
               Reached(State, ClusterDraw(x, State, order), Len(ClusterDraw(x, State, order)))
        /\ Len(ClusterDraw(x, State, order)) \in 0..Len(ClusterDraw(x, State, order))
        /\ Leaves(Whole(State, ClusterDraw(x, State, order)))
    BY <1>2, <2>1
  <2>. QED BY <1>1, <2>2, <2>3, Zenon
<1>4. CASE SweepClusterInterrupted(x)
  <2>1. PICK order \in Orders(x, State) :
          \E part \in Partly(State, ClusterDraw(x, State, order)) : part # State /\ Leaves(part)
    BY <1>4, Zenon DEF SweepClusterInterrupted
  <2>2. PICK t \in Partly(State, ClusterDraw(x, State, order)) : Leaves(t)
    BY <2>1
  <2>3. Interrupted(x)
    BY <1>4, Zenon DEF SweepClusterInterrupted
  <2>4. PICK n \in 0..Len(ClusterDraw(x, State, order)) : t \in Reached(State, ClusterDraw(x, State, order), n)
    BY <1>2, <2>2
  <2>. QED BY <1>1, <2>2, <2>3, <2>4, Zenon
<1>. QED BY <1>3, <1>4 DEF Draw

LEMMA DrawSweptAll ==
    ASSUME InSchedule, NEW b, Sound(b), NEW x \in Clusters, Members[x] \cap b.drawn = {}, NEW order \in Orders(x, b),
           NEW n \in 0..Len(ClusterDraw(x, b, order)), NEW t \in Reached(b, ClusterDraw(x, b, order), n),
           n = Len(ClusterDraw(x, b, order)) \/ Interrupted(x)
    PROVE  Sweeps(x, b, t)
<1>1. Ranked(x, b, t)
  BY DrawRanked
<1>2. t \in Grown(b) /\ Sound(t)
  BY <1>1 DEF Ranked, Grown
<1>3. ASSUME NEW d \in Events \cap Staff \cap StaffHosted PROVE GivesSeats(x, b, t, d)
  <2>1. Taken(b.rows[d]) \in Nat /\ Taken(t.rows[d]) \in Nat
    BY <1>2, RowsTaken
  <2>2. CASE d \notin Members[x]
    <3>1. SameRows(b.rows[d], t.rows[d])
      BY <1>1, <2>2 DEF Ranked
    <3>2. /\ b.rows[d] \in Seq(Rows) /\ RowsSound(d, b.rows[d])
          /\ t.rows[d] \in Seq(Rows) /\ RowsSound(d, t.rows[d])
      BY <1>2, RowsTaken
    <3>3. Taken(t.rows[d]) = Taken(b.rows[d])
      BY <3>1, <3>2, SameRowsMean
    <3>. QED BY <2>1, <3>3 DEF GivesSeats
  <2>3. CASE d \in Members[x]
    <3>1. Taken(t.rows[d]) <= Taken(b.rows[d]) + Cap[d]
      BY <1>1, <2>3 DEF Ranked
    <3>2. Clustered(d)
      BY <2>3 DEF Clustered
    <3>3. ClusterOf(d) = x
      BY <2>3, <3>2, ClusterOfMeans
    <3>4. n = Len(ClusterDraw(x, b, order)) => Members[x] \cap t.drawn # {}
      BY DrawEnds
    <3>5. Interrupted(x) \/ (~Drawn(b, d) /\ Drawn(t, d))
      BY <3>2, <3>3, <3>4 DEF Drawn
    <3>. QED BY <2>3, <3>1, <3>5 DEF GivesSeats
  <2>. QED BY <2>2, <2>3
<1>4. ASSUME NEW y \in Clusters, NEW c PROVE MarksSeats(x, b, t, y, c)
  <2>1. \A k \in DOMAIN b.tickets[y] : b.tickets[y][k].status = "seated" => t.tickets[y][k].status = "seated"
    BY <1>1 DEF Ranked
  <2>2. Is(b.tickets[y], c, {"seated"}) => Is(t.tickets[y], c, {"seated"})
    BY <1>2, <2>1, SeatedStays
  <2>3. CASE y = x
    <3>1. ASSUME NEW d \in NewIn(x, b, t, c)
          PROVE  /\ \A e \in NewIn(x, b, t, c) : e = d
                 /\ \/ Interrupted(x)
                    \/ ~Is(b.tickets[x], c, {"seated"}) /\ Is(t.tickets[x], c, {"seated"})
      BY <3>1, DrawSeats
    <3>. QED BY <2>2, <2>3, <3>1 DEF MarksSeats
  <2>4. CASE y # x
    <3>1. ASSUME NEW d \in NewIn(y, b, t, c) PROVE FALSE
      <4>1. d \in Members[y] /\ d \in Events
        BY <3>1 DEF NewIn, InSchedule
      <4>2. d \notin Members[x]
        BY <2>4, <4>1, CalendarAssumption DEF InSchedule
      <4>3. SameRows(b.rows[d], t.rows[d])
        BY <1>1, <4>1, <4>2 DEF Ranked
      <4>. QED BY <1>2, <3>1, <4>1, <4>3, NotNewIn
    <3>. QED BY <2>2, <3>1 DEF MarksSeats
  <2>. QED BY <2>3, <2>4
<1>. QED BY <1>2, <1>3, <1>4 DEF Sweeps

LEMMA DrawSweeps ==
    ASSUME InSchedule, Sound(State), NEW x \in Clusters, Draw(x)
    PROVE  \E t : Leaves(t) /\ Sweeps(x, State, t) /\ (UNCHANGED crashes \/ Interrupted(x))
<1>. DEFINE b == State
<1>1. PICK order \in Orders(x, b) :
         \E n \in 0..Len(ClusterDraw(x, b, order)) :
            \E t \in Reached(b, ClusterDraw(x, b, order), n) :
               /\ Leaves(t) /\ ~HasRun(x)
               /\ (n = Len(ClusterDraw(x, b, order)) /\ UNCHANGED crashes) \/ Interrupted(x)
  BY DrawStep, Zenon
<1>2. PICK n \in 0..Len(ClusterDraw(x, b, order)) :
         \E t \in Reached(b, ClusterDraw(x, b, order), n) :
            /\ Leaves(t) /\ ~HasRun(x)
            /\ (n = Len(ClusterDraw(x, b, order)) /\ UNCHANGED crashes) \/ Interrupted(x)
  BY <1>1, Zenon
<1>3. PICK t \in Reached(b, ClusterDraw(x, b, order), n) :
         /\ Leaves(t) /\ ~HasRun(x)
         /\ (n = Len(ClusterDraw(x, b, order)) /\ UNCHANGED crashes) \/ Interrupted(x)
  BY <1>2, Zenon
<1>4. Sound(b) /\ Members[x] \cap b.drawn = {}
  BY <1>3 DEF HasRun, State
<1>. HIDE DEF b
<1>5. Sweeps(x, b, t)
  BY <1>3, <1>4, DrawSweptAll
<1>. QED BY <1>3, <1>5 DEF b

-----------------------------------------------------------------------------
(***************************************************************************)
(* Seats and interruptions, from a state to the next.                      *)
(***************************************************************************)
TimesOf(e) == {e} \cup {x \in Clusters : e \in Members[x]}
MoreSeats(job, d) ==
    \/ Taken(rows'[d]) <= Taken(rows[d])
    \/ /\ Taken(rows'[d]) <= Taken(rows[d]) + Cap[d]
       /\ job \in TimesOf(d)
       /\ Interrupted(job) \/ (~HasDrawn(d) /\ HasDrawn(d)')
MoreSeated(job, x, c) ==
    \/ SeatedIn(x, c)' \subseteq SeatedIn(x, c)
    \/ \E d : /\ SeatedIn(x, c)' \subseteq SeatedIn(x, c) \cup {d}
              /\ \/ Interrupted(job) /\ job \in {x} \cup Members[x]
                 \/ ~Is(tickets[x], c, {"seated"}) /\ Is(tickets'[x], c, {"seated"})

LEMMA Multiples ==
    ASSUME NEW c \in Nat, NEW m \in Nat, NEW n \in Nat, m <= n
    PROVE  c * m \in Nat /\ c * n \in Nat /\ c * m <= c * n /\ (m < n => c * m + c <= c * n)
<1>1. PICK k \in Nat : n = m + k
  <2>1. n - m \in Nat /\ n = m + (n - m)
    OBVIOUS
  <2>. QED BY <2>1
<1>2. c * m \in Nat /\ c * k \in Nat
  OBVIOUS
<1>3. c * n = c * m + c * k
  BY <1>1
<1>4. ASSUME m < n PROVE c <= c * k
  <2>1. PICK l \in Nat : k = 1 + l
    <3>1. k - 1 \in Nat /\ k = 1 + (k - 1)
      BY <1>1, <1>4
    <3>. QED BY <3>1
  <2>2. c * k = c + c * l /\ c * l \in Nat
    BY <2>1
  <2>. QED BY <2>2
<1>. QED BY <1>2, <1>3, <1>4

LEMMA TotalAfter ==
    ASSUME InSchedule, crashes \in [Jobs -> Nat], NEW job \in Jobs, UNCHANGED crashes \/ Interrupted(job), NEW S \in SUBSET Jobs
    PROVE  /\ Total(crashes, S) \in Nat /\ Total(crashes', S) \in Nat /\ Total(crashes, S) <= Total(crashes', S)
           /\ Interrupted(job) /\ job \in S => Total(crashes', S) = Total(crashes, S) + 1
<1>1. Total(crashes, S) \in Nat
  BY CrashedIsTotal, CrashedMeans
<1>2. CASE UNCHANGED crashes
  <2>1. ~Interrupted(job)
    <3>1. crashes[job] \in Nat
      OBVIOUS
    <3>2. Interrupted(job) => crashes'[job] = crashes[job] + 1
      BY DEF Interrupted
    <3>. QED BY <1>2, <3>1, <3>2
  <2>. QED BY <1>1, <1>2, <2>1
<1>3. CASE Interrupted(job)
  <2>1. (\A T : Crashed(T) = Total(crashes, T))'
    BY CrashedIsTotal, PTL
  <2>2. Crashed(S)' = Crashed(S) + IF job \in S THEN 1 ELSE 0
    BY <1>3, CrashedGrows
  <2>3. Crashed(S)' = Total(crashes', S) /\ Crashed(S) = Total(crashes, S)
    BY <2>1, CrashedIsTotal
  <2>. QED BY <1>1, <2>2, <2>3
<1>. QED BY <1>2, <1>3

LEMMA SeatsGivenIs ==
    SeatsGiven <=>
        \A e \in Events \cap Staff \cap StaffHosted :
            Taken(rows[e]) <= Cap[e] * (Total(crashes, TimesOf(e)) + IF HasDrawn(e) THEN 1 ELSE 0)
<1>1. \A e : Crashed(TimesOf(e)) = Total(crashes, TimesOf(e))
  BY CrashedIsTotal
<1>. QED BY <1>1, Zenon DEF SeatsGiven, TimesOf

LEMMA SeatsMarkedIs ==
    SeatsMarked <=>
        \A x \in Clusters : Members[x] \subseteq StaffHosted =>
            \A c \in Everyone : Cardinality(SeatedIn(x, c)) <=
                Total(crashes, {x} \cup Members[x]) + IF Is(tickets[x], c, {"seated"}) THEN 1 ELSE 0
<1>1. \A x : Crashed({x} \cup Members[x]) = Total(crashes, {x} \cup Members[x])
  BY CrashedIsTotal
<1>. QED BY <1>1, Zenon DEF SeatsMarked

LEMMA SeatsKept ==
    ASSUME InSchedule, Sound(State), crashes \in [Jobs -> Nat], SeatsGiven, SeatsMarked,
           Events' = Events, Clusters' = Clusters, Sound(State)',
           NEW job \in Jobs, UNCHANGED crashes \/ Interrupted(job), drawn \subseteq drawn',
           \A d \in Events \cap Staff \cap StaffHosted : MoreSeats(job, d),
           \A x \in Clusters : Members[x] \subseteq StaffHosted => \A c \in Everyone :
               /\ Is(tickets[x], c, {"seated"}) => Is(tickets'[x], c, {"seated"})
               /\ MoreSeated(job, x, c)
    PROVE  SeatsGiven' /\ SeatsMarked'
<1>1. Everyone' = Everyone /\ (\A e : Clustered(e)' <=> Clustered(e)) /\ Rows' = Rows
  BY Frame
<1>2. \A e : TimesOf(e)' = TimesOf(e) /\ ClusterOf(e)' = ClusterOf(e)
  BY DEF TimesOf, ClusterOf
<1>3. ASSUME NEW e PROVE HasDrawn(e) => HasDrawn(e)'
  BY <1>1, <1>2 DEF HasDrawn, HasRun
<1>4. ASSUME NEW e \in Events \cap Staff \cap StaffHosted
      PROVE  Taken(rows'[e]) <= Cap[e] * (Total(crashes', TimesOf(e)) + IF HasDrawn(e)' THEN 1 ELSE 0)
  <2>. DEFINE m == Total(crashes, TimesOf(e))
              n == Total(crashes', TimesOf(e))
              h == IF HasDrawn(e) THEN 1 ELSE 0
              g == IF HasDrawn(e)' THEN 1 ELSE 0
  <2>1. TimesOf(e) \in SUBSET Jobs
    BY DEF TimesOf, Jobs
  <2>2. /\ m \in Nat /\ n \in Nat /\ m <= n
        /\ Interrupted(job) /\ job \in TimesOf(e) => n = m + 1
    BY <2>1, TotalAfter
  <2>3. h \in Nat /\ g \in Nat /\ h <= g /\ (~HasDrawn(e) /\ HasDrawn(e)' => h < g)
    BY <1>3
  <2>4. Taken(rows[e]) <= Cap[e] * (m + h)
    BY SeatsGivenIs
  <2>5. Cap[e] \in Nat /\ Taken(rows[e]) \in Nat /\ Taken(rows'[e]) \in Nat
    <3>1. rows[e] \in Seq(Rows)
      BY DEF Sound, Databases, State
    <3>2. (\A d \in Events : rows[d] \in Seq(Rows))'
      BY DEF Sound, Databases, State
    <3>. QED BY <1>1, <3>1, <3>2, CapIsPositive, TakenIs
  <2>6. MoreSeats(job, e)
    OBVIOUS
  <2>7. Cap[e] * (m + h) \in Nat /\ Cap[e] * (n + g) \in Nat /\ Cap[e] * (m + h) <= Cap[e] * (n + g)
        /\ (m + h < n + g => Cap[e] * (m + h) + Cap[e] <= Cap[e] * (n + g))
    <3>. HIDE DEF m, n, h, g
    <3>1. m + h \in Nat /\ n + g \in Nat /\ m + h <= n + g
      BY <2>2, <2>3
    <3>. QED BY <2>5, <3>1, Multiples
  <2>8. Taken(rows'[e]) <= Taken(rows[e]) \/ (Taken(rows'[e]) <= Taken(rows[e]) + Cap[e] /\ m + h < n + g)
    <3>1. Interrupted(job) /\ job \in TimesOf(e) => m + h < n + g
      <4>. HIDE DEF m, n, h, g
      <4>. QED BY <2>2, <2>3
    <3>2. ~HasDrawn(e) /\ HasDrawn(e)' => m + h < n + g
      <4>. HIDE DEF m, n, h, g
      <4>. QED BY <2>2, <2>3
    <3>. QED BY <2>6, <3>1, <3>2 DEF MoreSeats
  <2>. HIDE DEF m, n, h, g
  <2>9. Taken(rows'[e]) <= Cap[e] * (n + g)
    <3>. DEFINE i == Cap[e] * (m + h)
                j == Cap[e] * (n + g)
    <3>. HIDE DEF i, j
    <3>1. i \in Nat /\ j \in Nat /\ i <= j /\ (m + h < n + g => i + Cap[e] <= j) /\ Taken(rows[e]) <= i
      BY <2>4, <2>7 DEF i, j
    <3>2. Taken(rows'[e]) <= j
      BY <2>5, <2>8, <3>1
    <3>. QED BY <3>2 DEF j
  <2>. QED BY <2>9 DEF n, g
<1>5. ASSUME NEW x \in Clusters, Members[x] \subseteq StaffHosted, NEW c \in Everyone
      PROVE  Cardinality(SeatedIn(x, c)') <=
                Total(crashes', {x} \cup Members[x]) + IF Is(tickets'[x], c, {"seated"}) THEN 1 ELSE 0
  <2>. DEFINE S == SeatedIn(x, c)
              R == SeatedIn(x, c)'
              m == Total(crashes, {x} \cup Members[x])
              n == Total(crashes', {x} \cup Members[x])
              h == IF Is(tickets[x], c, {"seated"}) THEN 1 ELSE 0
              g == IF Is(tickets'[x], c, {"seated"}) THEN 1 ELSE 0
  <2>1. IsFiniteSet(Members[x]) /\ {x} \cup Members[x] \in SUBSET Jobs
    <3>1. Members[x] \subseteq UNION Schedules /\ IsFiniteSet(UNION Schedules) /\ Members[x] \subseteq Events
      BY CalendarAssumption DEF InSchedule
    <3>2. IsFiniteSet(Members[x])
      BY <3>1, FS_Subset
    <3>. QED BY <3>1, <3>2 DEF Jobs
  <2>2. /\ m \in Nat /\ n \in Nat /\ m <= n
        /\ Interrupted(job) /\ job \in {x} \cup Members[x] => n = m + 1
    BY <2>1, TotalAfter
  <2>3. Is(tickets[x], c, {"seated"}) => Is(tickets'[x], c, {"seated"})
    BY <1>5
  <2>4. h \in Nat /\ g \in Nat /\ h <= g /\ (~Is(tickets[x], c, {"seated"}) /\ Is(tickets'[x], c, {"seated"}) => h < g)
    BY <2>3
  <2>5. Cardinality(S) <= m + h
    BY <1>5, SeatsMarkedIs
  <2>6. S \subseteq Members[x] /\ IsFiniteSet(S) /\ Cardinality(S) \in Nat
    <3>1. S \subseteq Members[x]
      BY DEF SeatedIn
    <3>. QED BY <2>1, <3>1, FS_Subset, FS_CardinalityType
  <2>7. MoreSeated(job, x, c)
    BY <1>5
  <2>8. R \subseteq S \/ (m + h < n + g /\ \E d : R \subseteq S \cup {d})
    <3>1. Interrupted(job) /\ job \in {x} \cup Members[x] => m + h < n + g
      <4>. HIDE DEF m, n, h, g
      <4>. QED BY <2>2, <2>4
    <3>2. ~Is(tickets[x], c, {"seated"}) /\ Is(tickets'[x], c, {"seated"}) => m + h < n + g
      <4>. HIDE DEF m, n, h, g
      <4>. QED BY <2>2, <2>4
    <3>. QED BY <2>7, <3>1, <3>2, Zenon DEF MoreSeated
  <2>. HIDE DEF S, R, m, n, h, g
  <2>9. Cardinality(R) <= n + g
    <3>1. CASE R \subseteq S
      <4>1. Cardinality(R) <= Cardinality(S) /\ Cardinality(R) \in Nat
        BY <2>6, <3>1, FS_Subset, FS_CardinalityType
      <4>. QED BY <2>2, <2>4, <2>5, <2>6, <4>1
    <3>2. ASSUME m + h < n + g, NEW d, R \subseteq S \cup {d} PROVE Cardinality(R) <= n + g
      <4>1. IsFiniteSet(S \cup {d}) /\ Cardinality(S \cup {d}) \in Nat /\ Cardinality(S \cup {d}) <= Cardinality(S) + 1
        <5>1. IsFiniteSet(S \cup {d})
          BY <2>6, FS_AddElement
        <5>2. Cardinality(S \cup {d}) = IF d \in S THEN Cardinality(S) ELSE Cardinality(S) + 1
          BY <2>6, FS_AddElement
        <5>. QED BY <2>6, <5>1, <5>2
      <4>2. Cardinality(R) <= Cardinality(S \cup {d}) /\ Cardinality(R) \in Nat
        BY <3>2, <4>1, FS_Subset, FS_CardinalityType
      <4>. QED BY <2>2, <2>4, <2>5, <2>6, <3>2, <4>1, <4>2
    <3>. QED BY <2>8, <3>1, <3>2
  <2>. QED BY <2>9 DEF R, n, g
<1>6. SeatsGiven'
  <2>1. (SeatsGiven <=>
            \A e \in Events \cap Staff \cap StaffHosted :
                Taken(rows[e]) <= Cap[e] * (Total(crashes, TimesOf(e)) + IF HasDrawn(e) THEN 1 ELSE 0))'
    BY SeatsGivenIs, PTL
  <2>. QED BY <1>2, <1>4, <2>1
<1>7. SeatsMarked'
  <2>1. (SeatsMarked <=>
            \A x \in Clusters : Members[x] \subseteq StaffHosted =>
                \A c \in Everyone : Cardinality(SeatedIn(x, c)) <=
                    Total(crashes, {x} \cup Members[x]) + IF Is(tickets[x], c, {"seated"}) THEN 1 ELSE 0)'
    BY SeatsMarkedIs, PTL
  <2>. QED BY <1>1, <1>5, <2>1
<1>. QED BY <1>6, <1>7

LEMMA SeatsAfterSweep ==
    ASSUME InSchedule, Sound(State), crashes \in [Jobs -> Nat], SeatsGiven, SeatsMarked,
           NEW job \in Jobs, NEW t, Leaves(t), Sweeps(job, State, t), UNCHANGED crashes \/ Interrupted(job)
    PROVE  SeatsGiven' /\ SeatsMarked'
<1>. DEFINE b == State
<1>1. t \in Grown(b) /\ Sound(b)
  BY DEF Sweeps
<1>2. Events' = Events /\ Clusters' = Clusters /\ InSchedule' /\ Sound(State)'
  BY <1>1, LeavesSound
<1>3. /\ b.rows = rows /\ b.tickets = tickets /\ b.drawn = drawn
      /\ t.rows = rows' /\ t.tickets = tickets' /\ t.drawn = drawn'
  BY DEF Leaves, State
<1>4. Sweeps(job, b, t)
  OBVIOUS
<1>. HIDE DEF b
<1>5. drawn \subseteq drawn'
  BY <1>1, <1>3 DEF Grown
<1>6. \A d : (Clustered(d)' <=> Clustered(d)) /\ ClusterOf(d)' = ClusterOf(d)
  BY <1>2, Frame DEF ClusterOf
<1>7. ASSUME NEW d PROVE (Drawn(b, d) <=> HasDrawn(d)) /\ (Drawn(t, d) <=> HasDrawn(d)')
  BY <1>3, <1>6 DEF Drawn, HasDrawn, HasRun
<1>8. ASSUME NEW d \in Events \cap Staff \cap StaffHosted PROVE MoreSeats(job, d)
  <2>1. GivesSeats(job, b, t, d)
    BY <1>4 DEF Sweeps
  <2>. QED BY <1>3, <1>7, <2>1 DEF GivesSeats, MoreSeats, TimesOf
<1>9. ASSUME NEW x \in Clusters, Members[x] \subseteq StaffHosted, NEW c \in Everyone
      PROVE  /\ Is(tickets[x], c, {"seated"}) => Is(tickets'[x], c, {"seated"})
             /\ MoreSeated(job, x, c)
  <2>1. MarksSeats(job, b, t, x, c)
    BY <1>4 DEF Sweeps
  <2>2. SeatedIn(x, c)' \subseteq SeatedIn(x, c) \cup NewIn(x, b, t, c)
    BY <1>3 DEF SeatedIn, NewIn, SeatStatuses
  <2>3. CASE NewIn(x, b, t, c) = {}
    BY <1>3, <2>1, <2>2, <2>3 DEF MarksSeats, MoreSeated
  <2>4. ASSUME NEW d \in NewIn(x, b, t, c) PROVE MoreSeated(job, x, c)
    <3>1. NewIn(x, b, t, c) \subseteq {d}
      BY <2>1 DEF MarksSeats
    <3>2. SeatedIn(x, c)' \subseteq SeatedIn(x, c) \cup {d}
      BY <2>2, <3>1
    <3>. QED BY <1>3, <2>1, <3>2 DEF MarksSeats, MoreSeated
  <2>. QED BY <1>3, <2>1, <2>3, <2>4 DEF MarksSeats
<1>. QED BY <1>2, <1>5, <1>8, <1>9, SeatsKept

LEMMA SeatsAfterCommand ==
    ASSUME InSchedule, Sound(State), crashes \in [Jobs -> Nat], SeatsGiven, SeatsMarked,
           NEW e \in Events, NEW r, NEW n, Commanded(e, r, n)
    PROVE  SeatsGiven' /\ SeatsMarked'
<1>1. /\ Events' = Events /\ Clusters' = Clusters /\ InSchedule' /\ Sound(State)' /\ UNCHANGED phase
      /\ rows'[e] = r /\ \A d \in Events : d # e => rows'[d] = rows[d]
  BY AnsweredMeans
<1>2. e \in Jobs /\ (UNCHANGED crashes \/ Interrupted(e)) /\ UNCHANGED <<tickets, drawn>> /\ Follows(e, rows[e], r, n)
  BY DEF Commanded, Jobs
<1>3. ASSUME NEW d \in Events \cap Staff \cap StaffHosted
      PROVE  Taken(rows'[d]) <= Taken(rows[d]) /\ \A c : Is(rows'[d], c, SeatStatuses) => Is(rows[d], c, SeatStatuses)
  <2>1. CASE d = e
    BY <1>1, <1>2, <1>3, <2>1 DEF Follows, Tame
  <2>2. CASE d # e
    <3>1. rows'[d] = rows[d] /\ Taken(rows[d]) \in Nat
      BY <1>1, <1>3, <2>2, EventIs, TakenIs
    <3>. QED BY <3>1
  <2>. QED BY <2>1, <2>2
<1>4. \A d \in Events \cap Staff \cap StaffHosted : MoreSeats(e, d)
  BY <1>3 DEF MoreSeats
<1>5. ASSUME NEW x \in Clusters, Members[x] \subseteq StaffHosted, NEW c \in Everyone
      PROVE  /\ Is(tickets[x], c, {"seated"}) => Is(tickets'[x], c, {"seated"})
             /\ MoreSeated(e, x, c)
  <2>1. Members[x] \subseteq Events \cap Staff \cap StaffHosted
    BY <1>5, CalendarAssumption DEF InSchedule
  <2>2. SeatedIn(x, c)' \subseteq SeatedIn(x, c)
    BY <1>3, <2>1 DEF SeatedIn, SeatStatuses
  <2>. QED BY <1>2, <2>2 DEF MoreSeated
<1>. QED BY <1>1, <1>2, <1>4, <1>5, SeatsKept

LEMMA SeatsAfterApplication ==
    ASSUME InSchedule, Sound(State), crashes \in [Jobs -> Nat], SeatsGiven, SeatsMarked,
           NEW x \in Clusters, NEW q, Submitted(x, q)
    PROVE  SeatsGiven' /\ SeatsMarked'
<1>1. /\ Events' = Events /\ Clusters' = Clusters /\ InSchedule' /\ Sound(State)'
      /\ tickets'[x] = q /\ \A y \in Clusters : y # x => tickets'[y] = tickets[y]
  BY AppliedMeans
<1>2. /\ x \in Jobs /\ (UNCHANGED crashes \/ Interrupted(x)) /\ UNCHANGED rows /\ UNCHANGED drawn
      /\ \A d : Is(tickets[x], d, {"seated"}) => Is(q, d, {"seated"})
  BY DEF Submitted, Jobs
<1>3. ASSUME NEW d \in Events \cap Staff \cap StaffHosted PROVE MoreSeats(x, d)
  <2>1. rows'[d] = rows[d] /\ Taken(rows[d]) \in Nat
    BY <1>2, EventIs, TakenIs
  <2>. QED BY <2>1 DEF MoreSeats
<1>4. ASSUME NEW y \in Clusters, NEW c \in Everyone
      PROVE  /\ Is(tickets[y], c, {"seated"}) => Is(tickets'[y], c, {"seated"})
             /\ MoreSeated(x, y, c)
  <2>1. SeatedIn(y, c)' \subseteq SeatedIn(y, c)
    BY <1>2 DEF SeatedIn
  <2>2. Is(tickets[y], c, {"seated"}) => Is(tickets'[y], c, {"seated"})
    BY <1>1, <1>2
  <2>. QED BY <2>1, <2>2 DEF MoreSeated
<1>. QED BY <1>1, <1>2, <1>3, <1>4, SeatsKept

LEMMA SeatsAsBefore ==
    ASSUME SeatsGiven, SeatsMarked, UNCHANGED <<rows, tickets, drawn, crashes>>
    PROVE  SeatsGiven' /\ SeatsMarked'
<1>0. \A T : Crashed(T)' = Crashed(T)
  <2>1. (\A T : Crashed(T) = Total(crashes, T))'
    BY CrashedIsTotal, PTL
  <2>2. crashes' = crashes
    OBVIOUS
  <2>. QED BY <2>1, <2>2, CrashedIsTotal, Zenon
<1>1. /\ Events' = Events /\ Clusters' = Clusters /\ Everyone' = Everyone
      /\ \A T : Crashed(T)' = Crashed(T)
  BY <1>0 DEF Events, Clusters, Everyone
<1>2. \A d : HasDrawn(d)' <=> HasDrawn(d)
  BY <1>1 DEF HasDrawn, HasRun, Clustered, ClusterOf
<1>3. \A x, c : SeatedIn(x, c)' = SeatedIn(x, c)
  BY DEF SeatedIn
<1>4. SeatsGiven'
  BY <1>1, <1>2, Zenon DEF SeatsGiven
<1>5. SeatsMarked'
  BY <1>1, <1>3, Zenon DEF SeatsMarked
<1>. QED BY <1>4, <1>5

-----------------------------------------------------------------------------
(***************************************************************************)
(* The inductive invariant.                                                *)
(***************************************************************************)
LEMMA StepsSeat ==
    ASSUME InSchedule, Sound(State), crashes \in [Jobs -> Nat], SeatsGiven, SeatsMarked, Next
    PROVE  SeatsGiven' /\ SeatsMarked'
<1>1. ASSUME NEW e \in Events, Time(e) PROVE SeatsGiven' /\ SeatsMarked'
  <2>1. UNCHANGED <<rows, tickets, drawn, crashes>>
    BY <1>1 DEF Time
  <2>. QED BY <2>1, SeatsAsBefore
<1>2. ASSUME NEW e \in Events, Script(e) PROVE SeatsGiven' /\ SeatsMarked'
  <2>1. PICK t : Leaves(t) /\ Sweeps(e, State, t) /\ (UNCHANGED crashes \/ Interrupted(e))
    BY <1>2, ScriptSweeps
  <2>2. e \in Jobs
    BY DEF Jobs
  <2>. QED BY <2>1, <2>2, SeatsAfterSweep
<1>3. ASSUME NEW x \in Clusters, Draw(x) PROVE SeatsGiven' /\ SeatsMarked'
  <2>1. PICK t : Leaves(t) /\ Sweeps(x, State, t) /\ (UNCHANGED crashes \/ Interrupted(x))
    BY <1>3, DrawSweeps
  <2>2. x \in Jobs
    BY DEF Jobs
  <2>. QED BY <2>1, <2>2, SeatsAfterSweep
<1>4. ASSUME NEW e \in Events, Host(e) \/ \E c \in Everyone : Player(e, c) PROVE SeatsGiven' /\ SeatsMarked'
  <2>1. PICK r, n : n \in {0, 1} /\ Commanded(e, r, n)
    BY <1>4, EventCommanded
  <2>. QED BY <2>1, SeatsAfterCommand
<1>5. ASSUME NEW x \in Clusters, NEW c \in Everyone, Applicant(x, c) PROVE SeatsGiven' /\ SeatsMarked'
  <2>1. PICK q : Submitted(x, q)
    BY <1>5, ApplicantSubmitted
  <2>. QED BY <2>1, SeatsAfterApplication
<1>. QED BY <1>1, <1>2, <1>3, <1>4, <1>5, Zenon DEF Next

LEMMA InitInv == Init => Inv
<1>. SUFFICES ASSUME Init PROVE Inv
  OBVIOUS
<1>1. /\ Basics /\ (\A e \in Events : rows[e] = <<>>) /\ (\A x \in Clusters : tickets[x] = <<>>) /\ drawn = {}
  BY Initially
<1>2. InSchedule /\ Sound(State) /\ crashes \in [Jobs -> Nat]
  BY <1>1, BasicsMean
<1>3. \A S \in SUBSET Jobs : Crashed(S) \in Nat
  BY <1>2, CrashedMeans
<1>4. ASSUME NEW e \in Events PROVE Taken(rows[e]) = 0 /\ \A c : ~Is(rows[e], c, {"selected", "confirmed"})
  <2>1. rows[e] = <<>> /\ rows[e] \in Seq(Rows)
    BY <1>1, <1>2, EventIs
  <2>2. DOMAIN rows[e] = {} /\ Len(rows[e]) = 0
    BY <2>1
  <2>3. SeatsIn(rows[e]) = {}
    BY <2>2 DEF SeatsIn
  <2>4. Taken(rows[e]) = Cardinality(SeatsIn(rows[e]))
    BY <2>1, TakenIs
  <2>5. ASSUME NEW c PROVE RowOf(rows[e], c) = 0
    <3>1. RowOf(rows[e], c) \in 0..Len(rows[e])
      BY <2>1, RowOfMeans
    <3>. QED BY <2>2, <3>1
  <2>. QED BY <2>3, <2>4, <2>5, FS_EmptySet DEF Is
<1>5. ASSUME NEW e \in Events \cap Staff \cap StaffHosted
      PROVE  Taken(rows[e]) <= Cap[e] * (Crashed({e} \cup {x \in Clusters : e \in Members[x]})
                                         + IF HasDrawn(e) THEN 1 ELSE 0)
  <2>. DEFINE m == Crashed({e} \cup {x \in Clusters : e \in Members[x]})
              h == IF HasDrawn(e) THEN 1 ELSE 0
  <2>1. {e} \cup {x \in Clusters : e \in Members[x]} \in SUBSET Jobs
    BY DEF Jobs
  <2>2. m \in Nat /\ h \in Nat
    BY <1>3, <2>1
  <2>3. Taken(rows[e]) = 0 /\ Cap[e] \in Nat
    BY <1>2, <1>4, CapIsPositive
  <2>. HIDE DEF m, h
  <2>4. Cap[e] * (m + h) \in Nat
    BY <2>2, <2>3
  <2>5. Taken(rows[e]) <= Cap[e] * (m + h)
    BY <2>3, <2>4
  <2>. QED BY <2>5 DEF m, h
<1>6. ASSUME NEW x \in Clusters, NEW c \in Everyone
      PROVE  Cardinality(SeatedIn(x, c)) <= Crashed({x} \cup Members[x]) + IF Is(tickets[x], c, {"seated"}) THEN 1 ELSE 0
  <2>1. {x} \cup Members[x] \in SUBSET Jobs /\ Members[x] \subseteq Events
    BY <1>2 DEF Jobs, InSchedule
  <2>2. Crashed({x} \cup Members[x]) \in Nat
    BY <1>3, <2>1
  <2>3. SeatedIn(x, c) = {}
    BY <1>4, <2>1 DEF SeatedIn
  <2>4. Cardinality(SeatedIn(x, c)) = 0
    BY <2>3, FS_EmptySet
  <2>. QED BY <2>2, <2>4
<1>. QED BY <1>1, <1>5, <1>6 DEF Inv, Basics, SeatsGiven, SeatsMarked

LEMMA InvMeans ==
    ASSUME Inv
    PROVE  /\ Basics /\ SeatsGiven /\ SeatsMarked
           /\ InSchedule /\ Sound(State) /\ crashes \in [Jobs -> Nat]
<1>1. Basics /\ SeatsGiven /\ SeatsMarked
  BY DEF Inv, Basics
<1>. QED BY <1>1, BasicsMean

LEMMA InvStep == Inv /\ [Next]_vars => Inv'
<1>. SUFFICES ASSUME Inv, [Next]_vars PROVE Inv'
  OBVIOUS
<1>1. Basics /\ SeatsGiven /\ SeatsMarked /\ InSchedule /\ Sound(State) /\ crashes \in [Jobs -> Nat]
  BY InvMeans
<1>2. Basics'
  BY <1>1, BasicsStep
<1>3. CASE Next
  <2>1. SeatsGiven' /\ SeatsMarked'
    BY <1>1, <1>3, StepsSeat
  <2>. QED BY <1>2, <2>1 DEF Inv, Basics
<1>4. CASE UNCHANGED vars
  <2>1. UNCHANGED <<rows, tickets, drawn, crashes>>
    BY <1>4 DEF vars
  <2>2. SeatsGiven' /\ SeatsMarked'
    BY <1>1, <2>1, SeatsAsBefore
  <2>. QED BY <1>2, <2>2 DEF Inv, Basics
<1>. QED BY <1>3, <1>4

(* The inductive invariant: besides what the run checks, that an event      *)
(* whose draw is not through has given out seats by interrupted draws alone *)
(* and that who has no ticket marked as seated was given theirs by such.    *)
THEOREM Invariance == Spec => []Inv
BY InitInv, InvStep, PTL DEF Spec

(* Confirmed or not, the seats that a staff event gives out by tokens, by   *)
(* lot, by rank and by backfill are never more than its cap, and as many    *)
(* again each time that a sweep of it or of its cluster is interrupted.     *)
THEOREM LotteryWithinCapAlways == Spec => []LotteryWithinCap
<1>1. Inv => LotteryWithinCap
  <2>. SUFFICES ASSUME Inv, NEW e \in Events \cap Staff \cap StaffHosted
                PROVE  Taken(rows[e]) <= Cap[e] * (1 + Crashed({e} \cup {x \in Clusters : e \in Members[x]}))
    BY DEF LotteryWithinCap
  <2>1. SeatsGiven /\ InSchedule /\ Sound(State) /\ crashes \in [Jobs -> Nat]
    BY InvMeans
  <2>. DEFINE m == Crashed({e} \cup {x \in Clusters : e \in Members[x]})
              h == IF HasDrawn(e) THEN 1 ELSE 0
  <2>2. {e} \cup {x \in Clusters : e \in Members[x]} \in SUBSET Jobs
    BY DEF Jobs
  <2>3. m \in Nat /\ h \in Nat /\ h <= 1
    BY <2>1, <2>2, CrashedMeans
  <2>4. Taken(rows[e]) <= Cap[e] * (m + h)
    BY <2>1 DEF SeatsGiven
  <2>5. Cap[e] \in Nat /\ Taken(rows[e]) \in Nat
    BY <2>1, EventIs, TakenIs
  <2>. HIDE DEF m, h
  <2>6. m + h \in Nat /\ 1 + m \in Nat /\ m + h <= 1 + m
    BY <2>3
  <2>. DEFINE i == Cap[e] * (m + h)
              j == Cap[e] * (1 + m)
  <2>7. i \in Nat /\ j \in Nat /\ i <= j
    BY <2>5, <2>6, Multiples
  <2>. HIDE DEF i, j
  <2>8. Taken(rows[e]) <= i
    BY <2>4 DEF i
  <2>9. Taken(rows[e]) <= j
    BY <2>5, <2>7, <2>8
  <2>. QED BY <2>9 DEF j, m
<1>. QED BY <1>1, Invariance, PTL

(* In a cluster of events that staff host nobody has a seat in two of them, *)
(* by the draw or by backfill, but for one more each time that a sweep is   *)
(* interrupted, as between a row and the mark of its ticket.                *)
THEOREM OneSeatPerClusterAlways == Spec => []OneSeatPerCluster
<1>1. Inv => OneSeatPerCluster
  <2>. SUFFICES ASSUME Inv, NEW x \in Clusters, Members[x] \subseteq StaffHosted, NEW c \in Everyone
                PROVE  Cardinality(SeatedIn(x, c)) <= 1 + Crashed({x} \cup Members[x])
    BY DEF OneSeatPerCluster
  <2>1. SeatsMarked /\ InSchedule /\ crashes \in [Jobs -> Nat]
    BY InvMeans
  <2>2. {x} \cup Members[x] \in SUBSET Jobs /\ Members[x] \subseteq UNION Schedules
    BY <2>1, CalendarAssumption DEF Jobs, InSchedule
  <2>3. Crashed({x} \cup Members[x]) \in Nat
    BY <2>1, <2>2, CrashedMeans
  <2>4. Cardinality(SeatedIn(x, c)) <= Crashed({x} \cup Members[x]) + IF Is(tickets[x], c, {"seated"}) THEN 1 ELSE 0
    BY <2>1 DEF SeatsMarked
  <2>5. Cardinality(SeatedIn(x, c)) \in Nat
    <3>1. SeatedIn(x, c) \subseteq UNION Schedules
      BY <2>2 DEF SeatedIn
    <3>. QED BY <3>1, CalendarAssumption, FS_Subset, FS_CardinalityType
  <2>. HIDE DEF Crashed
  <2>. QED BY <2>3, <2>4, <2>5
<1>. QED BY <1>1, Invariance, PTL
=============================================================================
