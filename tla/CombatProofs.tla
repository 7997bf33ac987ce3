----------------------------- MODULE CombatProofs -----------------------------
(***************************************************************************)
(* Theorems about Combat, for any fighters, sides, allowances and bounds.  *)
(* A call cascades, so everything is said of a state of the fight: what    *)
(* makes it sound, and how one may unfold into another within a step.      *)
(***************************************************************************)
EXTENDS Combat, SumProofs, SequenceTheorems

-----------------------------------------------------------------------------
(***************************************************************************)
(* A sound state of the fight.                                             *)
(***************************************************************************)
Books == UNION {[S -> Exchanges] : S \in SUBSET Ids}

States ==
    [rows : [Fighters -> Rows], exchanges : Books, epoch : 1..MaxEpoch,
     next : 1..(MaxExchange + 1), started : BOOLEAN, paused : BOOLEAN, ended : BOOLEAN]

\* A row: what is left of its turn, what it kept when it Faded, and whether
\* it has a turn to spend on what it has declared.
RowSound(r, i) ==
    /\ r.left <= Allowance[i]
    /\ (r.status = "faded") <=> (r.fadedHp # None)
    /\ IsInjective(r.incoming)
    /\ r.outgoing # None => r.turns < TurnLimit

\* An exchange: who may answer it, who has, and what its phase tells.
BookSound(e) ==
    /\ e.targets # {} /\ e.actor \notin e.targets
    /\ DOMAIN e.reactions \subseteq e.targets /\ e.canceled \subseteq e.targets
    /\ DOMAIN e.reactions \cap e.canceled = {}
    /\ e.burst \/ e.revival => Cardinality(e.targets) = 1
    /\ e.resolved => e.burst
    /\ e.revival => DOMAIN e.reactions = {} /\ ~e.burst
    /\ e.phase = "press" => e.resolved /\ e.hit < MaxHit
    /\ e.phase = "waiting" => Owing(e) # {}

\* What ties the exchange named x to the rest of the state.
Tied(f, x) ==
    LET e == f.exchanges[x]
    IN  /\ e.id = x /\ x[1] = f.epoch /\ x[2] < f.next
        /\ f.rows[e.actor].outgoing = x
        /\ Cardinality(e.targets) <= f.rows[e.actor].left

Awaits(f, i, t) ==
    /\ t.id \in DOMAIN f.exchanges
    /\ f.exchanges[t.id].phase = "waiting" /\ f.exchanges[t.id].hit = t.hit
    /\ i \in f.exchanges[t.id].targets \ f.exchanges[t.id].canceled

Waiting(f, i) == ToSet(f.rows[i].incoming)
QueueSound(f, i) ==
    /\ \A t \in Tokens : t \in Waiting(f, i) <=> Awaits(f, i, t)
    /\ f.rows[i].outgoing # None =>
          /\ f.rows[i].outgoing \in DOMAIN f.exchanges
          /\ f.exchanges[f.rows[i].outgoing].actor = i

Sound(f) ==
    /\ f \in States
    /\ \A i \in Fighters : RowSound(f.rows[i], i) /\ QueueSound(f, i)
    /\ \A x \in DOMAIN f.exchanges : BookSound(f.exchanges[x]) /\ Tied(f, x)

\* NoneCornered, of a state.
Calm(f) == Cornered(f) = {}

Inv ==
    /\ Sound(fight) /\ Calm(fight)
    /\ status \in {"open", "shelved", "ended"}
    /\ marker \in [Fighters -> {"here", "there", None}] /\ there \subseteq Fighters
    /\ journal \in Seq(States) /\ Len(journal) <= Depth
    /\ \A k \in DOMAIN journal :
          Sound(journal[k]) /\ Calm(journal[k]) /\ journal[k].epoch <= fight.epoch

-----------------------------------------------------------------------------
(***************************************************************************)
(* Sequences, counting up to n, and functions defined by recursion on it.  *)
(***************************************************************************)
LEMMA Climb ==
    ASSUME NEW n \in Nat, NEW S, 0 \in S, \A i \in 1..n : i - 1 \in S => i \in S
    PROVE  n \in S
<1>. DEFINE T == {i \in 0..n : i \notin S}
<1>. SUFFICES ASSUME T # {} PROVE FALSE
  BY n \in 0..n
<1>1. T \in SUBSET Nat
  OBVIOUS
<1>2. PICK i \in T : \A j \in T : i <= j
  <2>. HIDE DEF T
  <2>. QED BY <1>1, LeastElement
<1>3. i \in 1..n /\ i - 1 \in 0..n /\ i - 1 \notin T
  BY <1>2
<1>. QED BY <1>3

(* What is true of 0, and of each number after one it is true of.          *)
LEMMA ClimbAll ==
    ASSUME NEW n \in Nat, NEW S, 0 \in S, \A i \in 1..n : i - 1 \in S => i \in S
    PROVE  \A m \in 0..n : m \in S
<1>. SUFFICES ASSUME NEW m \in 0..n PROVE m \in S
  OBVIOUS
<1>1. m \in Nat /\ \A i \in 1..m : i \in 1..n
  OBVIOUS
<1>2. \A i \in 1..m : i - 1 \in S => i \in S
  BY <1>1
<1>. HIDE <1>1
<1>. QED BY <1>1, <1>2, Climb

(* A recursive definition whose steps stay in the sets D has a solution.   *)
Solves(h, N, d, step) == h = [n \in 0..N |-> IF n = 0 THEN d ELSE step[n][h[n - 1]]]

LEMMA Recursion ==
    ASSUME NEW N \in Nat, NEW D, NEW step, NEW d, d \in D[0],
           \A n \in 1..N : \A s \in D[n - 1] : step[n][s] \in D[n]
    PROVE  \E h : Solves(h, N, d, step) /\ \A n \in 0..N : h[n] \in D[n]
<1>. DEFINE Goes(h, m) == /\ h = [n \in 0..m |-> IF n = 0 THEN d ELSE step[n][h[n - 1]]]
                          /\ \A n \in 0..m : h[n] \in D[n]
            S == {m \in 0..N : \E h : Goes(h, m)}
<1>1. 0 \in S
  <2>. DEFINE h == [n \in 0..0 |-> d]
  <2>1. h = [n \in 0..0 |-> IF n = 0 THEN d ELSE step[n][h[n - 1]]]
    OBVIOUS
  <2>2. \A n \in 0..0 : h[n] \in D[n]
    OBVIOUS
  <2>3. Goes(h, 0)
    BY <2>1, <2>2, Zenon
  <2>. HIDE DEF Goes, h
  <2>. QED BY <2>3
<1>2. ASSUME NEW m \in 1..N, m - 1 \in S PROVE m \in S
  <2>1. PICK g : Goes(g, m - 1)
    BY <1>2
  <2>2. /\ DOMAIN g = 0..(m - 1) /\ g[m - 1] \in D[m - 1]
        /\ \A n \in 0..(m - 1) : g[n] = IF n = 0 THEN d ELSE step[n][g[n - 1]]
        /\ \A n \in 0..(m - 1) : g[n] \in D[n]
    <3>1. m - 1 \in 0..(m - 1)
      OBVIOUS
    <3>. QED BY <2>1, <3>1
  <2>. DEFINE h == [n \in 0..m |-> IF n = m THEN step[m][g[m - 1]] ELSE g[n]]
  <2>3. \A n \in 0..m : h[n] = IF n = 0 THEN d ELSE step[n][h[n - 1]]
    <3>. SUFFICES ASSUME NEW n \in 0..m PROVE h[n] = IF n = 0 THEN d ELSE step[n][h[n - 1]]
      OBVIOUS
    <3>1. CASE n = m
      <4>1. m # 0 /\ m - 1 \in 0..m /\ m - 1 # m
        OBVIOUS
      <4>. QED BY <3>1, <4>1
    <3>2. CASE n # m
      <4>1. n \in 0..(m - 1) /\ h[n] = g[n]
        BY <3>2
      <4>2. n # 0 => h[n - 1] = g[n - 1]
        BY <3>2
      <4>. HIDE DEF h
      <4>. QED BY <2>2, <4>1, <4>2
    <3>. QED BY <3>1, <3>2
  <2>4. \A n \in 0..m : h[n] \in D[n]
    <3>. SUFFICES ASSUME NEW n \in 0..m PROVE h[n] \in D[n]
      OBVIOUS
    <3>1. CASE n = m
      BY <2>2, <3>1
    <3>2. CASE n # m
      <4>1. n \in 0..(m - 1)
        BY <3>2
      <4>. QED BY <2>2, <3>2, <4>1
    <3>. QED BY <3>1, <3>2
  <2>5. h = [n \in 0..m |-> IF n = 0 THEN d ELSE step[n][h[n - 1]]]
    <3>1. h = [n \in 0..m |-> h[n]]
      OBVIOUS
    <3>. HIDE DEF h
    <3>. QED BY <2>3, <3>1
  <2>6. Goes(h, m)
    <3>. HIDE DEF h
    <3>. QED BY <2>4, <2>5
  <2>. HIDE DEF Goes, h
  <2>. QED BY <1>2, <2>6
<1>3. N \in S
  <2>1. \A m \in 1..N : m - 1 \in S => m \in S
    BY <1>2
  <2>. HIDE DEF S
  <2>. QED BY <1>1, <2>1, Climb
<1>4. PICK h : Goes(h, N)
  <2>. HIDE DEF Goes
  <2>. QED BY <1>3
<1>. QED BY <1>4 DEF Solves

(* The first element that is in S is one of them.                          *)
LEMMA FirstMeans ==
    ASSUME NEW T, NEW s \in Seq(T), NEW S, ToSet(s) \cap S # {}
    PROVE  First(s, S) \in ToSet(s) \cap S
<1>. DEFINE I == {k \in 1..Len(s) : s[k] \in S}
<1>1. DOMAIN s = 1..Len(s) /\ Len(s) \in Nat
  OBVIOUS
<1>2. I \in SUBSET Nat /\ I # {}
  BY <1>1 DEF ToSet
<1>3. PICK m \in I : \A k \in I : m <= k
  <2>. HIDE DEF I
  <2>. QED BY <1>2, LeastElement
<1>. DEFINE P(k) == k \in DOMAIN s /\ s[k] \in S /\ \A l \in 1..(k - 1) : s[l] \notin S
<1>4. P(m)
  <2>1. ASSUME NEW l \in 1..(m - 1), s[l] \in S PROVE FALSE
    <3>1. l \in I
      BY <1>1, <1>3, <2>1
    <3>. QED BY <1>1, <1>3, <3>1
  <2>. QED BY <1>1, <1>3, <2>1
<1>5. First(s, S) = s[CHOOSE k \in DOMAIN s : s[k] \in S /\ \A l \in 1..(k - 1) : s[l] \notin S]
  BY Zenon DEF First
<1>6. \E k \in DOMAIN s : s[k] \in S /\ First(s, S) = s[k]
  BY <1>4, <1>5, Zenon
<1>. QED BY <1>6 DEF ToSet

(* list.remove, of a list without repetitions.                             *)
LEMMA Dropped ==
    ASSUME NEW T, NEW s \in Seq(T), IsInjective(s), NEW e
    PROVE  /\ Removed(s, e) \in Seq(T) /\ IsInjective(Removed(s, e))
           /\ ToSet(Removed(s, e)) = ToSet(s) \ {e}
<1>1. DOMAIN s = 1..Len(s) /\ Len(s) \in Nat /\ \A k \in 1..Len(s) : s[k] \in T
  OBVIOUS
<1>i. \A a, b \in 1..Len(s) : s[a] = s[b] => a = b
  BY <1>1, Zenon DEF IsInjective
<1>2. CASE e \notin ToSet(s)
  <2>1. Removed(s, e) = s
    BY <1>2, Zenon DEF Removed
  <2>. QED BY <1>2, <2>1
<1>3. CASE e \in ToSet(s)
  <2>. DEFINE P(k) == k \in DOMAIN s /\ s[k] = e /\ \A l \in 1..(k - 1) : s[l] # e
              n == CHOOSE k \in DOMAIN s : s[k] = e /\ \A l \in 1..(k - 1) : s[l] # e
  <2>1. Removed(s, e) = SubSeq(s, 1, n - 1) \o SubSeq(s, n + 1, Len(s))
    BY <1>3, Zenon DEF Removed, RemoveAt
  <2>2. n \in 1..Len(s) /\ s[n] = e
    <3>1. PICK m \in 1..Len(s) : s[m] = e
      BY <1>1, <1>3 DEF ToSet
    <3>2. P(m)
      BY <1>1, <1>i, <3>1
    <3>3. P(n)
      BY <3>2, Zenon
    <3>. QED BY <1>1, <3>3
  <2>. HIDE DEF n
  <2>. DEFINE r == SubSeq(s, 1, n - 1) \o SubSeq(s, n + 1, Len(s))
  <2>3. /\ r \in Seq(T) /\ Len(r) = Len(s) - 1
        /\ \A k \in 1..(Len(s) - 1) : r[k] = IF k < n THEN s[k] ELSE s[k + 1]
    <3>. DEFINE a == SubSeq(s, 1, n - 1)
                b == SubSeq(s, n + 1, Len(s))
    <3>1. a \in Seq(T) /\ Len(a) = n - 1 /\ \A k \in 1..(n - 1) : a[k] = s[k]
      BY <1>1, <2>2
    <3>2. b \in Seq(T) /\ Len(b) = Len(s) - n /\ \A k \in 1..(Len(s) - n) : b[k] = s[n + k]
      <4>1. n + 1 \in Int /\ Len(s) \in Int /\ \A k \in (n + 1)..Len(s) : s[k] \in T
        BY <1>1, <2>2
      <4>2. /\ b \in Seq(T) /\ Len(b) = IF n + 1 <= Len(s) THEN Len(s) - (n + 1) + 1 ELSE 0
            /\ \A k \in 1..(Len(s) - (n + 1) + 1) : b[k] = s[n + 1 + k - 1]
        BY <4>1, SubSeqProperties
      <4>. HIDE DEF b
      <4>3. \A k \in 1..(Len(s) - n) : b[k] = s[n + k]
        <5>. SUFFICES ASSUME NEW k \in 1..(Len(s) - n) PROVE b[k] = s[n + k]
          OBVIOUS
        <5>1. k \in 1..(Len(s) - (n + 1) + 1) /\ n + 1 + k - 1 = n + k
          BY <1>1, <2>2
        <5>. QED BY <4>2, <5>1
      <4>4. Len(b) = Len(s) - n
        <5>. DEFINE L == Len(s)
        <5>1. Len(b) = IF n + 1 <= L THEN L - (n + 1) + 1 ELSE 0
          BY <4>2
        <5>2. n \in 1..L /\ L \in Nat
          BY <1>1, <2>2
        <5>. HIDE DEF L
        <5>3. Len(b) = L - n
          BY <5>1, <5>2
        <5>. QED BY <5>3 DEF L
      <4>. QED BY <4>2, <4>3, <4>4
    <3>. HIDE DEF a, b
    <3>3. a \o b \in Seq(T) /\ Len(a \o b) = Len(s) - 1
      <4>1. a \o b \in Seq(T) /\ Len(a \o b) = Len(a) + Len(b)
        BY <3>1, <3>2
      <4>. QED BY <1>1, <2>2, <3>1, <3>2, <4>1
    <3>4. ASSUME NEW k \in 1..(Len(s) - 1)
          PROVE  (a \o b)[k] = IF k < n THEN s[k] ELSE s[k + 1]
      <4>1. CASE k < n
        BY <1>1, <2>2, <3>1, <3>2, <4>1
      <4>2. CASE ~(k < n)
        <5>1. k - (n - 1) \in 1..(Len(s) - n) /\ n + (k - (n - 1)) = k + 1
          BY <1>1, <2>2, <4>2
        <5>2. (a \o b)[k] = b[k - (n - 1)]
          BY <1>1, <2>2, <3>1, <3>2, <4>2
        <5>. QED BY <3>2, <4>2, <5>1, <5>2
      <4>. QED BY <4>1, <4>2
    <3>5. r = a \o b
      BY DEF a, b
    <3>. HIDE DEF r
    <3>. QED BY <3>3, <3>4, <3>5
  <2>. HIDE DEF r
  <2>4. DOMAIN r = 1..(Len(s) - 1)
    BY <1>1, <2>3
  <2>5. IsInjective(r)
    <3>. SUFFICES ASSUME NEW x \in 1..(Len(s) - 1), NEW y \in 1..(Len(s) - 1), r[x] = r[y]
                  PROVE  x = y
      BY <2>4, Zenon DEF IsInjective
    <3>1. \A k \in 1..(Len(s) - 1) : k \in 1..Len(s) /\ k + 1 \in 1..Len(s)
      BY <1>1
    <3>. QED BY <1>1, <1>i, <2>2, <2>3, <3>1
  <2>6. ASSUME NEW v \in ToSet(s), v # e PROVE v \in ToSet(r)
    <3>1. PICK k \in 1..Len(s) : s[k] = v
      BY <1>1 DEF ToSet
    <3>2. CASE k < n
      <4>1. k \in 1..(Len(s) - 1) /\ r[k] = v
        BY <1>1, <2>2, <2>3, <3>1, <3>2
      <4>. QED BY <2>4, <4>1 DEF ToSet
    <3>3. CASE k > n
      <4>1. k - 1 \in 1..(Len(s) - 1) /\ r[k - 1] = v
        BY <1>1, <2>2, <2>3, <3>1, <3>3
      <4>. QED BY <2>4, <4>1 DEF ToSet
    <3>4. k # n
      BY <2>2, <2>6, <3>1
    <3>. QED BY <1>1, <2>2, <3>2, <3>3, <3>4
  <2>7. ASSUME NEW v \in ToSet(r) PROVE v \in ToSet(s) /\ v # e
    <3>1. PICK k \in 1..(Len(s) - 1) : r[k] = v
      BY <2>4 DEF ToSet
    <3>. DEFINE l == IF k < n THEN k ELSE k + 1
    <3>2. l \in 1..Len(s) /\ l # n /\ s[l] = v
      BY <1>1, <2>2, <2>3, <3>1
    <3>. HIDE DEF l
    <3>. QED BY <1>1, <1>i, <2>2, <3>2 DEF ToSet
  <2>. QED BY <2>1, <2>3, <2>5, <2>6, <2>7 DEF r
<1>. QED BY <1>2, <1>3

(* list.append, of what the list does not have.                            *)
LEMMA Queues ==
    ASSUME NEW T, NEW s \in Seq(T), IsInjective(s), NEW e \in T, e \notin ToSet(s)
    PROVE  /\ Append(s, e) \in Seq(T) /\ IsInjective(Append(s, e))
           /\ ToSet(Append(s, e)) = ToSet(s) \cup {e}
<1>. DEFINE r == Append(s, e)
<1>1. /\ r \in Seq(T) /\ DOMAIN r = 1..(Len(s) + 1) /\ r[Len(s) + 1] = e /\ Len(s) \in Nat
      /\ \A k \in 1..Len(s) : r[k] = s[k]
      /\ DOMAIN s = 1..Len(s)
  OBVIOUS
<1>. HIDE DEF r
<1>2. \A k \in 1..Len(s) : s[k] # e
  BY <1>1 DEF ToSet
<1>i. \A a, b \in 1..Len(s) : s[a] = s[b] => a = b
  BY <1>1, Zenon DEF IsInjective
<1>3. IsInjective(r)
  <2>. SUFFICES ASSUME NEW x \in 1..(Len(s) + 1), NEW y \in 1..(Len(s) + 1), r[x] = r[y]
                PROVE  x = y
    BY <1>1, Zenon DEF IsInjective
  <2>. QED BY <1>1, <1>2, <1>i
<1>4. ToSet(r) = ToSet(s) \cup {e}
  <2>1. \A k \in 1..(Len(s) + 1) : k \in 1..Len(s) \/ k = Len(s) + 1
    BY <1>1
  <2>2. \A k \in 1..Len(s) : k \in 1..(Len(s) + 1)
    BY <1>1
  <2>3. Len(s) + 1 \in 1..(Len(s) + 1)
    BY <1>1
  <2>. QED BY <1>1, <2>1, <2>2, <2>3 DEF ToSet
<1>. QED BY <1>1, <1>3, <1>4 DEF r

-----------------------------------------------------------------------------
(***************************************************************************)
(* The constants, and a row that is harmed, healed or spends a turn.       *)
(***************************************************************************)
LEMMA Params ==
    /\ TurnLimit \in Nat \ {0} /\ MaxHp \in Nat \ {0} /\ Damage \in Nat \ {0}
    /\ MaxHit \in Nat \ {0} /\ MaxExchange \in Nat \ {0} /\ MaxEpoch \in Nat \ {0}
    /\ Depth \in Nat \ {0} /\ Retained \in Nat \ {0}
    /\ \A i \in Fighters : Allowance[i] \in 1..10
    /\ None \notin 0..MaxHp /\ None \notin Ids
    /\ Order \in Seq(Fighters)
BY CombatAssumption, Zenon DEF Ids, CombatAssumption

LEMMA FightersFinite ==
    IsFiniteSet(Fighters) /\ \A S \in SUBSET Fighters : IsFiniteSet(S) /\ Cardinality(S) \in Nat
<1>1. IsFiniteSet(Fighters)
  <2>1. Order \in Seq(Fighters)
    BY Params
  <2>2. DOMAIN Order = 1..Len(Order) /\ Len(Order) \in Nat
    BY <2>1
  <2>3. Fighters = {Order[k] : k \in 1..Len(Order)}
    BY <2>2, Zenon DEF Fighters, ToSet
  <2>4. IsFiniteSet(1..Len(Order))
    BY <2>2, FS_Interval
  <2>5. Order \in [1..Len(Order) -> Fighters]
    BY <2>1, <2>2
  <2>6. Order \in Surjection(1..Len(Order), Fighters)
    BY <2>3, <2>5 DEF Surjection
  <2>. QED BY <2>4, <2>6, FS_Surjection
<1>. QED BY <1>1, FS_Subset, FS_CardinalityType

LEMMA OfOne ==
    ASSUME NEW S \in SUBSET Fighters, Cardinality(S) = 1, NEW i \in S
    PROVE  S = {i}
<1>1. PICK j : S = {j}
  BY FightersFinite, FS_Singleton
<1>. QED BY <1>1

LEMMA Smaller ==
    ASSUME NEW S \in SUBSET Fighters, NEW T \in SUBSET S
    PROVE  Cardinality(T) <= Cardinality(S)
BY FightersFinite, FS_Subset

LEMMA Floors ==
    ASSUME NEW a \in Int, NEW b \in Int
    PROVE  /\ Most({a, b}) = IF a >= b THEN a ELSE b
           /\ Least({a, b}) = IF a <= b THEN a ELSE b
<1>1. \E x \in {a, b} : \A y \in {a, b} : x >= y
  OBVIOUS
<1>2. Most({a, b}) \in {a, b} /\ \A y \in {a, b} : Most({a, b}) >= y
  BY <1>1, Zenon DEF Most
<1>3. \E x \in {a, b} : \A y \in {a, b} : x <= y
  OBVIOUS
<1>4. Least({a, b}) \in {a, b} /\ \A y \in {a, b} : Least({a, b}) <= y
  BY <1>3, Zenon DEF Least
<1>. QED BY <1>2, <1>4

\* q is r with no more Vitality and perhaps fewer packets: its place in the
\* fight is the same; and its turn, and what it has declared.
Worn(r, q) ==
    /\ q \in Rows /\ q.hp <= r.hp /\ IsInjective(q.incoming)
    /\ q.status = r.status /\ q.fadedHp = r.fadedHp /\ q.exposure = r.exposure
Steady(r, q) == q.turns = r.turns /\ q.left = r.left /\ q.outgoing = r.outgoing

SpentOf(r, i) == r.turns * Allowance[i] + Allowance[i] - r.left

LEMMA WornTwice ==
    ASSUME NEW r \in Rows, NEW q, NEW s, Worn(r, q), Worn(q, s)
    PROVE  Worn(r, s)
<1>1. r.hp \in Int /\ q.hp \in Int /\ s.hp \in Int
  BY DEF Worn, Rows
<1>. QED BY <1>1 DEF Worn

LEMMA HarmedMeans ==
    ASSUME NEW r \in Rows, IsInjective(r.incoming), NEW n \in Nat
    PROVE  /\ Worn(r, Harmed(r, n)) /\ Steady(r, Harmed(r, n))
           /\ Harmed(r, n).incoming = r.incoming
<1>. DEFINE h == Most({0, r.hp - n})
            q == [r EXCEPT !.hp = h, !.downed = @ \/ h = 0]
<1>1. Harmed(r, n) = q
  BY Zenon DEF Harmed
<1>2. r.hp \in 0..MaxHp /\ MaxHp \in Nat /\ r.downed \in BOOLEAN
  BY Params DEF Rows
<1>3. h = IF 0 >= r.hp - n THEN 0 ELSE r.hp - n
  BY <1>2, Floors
<1>4. h \in 0..MaxHp /\ h <= r.hp
  BY <1>2, <1>3
<1>. HIDE DEF h
<1>5. q \in Rows
  BY <1>2, <1>4 DEF Rows
<1>6. /\ q.hp = h /\ q.incoming = r.incoming /\ q.status = r.status /\ q.fadedHp = r.fadedHp
      /\ q.exposure = r.exposure /\ q.turns = r.turns /\ q.left = r.left /\ q.outgoing = r.outgoing
  BY DEF Rows
<1>. HIDE DEF q
<1>. QED BY <1>1, <1>4, <1>5, <1>6 DEF Worn, Steady

LEMMA HealedMeans ==
    ASSUME NEW r \in Rows
    PROVE  /\ Healed(r, Damage) \in Rows /\ Steady(r, Healed(r, Damage))
           /\ Healed(r, Damage).incoming = r.incoming
           /\ Healed(r, Damage).status = r.status /\ Healed(r, Damage).fadedHp = r.fadedHp
           /\ Healed(r, Damage).exposure = r.exposure
<1>. DEFINE h == Least({MaxHp, r.hp + Damage})
            q == [r EXCEPT !.hp = h]
<1>1. Healed(r, Damage) = q
  BY Zenon DEF Healed
<1>2. r.hp \in 0..MaxHp /\ MaxHp \in Nat /\ Damage \in Nat
  BY Params DEF Rows
<1>3. h = IF MaxHp <= r.hp + Damage THEN MaxHp ELSE r.hp + Damage
  <2>1. MaxHp \in Int /\ r.hp + Damage \in Int
    BY <1>2
  <2>. QED BY <2>1, Floors
<1>4. h \in 0..MaxHp
  BY <1>2, <1>3
<1>. HIDE DEF h
<1>5. q \in Rows
  BY <1>4 DEF Rows
<1>6. /\ q.incoming = r.incoming /\ q.status = r.status /\ q.fadedHp = r.fadedHp
      /\ q.exposure = r.exposure /\ q.turns = r.turns /\ q.left = r.left /\ q.outgoing = r.outgoing
  BY DEF Rows
<1>. HIDE DEF q
<1>. QED BY <1>1, <1>5, <1>6 DEF Steady

LEMMA Product ==
    ASSUME NEW a \in Int, NEW b \in Int
    PROVE  a * b \in Int /\ (a + 1) * b = a * b + b
OBVIOUS

\* q is r with n actions spent, or what was left of its turn.
Spends(r, q, i, n) ==
    /\ Worn(r, q) /\ q.incoming = r.incoming /\ q.outgoing = r.outgoing
    /\ q.left <= Allowance[i] /\ SpentOf(q, i) >= SpentOf(r, i)
    /\ n <= r.left => SpentOf(q, i) >= SpentOf(r, i) + n

\* A turn is spent, or some of its actions: never fewer than were there.
LEMMA SpendingMeans ==
    ASSUME NEW i \in Fighters, NEW r \in Rows, r.left <= Allowance[i], r.turns < TurnLimit,
           IsInjective(r.incoming), NEW n \in Nat
    PROVE  Spends(r, Spending(i, r, n), i, n)
<1>. DEFINE q == Spending(i, r, n)
            A == Allowance[i]
<1>1. /\ A \in 1..10 /\ TurnLimit \in Nat /\ r.turns \in 0..TurnLimit /\ r.left \in 1..10
      /\ r.hp \in Int
  BY Params DEF Rows
<1>. HIDE DEF A
<1>2. CASE r.left > n
  <2>1. q = [r EXCEPT !.left = r.left - n]
    BY <1>2, Zenon DEF Spending
  <2>2. r.left - n \in 1..10 /\ r.left - n <= A
    BY <1>1, <1>2 DEF A
  <2>3. q \in Rows
    BY <2>1, <2>2 DEF Rows
  <2>4. /\ q.hp = r.hp /\ q.incoming = r.incoming /\ q.status = r.status /\ q.fadedHp = r.fadedHp
        /\ q.exposure = r.exposure /\ q.turns = r.turns /\ q.left = r.left - n
        /\ q.outgoing = r.outgoing
    BY <2>1 DEF Rows
  <2>. HIDE DEF q
  <2>5. SpentOf(q, i) = SpentOf(r, i) + n /\ SpentOf(r, i) \in Int
    <3>. DEFINE p == r.turns * A
    <3>1. p \in Int
      BY <1>1, Product
    <3>2. SpentOf(q, i) = p + A - (r.left - n) /\ SpentOf(r, i) = p + A - r.left
      BY <2>4, Zenon DEF SpentOf, A
    <3>. HIDE DEF p
    <3>. QED BY <1>1, <3>1, <3>2
  <2>. QED BY <1>1, <2>2, <2>3, <2>4, <2>5 DEF Worn, Spends, q, A
<1>3. CASE ~(r.left > n)
  <2>1. q = [r EXCEPT !.left = Allowance[i], !.turns = r.turns + 1]
    BY <1>3, Zenon DEF Spending
  <2>2. r.turns + 1 \in 0..TurnLimit
    BY <1>1
  <2>3. q \in Rows
    BY <1>1, <2>1, <2>2 DEF Rows, A
  <2>4. /\ q.hp = r.hp /\ q.incoming = r.incoming /\ q.status = r.status /\ q.fadedHp = r.fadedHp
        /\ q.exposure = r.exposure /\ q.turns = r.turns + 1 /\ q.left = A
        /\ q.outgoing = r.outgoing
    BY <2>1 DEF Rows, A
  <2>. HIDE DEF q
  <2>5. SpentOf(q, i) = SpentOf(r, i) + r.left /\ SpentOf(r, i) \in Int
    <3>. DEFINE p == r.turns * A
    <3>1. p \in Int /\ (r.turns + 1) * A = p + A
      BY <1>1, Product
    <3>2. SpentOf(q, i) = (r.turns + 1) * A + A - A /\ SpentOf(r, i) = p + A - r.left
      BY <2>4, Zenon DEF SpentOf, A
    <3>. HIDE DEF p
    <3>. QED BY <1>1, <3>1, <3>2
  <2>6. /\ n <= r.left => SpentOf(q, i) >= SpentOf(r, i) + n
        /\ SpentOf(q, i) >= SpentOf(r, i)
    BY <1>1, <1>3, <2>5
  <2>. QED BY <1>1, <2>3, <2>4, <2>6 DEF Worn, Spends, q, A
<1>. QED BY <1>2, <1>3

\* Poison harms at the end of an act, and changes nothing else of it.
LEMMA LossIs ==
    ASSUME NEW i, NEW luck
    PROVE  Loss(i, luck) \in Nat /\ \A loss \in Losses(i) : loss \in Nat
<1>1. Damage \in Nat /\ 0 \in Nat
  BY Params
<1>. QED BY <1>1 DEF Loss, Losses

LEMMA EndingMeans ==
    ASSUME NEW i \in Fighters, NEW r \in Rows, r.left <= Allowance[i], r.turns < TurnLimit,
           IsInjective(r.incoming), NEW n \in Nat, NEW loss \in Nat
    PROVE  Spends(r, Ending(i, r, n, loss), i, n)
<1>. DEFINE s == Spending(i, r, n)
            q == Harmed(s, loss)
<1>1. Spends(r, s, i, n)
  BY SpendingMeans
<1>. HIDE DEF s
<1>2. s \in Rows /\ IsInjective(s.incoming)
  BY <1>1 DEF Spends, Worn
<1>3. Worn(s, q) /\ Steady(s, q) /\ q.incoming = s.incoming
  BY <1>2, HarmedMeans
<1>. HIDE DEF q
<1>4. Worn(r, q)
  BY <1>1, <1>3, WornTwice DEF Spends
<1>5. SpentOf(q, i) = SpentOf(s, i)
  BY <1>3, Zenon DEF SpentOf, Steady
<1>6. Spends(r, q, i, n)
  BY <1>1, <1>3, <1>4, <1>5 DEF Spends, Steady
<1>. QED BY <1>6 DEF q, s, Ending

-----------------------------------------------------------------------------
(***************************************************************************)
(* A state whose exchanges are another's but for one, x, is sound if that  *)
(* one is, and the queues change in its packets alone.                     *)
(***************************************************************************)
LEMMA StateFields ==
    ASSUME NEW f \in States
    PROVE  /\ f.rows \in [Fighters -> Rows] /\ f.epoch \in 1..MaxEpoch
           /\ f.next \in 1..(MaxExchange + 1)
           /\ f.started \in BOOLEAN /\ f.paused \in BOOLEAN /\ f.ended \in BOOLEAN
           /\ DOMAIN f.exchanges \subseteq Ids
           /\ f.exchanges \in [DOMAIN f.exchanges -> Exchanges]
<1>1. PICK S \in SUBSET Ids : f.exchanges \in [S -> Exchanges]
  BY DEF States, Books
<1>. QED BY <1>1 DEF States

LEMMA BookIs ==
    ASSUME NEW D \in SUBSET Ids, NEW d \in [D -> Exchanges]
    PROVE  d \in Books
BY DEF Books

LEMMA SoundMeans ==
    ASSUME NEW f, Sound(f)
    PROVE  /\ f \in States /\ f.rows \in [Fighters -> Rows] /\ DOMAIN f.exchanges \subseteq Ids
           /\ \A x \in DOMAIN f.exchanges :
                 /\ f.exchanges[x] \in Exchanges /\ BookSound(f.exchanges[x]) /\ Tied(f, x)
           /\ \A i \in Fighters : RowSound(f.rows[i], i) /\ QueueSound(f, i)
BY StateFields DEF Sound

\* But for x, what is declared in g is what is declared in f.
Beside(f, g, x) ==
    /\ g.epoch = f.epoch /\ f.next <= g.next
    /\ \A y \in Ids \ {x} :
          /\ y \in DOMAIN g.exchanges <=> y \in DOMAIN f.exchanges
          /\ y \in DOMAIN f.exchanges => g.exchanges[y] = f.exchanges[y]

RowBeside(f, g, x, i) ==
    /\ RowSound(g.rows[i], i)
    /\ \/ g.rows[i].outgoing = f.rows[i].outgoing
       \/ {g.rows[i].outgoing, f.rows[i].outgoing} \subseteq {x, None}
    /\ g.rows[i].outgoing = x => x = None \/ (x \in DOMAIN g.exchanges /\ g.exchanges[x].actor = i)
    /\ f.rows[i].outgoing \notin {x, None} => f.rows[i].left <= g.rows[i].left
    /\ \A t \in Tokens : IF t.id = x THEN t \in Waiting(g, i) <=> Awaits(g, i, t)
                         ELSE t \in Waiting(g, i) <=> t \in Waiting(f, i)

LEMMA RowFields ==
    ASSUME NEW r \in Rows
    PROVE  /\ r.left \in Int /\ r.turns \in Int /\ r.hp \in Int /\ r.hp >= 0
           /\ r.exposure \in Int /\ r.incoming \in Seq(Tokens)
           /\ r.status \in {"active", "faded", "withdrawn"}
           /\ r.outgoing \in Ids \cup {None} /\ r.fadedHp \in (0..MaxHp) \cup {None}
           /\ r.turns >= 0 /\ r.turns <= TurnLimit /\ r.left >= 1 /\ r.left <= 10 /\ r.hp <= MaxHp
BY Params DEF Rows

LEMMA Reshape ==
    ASSUME NEW f, Sound(f), NEW g \in States, NEW x, Beside(f, g, x),
           \A i \in Fighters : RowBeside(f, g, x, i),
           x \in DOMAIN g.exchanges => BookSound(g.exchanges[x]) /\ Tied(g, x)
    PROVE  Sound(g)
<1>1. /\ f \in States /\ f.rows \in [Fighters -> Rows] /\ DOMAIN f.exchanges \subseteq Ids
      /\ g.rows \in [Fighters -> Rows] /\ DOMAIN g.exchanges \subseteq Ids
      /\ f.next \in Int /\ g.next \in Int
  BY SoundMeans, StateFields
<1>2. ASSUME NEW i \in Fighters PROVE QueueSound(g, i)
  <2>1. RowBeside(f, g, x, i) /\ QueueSound(f, i)
    BY SoundMeans
  <2>2. ASSUME NEW t \in Tokens PROVE t \in Waiting(g, i) <=> Awaits(g, i, t)
    <3>1. CASE t.id = x
      BY <2>1, <3>1 DEF RowBeside
    <3>2. CASE t.id # x
      <4>1. t \in Waiting(g, i) <=> Awaits(f, i, t)
        BY <2>1, <3>2 DEF RowBeside, QueueSound
      <4>2. t.id \in Ids \ {x}
        BY <3>2 DEF Tokens
      <4>3. Awaits(f, i, t) <=> Awaits(g, i, t)
        BY <4>2 DEF Beside, Awaits
      <4>. QED BY <4>1, <4>3
    <3>. QED BY <3>1, <3>2
  <2>3. g.rows[i].outgoing # None =>
           /\ g.rows[i].outgoing \in DOMAIN g.exchanges
           /\ g.exchanges[g.rows[i].outgoing].actor = i
    <3>. DEFINE o == g.rows[i].outgoing
    <3>. SUFFICES ASSUME o # None PROVE o \in DOMAIN g.exchanges /\ g.exchanges[o].actor = i
      OBVIOUS
    <3>1. CASE o = x
      BY <2>1, <3>1 DEF RowBeside
    <3>2. CASE o # x
      <4>1. o = f.rows[i].outgoing
        BY <2>1, <3>2 DEF RowBeside
      <4>2. o \in DOMAIN f.exchanges /\ f.exchanges[o].actor = i
        BY <2>1, <4>1 DEF QueueSound
      <4>. QED BY <1>1, <3>2, <4>2 DEF Beside
    <3>. QED BY <3>1, <3>2
  <2>. QED BY <2>2, <2>3 DEF QueueSound
<1>3. ASSUME NEW y \in DOMAIN g.exchanges PROVE BookSound(g.exchanges[y]) /\ Tied(g, y)
  <2>1. CASE y = x
    BY <2>1
  <2>2. CASE y # x
    <3>1. y \in DOMAIN f.exchanges /\ g.exchanges[y] = f.exchanges[y] /\ y \in Ids
      BY <1>1, <2>2 DEF Beside
    <3>2. BookSound(f.exchanges[y]) /\ Tied(f, y) /\ f.exchanges[y] \in Exchanges
      BY <3>1, SoundMeans
    <3>. DEFINE e == f.exchanges[y]
                a == e.actor
    <3>3. a \in Fighters /\ IsFiniteSet(e.targets) /\ Cardinality(e.targets) \in Nat
      BY <3>2, FightersFinite DEF Exchanges
    <3>4. f.rows[a].outgoing = y /\ y # None /\ y # x
      BY <2>2, <3>1, <3>2, Params DEF Tied
    <3>5. g.rows[a].outgoing = y /\ f.rows[a].left <= g.rows[a].left
      <4>1. RowBeside(f, g, x, a)
        BY <3>3
      <4>. QED BY <3>4, <4>1 DEF RowBeside
    <3>6. f.rows[a].left \in Int /\ g.rows[a].left \in Int
      <4>1. f.rows[a] \in Rows /\ g.rows[a] \in Rows
        BY <1>1, <3>3
      <4>. HIDE DEF a
      <4>. QED BY <4>1, RowFields
    <3>7. e.id = y /\ y[1] = f.epoch /\ y[2] < f.next /\ Cardinality(e.targets) <= f.rows[a].left
      BY <3>2 DEF Tied
    <3>8. y[2] \in Int
      BY <3>1 DEF Ids
    <3>9. y[1] = g.epoch /\ y[2] < g.next /\ Cardinality(e.targets) <= g.rows[a].left
      BY <1>1, <3>3, <3>5, <3>6, <3>7, <3>8 DEF Beside
    <3>. QED BY <3>1, <3>2, <3>5, <3>7, <3>9 DEF Tied
  <2>. QED BY <2>1, <2>2
<1>. QED BY <1>2, <1>3 DEF Sound, RowBeside

-----------------------------------------------------------------------------
(***************************************************************************)
(* How a state may unfold into another while a call cascades: nothing is   *)
(* declared, nobody gains, and what was accepted stands or is paid for.    *)
(***************************************************************************)
Due(e) == IF e.resolved THEN 1 ELSE Cardinality(DOMAIN e.reactions)

Honours(f, g, x) ==
    IF x \in DOMAIN g.exchanges
    THEN /\ g.exchanges[x].actor = f.exchanges[x].actor
         /\ SpentOf(g.rows[f.exchanges[x].actor], f.exchanges[x].actor)
               >= SpentOf(f.rows[f.exchanges[x].actor], f.exchanges[x].actor)
         /\ Due(g.exchanges[x]) >= Due(f.exchanges[x])
         /\ \/ g.exchanges[x].phase = "press"
            \/ /\ f.exchanges[x].phase = "waiting"
               /\ \A i \in DOMAIN f.exchanges[x].reactions :
                     /\ i \in DOMAIN g.exchanges[x].reactions
                     /\ g.exchanges[x].reactions[i] = f.exchanges[x].reactions[i]
    ELSE SpentOf(g.rows[f.exchanges[x].actor], f.exchanges[x].actor)
            >= SpentOf(f.rows[f.exchanges[x].actor], f.exchanges[x].actor) + Due(f.exchanges[x])

RowUnfolds(r, q, i) ==
    /\ q.exposure = r.exposure /\ q.hp <= r.hp /\ SpentOf(q, i) >= SpentOf(r, i)
    /\ \/ q.status = r.status /\ q.fadedHp = r.fadedHp
       \/ r.status = "active" /\ q.status = "faded" /\ q.fadedHp <= r.hp

Unfolds(f, g) ==
    /\ g.epoch = f.epoch /\ g.next = f.next
    /\ \A i \in Fighters : RowUnfolds(f.rows[i], g.rows[i], i) /\ Waiting(g, i) \subseteq Waiting(f, i)
    /\ DOMAIN g.exchanges \subseteq DOMAIN f.exchanges
    /\ \A x \in DOMAIN f.exchanges : Honours(f, g, x)

\* What is open was open, and is honoured.
Carries(f, g) ==
    /\ \A i \in Fighters : SpentOf(g.rows[i], i) >= SpentOf(f.rows[i], i)
    /\ DOMAIN g.exchanges \subseteq DOMAIN f.exchanges
    /\ \A x \in DOMAIN f.exchanges : Honours(f, g, x)

\* Nobody's place in the fight changes.
Places(f, g) == \A i \in Fighters : g.rows[i].status = f.rows[i].status
Settles(f, g) == Unfolds(f, g) /\ Places(f, g)

LEMMA SpentType ==
    ASSUME NEW r \in Rows, NEW i \in Fighters
    PROVE  SpentOf(r, i) \in Int
<1>1. r.turns \in Int /\ r.left \in Int /\ Allowance[i] \in Int
  BY Params DEF Rows
<1>2. r.turns * Allowance[i] \in Int
  BY <1>1, Product
<1>. QED BY <1>1, <1>2 DEF SpentOf

LEMMA DueType ==
    ASSUME NEW e \in Exchanges
    PROVE  Due(e) \in Nat
<1>1. DOMAIN e.reactions \in SUBSET Fighters
  BY DEF Exchanges
<1>2. Cardinality(DOMAIN e.reactions) \in Nat
  BY <1>1, FightersFinite
<1>. QED BY <1>2 DEF Due

LEMMA RowUnfoldsTwice ==
    ASSUME NEW i \in Fighters, NEW r \in Rows, NEW q \in Rows, NEW s \in Rows,
           RowSound(r, i), RowSound(q, i), RowSound(s, i),
           RowUnfolds(r, q, i), RowUnfolds(q, s, i)
    PROVE  RowUnfolds(r, s, i)
<1>1. r.hp \in Int /\ q.hp \in Int /\ s.hp \in Int
  BY DEF Rows
<1>2. SpentOf(r, i) \in Int /\ SpentOf(q, i) \in Int /\ SpentOf(s, i) \in Int
  BY SpentType
<1>3. s.exposure = r.exposure /\ s.hp <= r.hp /\ SpentOf(s, i) >= SpentOf(r, i)
  BY <1>1, <1>2 DEF RowUnfolds
<1>4. s.status = "faded" => s.fadedHp \in 0..MaxHp
  BY DEF RowSound, Rows
<1>5. \/ s.status = r.status /\ s.fadedHp = r.fadedHp
      \/ r.status = "active" /\ s.status = "faded" /\ s.fadedHp <= r.hp
  <2>1. MaxHp \in Nat
    BY Params
  <2>. QED BY <1>1, <1>4, <2>1 DEF RowUnfolds
<1>. QED BY <1>3, <1>5 DEF RowUnfolds

LEMMA HonoursTwice ==
    ASSUME NEW f, Sound(f), NEW g, Sound(g), NEW h, Sound(h), NEW x \in DOMAIN f.exchanges,
           Honours(f, g, x), Carries(g, h)
    PROVE  Honours(f, h, x)
<1>. DEFINE e == f.exchanges[x]
            a == e.actor
<1>1. e \in Exchanges /\ a \in Fighters /\ Due(e) \in Nat
  <2>1. e \in Exchanges
    BY SoundMeans
  <2>. QED BY <2>1, DueType DEF Exchanges
<1>2. /\ SpentOf(f.rows[a], a) \in Int /\ SpentOf(g.rows[a], a) \in Int /\ SpentOf(h.rows[a], a) \in Int
      /\ SpentOf(h.rows[a], a) >= SpentOf(g.rows[a], a)
  <2>1. f.rows[a] \in Rows /\ g.rows[a] \in Rows /\ h.rows[a] \in Rows
    BY <1>1, SoundMeans
  <2>2. SpentOf(h.rows[a], a) >= SpentOf(g.rows[a], a)
    BY <1>1, Zenon DEF Carries
  <2>. QED BY <1>1, <2>1, <2>2, SpentType
<1>3. CASE x \notin DOMAIN g.exchanges
  <2>1. x \notin DOMAIN h.exchanges
    BY <1>3 DEF Carries
  <2>2. SpentOf(g.rows[a], a) >= SpentOf(f.rows[a], a) + Due(e)
    BY <1>3, Zenon DEF Honours
  <2>3. SpentOf(h.rows[a], a) >= SpentOf(f.rows[a], a) + Due(e)
    <3>. HIDE DEF a, e
    <3>. QED BY <1>1, <1>2, <2>2
  <2>. QED BY <2>1, <2>3, Zenon DEF Honours
<1>4. CASE x \in DOMAIN g.exchanges
  <2>. DEFINE d == g.exchanges[x]
              c == h.exchanges[x]
  <2>1. d \in Exchanges /\ Due(d) \in Nat
    <3>1. d \in Exchanges
      BY <1>4, SoundMeans
    <3>. QED BY <3>1, DueType
  <2>2. /\ d.actor = a /\ Due(d) >= Due(e) /\ SpentOf(g.rows[a], a) >= SpentOf(f.rows[a], a)
        /\ \/ d.phase = "press"
           \/ /\ e.phase = "waiting"
              /\ \A i \in DOMAIN e.reactions :
                    i \in DOMAIN d.reactions /\ d.reactions[i] = e.reactions[i]
    BY <1>4, Zenon DEF Honours
  <2>3. Honours(g, h, x)
    BY <1>4 DEF Carries
  <2>4. CASE x \notin DOMAIN h.exchanges
    <3>1. SpentOf(h.rows[a], a) >= SpentOf(g.rows[a], a) + Due(d)
      BY <2>2, <2>3, <2>4, Zenon DEF Honours
    <3>2. SpentOf(h.rows[a], a) >= SpentOf(f.rows[a], a) + Due(e)
      <4>. HIDE DEF a, e, d
      <4>. QED BY <1>1, <1>2, <2>1, <2>2, <3>1
    <3>. QED BY <2>4, <3>2, Zenon DEF Honours
  <2>5. CASE x \in DOMAIN h.exchanges
    <3>1. /\ c.actor = a /\ Due(c) >= Due(d)
          /\ \/ c.phase = "press"
             \/ /\ d.phase = "waiting"
                /\ \A i \in DOMAIN d.reactions :
                      i \in DOMAIN c.reactions /\ c.reactions[i] = d.reactions[i]
      BY <2>2, <2>3, <2>5, Zenon DEF Honours
    <3>2. c \in Exchanges /\ Due(c) \in Nat
      <4>1. c \in Exchanges
        BY <2>5, SoundMeans
      <4>. QED BY <4>1, DueType
    <3>3. Due(c) >= Due(e) /\ SpentOf(h.rows[a], a) >= SpentOf(f.rows[a], a)
      <4>. HIDE DEF a, c, d, e
      <4>. QED BY <1>1, <1>2, <2>1, <2>2, <3>1, <3>2
    <3>4. \/ c.phase = "press"
          \/ /\ e.phase = "waiting"
             /\ \A i \in DOMAIN e.reactions :
                   i \in DOMAIN c.reactions /\ c.reactions[i] = e.reactions[i]
      <4>. HIDE DEF a, c, d, e
      <4>1. d.phase = "waiting" => d.phase # "press"
        OBVIOUS
      <4>. QED BY <2>2, <3>1, <4>1
    <3>. QED BY <2>5, <3>1, <3>3, <3>4, Zenon DEF Honours
  <2>. QED BY <2>4, <2>5
<1>. QED BY <1>3, <1>4

LEMMA UnfoldsCarries ==
    ASSUME NEW f, NEW g, Unfolds(f, g)
    PROVE  Carries(f, g)
BY DEF Unfolds, RowUnfolds, Carries

LEMMA UnfoldsTwice ==
    ASSUME NEW f, Sound(f), NEW g, Sound(g), NEW h, Sound(h), Unfolds(f, g), Unfolds(g, h)
    PROVE  Unfolds(f, h)
<1>1. ASSUME NEW i \in Fighters
      PROVE  RowUnfolds(f.rows[i], h.rows[i], i) /\ Waiting(h, i) \subseteq Waiting(f, i)
  <2>1. /\ f.rows[i] \in Rows /\ g.rows[i] \in Rows /\ h.rows[i] \in Rows
        /\ RowSound(f.rows[i], i) /\ RowSound(g.rows[i], i) /\ RowSound(h.rows[i], i)
    BY SoundMeans
  <2>2. /\ RowUnfolds(f.rows[i], g.rows[i], i) /\ Waiting(g, i) \subseteq Waiting(f, i)
        /\ RowUnfolds(g.rows[i], h.rows[i], i) /\ Waiting(h, i) \subseteq Waiting(g, i)
    BY DEF Unfolds
  <2>. QED BY <2>1, <2>2, RowUnfoldsTwice
<1>2. ASSUME NEW x \in DOMAIN f.exchanges PROVE Honours(f, h, x)
  <2>1. Honours(f, g, x)
    BY DEF Unfolds
  <2>. QED BY <2>1, HonoursTwice, UnfoldsCarries
<1>. QED BY <1>1, <1>2 DEF Unfolds

LEMMA UnfoldsSelf ==
    ASSUME NEW f, Sound(f)
    PROVE  Settles(f, f)
<1>1. ASSUME NEW i \in Fighters PROVE RowUnfolds(f.rows[i], f.rows[i], i)
  <2>1. f.rows[i] \in Rows
    BY SoundMeans
  <2>2. f.rows[i].hp \in Int /\ SpentOf(f.rows[i], i) \in Int
    BY <2>1, SpentType DEF Rows
  <2>. QED BY <2>2 DEF RowUnfolds
<1>2. ASSUME NEW x \in DOMAIN f.exchanges PROVE Honours(f, f, x)
  <2>1. f.exchanges[x] \in Exchanges
    BY SoundMeans
  <2>. DEFINE e == f.exchanges[x]
              a == e.actor
  <2>2. Due(e) \in Nat /\ (e.phase = "waiting" \/ e.phase = "press") /\ a \in Fighters
    BY <2>1, DueType DEF Exchanges
  <2>3. SpentOf(f.rows[a], a) \in Int
    BY <2>2, SoundMeans, SpentType
  <2>4. Due(e) >= Due(e) /\ SpentOf(f.rows[a], a) >= SpentOf(f.rows[a], a)
    <3>. HIDE DEF e, a
    <3>. QED BY <2>2, <2>3
  <2>. QED BY <2>2, <2>4, Zenon DEF Honours
<1>. QED BY <1>1, <1>2 DEF Unfolds, Settles, Places

LEMMA SettlesTwice ==
    ASSUME NEW f, Sound(f), NEW g, Sound(g), NEW h, Sound(h), Settles(f, g), Settles(g, h)
    PROVE  Settles(f, h)
BY UnfoldsTwice DEF Settles, Places

-----------------------------------------------------------------------------
(***************************************************************************)
(* One exchange changes, or ends, and rows are worn on the way.            *)
(***************************************************************************)
SameClock(f, g) == g.epoch = f.epoch /\ g.next = f.next /\ g.ended = f.ended
WornRows(f, g) == \A i \in Fighters : Worn(f.rows[i], g.rows[i])

\* The queues lose packets of x alone: those that x no longer awaits.
Thinned(f, g, x) ==
    \A i \in Fighters : \A t \in Tokens :
        t \in Waiting(g, i) <=> t \in Waiting(f, i) /\ (t.id = x => Awaits(g, i, t))

Elsewise(f, g, x) ==
    \A y \in Ids \ {x} :
        /\ y \in DOMAIN g.exchanges <=> y \in DOMAIN f.exchanges
        /\ y \in DOMAIN f.exchanges => g.exchanges[y] = f.exchanges[y]

\* d is the exchange e with answers in it, or gone on from.
Keeps(e, d) ==
    /\ d.id = e.id /\ d.actor = e.actor /\ Cardinality(d.targets) <= Cardinality(e.targets)
    /\ Due(d) >= Due(e)
    /\ \/ d.phase = "press"
       \/ /\ e.phase = "waiting" /\ d.hit = e.hit
          /\ d.targets \ d.canceled \subseteq e.targets \ e.canceled
          /\ \A i \in DOMAIN e.reactions :
                i \in DOMAIN d.reactions /\ d.reactions[i] = e.reactions[i]

LEMMA ThinnedIn ==
    ASSUME NEW f, NEW g, NEW x, NEW i \in Fighters, Sound(f), g \in States, Thinned(f, g, x)
    PROVE  Waiting(g, i) \subseteq Waiting(f, i)
<1>1. g.rows[i].incoming \in Seq(Tokens)
  BY StateFields, RowFields
<1>2. Waiting(g, i) \subseteq Tokens
  BY <1>1 DEF Waiting, ToSet
<1>. QED BY <1>2 DEF Thinned

LEMMA HonoursOthers ==
    ASSUME NEW f, Sound(f), NEW g, NEW y \in DOMAIN f.exchanges,
           y \in DOMAIN g.exchanges, g.exchanges[y] = f.exchanges[y],
           SpentOf(g.rows[f.exchanges[y].actor], f.exchanges[y].actor)
              >= SpentOf(f.rows[f.exchanges[y].actor], f.exchanges[y].actor)
    PROVE  Honours(f, g, y)
<1>. DEFINE e == f.exchanges[y]
<1>1. e \in Exchanges
  BY SoundMeans
<1>2. Due(e) \in Nat /\ (e.phase = "waiting" \/ e.phase = "press")
  BY <1>1, DueType DEF Exchanges
<1>3. Due(e) >= Due(e)
  <2>. HIDE DEF e
  <2>. QED BY <1>2
<1>. QED BY <1>2, <1>3, Zenon DEF Honours

LEMMA KeptOn ==
    ASSUME NEW f, Sound(f), NEW g \in States, NEW x \in DOMAIN f.exchanges,
           SameClock(f, g), WornRows(f, g), Thinned(f, g, x), Elsewise(f, g, x),
           \A i \in Fighters : Steady(f.rows[i], g.rows[i]),
           x \in DOMAIN g.exchanges, BookSound(g.exchanges[x]),
           Keeps(f.exchanges[x], g.exchanges[x])
    PROVE  Sound(g) /\ Settles(f, g)
<1>. DEFINE e == f.exchanges[x]
            d == g.exchanges[x]
            a == e.actor
<1>1. /\ f \in States /\ f.rows \in [Fighters -> Rows] /\ DOMAIN f.exchanges \subseteq Ids
      /\ g.rows \in [Fighters -> Rows] /\ DOMAIN g.exchanges \subseteq Ids
      /\ f.next \in Int /\ e \in Exchanges /\ d \in Exchanges /\ BookSound(e) /\ Tied(f, x)
  BY SoundMeans, StateFields
<1>2. a \in Fighters /\ Cardinality(e.targets) \in Nat /\ Cardinality(d.targets) \in Nat
  <2>1. e.targets \in SUBSET Fighters /\ d.targets \in SUBSET Fighters /\ a \in Fighters
    BY <1>1 DEF Exchanges
  <2>. QED BY <2>1, FightersFinite
<1>3. ASSUME NEW i \in Fighters PROVE RowBeside(f, g, x, i)
  <2>1. /\ RowSound(f.rows[i], i) /\ QueueSound(f, i)
        /\ Worn(f.rows[i], g.rows[i]) /\ Steady(f.rows[i], g.rows[i])
    BY SoundMeans DEF WornRows
  <2>2. RowSound(g.rows[i], i)
    BY <2>1 DEF RowSound, Worn, Steady
  <2>3. f.rows[i].left <= g.rows[i].left
    <3>1. f.rows[i].left \in Int
      BY <1>1, RowFields
    <3>. QED BY <2>1, <3>1 DEF Steady
  <2>4. ASSUME NEW t \in Tokens, t.id = x PROVE t \in Waiting(g, i) <=> Awaits(g, i, t)
    <3>1. t \in Waiting(g, i) <=> t \in Waiting(f, i) /\ Awaits(g, i, t)
      BY <2>4 DEF Thinned
    <3>2. Awaits(g, i, t) => Awaits(f, i, t)
      <4>. SUFFICES ASSUME Awaits(g, i, t) PROVE Awaits(f, i, t)
        OBVIOUS
      <4>1. d.phase = "waiting" /\ d.hit = t.hit /\ i \in d.targets \ d.canceled
        BY <2>4 DEF Awaits
      <4>2. e.phase = "waiting" /\ d.hit = e.hit /\ i \in e.targets \ e.canceled
        BY <4>1 DEF Keeps
      <4>. QED BY <2>4, <4>1, <4>2 DEF Awaits
    <3>. QED BY <2>1, <3>1, <3>2 DEF QueueSound
  <2>5. ASSUME NEW t \in Tokens, t.id # x PROVE t \in Waiting(g, i) <=> t \in Waiting(f, i)
    BY <2>5 DEF Thinned
  <2>6. g.rows[i].outgoing = x => x \in DOMAIN g.exchanges /\ d.actor = i
    <3>1. g.rows[i].outgoing = f.rows[i].outgoing /\ x # None
      BY <1>1, <2>1, Params DEF Steady
    <3>2. d.actor = a
      BY DEF Keeps
    <3>. QED BY <2>1, <3>1, <3>2 DEF QueueSound
  <2>. QED BY <2>1, <2>2, <2>3, <2>4, <2>5, <2>6 DEF RowBeside, Steady
<1>4. Tied(g, x)
  <2>1. d.id = x /\ d.actor = a /\ Cardinality(d.targets) <= Cardinality(e.targets)
    BY <1>1 DEF Keeps, Tied
  <2>2. g.rows[a].outgoing = x /\ g.rows[a].left = f.rows[a].left
    BY <1>1, <1>2 DEF Steady, Tied
  <2>3. f.rows[a].left \in Int
    BY <1>1, <1>2, RowFields
  <2>4. Cardinality(d.targets) <= g.rows[a].left
    <3>1. Cardinality(e.targets) <= f.rows[a].left
      BY <1>1 DEF Tied
    <3>. HIDE DEF e, d, a
    <3>. QED BY <1>2, <2>1, <2>2, <2>3, <3>1
  <2>. QED BY <1>1, <2>1, <2>2, <2>4 DEF Tied, SameClock
<1>5. Sound(g)
  <2>1. Beside(f, g, x)
    BY <1>1 DEF SameClock, Elsewise, Beside
  <2>. QED BY <1>3, <1>4, <2>1, Reshape
<1>6. ASSUME NEW i \in Fighters
      PROVE  /\ RowUnfolds(f.rows[i], g.rows[i], i) /\ Waiting(g, i) \subseteq Waiting(f, i)
             /\ g.rows[i].status = f.rows[i].status
             /\ SpentOf(g.rows[i], i) >= SpentOf(f.rows[i], i)
  <2>1. Worn(f.rows[i], g.rows[i]) /\ Steady(f.rows[i], g.rows[i])
    BY DEF WornRows
  <2>2. SpentOf(f.rows[i], i) \in Int
    BY <1>1, SpentType
  <2>3. SpentOf(g.rows[i], i) = SpentOf(f.rows[i], i)
    BY <2>1, Zenon DEF Steady, SpentOf
  <2>. QED BY <2>1, <2>2, <2>3, ThinnedIn DEF Worn, RowUnfolds
<1>7. ASSUME NEW y \in DOMAIN f.exchanges PROVE Honours(f, g, y)
  <2>1. CASE y = x
    <3>1. SpentOf(g.rows[a], a) >= SpentOf(f.rows[a], a)
      BY <1>2, <1>6
    <3>. QED BY <2>1, <3>1, Zenon DEF Honours, Keeps
  <2>2. CASE y # x
    <3>1. y \in DOMAIN g.exchanges /\ g.exchanges[y] = f.exchanges[y]
      BY <1>1, <2>2 DEF Elsewise
    <3>2. f.exchanges[y].actor \in Fighters
      BY SoundMeans DEF Exchanges
    <3>3. SpentOf(g.rows[f.exchanges[y].actor], f.exchanges[y].actor)
             >= SpentOf(f.rows[f.exchanges[y].actor], f.exchanges[y].actor)
      BY <3>2, <1>6
    <3>. QED BY <3>1, <3>3, HonoursOthers
  <2>. QED BY <2>1, <2>2
<1>8. DOMAIN g.exchanges \subseteq DOMAIN f.exchanges
  BY <1>1 DEF Elsewise
<1>. QED BY <1>5, <1>6, <1>7, <1>8 DEF Settles, Unfolds, Places, SameClock

\* The actor's row when x ends: the turn goes on, and pays what is due.
Pays(r, q, i, due) ==
    /\ Worn(r, q) /\ q.outgoing = None /\ q.left <= Allowance[i]
    /\ SpentOf(q, i) >= SpentOf(r, i) + due

LEMMA Over ==
    ASSUME NEW f, Sound(f), NEW g \in States, NEW x \in DOMAIN f.exchanges,
           SameClock(f, g), WornRows(f, g), Thinned(f, g, x), Elsewise(f, g, x),
           \A i \in Fighters \ {f.exchanges[x].actor} : Steady(f.rows[i], g.rows[i]),
           x \notin DOMAIN g.exchanges,
           Pays(f.rows[f.exchanges[x].actor], g.rows[f.exchanges[x].actor],
                f.exchanges[x].actor, Due(f.exchanges[x]))
    PROVE  Sound(g) /\ Settles(f, g)
<1>. DEFINE e == f.exchanges[x]
            a == e.actor
<1>1. /\ f \in States /\ f.rows \in [Fighters -> Rows] /\ DOMAIN f.exchanges \subseteq Ids
      /\ g.rows \in [Fighters -> Rows] /\ DOMAIN g.exchanges \subseteq Ids
      /\ f.next \in Int /\ e \in Exchanges /\ Tied(f, x) /\ Due(e) \in Nat
  BY SoundMeans, StateFields, DueType
<1>2. a \in Fighters /\ f.rows[a].outgoing = x /\ x # None
  BY <1>1, Params DEF Exchanges, Tied
<1>3. ASSUME NEW i \in Fighters PROVE RowBeside(f, g, x, i)
  <2>1. /\ RowSound(f.rows[i], i) /\ QueueSound(f, i) /\ Worn(f.rows[i], g.rows[i])
    BY SoundMeans DEF WornRows
  <2>2. ASSUME NEW t \in Tokens, t.id = x PROVE t \in Waiting(g, i) <=> Awaits(g, i, t)
    <3>1. ~Awaits(g, i, t)
      BY <2>2 DEF Awaits
    <3>. QED BY <2>2, <3>1 DEF Thinned
  <2>3. ASSUME NEW t \in Tokens, t.id # x PROVE t \in Waiting(g, i) <=> t \in Waiting(f, i)
    BY <2>3 DEF Thinned
  <2>4. CASE i = a
    <3>1. g.rows[i].outgoing = None /\ g.rows[i].left <= Allowance[i]
      BY <2>4 DEF Pays
    <3>2. RowSound(g.rows[i], i)
      BY <2>1, <3>1 DEF RowSound, Worn
    <3>. QED BY <1>2, <2>2, <2>3, <2>4, <3>1, <3>2 DEF RowBeside
  <2>5. CASE i # a
    <3>1. Steady(f.rows[i], g.rows[i])
      BY <2>5
    <3>2. RowSound(g.rows[i], i)
      BY <2>1, <3>1 DEF RowSound, Worn, Steady
    <3>3. f.rows[i].left <= g.rows[i].left
      <4>1. f.rows[i].left \in Int
        BY <1>1, RowFields
      <4>. QED BY <3>1, <4>1 DEF Steady
    <3>4. f.rows[i].outgoing # x
      BY <1>2, <2>1, <2>5 DEF QueueSound
    <3>. QED BY <2>2, <2>3, <3>1, <3>2, <3>3, <3>4 DEF RowBeside, Steady
  <2>. QED BY <2>4, <2>5
<1>4. Sound(g)
  <2>1. Beside(f, g, x)
    BY <1>1 DEF SameClock, Elsewise, Beside
  <2>. QED BY <1>3, <2>1, Reshape
<1>5. ASSUME NEW i \in Fighters
      PROVE  /\ RowUnfolds(f.rows[i], g.rows[i], i) /\ Waiting(g, i) \subseteq Waiting(f, i)
             /\ g.rows[i].status = f.rows[i].status
             /\ SpentOf(g.rows[i], i) >= SpentOf(f.rows[i], i)
             /\ i = a => SpentOf(g.rows[i], i) >= SpentOf(f.rows[i], i) + Due(e)
  <2>1. Worn(f.rows[i], g.rows[i])
    BY DEF WornRows
  <2>2. SpentOf(f.rows[i], i) \in Int /\ SpentOf(g.rows[i], i) \in Int
    BY <1>1, SpentType
  <2>3. CASE i = a
    <3>1. SpentOf(g.rows[i], i) >= SpentOf(f.rows[i], i) + Due(e)
      BY <2>3, Zenon DEF Pays
    <3>2. SpentOf(g.rows[i], i) >= SpentOf(f.rows[i], i)
      <4>. HIDE DEF e
      <4>. QED BY <1>1, <2>2, <3>1
    <3>. QED BY <2>1, <3>1, <3>2, ThinnedIn DEF Worn, RowUnfolds
  <2>4. CASE i # a
    <3>1. SpentOf(g.rows[i], i) = SpentOf(f.rows[i], i)
      <4>1. Steady(f.rows[i], g.rows[i])
        BY <2>4
      <4>. QED BY <4>1, Zenon DEF Steady, SpentOf
    <3>. QED BY <2>1, <2>2, <2>4, <3>1, ThinnedIn DEF Worn, RowUnfolds
  <2>. QED BY <2>3, <2>4
<1>6. ASSUME NEW y \in DOMAIN f.exchanges PROVE Honours(f, g, y)
  <2>1. CASE y = x
    <3>1. SpentOf(g.rows[a], a) >= SpentOf(f.rows[a], a) + Due(e)
      BY <1>2, <1>5
    <3>. QED BY <2>1, <3>1, Zenon DEF Honours
  <2>2. CASE y # x
    <3>1. y \in DOMAIN g.exchanges /\ g.exchanges[y] = f.exchanges[y]
      BY <1>1, <2>2 DEF Elsewise
    <3>2. f.exchanges[y].actor \in Fighters
      BY SoundMeans DEF Exchanges
    <3>3. SpentOf(g.rows[f.exchanges[y].actor], f.exchanges[y].actor)
             >= SpentOf(f.rows[f.exchanges[y].actor], f.exchanges[y].actor)
      BY <3>2, <1>5
    <3>. QED BY <3>1, <3>3, HonoursOthers
  <2>. QED BY <2>1, <2>2
<1>7. DOMAIN g.exchanges \subseteq DOMAIN f.exchanges
  BY <1>1 DEF Elsewise
<1>. QED BY <1>4, <1>5, <1>6, <1>7 DEF Settles, Unfolds, Places, SameClock

-----------------------------------------------------------------------------
(***************************************************************************)
(* finish_exchange and the end of a canceled one.                          *)
(***************************************************************************)
LEMMA SetRow ==
    ASSUME NEW f \in States, NEW i \in Fighters, NEW r \in Rows
    PROVE  /\ [f EXCEPT !.rows[i] = r] \in States
           /\ [f EXCEPT !.rows[i] = r].rows = [f.rows EXCEPT ![i] = r]
           /\ [f EXCEPT !.rows[i] = r].exchanges = f.exchanges
           /\ SameClock(f, [f EXCEPT !.rows[i] = r])
BY DEF States, SameClock

LEMMA SetRows ==
    ASSUME NEW f \in States, NEW rows \in [Fighters -> Rows]
    PROVE  /\ [f EXCEPT !.rows = rows] \in States
           /\ [f EXCEPT !.rows = rows].rows = rows
           /\ [f EXCEPT !.rows = rows].exchanges = f.exchanges
           /\ SameClock(f, [f EXCEPT !.rows = rows])
BY DEF States, SameClock

LEMMA SetBook ==
    ASSUME NEW f \in States, NEW x \in DOMAIN f.exchanges, NEW d \in Exchanges
    PROVE  /\ [f EXCEPT !.exchanges[x] = d] \in States
           /\ [f EXCEPT !.exchanges[x] = d].rows = f.rows
           /\ [f EXCEPT !.exchanges[x] = d].exchanges = [f.exchanges EXCEPT ![x] = d]
           /\ SameClock(f, [f EXCEPT !.exchanges[x] = d])
           /\ Elsewise(f, [f EXCEPT !.exchanges[x] = d], x)
<1>. DEFINE g == [f EXCEPT !.exchanges[x] = d]
            b == [f.exchanges EXCEPT ![x] = d]
<1>1. /\ f.exchanges \in [DOMAIN f.exchanges -> Exchanges] /\ DOMAIN f.exchanges \in SUBSET Ids
  BY StateFields
<1>2. b \in Books
  <2>1. b \in [DOMAIN f.exchanges -> Exchanges]
    BY <1>1
  <2>. QED BY <1>1, <2>1, BookIs
<1>3. g = [f EXCEPT !.exchanges = b]
  BY DEF States
<1>4. /\ DOMAIN b = DOMAIN f.exchanges /\ b[x] = d
      /\ \A y \in DOMAIN f.exchanges \ {x} : b[y] = f.exchanges[y]
  BY <1>1
<1>. HIDE DEF b
<1>5. g \in States /\ g.rows = f.rows /\ g.exchanges = b /\ SameClock(f, g)
  BY <1>2, <1>3 DEF States, SameClock
<1>6. Elsewise(f, g, x)
  BY <1>1, <1>4, <1>5 DEF Elsewise
<1>. QED BY <1>5, <1>6 DEF b

LEMMA WithoutIs ==
    ASSUME NEW f \in States, NEW e \in Exchanges
    PROVE  /\ Without(f, e) \in States
           /\ SameClock(f, Without(f, e))
           /\ Without(f, e).rows = [f.rows EXCEPT ![e.actor] = [@ EXCEPT !.outgoing = None]]
           /\ Without(f, e).exchanges = Restrict(f.exchanges, DOMAIN f.exchanges \ {e.id})
           /\ Elsewise(f, Without(f, e), e.id) /\ e.id \notin DOMAIN Without(f, e).exchanges
<1>. DEFINE b == Restrict(f.exchanges, DOMAIN f.exchanges \ {e.id})
            a == e.actor
            rows == [f.rows EXCEPT ![a] = [@ EXCEPT !.outgoing = None]]
            g == Without(f, e)
<1>1. /\ f.exchanges \in [DOMAIN f.exchanges -> Exchanges] /\ DOMAIN f.exchanges \in SUBSET Ids
      /\ f.rows \in [Fighters -> Rows] /\ a \in Fighters
  BY StateFields DEF Exchanges
<1>2. /\ DOMAIN b = DOMAIN f.exchanges \ {e.id}
      /\ \A y \in DOMAIN f.exchanges \ {e.id} : b[y] = f.exchanges[y]
      /\ b \in [DOMAIN f.exchanges \ {e.id} -> Exchanges]
  BY <1>1 DEF Restrict
<1>3. b \in Books
  BY <1>1, <1>2, BookIs
<1>4. rows \in [Fighters -> Rows]
  <2>1. [f.rows[a] EXCEPT !.outgoing = None] \in Rows
    BY <1>1 DEF Rows
  <2>. QED BY <1>1, <2>1
<1>5. g = [f EXCEPT !.exchanges = b, !.rows = rows]
  <2>1. g = [f EXCEPT !.exchanges = b, !.rows[a].outgoing = None]
    BY DEF Without
  <2>. QED BY <2>1 DEF States
<1>. HIDE DEF b, rows
<1>6. /\ g \in States /\ g.rows = rows /\ g.exchanges = b /\ SameClock(f, g)
  BY <1>3, <1>4, <1>5 DEF States, SameClock
<1>7. Elsewise(f, g, e.id) /\ e.id \notin DOMAIN g.exchanges
  BY <1>1, <1>2, <1>6 DEF Elsewise
<1>. QED BY <1>6, <1>7 DEF b, rows

\* h is what f has come to when only x is left to end.
Spares(f, h, x) ==
    /\ h \in States /\ SameClock(f, h) /\ WornRows(f, h) /\ Elsewise(f, h, x)
    /\ x \in DOMAIN h.exchanges
    /\ \A i \in Fighters : Steady(f.rows[i], h.rows[i])
    /\ \A i \in Fighters : \A t \in Tokens :
          t \in Waiting(h, i) <=> t \in Waiting(f, i) /\ t.id # x

LEMMA ThinnedWithout ==
    ASSUME NEW f, NEW h, NEW g, NEW x, Spares(f, h, x), x \notin DOMAIN g.exchanges,
           \A i \in Fighters : g.rows[i].incoming = h.rows[i].incoming
    PROVE  Thinned(f, g, x)
<1>. SUFFICES ASSUME NEW i \in Fighters, NEW t \in Tokens
              PROVE  t \in Waiting(g, i) <=> t \in Waiting(f, i) /\ (t.id = x => Awaits(g, i, t))
  BY DEF Thinned
<1>1. t \in Waiting(g, i) <=> t \in Waiting(f, i) /\ t.id # x
  BY DEF Spares, Waiting
<1>2. t.id = x => ~Awaits(g, i, t)
  BY DEF Awaits
<1>. QED BY <1>1, <1>2

LEMMA ElsewiseTwice ==
    ASSUME NEW f, NEW g, NEW h, NEW x, Elsewise(f, g, x), Elsewise(g, h, x)
    PROVE  Elsewise(f, h, x)
BY DEF Elsewise

LEMMA WithoutEnds ==
    ASSUME NEW f, Sound(f), NEW x \in DOMAIN f.exchanges, NEW h, Spares(f, h, x),
           NEW d \in Exchanges, d.id = x, d.actor = f.exchanges[x].actor, Due(f.exchanges[x]) = 0
    PROVE  /\ Sound(Without(h, d)) /\ Settles(f, Without(h, d))
           /\ Elsewise(f, Without(h, d), x) /\ x \notin DOMAIN Without(h, d).exchanges
<1>. DEFINE g == Without(h, d)
            a == d.actor
<1>1. /\ h \in States /\ SameClock(f, h) /\ WornRows(f, h) /\ Elsewise(f, h, x)
      /\ \A i \in Fighters : Steady(f.rows[i], h.rows[i])
      /\ h.rows \in [Fighters -> Rows] /\ f.rows \in [Fighters -> Rows] /\ a \in Fighters
  BY SoundMeans, StateFields DEF Spares, Exchanges
<1>2. /\ g \in States /\ SameClock(h, g)
      /\ g.rows = [h.rows EXCEPT ![a] = [@ EXCEPT !.outgoing = None]]
      /\ Elsewise(h, g, x) /\ x \notin DOMAIN g.exchanges
  BY <1>1, WithoutIs
<1>. HIDE DEF g
<1>3. /\ \A i \in Fighters \ {a} : g.rows[i] = h.rows[i]
      /\ g.rows[a] = [h.rows[a] EXCEPT !.outgoing = None]
  BY <1>1, <1>2
<1>4. /\ g.rows[a].outgoing = None /\ g.rows[a].incoming = h.rows[a].incoming
      /\ g.rows[a].left = h.rows[a].left /\ g.rows[a].turns = h.rows[a].turns
      /\ g.rows[a].hp = h.rows[a].hp /\ g.rows[a].status = h.rows[a].status
      /\ g.rows[a].fadedHp = h.rows[a].fadedHp /\ g.rows[a].exposure = h.rows[a].exposure
      /\ g.rows[a] \in Rows
  <2>1. h.rows[a] \in Rows
    BY <1>1
  <2>. QED BY <1>3, <2>1 DEF Rows
<1>5. Worn(f.rows[a], g.rows[a])
  <2>1. Worn(f.rows[a], h.rows[a])
    BY <1>1 DEF WornRows
  <2>. QED BY <1>4, <2>1 DEF Worn
<1>6. WornRows(f, g)
  BY <1>1, <1>3, <1>5 DEF WornRows
<1>7. Pays(f.rows[a], g.rows[a], a, 0)
  <2>1. Steady(f.rows[a], h.rows[a]) /\ RowSound(f.rows[a], a)
    BY <1>1, SoundMeans
  <2>2. g.rows[a].left <= Allowance[a]
    BY <1>4, <2>1 DEF Steady, RowSound
  <2>3. SpentOf(g.rows[a], a) = SpentOf(f.rows[a], a)
    BY <1>4, <2>1, Zenon DEF SpentOf, Steady
  <2>4. SpentOf(f.rows[a], a) \in Int
    BY <1>1, SpentType
  <2>. QED BY <1>4, <1>5, <2>2, <2>3, <2>4 DEF Pays
<1>8. Thinned(f, g, x)
  <2>1. \A i \in Fighters : g.rows[i].incoming = h.rows[i].incoming
    BY <1>3, <1>4
  <2>. QED BY <1>2, <2>1, ThinnedWithout
<1>9. SameClock(f, g) /\ Elsewise(f, g, x)
  BY <1>1, <1>2, ElsewiseTwice DEF SameClock
<1>10. \A i \in Fighters \ {a} : Steady(f.rows[i], g.rows[i])
  BY <1>1, <1>3
<1>11. Sound(g) /\ Settles(f, g)
  BY <1>2, <1>6, <1>7, <1>8, <1>9, <1>10, Over
<1>. QED BY <1>2, <1>9, <1>11 DEF g

LEMMA FinishedEnds ==
    ASSUME NEW f, Sound(f), NEW x \in DOMAIN f.exchanges, NEW h, Spares(f, h, x),
           NEW d \in Exchanges, d.id = x, d.actor = f.exchanges[x].actor,
           NEW n \in Nat, n = (IF d.burst THEN 1 ELSE Cardinality(d.targets \ d.canceled)),
           n <= f.rows[d.actor].left, Due(f.exchanges[x]) <= n, NEW loss \in Nat
    PROVE  /\ Sound(Finished(h, d, loss)) /\ Settles(f, Finished(h, d, loss))
           /\ Elsewise(f, Finished(h, d, loss), x) /\ x \notin DOMAIN Finished(h, d, loss).exchanges
<1>. DEFINE g == Finished(h, d, loss)
            w == Without(h, d)
            a == d.actor
<1>1. /\ h \in States /\ SameClock(f, h) /\ WornRows(f, h) /\ Elsewise(f, h, x)
      /\ \A i \in Fighters : Steady(f.rows[i], h.rows[i])
      /\ h.rows \in [Fighters -> Rows] /\ f.rows \in [Fighters -> Rows] /\ a \in Fighters
  BY SoundMeans, StateFields DEF Spares, Exchanges
<1>2. /\ w \in States /\ SameClock(h, w)
      /\ w.rows = [h.rows EXCEPT ![a] = [@ EXCEPT !.outgoing = None]]
      /\ Elsewise(h, w, x) /\ x \notin DOMAIN w.exchanges
  BY <1>1, WithoutIs
<1>3. g = [w EXCEPT !.rows[a] = Ending(a, w.rows[a], n, loss)]
  <2>1. g = [w EXCEPT !.rows[a] = Ending(a, @, IF d.burst THEN 1 ELSE Cardinality(d.targets \ d.canceled), loss)]
    BY DEF Finished
  <2>2. g = [w EXCEPT !.rows[a] = Ending(a, @, n, loss)]
    BY <2>1
  <2>. HIDE DEF g, w
  <2>. QED BY <1>2, <2>2 DEF States
<1>. HIDE DEF g, w
<1>4. /\ \A i \in Fighters \ {a} : w.rows[i] = h.rows[i]
      /\ w.rows[a] = [h.rows[a] EXCEPT !.outgoing = None]
  BY <1>1, <1>2
<1>5. /\ w.rows[a].outgoing = None /\ w.rows[a].incoming = h.rows[a].incoming
      /\ w.rows[a].left = h.rows[a].left /\ w.rows[a].turns = h.rows[a].turns
      /\ w.rows[a].hp = h.rows[a].hp /\ w.rows[a].status = h.rows[a].status
      /\ w.rows[a].fadedHp = h.rows[a].fadedHp /\ w.rows[a].exposure = h.rows[a].exposure
      /\ w.rows[a] \in Rows
  <2>1. h.rows[a] \in Rows
    BY <1>1
  <2>. QED BY <1>4, <2>1 DEF Rows
<1>6. /\ Worn(f.rows[a], w.rows[a]) /\ f.rows[a] \in Rows
      /\ w.rows[a].left = f.rows[a].left /\ w.rows[a].turns = f.rows[a].turns
  <2>1. Worn(f.rows[a], h.rows[a]) /\ Steady(f.rows[a], h.rows[a])
    BY <1>1 DEF WornRows
  <2>. QED BY <1>1, <1>5, <2>1 DEF Worn, Steady
<1>7. /\ w.rows[a].left <= Allowance[a] /\ w.rows[a].turns < TurnLimit
      /\ IsInjective(w.rows[a].incoming)
  <2>1. RowSound(f.rows[a], a) /\ f.rows[a].outgoing = x /\ x # None
    <3>1. Tied(f, x) /\ x \in Ids
      BY SoundMeans
    <3>. QED BY <1>1, <3>1, SoundMeans, Params DEF Tied
  <2>. QED BY <1>6, <2>1 DEF RowSound, Worn
<1>. DEFINE q == Ending(a, w.rows[a], n, loss)
<1>8. Spends(w.rows[a], q, a, n)
  BY <1>1, <1>5, <1>7, EndingMeans
<1>. HIDE DEF q
<1>9. /\ g \in States /\ g.rows = [w.rows EXCEPT ![a] = q] /\ g.exchanges = w.exchanges
      /\ SameClock(w, g)
  <2>1. q \in Rows
    BY <1>8 DEF Spends, Worn
  <2>2. g = [w EXCEPT !.rows[a] = q]
    BY <1>3 DEF q
  <2>. QED BY <1>1, <1>2, <2>1, <2>2, SetRow
<1>10. g.rows[a] = q /\ \A i \in Fighters \ {a} : g.rows[i] = h.rows[i]
  <2>1. w.rows \in [Fighters -> Rows]
    BY <1>2, StateFields
  <2>. QED BY <1>1, <1>4, <1>9, <2>1
<1>11. Pays(f.rows[a], g.rows[a], a, Due(f.exchanges[x]))
  <2>1. Worn(f.rows[a], q)
    BY <1>6, <1>8, WornTwice DEF Spends
  <2>2. q.outgoing = None /\ q.left <= Allowance[a]
    BY <1>5, <1>8 DEF Spends
  <2>3. SpentOf(w.rows[a], a) = SpentOf(f.rows[a], a)
    BY <1>6, Zenon DEF SpentOf
  <2>4. SpentOf(q, a) >= SpentOf(f.rows[a], a) + n
    BY <1>6, <1>8, <2>3 DEF Spends
  <2>5. Due(f.exchanges[x]) \in Nat /\ SpentOf(f.rows[a], a) \in Int /\ SpentOf(q, a) \in Int
    <3>1. f.exchanges[x] \in Exchanges /\ q \in Rows
      BY <2>1, SoundMeans DEF Worn
    <3>. QED BY <1>1, <1>6, <3>1, DueType, SpentType
  <2>6. SpentOf(q, a) >= SpentOf(f.rows[a], a) + Due(f.exchanges[x])
    BY <2>4, <2>5
  <2>. QED BY <1>10, <2>1, <2>2, <2>6 DEF Pays
<1>12. WornRows(f, g)
  BY <1>1, <1>10, <1>11 DEF WornRows, Pays
<1>13. Thinned(f, g, x)
  <2>1. \A i \in Fighters : g.rows[i].incoming = h.rows[i].incoming
    BY <1>5, <1>8, <1>10 DEF Spends
  <2>. QED BY <1>2, <1>9, <2>1, ThinnedWithout
<1>14. SameClock(f, g) /\ Elsewise(f, g, x) /\ x \notin DOMAIN g.exchanges
  <2>1. Elsewise(h, g, x)
    BY <1>2, <1>9 DEF Elsewise
  <2>. QED BY <1>1, <1>2, <1>9, <2>1, ElsewiseTwice DEF SameClock
<1>15. \A i \in Fighters \ {a} : Steady(f.rows[i], g.rows[i])
  BY <1>1, <1>10
<1>16. Sound(g) /\ Settles(f, g)
  BY <1>9, <1>11, <1>12, <1>13, <1>14, <1>15, Over
<1>. QED BY <1>14, <1>16 DEF g

-----------------------------------------------------------------------------
(***************************************************************************)
(* resolve_exchange: who is hurt, and what becomes of the exchange.        *)
(***************************************************************************)
Wounds(e, luck, i) == IF "wounds" \in luck.hits[<<e.id, i>>] THEN Damage ELSE 0
Countering(e, luck) ==
    {i \in DOMAIN e.reactions : "held" \in luck.hits[<<e.id, i>>] /\ e.reactions[i] = "overpower"}

Hurt(f, e, luck) ==
    [i \in Fighters |->
        IF i \in DOMAIN e.reactions
        THEN [Harmed(f.rows[i], Wounds(e, luck, i)) EXCEPT !.incoming = Removed(@, Token(e))]
        ELSE IF i = e.actor THEN Harmed(f.rows[i], Damage * Cardinality(Countering(e, luck)))
        ELSE f.rows[i]]

PressedOn(f, e) == [f EXCEPT !.exchanges[e.id] = [@ EXCEPT !.phase = "press", !.resolved = TRUE]]

LEMMA ResolvedIs ==
    ASSUME NEW f, NEW e, NEW luck
    PROVE  \/ /\ Resolved(f, e, luck) = PressedOn([f EXCEPT !.rows = Hurt(f, e, luck)], e)
              /\ e.burst /\ e.hit < MaxHit
           \/ Resolved(f, e, luck) =
                 Finished([f EXCEPT !.rows = Hurt(f, e, luck)], e, Loss(e.actor, luck))
<1>. DEFINE rows == Hurt(f, e, luck)
            hit == DOMAIN e.reactions
            goesOn == /\ e.burst
                      /\ ~(\E i \in hit : "held" \in luck.hits[<<e.id, i>>] /\ e.reactions[i] # "resist")
                      /\ e.hit < MaxHit
                      /\ \A i \in hit \cup {e.actor} : rows[i].hp > 0
<1>1. Resolved(f, e, luck) = IF goesOn THEN PressedOn([f EXCEPT !.rows = rows], e)
                             ELSE Finished([f EXCEPT !.rows = rows], e, Loss(e.actor, luck))
  BY DEF Resolved, PressedOn, Hurt, Wounds, Countering
<1>2. CASE goesOn
  BY <1>1, <1>2
<1>3. CASE ~goesOn
  <2>. HIDE DEF goesOn
  <2>. QED BY <1>1, <1>3
<1>. QED BY <1>2, <1>3

LEMMA DroppedRow ==
    ASSUME NEW r \in Rows, IsInjective(r.incoming), NEW t, NEW q,
           q = [r EXCEPT !.incoming = Removed(@, t)]
    PROVE  Worn(r, q) /\ Steady(r, q) /\ ToSet(q.incoming) = ToSet(r.incoming) \ {t}
<1>. DEFINE s == Removed(r.incoming, t)
<1>1. r.incoming \in Seq(Tokens) /\ r.hp \in Int
  BY RowFields
<1>2. s \in Seq(Tokens) /\ IsInjective(s) /\ ToSet(s) = ToSet(r.incoming) \ {t}
  BY <1>1, Dropped
<1>3. q = [r EXCEPT !.incoming = s]
  OBVIOUS
<1>. HIDE DEF s
<1>4. /\ q \in Rows /\ q.incoming = s /\ q.hp = r.hp /\ q.status = r.status
      /\ q.fadedHp = r.fadedHp /\ q.exposure = r.exposure
      /\ q.turns = r.turns /\ q.left = r.left /\ q.outgoing = r.outgoing
  BY <1>2, <1>3 DEF Rows
<1>. QED BY <1>1, <1>2, <1>4 DEF Worn, Steady

LEMMA HurtMeans ==
    ASSUME NEW f \in States, NEW e \in Exchanges, NEW luck, NEW i \in Fighters,
           IsInjective(f.rows[i].incoming)
    PROVE  /\ Hurt(f, e, luck)[i] \in Rows
           /\ Worn(f.rows[i], Hurt(f, e, luck)[i]) /\ Steady(f.rows[i], Hurt(f, e, luck)[i])
           /\ ToSet(Hurt(f, e, luck)[i].incoming) =
                 IF i \in DOMAIN e.reactions THEN Waiting(f, i) \ {Token(e)} ELSE Waiting(f, i)
<1>. DEFINE r == f.rows[i]
            q == Hurt(f, e, luck)[i]
<1>1. r \in Rows /\ r.hp \in Int
  <2>1. r \in Rows
    BY StateFields
  <2>. QED BY <2>1, RowFields
<1>2. CASE i \in DOMAIN e.reactions
  <2>. DEFINE n == Wounds(e, luck, i)
              m == Harmed(r, n)
  <2>1. n \in Nat
    BY Params DEF Wounds
  <2>2. Worn(r, m) /\ Steady(r, m) /\ m.incoming = r.incoming
    <3>. HIDE DEF n
    <3>. QED BY <1>1, <2>1, HarmedMeans
  <2>3. q = [m EXCEPT !.incoming = Removed(@, Token(e))]
    BY <1>2 DEF Hurt
  <2>. HIDE DEF m, q
  <2>4. m \in Rows /\ IsInjective(m.incoming)
    BY <2>2 DEF Worn
  <2>5. Worn(m, q) /\ Steady(m, q) /\ ToSet(q.incoming) = ToSet(m.incoming) \ {Token(e)}
    BY <2>3, <2>4, DroppedRow
  <2>6. Worn(r, q)
    BY <1>1, <2>2, <2>5, WornTwice
  <2>7. Steady(r, q) /\ ToSet(q.incoming) = Waiting(f, i) \ {Token(e)}
    BY <2>2, <2>5 DEF Steady, Waiting
  <2>8. q \in Rows
    BY <2>6 DEF Worn
  <2>. QED BY <1>2, <2>6, <2>7, <2>8 DEF q
<1>3. CASE i \notin DOMAIN e.reactions /\ i = e.actor
  <2>. DEFINE n == Damage * Cardinality(Countering(e, luck))
  <2>1. n \in Nat
    <3>1. Countering(e, luck) \in SUBSET Fighters
      BY DEF Countering, Exchanges
    <3>2. Cardinality(Countering(e, luck)) \in Nat /\ Damage \in Nat
      BY <3>1, FightersFinite, Params
    <3>. QED BY <3>2
  <2>2. q = Harmed(r, n)
    BY <1>3 DEF Hurt
  <2>3. Worn(r, q) /\ Steady(r, q) /\ q.incoming = r.incoming
    <3>. HIDE DEF n
    <3>. QED BY <1>1, <2>1, <2>2, HarmedMeans
  <2>. HIDE DEF q
  <2>4. ToSet(q.incoming) = Waiting(f, i) /\ q \in Rows
    BY <2>3 DEF Waiting, Worn
  <2>. QED BY <1>3, <2>3, <2>4 DEF q
<1>4. CASE i \notin DOMAIN e.reactions /\ i # e.actor
  <2>1. q = r
    BY <1>4 DEF Hurt
  <2>2. Worn(r, r) /\ Steady(r, r) /\ ToSet(r.incoming) = Waiting(f, i)
    BY <1>1 DEF Worn, Steady, Waiting
  <2>. HIDE DEF q
  <2>. QED BY <1>1, <1>4, <2>1, <2>2 DEF q
<1>. QED BY <1>2, <1>3, <1>4

-----------------------------------------------------------------------------
(***************************************************************************)
(* An answer to a waiting exchange, and all that it completes.             *)
(***************************************************************************)
\* d is e with i's answer: a reaction accepted, or a cancel.
Answer(e, d, i) ==
    /\ d.id = e.id /\ d.actor = e.actor /\ d.targets = e.targets /\ d.burst = e.burst
    /\ d.revival = e.revival /\ d.hit = e.hit /\ d.resolved = e.resolved /\ d.phase = e.phase
    /\ i \in Owing(e)
    /\ \/ /\ ~e.revival /\ d.canceled = e.canceled
          /\ DOMAIN d.reactions = DOMAIN e.reactions \cup {i}
          /\ \A j \in DOMAIN e.reactions : d.reactions[j] = e.reactions[j]
       \/ d.reactions = e.reactions /\ d.canceled = e.canceled \cup {i}

\* h is f without the packets of e that d has canceled.
Given(f, h, e, d) ==
    /\ h \in States /\ SameClock(f, h) /\ h.exchanges = f.exchanges
    /\ \A j \in Fighters : Worn(f.rows[j], h.rows[j]) /\ Steady(f.rows[j], h.rows[j])
    /\ \A j \in Fighters : \A t \in Tokens :
          t \in Waiting(h, j) <=> t \in Waiting(f, j) /\ (t = Token(e) => j \notin d.canceled)

LEMMA AnswerMeans ==
    ASSUME NEW e \in Exchanges, BookSound(e), e.phase = "waiting",
           NEW d \in Exchanges, NEW i, Answer(e, d, i)
    PROVE  /\ Keeps(e, d) /\ Owing(d) = Owing(e) \ {i}
           /\ Owing(d) # {} => BookSound(d)
           /\ Owing(d) = {} => d.targets \ d.canceled = DOMAIN d.reactions
           /\ Cardinality(DOMAIN d.reactions) \in Nat
           /\ Cardinality(DOMAIN d.reactions) <= Cardinality(d.targets)
           /\ Due(e) <= IF d.burst THEN 1 ELSE Cardinality(DOMAIN d.reactions)
<1>. DEFINE A == DOMAIN e.reactions
            B == DOMAIN d.reactions
<1>1. /\ e.targets \in SUBSET Fighters /\ e.canceled \in SUBSET Fighters /\ A \in SUBSET Fighters
      /\ B \in SUBSET Fighters /\ d.canceled \in SUBSET Fighters
      /\ e.resolved \in BOOLEAN /\ e.burst \in BOOLEAN /\ e.revival \in BOOLEAN
  BY DEF Exchanges
<1>2. /\ d.id = e.id /\ d.actor = e.actor /\ d.targets = e.targets /\ d.burst = e.burst
      /\ d.revival = e.revival /\ d.hit = e.hit /\ d.resolved = e.resolved /\ d.phase = e.phase
      /\ i \in e.targets /\ i \notin A /\ i \notin e.canceled
      /\ \/ ~e.revival /\ d.canceled = e.canceled /\ B = A \cup {i}
         \/ B = A /\ d.canceled = e.canceled \cup {i}
      /\ \A j \in A : j \in B /\ d.reactions[j] = e.reactions[j]
  BY DEF Answer, Owing
<1>3. A \subseteq e.targets /\ e.canceled \subseteq e.targets /\ A \cap e.canceled = {}
  BY DEF BookSound
<1>4. Owing(d) = Owing(e) \ {i}
  BY <1>2 DEF Owing
<1>5. B \subseteq d.targets /\ d.canceled \subseteq d.targets /\ B \cap d.canceled = {}
  BY <1>2, <1>3
<1>6. Owing(d) = {} => d.targets \ d.canceled = B
  BY <1>5 DEF Owing
<1>7. /\ Cardinality(A) \in Nat /\ Cardinality(B) \in Nat /\ Cardinality(e.targets) \in Nat
      /\ Cardinality(B) <= Cardinality(e.targets) /\ Cardinality(A) <= Cardinality(e.targets)
      /\ Cardinality(A) <= Cardinality(B)
  <2>1. B \in SUBSET e.targets /\ A \in SUBSET e.targets /\ A \in SUBSET B
    BY <1>2, <1>3, <1>5
  <2>. HIDE DEF A, B
  <2>. QED BY <1>1, <2>1, FightersFinite, Smaller
<1>8. e.burst \/ e.revival => Cardinality(e.targets) = 1
  BY DEF BookSound
<1>9. e.resolved => e.burst
  BY DEF BookSound
<1>10. Due(e) = (IF e.resolved THEN 1 ELSE Cardinality(A)) /\ Due(d) = (IF e.resolved THEN 1 ELSE Cardinality(B))
  BY <1>2 DEF Due
<1>11. Keeps(e, d)
  <2>1. Due(d) >= Due(e) /\ Cardinality(d.targets) <= Cardinality(e.targets)
    <3>. HIDE DEF A, B
    <3>. QED BY <1>2, <1>7, <1>10
  <2>2. d.targets \ d.canceled \subseteq e.targets \ e.canceled
    BY <1>2
  <2>. QED BY <1>2, <2>1, <2>2 DEF Keeps
<1>12. Owing(d) # {} => BookSound(d)
  <2>1. e.revival => DOMAIN d.reactions = {} /\ ~d.burst
    BY <1>2 DEF BookSound
  <2>2. e.targets # {} /\ e.actor \notin e.targets
    BY DEF BookSound
  <2>3. d.phase = "waiting" /\ d.phase # "press"
    BY <1>2
  <2>. QED BY <1>2, <1>5, <1>8, <1>9, <2>1, <2>2, <2>3 DEF BookSound
<1>13. Due(e) <= IF d.burst THEN 1 ELSE Cardinality(B)
  <2>. HIDE DEF A, B
  <2>. QED BY <1>1, <1>2, <1>7, <1>8, <1>9, <1>10
<1>. QED BY <1>2, <1>4, <1>6, <1>7, <1>11, <1>12, <1>13

LEMMA TokenIs ==
    ASSUME NEW e \in Exchanges
    PROVE  /\ Token(e) \in Tokens /\ Token(e).id = e.id /\ Token(e).hit = e.hit
           /\ \A t \in Tokens : t.id = e.id /\ t.hit = e.hit => t = Token(e)
BY DEF Exchanges, Tokens, Token

\* Of x's packets in the queues, only the one of its hit: who x awaits has it.
LEMMA PacketIs ==
    ASSUME NEW f, Sound(f), NEW x \in DOMAIN f.exchanges, NEW i \in Fighters,
           NEW t \in Waiting(f, i), t.id = x
    PROVE  /\ t = Token(f.exchanges[x]) /\ f.exchanges[x].phase = "waiting"
           /\ i \in f.exchanges[x].targets \ f.exchanges[x].canceled
<1>1. t \in Tokens
  <2>1. f.rows[i].incoming \in Seq(Tokens)
    BY SoundMeans, RowFields
  <2>. QED BY <2>1 DEF Waiting, ToSet
<1>2. Awaits(f, i, t)
  BY <1>1, SoundMeans DEF QueueSound
<1>3. f.exchanges[x] \in Exchanges /\ f.exchanges[x].id = x
  BY SoundMeans DEF Tied
<1>. QED BY <1>1, <1>2, <1>3, TokenIs DEF Awaits

LEMMA Reactless ==
    ASSUME NEW d \in Exchanges
    PROVE  d.reactions = <<>> <=> DOMAIN d.reactions = {}
<1>1. PICK S \in SUBSET Fighters : d.reactions \in [S -> Kinds]
  BY DEF Exchanges
<1>2. DOMAIN d.reactions = S /\ d.reactions = [i \in S |-> d.reactions[i]]
  BY <1>1
<1>3. ASSUME S = {} PROVE d.reactions = <<>>
  <2>1. d.reactions = [i \in {} |-> d.reactions[i]]
    BY <1>2, <1>3
  <2>2. \A s : s = [i \in {} |-> s[i]] => s = <<>>
    OBVIOUS
  <2>. QED BY <2>1, <2>2
<1>4. DOMAIN <<>> = {}
  OBVIOUS
<1>. QED BY <1>2, <1>3, <1>4

LEMMA CompletedSound ==
    ASSUME NEW f, Sound(f), NEW x \in DOMAIN f.exchanges, NEW e, e = f.exchanges[x],
           e.phase = "waiting", NEW d \in Exchanges, NEW i, Answer(e, d, i),
           NEW h, Given(f, h, e, d), NEW luck
    PROVE  /\ Sound(Completed(h, d, luck)) /\ Settles(f, Completed(h, d, luck))
           /\ Elsewise(f, Completed(h, d, luck), x)
           /\ IF Owing(d) # {}
              THEN x \in DOMAIN Completed(h, d, luck).exchanges /\ Completed(h, d, luck).exchanges[x] = d
              ELSE x \in DOMAIN Completed(h, d, luck).exchanges =>
                      Completed(h, d, luck).exchanges[x].phase = "press"
<1>. DEFINE g == [h EXCEPT !.exchanges[x] = d]
            a == e.actor
            loss == Loss(d.actor, luck)
<1>0. loss \in Nat
  BY LossIs
<1>. HIDE DEF loss
<1>1. /\ f \in States /\ f.rows \in [Fighters -> Rows] /\ DOMAIN f.exchanges \subseteq Ids
      /\ e \in Exchanges /\ BookSound(e) /\ Tied(f, x) /\ e.id = x /\ e.actor \in Fighters
  BY SoundMeans DEF Tied, Exchanges
<1>2. /\ Keeps(e, d) /\ Owing(d) = Owing(e) \ {i}
      /\ Owing(d) # {} => BookSound(d)
      /\ Owing(d) = {} => d.targets \ d.canceled = DOMAIN d.reactions
      /\ Cardinality(DOMAIN d.reactions) \in Nat
      /\ Cardinality(DOMAIN d.reactions) <= Cardinality(d.targets)
      /\ Due(e) <= IF d.burst THEN 1 ELSE Cardinality(DOMAIN d.reactions)
  BY <1>1, AnswerMeans
<1>3. /\ d.id = x /\ d.actor = a /\ d.targets = e.targets /\ d.burst = e.burst
      /\ d.revival = e.revival /\ d.hit = e.hit /\ d.resolved = e.resolved /\ d.phase = "waiting"
  BY <1>1 DEF Answer
<1>4. /\ h \in States /\ SameClock(f, h) /\ h.exchanges = f.exchanges
      /\ \A j \in Fighters : Worn(f.rows[j], h.rows[j]) /\ Steady(f.rows[j], h.rows[j])
      /\ h.rows \in [Fighters -> Rows]
  BY StateFields DEF Given
<1>5. /\ g \in States /\ g.rows = h.rows /\ g.exchanges = [f.exchanges EXCEPT ![x] = d]
      /\ SameClock(h, g) /\ Elsewise(h, g, x)
  BY <1>4, SetBook
<1>. HIDE DEF g
<1>6. SameClock(f, g) /\ Elsewise(f, g, x) /\ x \in DOMAIN g.exchanges /\ g.exchanges[x] = d
  BY <1>4, <1>5 DEF SameClock, Elsewise
<1>7. ASSUME NEW j \in Fighters, NEW t \in Tokens
      PROVE  /\ t \in Waiting(g, j) <=> t \in Waiting(f, j) /\ (t = Token(d) => j \notin d.canceled)
             /\ t \in Waiting(f, j) /\ t.id = x => t = Token(d) /\ j \in e.targets \ e.canceled
  <2>1. Token(e) = Token(d)
    BY <1>1, <1>3 DEF Token
  <2>2. t \in Waiting(g, j) <=> t \in Waiting(h, j)
    BY <1>5 DEF Waiting
  <2>3. t \in Waiting(h, j) <=> t \in Waiting(f, j) /\ (t = Token(e) => j \notin d.canceled)
    BY DEF Given
  <2>. QED BY <2>1, <2>2, <2>3, PacketIs
<1>8. Completed(h, d, luck) = IF Owing(d) # {} THEN g
                              ELSE IF d.reactions # <<>> THEN Resolved(g, d, luck)
                              ELSE IF d.resolved THEN Finished(g, d, loss) ELSE Without(g, d)
  BY <1>3 DEF Completed, g, loss
<1>9. CASE Owing(d) # {}
  <2>1. Completed(h, d, luck) = g
    BY <1>8, <1>9
  <2>2. Thinned(f, g, x)
    <3>. SUFFICES ASSUME NEW j \in Fighters, NEW t \in Tokens
                  PROVE  t \in Waiting(g, j) <=> t \in Waiting(f, j) /\ (t.id = x => Awaits(g, j, t))
      BY DEF Thinned
    <3>1. CASE t.id = x /\ t \in Waiting(f, j)
      <4>1. t = Token(d) /\ j \in e.targets /\ t.hit = d.hit
        BY <1>3, <1>7, <3>1, TokenIs
      <4>2. Awaits(g, j, t) <=> j \notin d.canceled
        BY <1>3, <1>6, <3>1, <4>1 DEF Awaits
      <4>. QED BY <1>7, <3>1, <4>1, <4>2
    <3>2. CASE ~(t.id = x /\ t \in Waiting(f, j))
      <4>1. t.id # x => t # Token(d)
        BY <1>3, TokenIs
      <4>. QED BY <1>7, <3>2, <4>1
    <3>. QED BY <3>1, <3>2
  <2>3. WornRows(f, g) /\ \A j \in Fighters : Steady(f.rows[j], g.rows[j])
    BY <1>4, <1>5 DEF WornRows
  <2>4. Sound(g) /\ Settles(f, g)
    BY <1>2, <1>5, <1>6, <1>9, <2>2, <2>3, KeptOn
  <2>. QED BY <1>6, <1>9, <2>1, <2>4
<1>10. CASE Owing(d) = {} /\ d.reactions = <<>>
  <2>1. /\ d.targets \ d.canceled = {} /\ Cardinality(DOMAIN d.reactions) = 0
        /\ Cardinality(d.targets \ d.canceled) = 0
    BY <1>2, <1>10, Reactless, FS_EmptySet
  <2>2. Spares(f, g, x)
    <3>1. ASSUME NEW j \in Fighters, NEW t \in Tokens
          PROVE  t \in Waiting(g, j) <=> t \in Waiting(f, j) /\ t.id # x
      <4>1. t.id # x => t # Token(d)
        BY <1>3, TokenIs
      <4>2. j \in e.targets => j \in d.canceled
        BY <1>3, <2>1
      <4>. QED BY <1>7, <4>1, <4>2
    <3>2. WornRows(f, g) /\ \A j \in Fighters : Steady(f.rows[j], g.rows[j])
      BY <1>4, <1>5 DEF WornRows
    <3>. QED BY <1>5, <1>6, <3>1, <3>2 DEF Spares
  <2>3. CASE d.resolved
    <3>1. Completed(h, d, luck) = Finished(g, d, loss)
      BY <1>8, <1>10, <2>3
    <3>2. d.burst /\ Due(e) <= 1
      BY <1>1, <1>2, <1>3, <2>3 DEF BookSound
    <3>3. 1 <= f.rows[a].left
      BY <1>1, RowFields
    <3>4. /\ Sound(Finished(g, d, loss)) /\ Settles(f, Finished(g, d, loss))
          /\ Elsewise(f, Finished(g, d, loss), x) /\ x \notin DOMAIN Finished(g, d, loss).exchanges
      BY <1>0, <1>3, <2>2, <3>2, <3>3, FinishedEnds
    <3>. QED BY <1>10, <3>1, <3>4
  <2>4. CASE ~d.resolved
    <3>1. Completed(h, d, luck) = Without(g, d)
      BY <1>8, <1>10, <2>4
    <3>2. Due(e) = 0
      <4>1. Due(d) = 0
        BY <2>1, <2>4 DEF Due
      <4>2. Due(d) >= Due(e) /\ Due(e) \in Nat
        BY <1>1, <1>2, DueType DEF Keeps
      <4>. QED BY <4>1, <4>2
    <3>3. /\ Sound(Without(g, d)) /\ Settles(f, Without(g, d))
          /\ Elsewise(f, Without(g, d), x) /\ x \notin DOMAIN Without(g, d).exchanges
      BY <1>3, <2>2, <3>2, WithoutEnds
    <3>. QED BY <1>10, <3>1, <3>3
  <2>. QED BY <2>3, <2>4
<1>11. CASE Owing(d) = {} /\ d.reactions # <<>>
  <2>. DEFINE rows == Hurt(g, d, luck)
              k == [g EXCEPT !.rows = rows]
  <2>1. Completed(h, d, luck) = Resolved(g, d, luck)
    BY <1>8, <1>11
  <2>2. ASSUME NEW j \in Fighters
        PROVE  /\ rows[j] \in Rows /\ Worn(f.rows[j], rows[j]) /\ Steady(f.rows[j], rows[j])
               /\ ToSet(rows[j].incoming) =
                     IF j \in DOMAIN d.reactions THEN Waiting(g, j) \ {Token(d)} ELSE Waiting(g, j)
    <3>1. Worn(f.rows[j], g.rows[j]) /\ Steady(f.rows[j], g.rows[j]) /\ f.rows[j] \in Rows
      BY <1>1, <1>4, <1>5
    <3>2. IsInjective(g.rows[j].incoming)
      BY <3>1 DEF Worn
    <3>3. /\ rows[j] \in Rows /\ Worn(g.rows[j], rows[j]) /\ Steady(g.rows[j], rows[j])
          /\ ToSet(rows[j].incoming) =
                IF j \in DOMAIN d.reactions THEN Waiting(g, j) \ {Token(d)} ELSE Waiting(g, j)
      BY <1>5, <3>2, HurtMeans
    <3>4. Worn(f.rows[j], rows[j])
      <4>. HIDE DEF rows
      <4>. QED BY <3>1, <3>3, WornTwice
    <3>5. Steady(f.rows[j], rows[j])
      <4>. HIDE DEF rows
      <4>. QED BY <3>1, <3>3 DEF Steady
    <3>. QED BY <3>3, <3>4, <3>5
  <2>3. rows \in [Fighters -> Rows]
    <3>1. rows = [j \in Fighters |-> rows[j]]
      BY DEF Hurt
    <3>. HIDE DEF rows
    <3>. QED BY <2>2, <3>1
  <2>. HIDE DEF rows
  <2>4. k \in States /\ k.rows = rows /\ k.exchanges = g.exchanges /\ SameClock(g, k)
    BY <1>5, <2>3, SetRows
  <2>. HIDE DEF k
  <2>5. Spares(f, k, x)
    <3>1. ASSUME NEW j \in Fighters, NEW t \in Tokens
          PROVE  t \in Waiting(k, j) <=> t \in Waiting(f, j) /\ t.id # x
      <4>1. t.id # x => t # Token(d)
        BY <1>3, TokenIs
      <4>2. j \in e.targets => j \in d.canceled \/ j \in DOMAIN d.reactions
        BY <1>2, <1>3, <1>11
      <4>3. Waiting(k, j) = IF j \in DOMAIN d.reactions THEN Waiting(g, j) \ {Token(d)} ELSE Waiting(g, j)
        BY <2>2, <2>4 DEF Waiting
      <4>. QED BY <1>7, <4>1, <4>2, <4>3
    <3>2. WornRows(f, k) /\ \A j \in Fighters : Steady(f.rows[j], k.rows[j])
      BY <2>2, <2>4 DEF WornRows
    <3>3. SameClock(f, k) /\ Elsewise(f, k, x) /\ x \in DOMAIN k.exchanges
      BY <1>6, <2>4 DEF SameClock, Elsewise
    <3>. QED BY <2>4, <3>1, <3>2, <3>3 DEF Spares
  <2>6. CASE Resolved(g, d, luck) = Finished(k, d, loss)
    <3>. DEFINE n == IF d.burst THEN 1 ELSE Cardinality(d.targets \ d.canceled)
    <3>1. n = IF d.burst THEN 1 ELSE Cardinality(DOMAIN d.reactions)
      BY <1>2, <1>11
    <3>2. /\ f.rows[a].left >= 1 /\ f.rows[a].left \in Int
          /\ Cardinality(e.targets) <= f.rows[a].left /\ Cardinality(e.targets) \in Nat
      <4>1. e.targets \in SUBSET Fighters
        BY <1>1 DEF Exchanges
      <4>2. Cardinality(e.targets) <= f.rows[a].left
        BY <1>1 DEF Tied
      <4>. QED BY <1>1, <4>1, <4>2, RowFields, FightersFinite
    <3>3. n \in Nat /\ n <= f.rows[a].left /\ Due(e) <= n
      <4>. HIDE DEF n, a
      <4>. QED BY <1>2, <1>3, <3>1, <3>2
    <3>4. /\ Sound(Finished(k, d, loss)) /\ Settles(f, Finished(k, d, loss))
          /\ Elsewise(f, Finished(k, d, loss), x) /\ x \notin DOMAIN Finished(k, d, loss).exchanges
      BY <1>0, <1>3, <2>5, <3>3, FinishedEnds
    <3>. QED BY <1>11, <2>1, <2>6, <3>4
  <2>7. CASE Resolved(g, d, luck) = PressedOn(k, d) /\ d.burst /\ d.hit < MaxHit
    <3>. DEFINE p == [d EXCEPT !.phase = "press", !.resolved = TRUE]
                q == PressedOn(k, d)
    <3>1. /\ p \in Exchanges /\ p.id = x /\ p.actor = a /\ p.targets = d.targets
          /\ p.burst = d.burst /\ p.revival = d.revival /\ p.hit = d.hit /\ p.canceled = d.canceled
          /\ p.reactions = d.reactions /\ p.resolved = TRUE /\ p.phase = "press"
      BY <1>3 DEF Exchanges
    <3>2. q = [k EXCEPT !.exchanges[x] = p]
      <4>1. k.exchanges[x] = d
        BY <1>6, <2>4
      <4>2. q = [k EXCEPT !.exchanges[x] = [@ EXCEPT !.phase = "press", !.resolved = TRUE]]
        BY <1>3 DEF PressedOn
      <4>. HIDE DEF q
      <4>. QED BY <2>4, <4>1, <4>2 DEF States
    <3>. HIDE DEF p, q
    <3>3. /\ q \in States /\ q.rows = k.rows /\ q.exchanges = [k.exchanges EXCEPT ![x] = p]
          /\ SameClock(k, q) /\ Elsewise(k, q, x)
      BY <2>4, <2>5, <3>1, <3>2, SetBook DEF Spares
    <3>4. x \in DOMAIN q.exchanges /\ q.exchanges[x] = p
      BY <2>5, <3>3 DEF Spares
    <3>5. BookSound(p)
      <4>1. /\ DOMAIN d.reactions \subseteq d.targets /\ d.canceled \subseteq d.targets
            /\ DOMAIN d.reactions \cap d.canceled = {}
        BY <1>1, <1>3 DEF Answer, BookSound, Owing
      <4>2. /\ e.targets # {} /\ e.actor \notin e.targets /\ (e.burst => Cardinality(e.targets) = 1)
            /\ e.revival => ~e.burst
        BY <1>1 DEF BookSound
      <4>3. p.phase # "waiting"
        BY <3>1
      <4>. QED BY <1>3, <2>7, <3>1, <4>1, <4>2, <4>3 DEF BookSound
    <3>6. Keeps(e, p)
      <4>1. Due(p) = 1
        BY <3>1 DEF Due
      <4>2. Due(e) <= 1 /\ Due(e) \in Nat
        BY <1>1, <1>2, <2>7, DueType
      <4>3. Cardinality(d.targets) <= Cardinality(e.targets)
        BY <1>2 DEF Keeps
      <4>4. Due(p) >= Due(e)
        BY <4>1, <4>2
      <4>. QED BY <1>1, <3>1, <4>3, <4>4 DEF Keeps
    <3>7. Thinned(f, q, x)
      <4>. SUFFICES ASSUME NEW j \in Fighters, NEW t \in Tokens
                    PROVE  t \in Waiting(q, j) <=> t \in Waiting(f, j) /\ (t.id = x => Awaits(q, j, t))
        BY DEF Thinned
      <4>1. t \in Waiting(q, j) <=> t \in Waiting(f, j) /\ t.id # x
        BY <2>5, <3>3 DEF Spares, Waiting
      <4>2. t.id = x => ~Awaits(q, j, t)
        BY <3>1, <3>4 DEF Awaits
      <4>. QED BY <4>1, <4>2
    <3>8. /\ SameClock(f, q) /\ Elsewise(f, q, x) /\ WornRows(f, q)
          /\ \A j \in Fighters : Steady(f.rows[j], q.rows[j])
      BY <2>5, <3>3, ElsewiseTwice DEF Spares, SameClock, WornRows
    <3>9. Sound(q) /\ Settles(f, q)
      BY <3>3, <3>4, <3>5, <3>6, <3>7, <3>8, KeptOn
    <3>. QED BY <1>11, <2>1, <2>7, <3>1, <3>4, <3>8, <3>9 DEF q
  <2>. QED BY <2>6, <2>7, ResolvedIs DEF k, rows, loss
<1>. QED BY <1>9, <1>10, <1>11


-----------------------------------------------------------------------------
(***************************************************************************)
(* The two answers: cancel, and an accepted reaction.                      *)
(***************************************************************************)
Cancels(e, i) == [e EXCEPT !.canceled = @ \cup {i}]

\* i has a packet of x that it has not answered.
StillOwes(f, i, x) ==
    x \in DOMAIN f.exchanges /\ f.exchanges[x].phase = "waiting" /\ i \in Owing(f.exchanges[x])

LEMMA UnansweredMeans ==
    ASSUME NEW f, Sound(f), NEW i \in Fighters, NEW t \in Waiting(f, i), Live(f, t), ~Answered(f, i, t)
    PROVE  /\ StillOwes(f, i, t.id) /\ t = Token(f.exchanges[t.id]) /\ t \in Tokens
           /\ t.id \in DOMAIN f.exchanges
<1>1. t.id \in DOMAIN f.exchanges
  BY DEF Live
<1>2. /\ t = Token(f.exchanges[t.id]) /\ f.exchanges[t.id].phase = "waiting"
      /\ i \in f.exchanges[t.id].targets \ f.exchanges[t.id].canceled
  BY <1>1, PacketIs
<1>3. i \in Owing(f.exchanges[t.id])
  BY <1>2 DEF Answered, Owing
<1>4. t \in Tokens
  <2>1. f.exchanges[t.id] \in Exchanges
    BY <1>1, SoundMeans
  <2>. QED BY <1>2, <2>1, TokenIs
<1>. QED BY <1>1, <1>2, <1>3, <1>4 DEF StillOwes

\* Conversely, whoever owes x an answer has its packet.
LEMMA OwingHolds ==
    ASSUME NEW f, Sound(f), NEW i \in Fighters, NEW x, StillOwes(f, i, x)
    PROVE  /\ Token(f.exchanges[x]) \in Waiting(f, i) /\ Token(f.exchanges[x]).id = x
           /\ Live(f, Token(f.exchanges[x])) /\ ~Answered(f, i, Token(f.exchanges[x]))
<1>. DEFINE e == f.exchanges[x]
            t == Token(e)
<1>1. /\ x \in DOMAIN f.exchanges /\ e.phase = "waiting" /\ i \in Owing(e)
  BY DEF StillOwes
<1>2. e \in Exchanges /\ Tied(f, x) /\ QueueSound(f, i)
  BY <1>1, SoundMeans
<1>3. t \in Tokens /\ t.id = x /\ t.hit = e.hit
  BY <1>2, TokenIs DEF Tied
<1>4. Awaits(f, i, t) /\ ~Answered(f, i, t)
  <2>. HIDE DEF t
  <2>. QED BY <1>1, <1>3 DEF Awaits, Answered, Owing
<1>5. t \in Waiting(f, i)
  BY <1>2, <1>3, <1>4 DEF QueueSound
<1>6. Live(f, t)
  <2>1. x[1] = f.epoch
    BY <1>2 DEF Tied
  <2>. HIDE DEF t
  <2>. QED BY <1>1, <1>3, <2>1 DEF Live
<1>. QED BY <1>3, <1>4, <1>5, <1>6

\* What a cancel makes of x: others are still waited for, or it is over.
Struck(f, g, i, x) ==
    IF Owing(f.exchanges[x]) \ {i} # {}
    THEN x \in DOMAIN g.exchanges /\ g.exchanges[x] = Cancels(f.exchanges[x], i)
    ELSE x \in DOMAIN g.exchanges => g.exchanges[x].phase = "press"

LEMMA CanceledSound ==
    ASSUME NEW f, Sound(f), NEW i \in Fighters, NEW t \in Waiting(f, i), Live(f, t),
           ~Answered(f, i, t), NEW luck
    PROVE  /\ Sound(Canceled(f, i, t, luck)) /\ Settles(f, Canceled(f, i, t, luck))
           /\ Elsewise(f, Canceled(f, i, t, luck), t.id)
           /\ Struck(f, Canceled(f, i, t, luck), i, t.id)
<1>. DEFINE x == t.id
            e == f.exchanges[x]
            d == Cancels(e, i)
            r == f.rows[i]
            q == [r EXCEPT !.incoming = Removed(@, t)]
            h == [f EXCEPT !.rows[i] = q]
<1>1. /\ x \in DOMAIN f.exchanges /\ e.phase = "waiting" /\ i \in Owing(e)
      /\ t = Token(e) /\ t \in Tokens
  BY UnansweredMeans DEF StillOwes
<1>2. /\ f \in States /\ f.rows \in [Fighters -> Rows] /\ r \in Rows /\ RowSound(r, i)
      /\ e \in Exchanges /\ BookSound(e)
  BY <1>1, SoundMeans
<1>3. /\ d \in Exchanges /\ d.id = e.id /\ d.actor = e.actor /\ d.targets = e.targets
      /\ d.burst = e.burst /\ d.revival = e.revival /\ d.hit = e.hit /\ d.resolved = e.resolved
      /\ d.phase = e.phase /\ d.reactions = e.reactions /\ d.canceled = e.canceled \cup {i}
  <2>. HIDE DEF e
  <2>. QED BY <1>2 DEF Exchanges, Cancels
<1>. HIDE DEF d
<1>4. Answer(e, d, i)
  BY <1>1, <1>3 DEF Answer
<1>5. Worn(r, q) /\ Steady(r, q) /\ ToSet(q.incoming) = ToSet(r.incoming) \ {t}
  <2>. HIDE DEF r, q
  <2>1. q = [r EXCEPT !.incoming = Removed(@, t)]
    BY DEF q
  <2>. QED BY <1>2, <2>1, DroppedRow DEF RowSound
<1>6. Canceled(f, i, t, luck) = Completed(h, d, luck)
  <2>1. h = [f EXCEPT !.rows[i].incoming = Removed(@, t)]
    BY <1>2 DEF States, Rows
  <2>. QED BY <2>1 DEF Canceled, Cancels, d
<1>. HIDE DEF q
<1>7. /\ h \in States /\ SameClock(f, h) /\ h.exchanges = f.exchanges
      /\ h.rows = [f.rows EXCEPT ![i] = q]
  <2>1. q \in Rows
    BY <1>5 DEF Worn
  <2>. QED BY <1>2, <2>1, SetRow
<1>. HIDE DEF h
<1>8. h.rows[i] = q /\ \A j \in Fighters \ {i} : h.rows[j] = f.rows[j]
  BY <1>2, <1>7
<1>9. Given(f, h, e, d)
  <2>1. ASSUME NEW j \in Fighters
        PROVE  Worn(f.rows[j], h.rows[j]) /\ Steady(f.rows[j], h.rows[j])
    <3>1. CASE j = i
      BY <1>5, <1>8, <3>1
    <3>2. CASE j # i
      <4>1. f.rows[j] \in Rows /\ RowSound(f.rows[j], j)
        BY SoundMeans
      <4>2. f.rows[j].hp \in Int
        BY <4>1, RowFields
      <4>. QED BY <1>8, <3>2, <4>1, <4>2 DEF Worn, Steady, RowSound
    <3>. QED BY <3>1, <3>2
  <2>2. ASSUME NEW j \in Fighters, NEW u \in Tokens
        PROVE  u \in Waiting(h, j) <=> u \in Waiting(f, j) /\ (u = Token(e) => j \notin d.canceled)
    <3>1. CASE j = i
      BY <1>1, <1>3, <1>5, <1>8, <3>1 DEF Waiting
    <3>2. CASE j # i
      <4>1. u = t /\ u \in Waiting(f, j) => j \notin e.canceled
        BY <1>1, PacketIs
      <4>. QED BY <1>1, <1>3, <1>8, <3>2, <4>1 DEF Waiting
    <3>. QED BY <3>1, <3>2
  <2>. QED BY <1>7, <2>1, <2>2 DEF Given
<1>10. Owing(d) = Owing(e) \ {i}
  BY <1>3 DEF Owing
<1>11. /\ Sound(Completed(h, d, luck)) /\ Settles(f, Completed(h, d, luck))
       /\ Elsewise(f, Completed(h, d, luck), x)
       /\ IF Owing(d) # {}
          THEN x \in DOMAIN Completed(h, d, luck).exchanges /\ Completed(h, d, luck).exchanges[x] = d
          ELSE x \in DOMAIN Completed(h, d, luck).exchanges =>
                  Completed(h, d, luck).exchanges[x].phase = "press"
  <2>. HIDE DEF e, x
  <2>1. e = f.exchanges[x]
    BY DEF e
  <2>2. x \in DOMAIN f.exchanges /\ e.phase = "waiting" /\ d \in Exchanges
    BY <1>1, <1>3
  <2>. QED BY <1>4, <1>9, <2>1, <2>2, CompletedSound, Zenon
<1>12. Struck(f, Completed(h, d, luck), i, x)
  BY <1>10, <1>11, Zenon DEF Struck, d
<1>. QED BY <1>6, <1>11, <1>12, Zenon

LEMMA WithMeans ==
    ASSUME NEW e \in Exchanges, NEW i \in Fighters, i \in Owing(e), ~e.revival, NEW kind \in Kinds
    PROVE  With(e, i, kind) \in Exchanges /\ Answer(e, With(e, i, kind), i)
<1>. DEFINE s == Entered(e.reactions, i, kind)
            d == With(e, i, kind)
<1>1. PICK S \in SUBSET Fighters : e.reactions \in [S -> Kinds]
  BY DEF Exchanges
<1>2. /\ DOMAIN s = DOMAIN e.reactions \cup {i} /\ s \in [S \cup {i} -> Kinds]
      /\ \A j \in DOMAIN e.reactions : j # i => s[j] = e.reactions[j]
  BY <1>1 DEF Entered
<1>3. s \in UNION {[T -> Kinds] : T \in SUBSET Fighters}
  BY <1>2
<1>4. d = [e EXCEPT !.reactions = s]
  BY DEF With
<1>. HIDE DEF s
<1>5. /\ d \in Exchanges /\ d.reactions = s /\ d.canceled = e.canceled
      /\ d.id = e.id /\ d.actor = e.actor /\ d.targets = e.targets /\ d.burst = e.burst
      /\ d.revival = e.revival /\ d.hit = e.hit /\ d.resolved = e.resolved /\ d.phase = e.phase
  BY <1>3, <1>4 DEF Exchanges
<1>6. i \notin DOMAIN e.reactions
  BY DEF Owing
<1>. QED BY <1>2, <1>5, <1>6 DEF Answer

LEMMA ReactedSound ==
    ASSUME NEW f, Sound(f), NEW i \in Fighters, NEW x, StillOwes(f, i, x),
           ~f.exchanges[x].revival, NEW kind \in Kinds, NEW luck
    PROVE  /\ Sound(Completed(f, With(f.exchanges[x], i, kind), luck))
           /\ Settles(f, Completed(f, With(f.exchanges[x], i, kind), luck))
<1>. DEFINE e == f.exchanges[x]
            d == With(e, i, kind)
<1>1. x \in DOMAIN f.exchanges /\ e.phase = "waiting" /\ i \in Owing(e)
  BY DEF StillOwes
<1>2. e \in Exchanges /\ f \in States /\ e.id = x
  BY <1>1, SoundMeans DEF Tied
<1>3. d \in Exchanges /\ Answer(e, d, i)
  BY <1>1, <1>2, WithMeans
<1>4. Given(f, f, e, d)
  <2>1. ASSUME NEW j \in Fighters
        PROVE  Worn(f.rows[j], f.rows[j]) /\ Steady(f.rows[j], f.rows[j])
    <3>1. f.rows[j] \in Rows /\ RowSound(f.rows[j], j)
      BY SoundMeans
    <3>2. f.rows[j].hp \in Int
      BY <3>1, RowFields
    <3>. QED BY <3>1, <3>2 DEF Worn, Steady, RowSound
  <2>2. ASSUME NEW j \in Fighters, NEW u \in Tokens, u \in Waiting(f, j), u = Token(e)
        PROVE  j \notin d.canceled
    <3>1. u.id = x
      BY <1>2, <2>2, TokenIs
    <3>2. j \notin e.canceled
      BY <1>1, <2>2, <3>1, PacketIs
    <3>3. d.canceled = e.canceled
      <4>. HIDE DEF e
      <4>. QED BY <1>2 DEF With, Exchanges
    <3>. QED BY <3>2, <3>3
  <2>. QED BY <1>2, <2>1, <2>2 DEF Given, SameClock
<1>. HIDE DEF d
<1>5. Sound(Completed(f, d, luck)) /\ Settles(f, Completed(f, d, luck))
  BY <1>1, <1>3, <1>4, CompletedSound
<1>. QED BY <1>5 DEF d

-----------------------------------------------------------------------------
(***************************************************************************)
(* settle: every packet voided is one less that somebody owes an answer.   *)
(***************************************************************************)
Waits(f) ==
    {p \in Fighters \X Fighters :
        f.rows[p[2]].outgoing # None /\ StillOwes(f, p[1], f.rows[p[2]].outgoing)}

LEMMA WaitsFinite ==
    ASSUME NEW f
    PROVE  /\ IsFiniteSet(Waits(f)) /\ Cardinality(Waits(f)) \in Nat
           /\ Cardinality(Waits(f)) <= Len(Order) * Len(Order)
<1>1. /\ IsFiniteSet(Fighters \X Fighters)
      /\ Cardinality(Fighters \X Fighters) = Cardinality(Fighters) * Cardinality(Fighters)
  BY FightersFinite, FS_Product
<1>2. Len(Order) = Cardinality(Fighters)
  BY CombatAssumption, Zenon DEF CombatAssumption
<1>3. Waits(f) \in SUBSET (Fighters \X Fighters)
  BY DEF Waits
<1>. QED BY <1>1, <1>2, <1>3, FS_Subset, FS_CardinalityType

LEMMA StillOwed ==
    ASSUME NEW f, Sound(f), NEW g, Sound(g), Unfolds(f, g), NEW i \in Fighters, NEW x,
           StillOwes(g, i, x)
    PROVE  StillOwes(f, i, x)
<1>. DEFINE d == g.exchanges[x]
            e == f.exchanges[x]
<1>1. x \in DOMAIN g.exchanges /\ d.phase = "waiting" /\ i \in Owing(d)
  BY DEF StillOwes
<1>2. x \in DOMAIN f.exchanges
  BY <1>1 DEF Unfolds
<1>3. Honours(f, g, x)
  BY <1>2 DEF Unfolds
<1>4. \A j \in DOMAIN e.reactions : j \in DOMAIN d.reactions
  BY <1>1, <1>3, Zenon DEF Honours
<1>5. Token(d) \in Waiting(f, i) /\ Token(d).id = x
  <2>1. Token(d) \in Waiting(g, i) /\ Token(d).id = x
    BY OwingHolds
  <2>. QED BY <2>1 DEF Unfolds
<1>6. e.phase = "waiting" /\ i \in e.targets \ e.canceled
  BY <1>2, <1>5, PacketIs
<1>7. i \notin DOMAIN e.reactions
  BY <1>1, <1>4 DEF Owing
<1>. QED BY <1>2, <1>6, <1>7 DEF StillOwes, Owing

\* An actor's exchange in what f unfolds to is the one it had.
LEMMA SameOutgoing ==
    ASSUME NEW f, Sound(f), NEW g, Sound(g), Unfolds(f, g), NEW a \in Fighters,
           g.rows[a].outgoing # None
    PROVE  /\ f.rows[a].outgoing = g.rows[a].outgoing
           /\ g.rows[a].outgoing \in DOMAIN g.exchanges
<1>. DEFINE x == g.rows[a].outgoing
<1>1. x \in DOMAIN g.exchanges /\ g.exchanges[x].actor = a
  BY SoundMeans DEF QueueSound
<1>2. x \in DOMAIN f.exchanges
  BY <1>1 DEF Unfolds
<1>3. Honours(f, g, x)
  BY <1>2 DEF Unfolds
<1>4. f.exchanges[x].actor = a
  BY <1>1, <1>3, Zenon DEF Honours
<1>5. f.rows[a].outgoing = x
  BY <1>2, <1>4, SoundMeans DEF Tied
<1>. QED BY <1>1, <1>5

LEMMA WaitsShrink ==
    ASSUME NEW f, Sound(f), NEW g, Sound(g), Unfolds(f, g)
    PROVE  Waits(g) \subseteq Waits(f)
<1>. SUFFICES ASSUME NEW p \in Waits(g) PROVE p \in Waits(f)
  OBVIOUS
<1>1. /\ p \in Fighters \X Fighters /\ p[1] \in Fighters /\ p[2] \in Fighters
      /\ g.rows[p[2]].outgoing # None /\ StillOwes(g, p[1], g.rows[p[2]].outgoing)
  BY DEF Waits
<1>2. f.rows[p[2]].outgoing = g.rows[p[2]].outgoing
  BY <1>1, SameOutgoing
<1>3. StillOwes(f, p[1], g.rows[p[2]].outgoing)
  BY <1>1, StillOwed
<1>. QED BY <1>1, <1>2, <1>3 DEF Waits

LEMMA VoidedIs ==
    ASSUME NEW f, Sound(f), Cornered(f) # {}, NEW luck
    PROVE  \E i \in Fighters : \E t \in Waiting(f, i) :
              Live(f, t) /\ ~Answered(f, i, t) /\ Voided(f, luck) = Canceled(f, i, t, luck)
<1>. DEFINE i == First(Order, Cornered(f))
            t == First(f.rows[i].incoming, Voidable(f, i))
<1>1. i \in Cornered(f) /\ i \in Fighters
  <2>1. Cornered(f) \subseteq Fighters /\ Fighters = ToSet(Order)
    BY Zenon DEF Cornered, Fighters
  <2>2. Order \in Seq(Fighters) /\ ToSet(Order) \cap Cornered(f) # {}
    BY <2>1, Params
  <2>3. i \in ToSet(Order) \cap Cornered(f)
    BY <2>2, FirstMeans
  <2>. QED BY <2>1, <2>3
<1>. HIDE DEF i
<1>2. t \in Voidable(f, i) /\ t \in Waiting(f, i)
  <2>1. f.rows[i].incoming \in Seq(Tokens)
    BY <1>1, SoundMeans, RowFields
  <2>2. Voidable(f, i) # {} /\ Voidable(f, i) \subseteq ToSet(f.rows[i].incoming)
    BY <1>1 DEF Cornered, Voidable, Unanswered
  <2>3. ToSet(f.rows[i].incoming) \cap Voidable(f, i) # {}
    BY <2>2
  <2>4. t \in ToSet(f.rows[i].incoming) \cap Voidable(f, i)
    BY <2>1, <2>3, FirstMeans
  <2>. QED BY <2>4 DEF Waiting
<1>3. Live(f, t) /\ ~Answered(f, i, t)
  <2>. HIDE DEF t
  <2>. QED BY <1>2 DEF Voidable, Unanswered
<1>4. Voided(f, luck) = Canceled(f, i, t, luck)
  BY DEF Voided, i
<1>. HIDE DEF t
<1>5. \E u \in Waiting(f, i) : Live(f, u) /\ ~Answered(f, i, u) /\ Voided(f, luck) = Canceled(f, i, u, luck)
  BY <1>2, <1>3, <1>4
<1>. QED BY <1>1, <1>5

LEMMA VoidedSound ==
    ASSUME NEW f, Sound(f), NEW luck
    PROVE  /\ Sound(Voided(f, luck)) /\ Settles(f, Voided(f, luck))
           /\ Cornered(f) = {} => Voided(f, luck) = f
           /\ Cornered(f) # {} => Cardinality(Waits(Voided(f, luck))) < Cardinality(Waits(f))
<1>1. CASE Cornered(f) = {}
  <2>1. Voided(f, luck) = f
    BY <1>1 DEF Voided
  <2>. QED BY <1>1, <2>1, UnfoldsSelf
<1>2. CASE Cornered(f) # {}
  <2>1. PICK i \in Fighters : \E t \in Waiting(f, i) :
           Live(f, t) /\ ~Answered(f, i, t) /\ Voided(f, luck) = Canceled(f, i, t, luck)
    BY <1>2, VoidedIs
  <2>2. PICK t \in Waiting(f, i) :
           Live(f, t) /\ ~Answered(f, i, t) /\ Voided(f, luck) = Canceled(f, i, t, luck)
    BY <2>1
  <2>. DEFINE g == Voided(f, luck)
              x == t.id
              e == f.exchanges[x]
              a == e.actor
  <2>3. /\ Sound(g) /\ Settles(f, g) /\ x \in DOMAIN f.exchanges /\ StillOwes(f, i, x)
        /\ Struck(f, g, i, x)
    <3>1. /\ Sound(Canceled(f, i, t, luck)) /\ Settles(f, Canceled(f, i, t, luck))
          /\ Struck(f, Canceled(f, i, t, luck), i, t.id)
      BY <2>2, CanceledSound
    <3>. QED BY <2>2, <3>1, UnansweredMeans
  <2>. HIDE DEF g
  <2>4. e \in Exchanges /\ a \in Fighters /\ f.rows[a].outgoing = x /\ x # None
    <3>1. e \in Exchanges /\ Tied(f, x) /\ x \in Ids
      BY <2>3, SoundMeans
    <3>. QED BY <3>1, Params DEF Exchanges, Tied
  <2>5. <<i, a>> \in Waits(f)
    BY <2>3, <2>4 DEF Waits
  <2>6. ~StillOwes(g, i, x)
    <3>1. i \notin Owing(Cancels(e, i))
      <4>1. Cancels(e, i).canceled = e.canceled \cup {i}
        <5>. HIDE DEF e
        <5>. QED BY <2>4 DEF Cancels, Exchanges
      <4>. QED BY <4>1 DEF Owing
    <3>. QED BY <2>3, <3>1 DEF StillOwes, Struck
  <2>7. <<i, a>> \notin Waits(g)
    <3>. SUFFICES ASSUME <<i, a>> \in Waits(g) PROVE FALSE
      OBVIOUS
    <3>1. g.rows[a].outgoing # None /\ StillOwes(g, i, g.rows[a].outgoing)
      BY DEF Waits
    <3>2. g.rows[a].outgoing = x
      BY <2>3, <2>4, <3>1, SameOutgoing DEF Settles
    <3>. QED BY <2>6, <3>1, <3>2
  <2>8. Waits(g) \subseteq Waits(f)
    BY <2>3, WaitsShrink DEF Settles
  <2>9. Cardinality(Waits(g)) < Cardinality(Waits(f))
    <3>1. Cardinality(Waits(g)) <= Cardinality(Waits(f)) /\ (Cardinality(Waits(g)) = Cardinality(Waits(f)) => Waits(g) = Waits(f))
      BY <2>8, WaitsFinite, FS_Subset
    <3>2. Cardinality(Waits(g)) # Cardinality(Waits(f))
      BY <2>5, <2>7, <3>1
    <3>3. Cardinality(Waits(g)) \in Nat /\ Cardinality(Waits(f)) \in Nat
      BY WaitsFinite
    <3>. QED BY <3>1, <3>2, <3>3
  <2>. QED BY <1>2, <2>3, <2>9 DEF g
<1>. QED BY <1>1, <1>2

LEMMA NoneWaits ==
    ASSUME NEW f, Sound(f), Cardinality(Waits(f)) = 0
    PROVE  Cornered(f) = {}
<1>. SUFFICES ASSUME Cornered(f) # {} PROVE FALSE
  OBVIOUS
<1>1. Cardinality(Waits(Voided(f, {}))) < Cardinality(Waits(f))
  BY VoidedSound
<1>2. Cardinality(Waits(Voided(f, {}))) \in Nat
  BY WaitsFinite
<1>. QED BY <1>1, <1>2

LEMMA SettledSound ==
    ASSUME NEW f, Sound(f), NEW luck
    PROVE  /\ Sound(Settled(f, luck)) /\ Calm(Settled(f, luck)) /\ Settles(f, Settled(f, luck))
<1>1. CASE Cornered(f) = {}
  <2>1. Settled(f, luck) = f
    BY <1>1 DEF Settled
  <2>. QED BY <1>1, <2>1, UnfoldsSelf DEF Calm
<1>2. CASE Cornered(f) # {}
  <2>. DEFINE N == Len(Order) * Len(Order)
              C(h) == Cardinality(Waits(h))
              Near(h, n) == Sound(h) /\ Settles(f, h) /\ (Cornered(h) = {} \/ C(h) + n <= N)
              D == [n \in 0..N |-> {h \in States : Near(h, n)}]
              step == [n \in 1..N |-> [s \in States |-> Voided(s, luck)]]
              after == CHOOSE g : g = [n \in 0..N |-> IF n = 0 THEN f ELSE Voided(g[n - 1], luck)]
  <2>1. N \in Nat
    <3>1. Len(Order) \in Nat
      BY Params
    <3>. QED BY <3>1
  <2>2. Settled(f, luck) = after[N]
    BY <1>2 DEF Settled
  <2>3. f \in States /\ Near(f, 0)
    <3>1. C(f) \in Nat /\ C(f) <= N
      BY WaitsFinite
    <3>2. C(f) + 0 <= N
      <4>. HIDE DEF C, N
      <4>. QED BY <2>1, <3>1
    <3>. QED BY <3>2, UnfoldsSelf, SoundMeans
  <2>4. ASSUME NEW n \in 1..N, NEW s, Near(s, n - 1)
        PROVE  Voided(s, luck) \in States /\ Near(Voided(s, luck), n)
    <3>. DEFINE v == Voided(s, luck)
    <3>1. Sound(s) /\ Settles(f, s) /\ (Cornered(s) = {} \/ C(s) + (n - 1) <= N)
      BY <2>4
    <3>2. /\ Sound(v) /\ Settles(s, v) /\ (Cornered(s) = {} => v = s)
          /\ Cornered(s) # {} => C(v) < C(s)
      BY <3>1, VoidedSound
    <3>3. v \in States /\ Settles(f, v)
      BY <3>1, <3>2, SettlesTwice, SoundMeans
    <3>4. C(v) \in Nat /\ C(s) \in Nat
      BY WaitsFinite
    <3>5. Cornered(v) = {} \/ C(v) + n <= N
      <4>1. CASE Cornered(s) = {}
        BY <3>2, <4>1
      <4>2. CASE Cornered(s) # {}
        <5>. HIDE DEF C, N, v
        <5>. QED BY <2>1, <3>1, <3>2, <3>4, <4>2
      <4>. QED BY <4>1, <4>2
    <3>. QED BY <3>2, <3>3, <3>5
  <2>. HIDE DEF Near, N
  <2>5. \A n \in 0..N : D[n] = {h \in States : Near(h, n)}
    OBVIOUS
  <2>6. ASSUME NEW n \in 1..N, NEW s \in D[n - 1]
        PROVE  step[n][s] \in D[n] /\ step[n][s] = Voided(s, luck)
    <3>1. n - 1 \in 0..N /\ n \in 0..N
      BY <2>1
    <3>2. s \in States /\ Near(s, n - 1)
      BY <2>5, <3>1
    <3>3. Voided(s, luck) \in States /\ Near(Voided(s, luck), n)
      BY <2>4, <3>2
    <3>. QED BY <2>5, <3>1, <3>2, <3>3
  <2>7. f \in D[0]
    BY <2>1, <2>3, <2>5
  <2>. HIDE DEF D, step
  <2>8. PICK g : Solves(g, N, f, step) /\ \A n \in 0..N : g[n] \in D[n]
    <3>1. \A n \in 1..N : \A s \in D[n - 1] : step[n][s] \in D[n]
      BY <2>6
    <3>. QED BY <2>1, <2>7, <3>1, Recursion
  <2>9. g = [n \in 0..N |-> IF n = 0 THEN f ELSE Voided(g[n - 1], luck)]
    <3>1. ASSUME NEW n \in 0..N, n # 0 PROVE step[n][g[n - 1]] = Voided(g[n - 1], luck)
      <4>1. n \in 1..N /\ n - 1 \in 0..N
        BY <2>1, <3>1
      <4>. QED BY <2>6, <2>8, <4>1
    <3>2. g = [n \in 0..N |-> IF n = 0 THEN f ELSE step[n][g[n - 1]]]
      BY <2>8, Zenon DEF Solves
    <3>3. [n \in 0..N |-> IF n = 0 THEN f ELSE step[n][g[n - 1]]]
             = [n \in 0..N |-> IF n = 0 THEN f ELSE Voided(g[n - 1], luck)]
      BY <3>1
    <3>. QED BY <3>2, <3>3, Zenon
  <2>10. after = [n \in 0..N |-> IF n = 0 THEN f ELSE Voided(after[n - 1], luck)]
    BY <2>9, Zenon
  <2>. HIDE DEF after
  <2>11. after[0] = f /\ \A n \in 1..N : after[n] = Voided(after[n - 1], luck)
    <3>1. 0 \in 0..N /\ \A n \in 1..N : n \in 0..N /\ n # 0
      BY <2>1
    <3>. QED BY <2>10, <3>1
  <2>12. Near(after[N], N)
    <3>. DEFINE S == {n \in 0..N : Near(after[n], n)}
    <3>1. 0 \in S
      BY <2>1, <2>3, <2>11
    <3>2. ASSUME NEW n \in 1..N, n - 1 \in S PROVE n \in S
      <4>1. n \in 0..N
        BY <2>1
      <4>. QED BY <2>4, <2>11, <3>2, <4>1
    <3>. HIDE DEF S
    <3>3. N \in S
      BY <2>1, <3>1, <3>2, Climb
    <3>. QED BY <3>3 DEF S
  <2>13. Cornered(after[N]) = {}
    <3>1. Sound(after[N]) /\ (Cornered(after[N]) = {} \/ C(after[N]) + N <= N)
      BY <2>12 DEF Near
    <3>2. C(after[N]) \in Nat
      BY WaitsFinite
    <3>3. C(after[N]) + N <= N => C(after[N]) = 0
      <4>. HIDE DEF C
      <4>. QED BY <2>1, <3>2
    <3>. QED BY <3>1, <3>3, NoneWaits
  <2>. QED BY <2>2, <2>12, <2>13 DEF Near, Calm
<1>. QED BY <1>1, <1>2

-----------------------------------------------------------------------------
(***************************************************************************)
(* Rows that change in other things than their packets.                    *)
(***************************************************************************)
RowTouched(r, q, i) ==
    /\ q \in Rows /\ RowSound(q, i) /\ q.incoming = r.incoming /\ q.outgoing = r.outgoing
    /\ r.outgoing # None => r.left <= q.left
    /\ SpentOf(q, i) >= SpentOf(r, i)

Touched(f, g) ==
    /\ g \in States /\ g.exchanges = f.exchanges /\ g.epoch = f.epoch /\ f.next <= g.next
    /\ \A i \in Fighters : RowTouched(f.rows[i], g.rows[i], i)

LEMMA TouchedSound ==
    ASSUME NEW f, Sound(f), NEW g, Touched(f, g)
    PROVE  /\ Sound(g) /\ Carries(f, g)
           /\ \A i \in Fighters : Waiting(g, i) = Waiting(f, i)
<1>1. /\ g \in States /\ g.exchanges = f.exchanges /\ g.epoch = f.epoch /\ f.next <= g.next
      /\ f \in States /\ DOMAIN f.exchanges \subseteq Ids /\ None \notin Ids
      /\ f.next \in Int /\ g.next \in Int
  BY SoundMeans, StateFields, Params DEF Touched
<1>2. Beside(f, g, None)
  BY <1>1 DEF Beside
<1>3. ASSUME NEW i \in Fighters
      PROVE  RowBeside(f, g, None, i) /\ Waiting(g, i) = Waiting(f, i)
  <2>1. RowTouched(f.rows[i], g.rows[i], i)
    BY DEF Touched
  <2>2. \A t \in Tokens : t.id # None
    BY <1>1 DEF Tokens
  <2>3. Waiting(g, i) = Waiting(f, i)
    BY <2>1 DEF RowTouched, Waiting
  <2>. QED BY <2>1, <2>2, <2>3 DEF RowTouched, RowBeside
<1>4. Sound(g)
  <2>1. None \notin DOMAIN g.exchanges
    BY <1>1
  <2>. QED BY <1>1, <1>2, <1>3, <2>1, Reshape
<1>5. ASSUME NEW i \in Fighters PROVE SpentOf(g.rows[i], i) >= SpentOf(f.rows[i], i)
  BY DEF Touched, RowTouched
<1>6. ASSUME NEW x \in DOMAIN f.exchanges PROVE Honours(f, g, x)
  <2>1. f.exchanges[x] \in Exchanges
    BY SoundMeans
  <2>2. f.exchanges[x].actor \in Fighters
    BY <2>1 DEF Exchanges
  <2>3. SpentOf(g.rows[f.exchanges[x].actor], f.exchanges[x].actor)
           >= SpentOf(f.rows[f.exchanges[x].actor], f.exchanges[x].actor)
    BY <1>5, <2>2
  <2>. QED BY <1>1, <2>3, HonoursOthers
<1>. QED BY <1>1, <1>3, <1>4, <1>5, <1>6 DEF Carries

LEMMA StillCalm ==
    ASSUME NEW f, Calm(f), NEW g, g.exchanges = f.exchanges, g.epoch = f.epoch,
           \A i \in Fighters : /\ g.rows[i].incoming = f.rows[i].incoming
                               /\ g.rows[i].hp = 0 => f.rows[i].hp = 0
    PROVE  Calm(g)
<1>. SUFFICES ASSUME NEW i \in Fighters, NEW t \in Voidable(g, i) PROVE FALSE
  BY DEF Calm, Cornered
<1>1. t \in ToSet(g.rows[i].incoming) /\ Live(g, t) /\ ~Answered(g, i, t) /\ g.rows[i].hp = 0
      /\ ~g.exchanges[t.id].revival
  BY DEF Voidable, Unanswered
<1>2. t \in ToSet(f.rows[i].incoming) /\ Live(f, t) /\ ~Answered(f, i, t) /\ f.rows[i].hp = 0
      /\ ~f.exchanges[t.id].revival
  BY <1>1 DEF Live, Answered
<1>3. t \in Voidable(f, i)
  BY <1>2 DEF Voidable, Unanswered
<1>. QED BY <1>3 DEF Calm, Cornered

-----------------------------------------------------------------------------
(***************************************************************************)
(* release_pending.                                                        *)
(***************************************************************************)
LEMMA OrderInjective ==
    ASSUME NEW m \in 1..Len(Order), NEW n \in 1..Len(Order), Order[m] = Order[n]
    PROVE  m = n
<1>1. Order \in Seq(Fighters) /\ DOMAIN Order = 1..Len(Order) /\ Len(Order) \in Nat
  BY Params
<1>2. Fighters = {Order[k] : k \in 1..Len(Order)}
  BY <1>1, Zenon DEF Fighters, ToSet
<1>3. Order \in Surjection(1..Len(Order), Fighters)
  <2>1. Order \in [1..Len(Order) -> Fighters]
    BY <1>1
  <2>. QED BY <1>2, <2>1 DEF Surjection
<1>4. IsFiniteSet(1..Len(Order)) /\ Cardinality(1..Len(Order)) = Len(Order)
  <2>. DEFINE N == Len(Order)
  <2>1. N \in Nat
    BY <1>1
  <2>. HIDE DEF N
  <2>2. IsFiniteSet(1..N) /\ Cardinality(1..N) = IF 1 > N THEN 0 ELSE N - 1 + 1
    <3>1. 1 \in Int /\ N \in Int
      BY <2>1
    <3>. QED BY <3>1, FS_Interval, Zenon
  <2>3. Cardinality(1..N) = N
    BY <2>1, <2>2
  <2>. QED BY <2>2, <2>3 DEF N
<1>5. Len(Order) = Cardinality(Fighters)
  BY CombatAssumption, Zenon DEF CombatAssumption
<1>6. Order \in Injection(1..Len(Order), Fighters)
  BY <1>3, <1>4, <1>5, FS_Surjection
<1>7. \A a, b \in 1..Len(Order) : Order[a] = Order[b] => a = b
  BY <1>6, Zenon DEF Injection, IsInjective
<1>. QED BY <1>7

LEMMA WithoutIdle ==
    ASSUME NEW f, Sound(f), NEW x \in DOMAIN f.exchanges, f.exchanges[x].phase = "press"
    PROVE  Spares(f, f, x)
<1>1. ASSUME NEW i \in Fighters
      PROVE  Worn(f.rows[i], f.rows[i]) /\ Steady(f.rows[i], f.rows[i])
  <2>1. f.rows[i] \in Rows /\ RowSound(f.rows[i], i)
    BY SoundMeans
  <2>2. f.rows[i].hp \in Int
    BY <2>1, RowFields
  <2>. QED BY <2>1, <2>2 DEF Worn, Steady, RowSound
<1>2. ASSUME NEW i \in Fighters, NEW t \in Tokens, t \in Waiting(f, i) PROVE t.id # x
  <2>1. f.exchanges[x].phase # "waiting"
    OBVIOUS
  <2>. QED BY <1>2, <2>1, PacketIs
<1>. QED BY <1>1, <1>2, SoundMeans DEF Spares, SameClock, WornRows, Elsewise

\* Stopping a Burst pays for it, and leaves nothing of it.
LEMMA StoppedSound ==
    ASSUME NEW f, Sound(f), NEW x \in DOMAIN f.exchanges, f.exchanges[x].phase = "press",
           NEW loss \in Nat
    PROVE  /\ Sound(Finished(f, f.exchanges[x], loss))
           /\ Settles(f, Finished(f, f.exchanges[x], loss))
<1>. DEFINE e == f.exchanges[x]
<1>1. e \in Exchanges /\ BookSound(e) /\ e.id = x /\ e.actor \in Fighters
  BY SoundMeans DEF Tied, Exchanges
<1>2. e.resolved /\ e.burst
  BY <1>1 DEF BookSound
<1>3. Due(e) = 1 /\ 1 = (IF e.burst THEN 1 ELSE Cardinality(e.targets \ e.canceled))
  BY <1>2 DEF Due
<1>4. 1 <= f.rows[e.actor].left
  <2>1. f.rows[e.actor] \in Rows
    BY <1>1, SoundMeans
  <2>. QED BY <2>1, RowFields
<1>5. Spares(f, f, x)
  BY WithoutIdle
<1>. HIDE DEF e
<1>6. Sound(Finished(f, e, loss)) /\ Settles(f, Finished(f, e, loss))
  <2>1. e.actor = f.exchanges[x].actor /\ Due(f.exchanges[x]) <= 1
    BY <1>3 DEF e
  <2>. QED BY <1>1, <1>3, <1>4, <1>5, <2>1, FinishedEnds
<1>. QED BY <1>6 DEF e

\* Of e's packets, those not yet canceled by the first n in order.
Remains(e, n) == Owing(e) \ {Order[m] : m \in 1..n}
StillRemains(e, h, n) ==
    Remains(e, n) # {} =>
        /\ e.id \in DOMAIN h.exchanges /\ h.exchanges[e.id].phase = "waiting"
        /\ h.exchanges[e.id].hit = e.hit /\ Owing(h.exchanges[e.id]) = Remains(e, n)

LEMMA FreedNext ==
    ASSUME NEW f, Sound(f), NEW x \in DOMAIN f.exchanges, NEW e, e = f.exchanges[x],
           NEW n \in 1..Len(Order), NEW h, Sound(h), Settles(f, h), StillRemains(e, h, n - 1),
           NEW luck, NEW g,
           g = IF Order[n] \in Owing(e) THEN Canceled(h, Order[n], Token(e), luck) ELSE h
    PROVE  Sound(g) /\ Settles(f, g) /\ StillRemains(e, g, n)
<1>. DEFINE j == Order[n]
            d == h.exchanges[x]
<1>1. e.id = x /\ e \in Exchanges
  BY SoundMeans DEF Tied
<1>2. Remains(e, n) = Remains(e, n - 1) \ {j}
  <2>1. Len(Order) \in Nat
    BY Params
  <2>2. 1..n = 1..(n - 1) \cup {n}
    BY <2>1
  <2>. QED BY <2>2 DEF Remains
<1>3. j \in Fighters
  <2>1. Order \in Seq(Fighters)
    BY Params
  <2>. QED BY <2>1
<1>4. CASE j \notin Owing(e)
  <2>1. g = h
    BY <1>4
  <2>2. Remains(e, n) = Remains(e, n - 1)
    BY <1>2, <1>4 DEF Remains
  <2>. QED BY <2>1, <2>2, Zenon DEF StillRemains
<1>5. CASE j \in Owing(e)
  <2>1. j \in Remains(e, n - 1)
    <3>1. Len(Order) \in Nat
      BY Params
    <3>2. \A m \in 1..(n - 1) : m \in 1..Len(Order) /\ m # n
      BY <3>1
    <3>3. \A m \in 1..(n - 1) : Order[m] # j
      BY <3>2, OrderInjective
    <3>. HIDE DEF j
    <3>. QED BY <1>5, <3>3 DEF Remains
  <2>2. /\ x \in DOMAIN h.exchanges /\ d.phase = "waiting" /\ d.hit = e.hit
        /\ Owing(d) = Remains(e, n - 1)
    BY <1>1, <2>1 DEF StillRemains
  <2>3. StillOwes(h, j, x) /\ d \in Exchanges /\ d.id = x
    BY <2>1, <2>2, SoundMeans DEF StillOwes, Tied
  <2>4. Token(d) = Token(e)
    BY <1>1, <2>2, <2>3 DEF Token
  <2>5. /\ Token(e) \in Waiting(h, j) /\ Token(e).id = x
        /\ Live(h, Token(e)) /\ ~Answered(h, j, Token(e))
    BY <1>3, <2>3, <2>4, OwingHolds
  <2>6. g = Canceled(h, j, Token(e), luck)
    BY <1>5
  <2>7. Sound(g) /\ Settles(h, g) /\ Struck(h, g, j, x)
    <3>. HIDE DEF j
    <3>. QED BY <1>3, <2>5, <2>6, CanceledSound
  <2>8. Settles(f, g)
    BY <2>7, SettlesTwice
  <2>9. StillRemains(e, g, n)
    <3>. SUFFICES ASSUME Remains(e, n) # {} PROVE StillRemains(e, g, n)
      BY DEF StillRemains
    <3>1. x \in DOMAIN g.exchanges /\ g.exchanges[x] = Cancels(d, j)
      BY <1>2, <2>2, <2>7 DEF Struck
    <3>2. /\ Cancels(d, j).phase = d.phase /\ Cancels(d, j).hit = d.hit
          /\ Cancels(d, j).targets = d.targets /\ Cancels(d, j).reactions = d.reactions
          /\ Cancels(d, j).canceled = d.canceled \cup {j}
      <4>. HIDE DEF d
      <4>. QED BY <2>3 DEF Exchanges, Cancels
    <3>3. Owing(Cancels(d, j)) = Owing(d) \ {j}
      BY <3>2 DEF Owing
    <3>. QED BY <1>1, <1>2, <2>2, <3>1, <3>2, <3>3 DEF StillRemains
  <2>. QED BY <2>7, <2>8, <2>9
<1>. QED BY <1>4, <1>5

LEMMA ReleaseOutgoingSound ==
    ASSUME NEW f, Sound(f), Calm(f), NEW i \in Fighters, NEW luck
    PROVE  /\ Sound(ReleaseOutgoing(f, i, luck)) /\ Calm(ReleaseOutgoing(f, i, luck))
           /\ Settles(f, ReleaseOutgoing(f, i, luck))
<1>. DEFINE x == f.rows[i].outgoing
            e == f.exchanges[x]
            N == Len(Order)
            loss == Loss(i, luck)
            freed == CHOOSE g : g = [n \in 0..N |->
                        IF n = 0 THEN f
                        ELSE IF Order[n] \in Owing(e) THEN Canceled(g[n - 1], Order[n], Token(e), luck)
                        ELSE g[n - 1]]
            g0 == IF e.phase = "press" THEN Finished(f, e, loss) ELSE freed[N]
<1>1. ReleaseOutgoing(f, i, luck) = IF x = None THEN f ELSE Settled(g0, luck)
  BY DEF ReleaseOutgoing
<1>2. CASE x = None
  BY <1>1, <1>2, UnfoldsSelf
<1>3. ASSUME x # None, Sound(g0), Settles(f, g0)
      PROVE  /\ Sound(ReleaseOutgoing(f, i, luck)) /\ Calm(ReleaseOutgoing(f, i, luck))
             /\ Settles(f, ReleaseOutgoing(f, i, luck))
  <2>. HIDE DEF x, g0
  <2>1. /\ Sound(Settled(g0, luck)) /\ Calm(Settled(g0, luck)) /\ Settles(g0, Settled(g0, luck))
    BY <1>3, SettledSound
  <2>2. Settles(f, Settled(g0, luck))
    BY <1>3, <2>1, SettlesTwice
  <2>3. ReleaseOutgoing(f, i, luck) = Settled(g0, luck)
    BY <1>1, <1>3
  <2>. QED BY <2>1, <2>2, <2>3
<1>4. CASE x # None
  <2>1. x \in DOMAIN f.exchanges
    BY <1>4, SoundMeans DEF QueueSound
  <2>2. CASE e.phase = "press"
    <3>1. Sound(Finished(f, e, loss)) /\ Settles(f, Finished(f, e, loss))
      BY <2>1, <2>2, LossIs, StoppedSound
    <3>. QED BY <1>3, <1>4, <2>2, <3>1
  <2>3. CASE e.phase # "press"
    <3>. DEFINE Near(h, n) == Sound(h) /\ Settles(f, h) /\ StillRemains(e, h, n)
                D == [n \in 0..N |-> {h \in States : Near(h, n)}]
                Next1(h, n) == IF Order[n] \in Owing(e) THEN Canceled(h, Order[n], Token(e), luck)
                               ELSE h
                step == [n \in 1..N |-> [s \in States |-> Next1(s, n)]]
    <3>1. N \in Nat
      BY Params
    <3>2. f \in States /\ Near(f, 0)
      <4>1. e \in Exchanges /\ e.id = x
        BY <2>1, SoundMeans DEF Tied
      <4>2. e.phase = "waiting"
        BY <2>3, <4>1 DEF Exchanges
      <4>3. Remains(e, 0) = Owing(e)
        BY DEF Remains
      <4>4. StillRemains(e, f, 0)
        BY <2>1, <4>1, <4>2, <4>3 DEF StillRemains
      <4>. QED BY <4>4, UnfoldsSelf, SoundMeans
    <3>3. ASSUME NEW n \in 1..N, NEW s, Near(s, n - 1)
          PROVE  Next1(s, n) \in States /\ Near(Next1(s, n), n)
      <4>1. Sound(s) /\ Settles(f, s) /\ StillRemains(e, s, n - 1)
        BY <3>3
      <4>. DEFINE v == Next1(s, n)
      <4>2. v = IF Order[n] \in Owing(e) THEN Canceled(s, Order[n], Token(e), luck) ELSE s
        OBVIOUS
      <4>. HIDE DEF v, x
      <4>3. Near(v, n)
        BY <2>1, <4>1, <4>2, FreedNext
      <4>. QED BY <4>3, SoundMeans DEF v
    <3>. HIDE DEF Near, N, Next1, x
    <3>4. \A n \in 0..N : D[n] = {h \in States : Near(h, n)}
      OBVIOUS
    <3>5. ASSUME NEW n \in 1..N, NEW s \in D[n - 1]
          PROVE  step[n][s] \in D[n] /\ step[n][s] = Next1(s, n)
      <4>1. n - 1 \in 0..N /\ n \in 0..N
        BY <3>1
      <4>2. s \in States /\ Near(s, n - 1)
        BY <3>4, <4>1
      <4>3. Next1(s, n) \in States /\ Near(Next1(s, n), n)
        BY <3>3, <4>2
      <4>. QED BY <3>4, <4>1, <4>2, <4>3
    <3>6. f \in D[0]
      BY <3>1, <3>2, <3>4
    <3>. HIDE DEF D, step
    <3>7. PICK g : Solves(g, N, f, step) /\ \A n \in 0..N : g[n] \in D[n]
      <4>1. \A n \in 1..N : \A s \in D[n - 1] : step[n][s] \in D[n]
        BY <3>5
      <4>. QED BY <3>1, <3>6, <4>1, Recursion
    <3>8. g = [n \in 0..N |-> IF n = 0 THEN f ELSE Next1(g[n - 1], n)]
      <4>1. ASSUME NEW n \in 0..N, n # 0 PROVE step[n][g[n - 1]] = Next1(g[n - 1], n)
        <5>1. n \in 1..N /\ n - 1 \in 0..N
          BY <3>1, <4>1
        <5>. QED BY <3>5, <3>7, <5>1
      <4>2. g = [n \in 0..N |-> IF n = 0 THEN f ELSE step[n][g[n - 1]]]
        BY <3>7, Zenon DEF Solves
      <4>3. [n \in 0..N |-> IF n = 0 THEN f ELSE step[n][g[n - 1]]]
               = [n \in 0..N |-> IF n = 0 THEN f ELSE Next1(g[n - 1], n)]
        BY <4>1
      <4>. QED BY <4>2, <4>3, Zenon
    <3>9. freed = [n \in 0..N |-> IF n = 0 THEN f ELSE Next1(freed[n - 1], n)]
      BY <3>8, Zenon DEF Next1
    <3>. HIDE DEF freed
    <3>10. freed[0] = f /\ \A n \in 1..N : freed[n] = Next1(freed[n - 1], n)
      <4>1. 0 \in 0..N /\ \A n \in 1..N : n \in 0..N /\ n # 0
        BY <3>1
      <4>. QED BY <3>9, <4>1
    <3>11. Near(freed[N], N)
      <4>. DEFINE S == {n \in 0..N : Near(freed[n], n)}
      <4>1. 0 \in S
        BY <3>1, <3>2, <3>10
      <4>2. ASSUME NEW n \in 1..N, n - 1 \in S PROVE n \in S
        <5>1. n \in 0..N
          BY <3>1
        <5>. QED BY <3>3, <3>10, <4>2, <5>1
      <4>. HIDE DEF S
      <4>3. N \in S
        BY <3>1, <4>1, <4>2, Climb
      <4>. QED BY <4>3 DEF S
    <3>. QED BY <1>3, <1>4, <2>3, <3>11 DEF Near
  <2>. QED BY <2>2, <2>3
<1>. QED BY <1>2, <1>4

Tries == [f : States, ok : BOOLEAN]

\* The state of a try, whether it is kept or undone, is one f0 unfolds to.
Frees(f0, try) == try \in Tries /\ Sound(try.f) /\ Calm(try.f) /\ Unfolds(f0, try.f)
Eases(f0, try) == Frees(f0, try) /\ Places(f0, try.f)

LEMMA SetTry ==
    ASSUME NEW try \in Tries, NEW g \in States
    PROVE  /\ [try EXCEPT !.f = g] \in Tries /\ [try EXCEPT !.f = g].f = g
           /\ [try EXCEPT !.f = g].ok = try.ok
           /\ [try EXCEPT !.ok = FALSE] \in Tries /\ [try EXCEPT !.ok = FALSE].f = try.f
BY DEF Tries

LEMMA FreesOn ==
    ASSUME NEW f0, Sound(f0), NEW try, Frees(f0, try), NEW g, Sound(g), Calm(g), Unfolds(try.f, g)
    PROVE  Frees(f0, [try EXCEPT !.f = g])
<1>1. g \in States /\ try \in Tries
  BY SoundMeans DEF Frees
<1>2. Unfolds(f0, g)
  BY UnfoldsTwice DEF Frees
<1>. QED BY <1>1, <1>2, SetTry DEF Frees

LEMMA EasesOn ==
    ASSUME NEW f0, Sound(f0), NEW try, Eases(f0, try), NEW g, Sound(g), Calm(g), Settles(try.f, g)
    PROVE  Eases(f0, [try EXCEPT !.f = g])
<1>1. Frees(f0, [try EXCEPT !.f = g])
  BY FreesOn DEF Eases, Settles
<1>2. [try EXCEPT !.f = g].f = g
  BY SoundMeans, SetTry DEF Eases, Frees
<1>. QED BY <1>1, <1>2 DEF Eases, Settles, Places

LEMMA ReleaseOneEases ==
    ASSUME NEW f0, Sound(f0), NEW try, Eases(f0, try), NEW i \in Fighters, NEW t, NEW luck
    PROVE  Eases(f0, ReleaseOne(try, i, t, luck))
<1>. DEFINE g == Settled(Canceled(try.f, i, t, luck), luck)
<1>1. try \in Tries /\ Sound(try.f)
  BY DEF Eases, Frees
<1>2. CASE ReleaseOne(try, i, t, luck) = try
  BY <1>2
<1>3. CASE ReleaseOne(try, i, t, luck) = [try EXCEPT !.ok = FALSE]
  <2>1. [try EXCEPT !.ok = FALSE] \in Tries /\ [try EXCEPT !.ok = FALSE].f = try.f
    BY <1>1 DEF Tries
  <2>. QED BY <1>3, <2>1 DEF Eases, Frees
<1>4. CASE /\ ReleaseOne(try, i, t, luck) = [try EXCEPT !.f = g]
           /\ Live(try.f, t) /\ ~Answered(try.f, i, t) /\ Contains(try.f.rows[i].incoming, t)
  <2>1. t \in Waiting(try.f, i)
    <3>1. try.f.rows[i].incoming \in Seq(Tokens)
      BY <1>1, SoundMeans, RowFields
    <3>2. \E k \in 1..Len(try.f.rows[i].incoming) : try.f.rows[i].incoming[k] = t
      BY <1>4, Zenon DEF Contains
    <3>. QED BY <3>1, <3>2 DEF Waiting, ToSet
  <2>2. Sound(Canceled(try.f, i, t, luck)) /\ Settles(try.f, Canceled(try.f, i, t, luck))
    BY <1>1, <1>4, <2>1, CanceledSound
  <2>3. Sound(g) /\ Calm(g) /\ Settles(Canceled(try.f, i, t, luck), g)
    BY <2>2, SettledSound
  <2>. HIDE DEF g
  <2>4. Settles(try.f, g)
    BY <1>1, <2>2, <2>3, SettlesTwice
  <2>. QED BY <1>4, <2>3, <2>4, EasesOn
<1>5. \/ ReleaseOne(try, i, t, luck) = try
      \/ ReleaseOne(try, i, t, luck) = [try EXCEPT !.ok = FALSE]
      \/ /\ ReleaseOne(try, i, t, luck) = [try EXCEPT !.f = g]
         /\ Live(try.f, t) /\ ~Answered(try.f, i, t) /\ Contains(try.f.rows[i].incoming, t)
  <2>1. ReleaseOne(try, i, t, luck) =
          IF ~try.ok THEN try
          ELSE IF ~Live(try.f, t) THEN [try EXCEPT !.ok = FALSE]
          ELSE IF Answered(try.f, i, t) THEN try
          ELSE IF ~Contains(try.f.rows[i].incoming, t) THEN [try EXCEPT !.ok = FALSE]
          ELSE [try EXCEPT !.f = g]
    BY DEF ReleaseOne
  <2>. HIDE DEF g
  <2>. QED BY <2>1, Zenon
<1>. QED BY <1>2, <1>3, <1>4, <1>5

LEMMA ReleasedEases ==
    ASSUME NEW f0, Sound(f0), NEW try, Eases(f0, try), NEW i \in Fighters, NEW luck
    PROVE  Eases(f0, Released(try, i, luck))
<1>. DEFINE queue == try.f.rows[i].incoming
            N == Len(queue)
            done == CHOOSE g : g = [n \in 0..N |->
                        IF n = 0 THEN try ELSE ReleaseOne(g[n - 1], i, queue[n], luck)]
            last == done[N]
            D == [n \in 0..N |-> {s \in Tries : Eases(f0, s)}]
            step == [n \in 1..N |-> [s \in Tries |-> ReleaseOne(s, i, queue[n], luck)]]
<1>1. Released(try, i, luck) =
         IF last.ok THEN [last EXCEPT !.f = ReleaseOutgoing(@, i, luck)] ELSE last
  BY DEF Released
<1>2. N \in Nat
  <2>1. queue \in Seq(Tokens)
    BY SoundMeans, RowFields DEF Eases, Frees
  <2>. HIDE DEF queue
  <2>. QED BY <2>1
<1>. HIDE DEF N, queue
<1>3. ASSUME NEW n \in 1..N, NEW s, Eases(f0, s)
      PROVE  ReleaseOne(s, i, queue[n], luck) \in Tries /\ Eases(f0, ReleaseOne(s, i, queue[n], luck))
  <2>1. Eases(f0, ReleaseOne(s, i, queue[n], luck))
    BY <1>3, ReleaseOneEases
  <2>. QED BY <2>1 DEF Eases, Frees
<1>4. \A n \in 0..N : D[n] = {s \in Tries : Eases(f0, s)}
  OBVIOUS
<1>5. ASSUME NEW n \in 1..N, NEW s \in D[n - 1]
      PROVE  step[n][s] \in D[n] /\ step[n][s] = ReleaseOne(s, i, queue[n], luck)
  <2>1. n - 1 \in 0..N /\ n \in 0..N
    BY <1>2
  <2>2. s \in Tries /\ Eases(f0, s)
    BY <1>4, <2>1
  <2>. QED BY <1>3, <1>4, <2>1, <2>2
<1>6. try \in D[0]
  BY <1>2, <1>4 DEF Eases, Frees
<1>. HIDE DEF D, step
<1>7. PICK g : Solves(g, N, try, step) /\ \A n \in 0..N : g[n] \in D[n]
  <2>1. \A n \in 1..N : \A s \in D[n - 1] : step[n][s] \in D[n]
    BY <1>5
  <2>. QED BY <1>2, <1>6, <2>1, Recursion
<1>8. g = [n \in 0..N |-> IF n = 0 THEN try ELSE ReleaseOne(g[n - 1], i, queue[n], luck)]
  <2>1. ASSUME NEW n \in 0..N, n # 0 PROVE step[n][g[n - 1]] = ReleaseOne(g[n - 1], i, queue[n], luck)
    <3>1. n \in 1..N /\ n - 1 \in 0..N
      BY <1>2, <2>1
    <3>. QED BY <1>5, <1>7, <3>1
  <2>2. g = [n \in 0..N |-> IF n = 0 THEN try ELSE step[n][g[n - 1]]]
    BY <1>7, Zenon DEF Solves
  <2>3. [n \in 0..N |-> IF n = 0 THEN try ELSE step[n][g[n - 1]]]
           = [n \in 0..N |-> IF n = 0 THEN try ELSE ReleaseOne(g[n - 1], i, queue[n], luck)]
    BY <2>1
  <2>. QED BY <2>2, <2>3, Zenon
<1>9. done = [n \in 0..N |-> IF n = 0 THEN try ELSE ReleaseOne(done[n - 1], i, queue[n], luck)]
  BY <1>8, Zenon
<1>. HIDE DEF done
<1>10. done[0] = try /\ \A n \in 1..N : done[n] = ReleaseOne(done[n - 1], i, queue[n], luck)
  <2>1. 0 \in 0..N /\ \A n \in 1..N : n \in 0..N /\ n # 0
    BY <1>2
  <2>. QED BY <1>9, <2>1
<1>11. Eases(f0, last)
  <2>. DEFINE S == {n \in 0..N : Eases(f0, done[n])}
  <2>1. 0 \in S
    BY <1>2, <1>10
  <2>2. ASSUME NEW n \in 1..N, n - 1 \in S PROVE n \in S
    <3>1. n \in 0..N
      BY <1>2
    <3>. QED BY <1>3, <1>10, <2>2, <3>1
  <2>. HIDE DEF S
  <2>3. N \in S
    BY <1>2, <2>1, <2>2, Climb
  <2>. QED BY <2>3 DEF S
<1>. HIDE DEF last
<1>12. Eases(f0, [last EXCEPT !.f = ReleaseOutgoing(last.f, i, luck)])
  <2>1. Sound(last.f) /\ Calm(last.f)
    BY <1>11 DEF Eases, Frees
  <2>2. /\ Sound(ReleaseOutgoing(last.f, i, luck)) /\ Calm(ReleaseOutgoing(last.f, i, luck))
        /\ Settles(last.f, ReleaseOutgoing(last.f, i, luck))
    BY <2>1, ReleaseOutgoingSound
  <2>. QED BY <1>11, <2>2, EasesOn
<1>13. [last EXCEPT !.f = ReleaseOutgoing(@, i, luck)] = [last EXCEPT !.f = ReleaseOutgoing(last.f, i, luck)]
  BY <1>11 DEF Eases, Frees, Tries
<1>. QED BY <1>1, <1>11, <1>12, <1>13

LEMMA ReleasedFrees ==
    ASSUME NEW f0, Sound(f0), NEW try, Frees(f0, try), NEW i \in Fighters, NEW luck
    PROVE  Frees(f0, Released(try, i, luck)) /\ Places(try.f, Released(try, i, luck).f)
<1>1. Sound(try.f) /\ Eases(try.f, try)
  BY UnfoldsSelf DEF Frees, Eases, Settles
<1>2. Eases(try.f, Released(try, i, luck))
  BY <1>1, ReleasedEases
<1>3. Unfolds(f0, Released(try, i, luck).f)
  BY <1>2, UnfoldsTwice DEF Eases, Frees
<1>. QED BY <1>2, <1>3 DEF Eases, Frees

-----------------------------------------------------------------------------
(***************************************************************************)
(* Fading, shelving, and the sweep.                                        *)
(***************************************************************************)
\* One row changes, in its place, its absence or its pause of the fight.
LEMMA LeftIs ==
    ASSUME NEW f \in States, NEW i \in Fighters, NEW r \in Rows
    PROVE  /\ Left(f, i, r) \in States /\ Left(f, i, r).rows = [f.rows EXCEPT ![i] = r]
           /\ Left(f, i, r).exchanges = f.exchanges /\ SameClock(f, Left(f, i, r))
<1>. DEFINE g == [f EXCEPT !.rows[i] = r]
            p == g.paused \/ ~\E j \in Fighters : g.rows[j].status = "active" /\ g.rows[j].hp > 0
<1>1. g \in States /\ g.rows = [f.rows EXCEPT ![i] = r] /\ g.exchanges = f.exchanges /\ SameClock(f, g)
  BY SetRow
<1>2. Left(f, i, r) = [g EXCEPT !.paused = p]
  <2>1. Left(f, i, r) = [g EXCEPT !.paused = @ \/ ~\E j \in Fighters :
                                     g.rows[j].status = "active" /\ g.rows[j].hp > 0]
    BY DEF Left
  <2>. HIDE DEF g
  <2>. QED BY <1>1, <2>1 DEF States
<1>3. p \in BOOLEAN
  <2>1. g.paused \in BOOLEAN
    BY <1>1, StateFields
  <2>. QED BY <2>1
<1>. HIDE DEF g, p
<1>. QED BY <1>1, <1>2, <1>3 DEF States, SameClock

\* r may turn into q while the fight unfolds.
Fades(r, q, i) == RowTouched(r, q, i) /\ RowUnfolds(r, q, i) /\ (q.hp = 0 => r.hp = 0)

LEMMA FadesSelf ==
    ASSUME NEW f, Sound(f), NEW i \in Fighters
    PROVE  Fades(f.rows[i], f.rows[i], i)
<1>1. f.rows[i] \in Rows /\ RowSound(f.rows[i], i)
  BY SoundMeans
<1>2. f.rows[i].hp \in Int /\ f.rows[i].left \in Int /\ SpentOf(f.rows[i], i) \in Int
  BY <1>1, SpentType, RowFields
<1>. QED BY <1>1, <1>2 DEF Fades, RowTouched, RowUnfolds

LEMMA RowFades ==
    ASSUME NEW f, Sound(f), NEW i \in Fighters, NEW q, Fades(f.rows[i], q, i),
           NEW g \in States, g.rows = [f.rows EXCEPT ![i] = q], g.exchanges = f.exchanges,
           SameClock(f, g)
    PROVE  Sound(g) /\ Unfolds(f, g) /\ (Calm(f) => Calm(g))
<1>1. ASSUME NEW j \in Fighters PROVE Fades(f.rows[j], g.rows[j], j)
  <2>1. f.rows \in [Fighters -> Rows]
    BY SoundMeans
  <2>2. g.rows[j] = IF j = i THEN q ELSE f.rows[j]
    BY <2>1
  <2>. QED BY <2>2, FadesSelf
<1>2. f.next \in Int
  BY SoundMeans, StateFields
<1>3. Touched(f, g)
  BY <1>1, <1>2 DEF Touched, SameClock, Fades
<1>4. Sound(g) /\ Carries(f, g) /\ \A j \in Fighters : Waiting(g, j) = Waiting(f, j)
  BY <1>3, TouchedSound
<1>5. Unfolds(f, g)
  BY <1>1, <1>4 DEF Unfolds, Carries, Fades, SameClock
<1>6. Calm(f) => Calm(g)
  <2>1. \A j \in Fighters : g.rows[j].incoming = f.rows[j].incoming /\ (g.rows[j].hp = 0 => f.rows[j].hp = 0)
    BY <1>1 DEF Fades, RowTouched
  <2>. QED BY <2>1, StillCalm DEF SameClock
<1>. QED BY <1>4, <1>5, <1>6

LEMMA FadedFades ==
    ASSUME NEW f, Sound(f), NEW i \in Fighters, f.rows[i].status = "active", NEW b \in BOOLEAN
    PROVE  Fades(f.rows[i], [f.rows[i] EXCEPT !.status = "faded", !.fadedHp = f.rows[i].hp,
                                              !.absent = b], i)
<1>. DEFINE r == f.rows[i]
            q == [r EXCEPT !.status = "faded", !.fadedHp = r.hp, !.absent = b]
<1>1. r \in Rows /\ RowSound(r, i)
  BY SoundMeans
<1>2. /\ r.hp \in Int /\ r.hp \in 0..MaxHp /\ r.left \in Int /\ SpentOf(r, i) \in Int
      /\ None \notin 0..MaxHp
  <2>1. r.hp \in 0..MaxHp
    BY <1>1 DEF Rows
  <2>. QED BY <1>1, <2>1, SpentType, RowFields, Params
<1>. HIDE DEF r
<1>3. /\ q \in Rows /\ q.status = "faded" /\ q.fadedHp = r.hp /\ q.hp = r.hp
      /\ q.incoming = r.incoming /\ q.outgoing = r.outgoing /\ q.turns = r.turns
      /\ q.left = r.left /\ q.exposure = r.exposure
  BY <1>1, <1>2 DEF Rows
<1>4. SpentOf(q, i) = SpentOf(r, i)
  BY <1>3, Zenon DEF SpentOf
<1>. HIDE DEF q
<1>5. RowSound(q, i)
  BY <1>1, <1>2, <1>3 DEF RowSound
<1>6. Fades(r, q, i)
  <2>1. r.status = "active"
    BY DEF r
  <2>. QED BY <1>2, <1>3, <1>4, <1>5, <2>1 DEF Fades, RowTouched, RowUnfolds
<1>. QED BY <1>6 DEF q, r

LEMMA AbsentFades ==
    ASSUME NEW f, Sound(f), NEW i \in Fighters, NEW b \in BOOLEAN
    PROVE  Fades(f.rows[i], [f.rows[i] EXCEPT !.absent = b], i)
<1>. DEFINE r == f.rows[i]
            q == [r EXCEPT !.absent = b]
<1>1. r \in Rows /\ RowSound(r, i)
  BY SoundMeans
<1>2. r.hp \in Int /\ r.left \in Int /\ SpentOf(r, i) \in Int
  BY <1>1, SpentType, RowFields
<1>. HIDE DEF r
<1>3. /\ q \in Rows /\ q.status = r.status /\ q.fadedHp = r.fadedHp /\ q.hp = r.hp
      /\ q.incoming = r.incoming /\ q.outgoing = r.outgoing /\ q.turns = r.turns
      /\ q.left = r.left /\ q.exposure = r.exposure
  BY <1>1 DEF Rows
<1>4. SpentOf(q, i) = SpentOf(r, i)
  BY <1>3, Zenon DEF SpentOf
<1>. HIDE DEF q
<1>5. RowSound(q, i)
  BY <1>1, <1>3 DEF RowSound
<1>6. Fades(r, q, i)
  BY <1>2, <1>3, <1>4, <1>5 DEF Fades, RowTouched, RowUnfolds
<1>. QED BY <1>6 DEF q, r

\* Absent(f, i, b): i is seen, or found gone.
Marked(f, i, b) == [f EXCEPT !.rows[i].absent = b]

LEMMA MarkedSound ==
    ASSUME NEW f, Sound(f), NEW i \in Fighters, NEW b \in BOOLEAN
    PROVE  /\ Sound(Marked(f, i, b)) /\ Unfolds(f, Marked(f, i, b))
           /\ Calm(f) => Calm(Marked(f, i, b))
           /\ Marked(f, i, b).rows = [f.rows EXCEPT ![i] = [f.rows[i] EXCEPT !.absent = b]]
           /\ Marked(f, i, b).exchanges = f.exchanges
<1>. DEFINE q == [f.rows[i] EXCEPT !.absent = b]
            g == Marked(f, i, b)
<1>1. f \in States /\ Fades(f.rows[i], q, i)
  BY SoundMeans, AbsentFades
<1>2. g = [f EXCEPT !.rows[i] = q]
  BY <1>1 DEF Marked, States
<1>. HIDE DEF q, g
<1>3. q \in Rows
  BY <1>1 DEF Fades, RowTouched
<1>4. g \in States /\ g.rows = [f.rows EXCEPT ![i] = q] /\ g.exchanges = f.exchanges /\ SameClock(f, g)
  BY <1>1, <1>2, <1>3, SetRow
<1>5. Sound(g) /\ Unfolds(f, g) /\ (Calm(f) => Calm(g))
  BY <1>1, <1>4, RowFades
<1>. QED BY <1>4, <1>5 DEF q, g

LEMMA SetAsideSound ==
    ASSUME NEW f, Sound(f), Calm(f), NEW i \in Fighters, f.rows[i].status = "active"
    PROVE  LET g == [Faded(f, i) EXCEPT !.rows[i].absent = FALSE]
           IN  Sound(g) /\ Calm(g) /\ Unfolds(f, g)
<1>. DEFINE r == f.rows[i]
            m == [r EXCEPT !.status = "faded", !.fadedHp = r.hp]
            q == [r EXCEPT !.status = "faded", !.fadedHp = r.hp, !.absent = FALSE]
            k == Faded(f, i)
            g == [k EXCEPT !.rows[i].absent = FALSE]
<1>1. f \in States /\ r \in Rows /\ f.rows \in [Fighters -> Rows] /\ Fades(r, q, i)
  BY SoundMeans, FadedFades
<1>2. m \in Rows /\ q = [m EXCEPT !.absent = FALSE]
  <2>1. r.hp \in 0..MaxHp
    BY <1>1 DEF Rows
  <2>. HIDE DEF r
  <2>. QED BY <1>1, <2>1 DEF Rows
<1>3. k = Left(f, i, m)
  BY DEF Faded
<1>. HIDE DEF m, k
<1>4. k \in States /\ k.rows = [f.rows EXCEPT ![i] = m] /\ k.exchanges = f.exchanges /\ SameClock(f, k)
  BY <1>1, <1>2, <1>3, LeftIs
<1>5. g = [k EXCEPT !.rows[i] = q]
  <2>1. k.rows[i] = m
    BY <1>1, <1>4
  <2>. HIDE DEF q
  <2>. QED BY <1>2, <1>4, <2>1 DEF States
<1>. HIDE DEF q, g, r
<1>6. q \in Rows
  BY <1>1 DEF Fades, RowTouched
<1>7. g \in States /\ g.rows = [k.rows EXCEPT ![i] = q] /\ g.exchanges = k.exchanges /\ SameClock(k, g)
  BY <1>4, <1>5, <1>6, SetRow
<1>8. g.rows = [f.rows EXCEPT ![i] = q]
  BY <1>1, <1>4, <1>7
<1>9. g.exchanges = f.exchanges /\ SameClock(f, g)
  BY <1>4, <1>7 DEF SameClock
<1>10. Sound(g) /\ Unfolds(f, g) /\ (Calm(f) => Calm(g))
  BY <1>1, <1>7, <1>8, <1>9, RowFades DEF r
<1>. QED BY <1>10 DEF g, k

LEMMA SweepFrees ==
    ASSUME NEW f0, Sound(f0), NEW try, Frees(f0, try), NEW i \in Fighters, NEW gone, NEW luck
    PROVE  Frees(f0, Sweep(try, i, gone, luck))
<1>. DEFINE swept == Released(try, i, luck)
            a == [try EXCEPT !.f.rows[i].absent = FALSE]
            b == [swept EXCEPT !.f = [Faded(@, i) EXCEPT !.rows[i].absent = FALSE]]
            c == [swept EXCEPT !.f.rows[i].absent = TRUE]
<1>1. Sweep(try, i, gone, luck) =
         IF try.f.rows[i].status # "active" THEN try
         ELSE IF i \notin gone THEN a
         ELSE IF ~swept.ok THEN swept
         ELSE IF Clear(swept.f.rows[i]) THEN b ELSE c
  BY DEF Sweep, Dismissed
<1>2. Frees(f0, swept) /\ Places(try.f, swept.f)
  BY ReleasedFrees
<1>. HIDE DEF swept
<1>3. ASSUME NEW s, Frees(f0, s), NEW v \in BOOLEAN
      PROVE  Frees(f0, [s EXCEPT !.f.rows[i].absent = v])
  <2>1. s \in Tries /\ Sound(s.f) /\ Calm(s.f)
    BY <1>3 DEF Frees
  <2>2. Sound(Marked(s.f, i, v)) /\ Unfolds(s.f, Marked(s.f, i, v)) /\ Calm(Marked(s.f, i, v))
    BY <2>1, MarkedSound
  <2>3. Frees(f0, [s EXCEPT !.f = Marked(s.f, i, v)])
    BY <1>3, <2>2, FreesOn
  <2>4. [s EXCEPT !.f.rows[i].absent = v] = [s EXCEPT !.f = Marked(s.f, i, v)]
    BY <2>1 DEF Tries, Marked
  <2>. QED BY <2>3, <2>4
<1>4. CASE swept.f.rows[i].status = "active"
  <2>1. swept \in Tries /\ Sound(swept.f) /\ Calm(swept.f)
    BY <1>2 DEF Frees
  <2>. DEFINE g == [Faded(swept.f, i) EXCEPT !.rows[i].absent = FALSE]
  <2>2. Sound(g) /\ Calm(g) /\ Unfolds(swept.f, g)
    BY <1>4, <2>1, SetAsideSound
  <2>3. b = [swept EXCEPT !.f = g]
    BY <2>1 DEF Tries
  <2>. HIDE DEF g, b
  <2>4. Frees(f0, b)
    BY <1>2, <2>2, <2>3, FreesOn
  <2>. HIDE DEF a, c
  <2>5. Frees(f0, a) /\ Frees(f0, c)
    BY <1>2, <1>3 DEF a, c
  <2>. QED BY <1>1, <1>2, <2>4, <2>5
<1>5. CASE swept.f.rows[i].status # "active"
  <2>1. try.f.rows[i].status # "active"
    BY <1>2, <1>5 DEF Places
  <2>. QED BY <1>1, <2>1
<1>. QED BY <1>4, <1>5

\* The fight pauses, goes on, or ends.
SameTable(f, g) ==
    /\ g \in States /\ g.rows = f.rows /\ g.exchanges = f.exchanges
    /\ g.epoch = f.epoch /\ g.next = f.next

LEMMA SameTableSound ==
    ASSUME NEW f, Sound(f), NEW g, SameTable(f, g)
    PROVE  Sound(g) /\ Settles(f, g) /\ (Calm(f) => Calm(g))
<1>1. ASSUME NEW j \in Fighters PROVE Fades(f.rows[j], g.rows[j], j)
  BY FadesSelf DEF SameTable
<1>2. f.next \in Int
  BY SoundMeans, StateFields
<1>3. Touched(f, g)
  BY <1>1, <1>2 DEF Touched, SameTable, Fades
<1>4. Sound(g) /\ Carries(f, g) /\ \A j \in Fighters : Waiting(g, j) = Waiting(f, j)
  BY <1>3, TouchedSound
<1>5. Settles(f, g)
  BY <1>1, <1>4 DEF Settles, Places, Unfolds, Carries, Fades, SameTable
<1>6. Calm(f) => Calm(g)
  BY StillCalm DEF SameTable
<1>. QED BY <1>4, <1>5, <1>6

\* What a sound and calm fight unfolds to, and is sound and calm again.
Well(f0, h) == Sound(h) /\ Calm(h) /\ Unfolds(f0, h)

LEMMA SetAsideWell ==
    ASSUME NEW f0, Sound(f0), NEW h, Well(f0, h), NEW i \in Fighters
    PROVE  Well(f0, SetAside(h, i)) /\ SetAside(h, i) \in States
<1>1. CASE h.rows[i].status # "active"
  <2>1. SetAside(h, i) = h
    BY <1>1 DEF SetAside
  <2>. QED BY <2>1, SoundMeans DEF Well
<1>2. CASE h.rows[i].status = "active"
  <2>. DEFINE g == [Faded(h, i) EXCEPT !.rows[i].absent = FALSE]
  <2>1. SetAside(h, i) = g
    BY <1>2 DEF SetAside
  <2>2. Sound(g) /\ Calm(g) /\ Unfolds(h, g)
    BY <1>2, SetAsideSound DEF Well
  <2>. HIDE DEF g
  <2>3. Unfolds(f0, g)
    BY <2>2, UnfoldsTwice DEF Well
  <2>. QED BY <2>1, <2>2, <2>3, SoundMeans DEF Well
<1>. QED BY <1>1, <1>2

LEMMA AllReleased ==
    ASSUME NEW f, Sound(f), Calm(f), NEW luck, NEW freed,
           freed = CHOOSE g : g = [n \in 0..Len(Order) |->
                       IF n = 0 THEN Ready(f) ELSE Released(g[n - 1], Order[n], luck)]
    PROVE  Frees(f, freed[Len(Order)])
<1>. DEFINE N == Len(Order)
            D == [n \in 0..N |-> {s \in Tries : Frees(f, s)}]
            step == [n \in 1..N |-> [s \in Tries |-> Released(s, Order[n], luck)]]
<1>1. N \in Nat /\ \A n \in 1..N : Order[n] \in Fighters
  <2>1. Order \in Seq(Fighters)
    BY Params
  <2>. QED BY <2>1
<1>. HIDE DEF N
<1>2. Frees(f, Ready(f))
  <2>1. Ready(f) \in Tries /\ Ready(f).f = f
    BY SoundMeans DEF Ready, Tries
  <2>. QED BY <2>1, UnfoldsSelf DEF Frees, Settles
<1>3. ASSUME NEW n \in 1..N, NEW s, Frees(f, s)
      PROVE  Released(s, Order[n], luck) \in Tries /\ Frees(f, Released(s, Order[n], luck))
  <2>1. Frees(f, Released(s, Order[n], luck))
    BY <1>1, <1>3, ReleasedFrees
  <2>. QED BY <2>1 DEF Frees
<1>4. \A n \in 0..N : D[n] = {s \in Tries : Frees(f, s)}
  OBVIOUS
<1>5. ASSUME NEW n \in 1..N, NEW s \in D[n - 1]
      PROVE  step[n][s] \in D[n] /\ step[n][s] = Released(s, Order[n], luck)
  <2>1. n - 1 \in 0..N /\ n \in 0..N
    BY <1>1
  <2>2. s \in Tries /\ Frees(f, s)
    BY <1>4, <2>1
  <2>. QED BY <1>3, <1>4, <2>1, <2>2
<1>6. Ready(f) \in D[0]
  BY <1>1, <1>2, <1>4 DEF Frees
<1>. HIDE DEF D, step
<1>7. PICK g : Solves(g, N, Ready(f), step) /\ \A n \in 0..N : g[n] \in D[n]
  <2>1. \A n \in 1..N : \A s \in D[n - 1] : step[n][s] \in D[n]
    BY <1>5
  <2>. QED BY <1>1, <1>6, <2>1, Recursion
<1>8. g = [n \in 0..N |-> IF n = 0 THEN Ready(f) ELSE Released(g[n - 1], Order[n], luck)]
  <2>1. ASSUME NEW n \in 0..N, n # 0 PROVE step[n][g[n - 1]] = Released(g[n - 1], Order[n], luck)
    <3>1. n \in 1..N /\ n - 1 \in 0..N
      BY <1>1, <2>1
    <3>. QED BY <1>5, <1>7, <3>1
  <2>2. g = [n \in 0..N |-> IF n = 0 THEN Ready(f) ELSE step[n][g[n - 1]]]
    BY <1>7, Zenon DEF Solves
  <2>3. [n \in 0..N |-> IF n = 0 THEN Ready(f) ELSE step[n][g[n - 1]]]
           = [n \in 0..N |-> IF n = 0 THEN Ready(f) ELSE Released(g[n - 1], Order[n], luck)]
    BY <2>1
  <2>. QED BY <2>2, <2>3, Zenon
<1>9. freed = [n \in 0..N |-> IF n = 0 THEN Ready(f) ELSE Released(freed[n - 1], Order[n], luck)]
  BY <1>8, Zenon DEF N
<1>10. freed[0] = Ready(f) /\ \A n \in 1..N : freed[n] = Released(freed[n - 1], Order[n], luck)
  <2>1. 0 \in 0..N /\ \A n \in 1..N : n \in 0..N /\ n # 0
    BY <1>1
  <2>. QED BY <1>9, <2>1
<1>. DEFINE S == {n \in 0..N : Frees(f, freed[n])}
<1>11. 0 \in S
  BY <1>1, <1>2, <1>10
<1>12. ASSUME NEW n \in 1..N, n - 1 \in S PROVE n \in S
  <2>1. n \in 0..N
    BY <1>1
  <2>. QED BY <1>3, <1>10, <1>12, <2>1
<1>. HIDE DEF S
<1>13. N \in S
  BY <1>1, <1>11, <1>12, Climb
<1>. QED BY <1>13 DEF S, N

LEMMA AllAside ==
    ASSUME NEW f, Sound(f), NEW h, Well(f, h), NEW aside,
           aside = CHOOSE g : g = [n \in 0..Len(Order) |->
                       IF n = 0 THEN h ELSE SetAside(g[n - 1], Order[n])]
    PROVE  Well(f, aside[Len(Order)])
<1>. DEFINE N == Len(Order)
            D == [n \in 0..N |-> {s \in States : Well(f, s)}]
            step == [n \in 1..N |-> [s \in States |-> SetAside(s, Order[n])]]
<1>1. N \in Nat /\ \A n \in 1..N : Order[n] \in Fighters
  <2>1. Order \in Seq(Fighters)
    BY Params
  <2>. QED BY <2>1
<1>. HIDE DEF N
<1>2. h \in States
  BY SoundMeans DEF Well
<1>3. ASSUME NEW n \in 1..N, NEW s, Well(f, s)
      PROVE  SetAside(s, Order[n]) \in States /\ Well(f, SetAside(s, Order[n]))
  BY <1>1, <1>3, SetAsideWell
<1>4. \A n \in 0..N : D[n] = {s \in States : Well(f, s)}
  OBVIOUS
<1>5. ASSUME NEW n \in 1..N, NEW s \in D[n - 1]
      PROVE  step[n][s] \in D[n] /\ step[n][s] = SetAside(s, Order[n])
  <2>1. n - 1 \in 0..N /\ n \in 0..N
    BY <1>1
  <2>2. s \in States /\ Well(f, s)
    BY <1>4, <2>1
  <2>. QED BY <1>3, <1>4, <2>1, <2>2
<1>6. h \in D[0]
  BY <1>1, <1>2, <1>4
<1>. HIDE DEF D, step
<1>7. PICK g : Solves(g, N, h, step) /\ \A n \in 0..N : g[n] \in D[n]
  <2>1. \A n \in 1..N : \A s \in D[n - 1] : step[n][s] \in D[n]
    BY <1>5
  <2>. QED BY <1>1, <1>6, <2>1, Recursion
<1>8. g = [n \in 0..N |-> IF n = 0 THEN h ELSE SetAside(g[n - 1], Order[n])]
  <2>1. ASSUME NEW n \in 0..N, n # 0 PROVE step[n][g[n - 1]] = SetAside(g[n - 1], Order[n])
    <3>1. n \in 1..N /\ n - 1 \in 0..N
      BY <1>1, <2>1
    <3>. QED BY <1>5, <1>7, <3>1
  <2>2. g = [n \in 0..N |-> IF n = 0 THEN h ELSE step[n][g[n - 1]]]
    BY <1>7, Zenon DEF Solves
  <2>3. [n \in 0..N |-> IF n = 0 THEN h ELSE step[n][g[n - 1]]]
           = [n \in 0..N |-> IF n = 0 THEN h ELSE SetAside(g[n - 1], Order[n])]
    BY <2>1
  <2>. QED BY <2>2, <2>3, Zenon
<1>9. aside = [n \in 0..N |-> IF n = 0 THEN h ELSE SetAside(aside[n - 1], Order[n])]
  BY <1>8, Zenon DEF N
<1>10. aside[0] = h /\ \A n \in 1..N : aside[n] = SetAside(aside[n - 1], Order[n])
  <2>1. 0 \in 0..N /\ \A n \in 1..N : n \in 0..N /\ n # 0
    BY <1>1
  <2>. QED BY <1>9, <2>1
<1>. DEFINE S == {n \in 0..N : Well(f, aside[n])}
<1>11. 0 \in S
  BY <1>1, <1>10
<1>12. ASSUME NEW n \in 1..N, n - 1 \in S PROVE n \in S
  <2>1. n \in 0..N
    BY <1>1
  <2>. QED BY <1>3, <1>10, <1>12, <2>1
<1>. HIDE DEF S
<1>13. N \in S
  BY <1>1, <1>11, <1>12, Climb
<1>. QED BY <1>13 DEF S, N

LEMMA ShelvedFrees ==
    ASSUME NEW f, Sound(f), Calm(f), NEW luck, Shelved(f, luck).ok
    PROVE  Well(f, Shelved(f, luck).f)
<1>. DEFINE freed == CHOOSE g : g = [n \in 0..Len(Order) |->
                        IF n = 0 THEN Ready(f) ELSE Released(g[n - 1], Order[n], luck)]
            free == freed[Len(Order)]
            aside == CHOOSE g : g = [n \in 0..Len(Order) |->
                        IF n = 0 THEN free.f ELSE SetAside(g[n - 1], Order[n])]
            h == aside[Len(Order)]
            k == [h EXCEPT !.paused = TRUE]
<1>1. Shelved(f, luck) = IF free.ok THEN Ready(k) ELSE free
  BY DEF Shelved
<1>2. Frees(f, free)
  BY AllReleased
<1>. HIDE DEF freed, free
<1>3. Well(f, free.f)
  BY <1>2 DEF Frees, Well
<1>4. Well(f, h)
  BY <1>3, AllAside
<1>. HIDE DEF aside, h
<1>5. SameTable(h, k)
  <2>1. h \in States
    BY <1>4, SoundMeans DEF Well
  <2>. QED BY <2>1 DEF States, SameTable
<1>. HIDE DEF k
<1>6. Well(f, k)
  <2>1. Sound(k) /\ Settles(h, k) /\ Calm(k)
    BY <1>4, <1>5, SameTableSound DEF Well
  <2>2. Unfolds(f, k)
    BY <1>4, <2>1, UnfoldsTwice DEF Well, Settles
  <2>. QED BY <2>1, <2>2 DEF Well
<1>7. CASE free.ok
  <2>1. Shelved(f, luck).f = k
    BY <1>1, <1>7 DEF Ready
  <2>. QED BY <1>6, <2>1
<1>8. CASE ~free.ok
  <2>1. Shelved(f, luck).f = free.f
    BY <1>1, <1>8
  <2>. QED BY <1>3, <2>1
<1>. QED BY <1>7, <1>8

LEMMA SweptFrees ==
    ASSUME NEW f, Sound(f), Calm(f), NEW gone, NEW luck
    PROVE  Well(f, Swept(f, gone, luck).f)
<1>. DEFINE N == Len(Order)
            after == CHOOSE g : g = [n \in 0..N |->
                        IF n = 0 THEN Ready(f) ELSE Sweep(g[n - 1], Order[n], gone, luck)]
            D == [n \in 0..N |-> {s \in Tries : Frees(f, s)}]
            step == [n \in 1..N |-> [s \in Tries |-> Sweep(s, Order[n], gone, luck)]]
<1>0. Swept(f, gone, luck) = after[N]
  BY DEF Swept
<1>1. N \in Nat /\ \A n \in 1..N : Order[n] \in Fighters
  <2>1. Order \in Seq(Fighters)
    BY Params
  <2>. QED BY <2>1
<1>. HIDE DEF N
<1>2. Frees(f, Ready(f))
  <2>1. Ready(f) \in Tries /\ Ready(f).f = f
    BY SoundMeans DEF Ready, Tries
  <2>. QED BY <2>1, UnfoldsSelf DEF Frees, Settles
<1>3. ASSUME NEW n \in 1..N, NEW s, Frees(f, s)
      PROVE  Sweep(s, Order[n], gone, luck) \in Tries /\ Frees(f, Sweep(s, Order[n], gone, luck))
  <2>1. Frees(f, Sweep(s, Order[n], gone, luck))
    BY <1>1, <1>3, SweepFrees
  <2>. QED BY <2>1 DEF Frees
<1>4. \A n \in 0..N : D[n] = {s \in Tries : Frees(f, s)}
  OBVIOUS
<1>5. ASSUME NEW n \in 1..N, NEW s \in D[n - 1]
      PROVE  step[n][s] \in D[n] /\ step[n][s] = Sweep(s, Order[n], gone, luck)
  <2>1. n - 1 \in 0..N /\ n \in 0..N
    BY <1>1
  <2>2. s \in Tries /\ Frees(f, s)
    BY <1>4, <2>1
  <2>. QED BY <1>3, <1>4, <2>1, <2>2
<1>6. Ready(f) \in D[0]
  BY <1>1, <1>2, <1>4 DEF Frees
<1>. HIDE DEF D, step
<1>7. PICK g : Solves(g, N, Ready(f), step) /\ \A n \in 0..N : g[n] \in D[n]
  <2>1. \A n \in 1..N : \A s \in D[n - 1] : step[n][s] \in D[n]
    BY <1>5
  <2>. QED BY <1>1, <1>6, <2>1, Recursion
<1>8. g = [n \in 0..N |-> IF n = 0 THEN Ready(f) ELSE Sweep(g[n - 1], Order[n], gone, luck)]
  <2>1. ASSUME NEW n \in 0..N, n # 0
        PROVE  step[n][g[n - 1]] = Sweep(g[n - 1], Order[n], gone, luck)
    <3>1. n \in 1..N /\ n - 1 \in 0..N
      BY <1>1, <2>1
    <3>. QED BY <1>5, <1>7, <3>1
  <2>2. g = [n \in 0..N |-> IF n = 0 THEN Ready(f) ELSE step[n][g[n - 1]]]
    BY <1>7, Zenon DEF Solves
  <2>3. [n \in 0..N |-> IF n = 0 THEN Ready(f) ELSE step[n][g[n - 1]]]
           = [n \in 0..N |-> IF n = 0 THEN Ready(f) ELSE Sweep(g[n - 1], Order[n], gone, luck)]
    BY <2>1
  <2>. QED BY <2>2, <2>3, Zenon
<1>9. after = [n \in 0..N |-> IF n = 0 THEN Ready(f) ELSE Sweep(after[n - 1], Order[n], gone, luck)]
  BY <1>8, Zenon
<1>. HIDE DEF after
<1>10. after[0] = Ready(f) /\ \A n \in 1..N : after[n] = Sweep(after[n - 1], Order[n], gone, luck)
  <2>1. 0 \in 0..N /\ \A n \in 1..N : n \in 0..N /\ n # 0
    BY <1>1
  <2>. QED BY <1>9, <2>1
<1>. DEFINE S == {n \in 0..N : Frees(f, after[n])}
<1>11. 0 \in S
  BY <1>1, <1>2, <1>10
<1>12. ASSUME NEW n \in 1..N, n - 1 \in S PROVE n \in S
  <2>1. n \in 0..N
    BY <1>1
  <2>. QED BY <1>3, <1>10, <1>12, <2>1
<1>. HIDE DEF S
<1>13. N \in S
  BY <1>1, <1>11, <1>12, Climb
<1>. QED BY <1>0, <1>13 DEF S, Frees, Well

-----------------------------------------------------------------------------
(***************************************************************************)
(* What one operation does to the fight.                                   *)
(***************************************************************************)
RowStands(r, q) == q.status # r.status \/ q.exposure # r.exposure => Standing(q) <= Standing(r)

IsNew(f, t) ==
    \/ t.id[1] = f.epoch /\ t.id[2] >= f.next
    \/ t.id \in DOMAIN f.exchanges /\ t.hit > f.exchanges[t.id].hit

Moves(f, g) ==
    /\ g.epoch = f.epoch /\ f.next <= g.next
    /\ \A i \in Fighters : RowStands(f.rows[i], g.rows[i])
    /\ \A i \in Fighters : \A t \in Waiting(g, i) :
          (\E j \in Fighters : t \in Waiting(f, j)) \/ IsNew(f, t)
    /\ \A x \in DOMAIN f.exchanges : f.exchanges[x].phase = "press" \/ Honours(f, g, x)

LEMMA StandingType ==
    ASSUME NEW r \in Rows, NEW i \in Fighters, RowSound(r, i)
    PROVE  Standing(r) \in Int
<1>1. r.hp \in Int /\ r.exposure \in Int /\ (r.status = "faded" => r.fadedHp \in Int)
  <2>1. MaxHp \in Nat
    BY Params
  <2>2. r.fadedHp \in (0..MaxHp) \cup {None}
    BY RowFields
  <2>. QED BY <2>1, <2>2, RowFields DEF RowSound
<1>. QED BY <1>1 DEF Standing

LEMMA UnfoldsMoves ==
    ASSUME NEW f, Sound(f), NEW g, Sound(g), Unfolds(f, g)
    PROVE  Moves(f, g)
<1>1. ASSUME NEW i \in Fighters PROVE RowStands(f.rows[i], g.rows[i])
  <2>. DEFINE r == f.rows[i]
              q == g.rows[i]
  <2>1. r \in Rows /\ q \in Rows /\ RowSound(r, i) /\ RowSound(q, i) /\ RowUnfolds(r, q, i)
    BY SoundMeans DEF Unfolds
  <2>2. /\ r.exposure \in Int /\ r.hp \in Int /\ q.hp \in Int
        /\ q.status = "faded" => q.fadedHp \in Int
    <3>1. MaxHp \in Nat
      BY Params
    <3>2. q.fadedHp \in (0..MaxHp) \cup {None}
      BY <2>1, RowFields
    <3>. HIDE DEF r, q
    <3>. QED BY <2>1, <3>1, <3>2, RowFields DEF RowSound
  <2>. HIDE DEF r, q
  <2>3. ASSUME q.status = r.status PROVE RowStands(r, q)
    BY <2>1, <2>3 DEF RowUnfolds, RowStands
  <2>4. ASSUME r.status = "active", q.status = "faded", q.fadedHp <= r.hp PROVE RowStands(r, q)
    <3>1. Standing(q) = q.fadedHp - r.exposure /\ Standing(r) = r.hp - r.exposure
      BY <2>1, <2>4 DEF Standing, RowUnfolds
    <3>. QED BY <2>2, <2>4, <3>1 DEF RowStands
  <2>5. RowStands(r, q)
    BY <2>1, <2>3, <2>4 DEF RowUnfolds
  <2>. QED BY <2>5 DEF r, q
<1>2. f.next <= g.next
  <2>1. f.next \in Int
    BY SoundMeans, StateFields
  <2>. QED BY <2>1 DEF Unfolds
<1>. QED BY <1>1, <1>2 DEF Moves, Unfolds

\* What settling an operation adds to it.
LEMMA MovesSettle ==
    ASSUME NEW f, Sound(f), NEW g, Sound(g), NEW h, Sound(h), Moves(f, g), Settles(g, h)
    PROVE  Moves(f, h)
<1>1. ASSUME NEW i \in Fighters PROVE RowStands(f.rows[i], h.rows[i])
  <2>. DEFINE r == f.rows[i]
              q == g.rows[i]
              s == h.rows[i]
  <2>1. /\ r \in Rows /\ q \in Rows /\ s \in Rows
        /\ RowSound(r, i) /\ RowSound(q, i) /\ RowSound(s, i)
        /\ RowUnfolds(q, s, i) /\ s.status = q.status /\ RowStands(r, q)
    BY SoundMeans DEF Settles, Unfolds, Places, Moves
  <2>. HIDE DEF r, q, s
  <2>2. Standing(r) \in Int /\ Standing(q) \in Int /\ Standing(s) \in Int
    BY <2>1, StandingType
  <2>3. Standing(s) <= Standing(q)
    <3>1. q.hp \in Int /\ s.hp \in Int /\ s.hp <= q.hp /\ q.exposure \in Int /\ s.exposure = q.exposure
      BY <2>1, RowFields DEF RowUnfolds
    <3>2. CASE s.status = "faded"
      <4>1. s.fadedHp = q.fadedHp
        BY <2>1, <3>2 DEF RowUnfolds
      <4>2. Standing(s) = s.fadedHp - s.exposure /\ Standing(q) = q.fadedHp - q.exposure
        BY <2>1, <3>2 DEF Standing
      <4>3. Standing(s) = Standing(q)
        BY <3>1, <4>1, <4>2
      <4>. QED BY <2>2, <4>3
    <3>3. CASE s.status # "faded"
      <4>1. Standing(s) = s.hp - s.exposure /\ Standing(q) = q.hp - q.exposure
        BY <2>1, <3>3 DEF Standing
      <4>. QED BY <3>1, <4>1
    <3>. QED BY <3>2, <3>3
  <2>4. s.exposure = q.exposure
    BY <2>1 DEF RowUnfolds
  <2>5. RowStands(r, s)
    BY <2>1, <2>2, <2>3, <2>4 DEF RowStands
  <2>. QED BY <2>5 DEF r, s
<1>2. \A i \in Fighters : \A t \in Waiting(h, i) :
         (\E j \in Fighters : t \in Waiting(f, j)) \/ IsNew(f, t)
  BY DEF Moves, Settles, Unfolds
<1>3. \A x \in DOMAIN f.exchanges : f.exchanges[x].phase = "press" \/ Honours(f, h, x)
  BY HonoursTwice, UnfoldsCarries DEF Moves, Settles
<1>. QED BY <1>1, <1>2, <1>3 DEF Moves, Settles, Unfolds

LEMMA TouchedMoves ==
    ASSUME NEW f, Sound(f), NEW g, Touched(f, g),
           \A i \in Fighters : RowStands(f.rows[i], g.rows[i])
    PROVE  Sound(g) /\ Moves(f, g)
<1>1. Sound(g) /\ Carries(f, g) /\ \A i \in Fighters : Waiting(g, i) = Waiting(f, i)
  BY TouchedSound
<1>. QED BY <1>1 DEF Moves, Carries, Touched

\* Being seen makes no difference to what an operation does.
LEMMA MovesSeen ==
    ASSUME NEW f, Sound(f), NEW i \in Fighters, NEW g, Moves(Marked(f, i, FALSE), g)
    PROVE  Moves(f, g)
<1>. DEFINE h == Marked(f, i, FALSE)
<1>1. /\ f \in States /\ f.rows \in [Fighters -> Rows]
      /\ h.rows = [f.rows EXCEPT ![i] = [f.rows[i] EXCEPT !.absent = FALSE]]
      /\ h.exchanges = f.exchanges /\ Unfolds(f, h)
  BY SoundMeans, MarkedSound
<1>2. h.epoch = f.epoch /\ h.next = f.next
  BY <1>1 DEF Unfolds
<1>. HIDE DEF h
<1>3. ASSUME NEW j \in Fighters
      PROVE  /\ h.rows[j].status = f.rows[j].status /\ h.rows[j].exposure = f.rows[j].exposure
             /\ h.rows[j].hp = f.rows[j].hp /\ h.rows[j].fadedHp = f.rows[j].fadedHp
             /\ h.rows[j].incoming = f.rows[j].incoming
             /\ h.rows[j].turns = f.rows[j].turns /\ h.rows[j].left = f.rows[j].left
  <2>1. CASE j = i
    <3>1. h.rows[j] = [f.rows[i] EXCEPT !.absent = FALSE] /\ f.rows[i] \in Rows
      BY <1>1, <2>1
    <3>. QED BY <2>1, <3>1 DEF Rows
  <2>2. CASE j # i
    <3>1. h.rows[j] = f.rows[j]
      BY <1>1, <2>2
    <3>. QED BY <3>1
  <2>. QED BY <2>1, <2>2
<1>4. Moves(h, g)
  BY DEF h
<1>5. ASSUME NEW j \in Fighters PROVE RowStands(f.rows[j], g.rows[j])
  <2>1. RowStands(h.rows[j], g.rows[j])
    BY <1>4 DEF Moves
  <2>2. Standing(h.rows[j]) = Standing(f.rows[j])
    BY <1>3, Zenon DEF Standing
  <2>. QED BY <1>3, <2>1, <2>2 DEF RowStands
<1>6. ASSUME NEW j \in Fighters, NEW t \in Waiting(g, j)
      PROVE  (\E k \in Fighters : t \in Waiting(f, k)) \/ IsNew(f, t)
  <2>1. (\E k \in Fighters : t \in Waiting(h, k)) \/ IsNew(h, t)
    BY <1>4 DEF Moves
  <2>2. \A k \in Fighters : Waiting(h, k) = Waiting(f, k)
    BY <1>3 DEF Waiting
  <2>3. IsNew(h, t) <=> IsNew(f, t)
    BY <1>1, <1>2 DEF IsNew
  <2>. QED BY <2>1, <2>2, <2>3
<1>7. ASSUME NEW x \in DOMAIN f.exchanges, f.exchanges[x].phase # "press" PROVE Honours(f, g, x)
  <2>1. Honours(h, g, x)
    BY <1>1, <1>4, <1>7 DEF Moves
  <2>2. f.exchanges[x].actor \in Fighters
    BY SoundMeans DEF Exchanges
  <2>3. SpentOf(h.rows[f.exchanges[x].actor], f.exchanges[x].actor)
           = SpentOf(f.rows[f.exchanges[x].actor], f.exchanges[x].actor)
    BY <1>3, <2>2, Zenon DEF SpentOf
  <2>. QED BY <1>1, <2>1, <2>3, Zenon DEF Honours
<1>. QED BY <1>2, <1>4, <1>5, <1>6, <1>7 DEF Moves

-----------------------------------------------------------------------------
(***************************************************************************)
(* execute, commit and the journal.                                        *)
(***************************************************************************)
Kept(entries) ==
    /\ entries \in Seq(States)
    /\ \A k \in DOMAIN entries :
          Sound(entries[k]) /\ Calm(entries[k]) /\ entries[k].epoch <= fight.epoch

LEMMA KeptOnes ==
    ASSUME Inv
    PROVE  /\ Kept(journal) /\ Kept(Append(journal, fight))
           /\ \A k \in DOMAIN journal : Kept(Append(SubSeq(journal, 1, k - 1), fight))
<1>1. /\ Sound(fight) /\ Calm(fight) /\ Kept(journal) /\ fight \in States
  BY SoundMeans DEF Inv, Kept
<1>2. fight.epoch <= fight.epoch
  <2>1. fight.epoch \in Int
    BY <1>1, StateFields, Params
  <2>. QED BY <2>1
<1>3. ASSUME NEW s, Kept(s) PROVE Kept(Append(s, fight))
  <2>1. s \in Seq(States)
    BY <1>3 DEF Kept
  <2>2. /\ Append(s, fight) \in Seq(States)
        /\ DOMAIN Append(s, fight) = 1..(Len(s) + 1) /\ DOMAIN s = 1..Len(s) /\ Len(s) \in Nat
        /\ Append(s, fight)[Len(s) + 1] = fight
        /\ \A k \in 1..Len(s) : Append(s, fight)[k] = s[k]
    BY <1>1, <2>1
  <2>3. ASSUME NEW k \in DOMAIN Append(s, fight)
        PROVE  /\ Sound(Append(s, fight)[k]) /\ Calm(Append(s, fight)[k])
               /\ Append(s, fight)[k].epoch <= fight.epoch
    <3>1. CASE k = Len(s) + 1
      BY <1>1, <1>2, <2>2, <3>1
    <3>2. CASE k # Len(s) + 1
      <4>1. k \in DOMAIN s /\ Append(s, fight)[k] = s[k]
        BY <2>2, <3>2
      <4>. QED BY <1>3, <4>1 DEF Kept
    <3>. QED BY <3>1, <3>2
  <2>. QED BY <2>2, <2>3 DEF Kept
<1>4. ASSUME NEW k \in DOMAIN journal PROVE Kept(SubSeq(journal, 1, k - 1))
  <2>. DEFINE s == SubSeq(journal, 1, k - 1)
  <2>1. journal \in Seq(States) /\ DOMAIN journal = 1..Len(journal) /\ Len(journal) \in Nat
    BY <1>1 DEF Kept
  <2>2. k - 1 \in Nat /\ k - 1 <= Len(journal)
    BY <2>1
  <2>3. s \in Seq(States) /\ Len(s) = k - 1 /\ \A j \in 1..(k - 1) : s[j] = journal[j]
    BY <2>1, <2>2
  <2>4. DOMAIN s = 1..(k - 1)
    BY <2>3
  <2>. HIDE DEF s
  <2>5. \A j \in 1..(k - 1) : j \in DOMAIN journal
    BY <2>1, <2>2
  <2>6. Kept(s)
    BY <1>1, <2>3, <2>4, <2>5 DEF Kept
  <2>. QED BY <2>6 DEF s
<1>. QED BY <1>1, <1>3, <1>4

LEMMA JournalKept ==
    ASSUME NEW entries, Kept(entries), Journal(entries)
    PROVE  /\ journal' \in Seq(States) /\ Len(journal') <= Depth
           /\ \A k \in DOMAIN journal' :
                 Sound(journal'[k]) /\ Calm(journal'[k]) /\ journal'[k].epoch <= fight.epoch
<1>. DEFINE m == Most({1, Len(entries) - Depth + 1})
            s == SubSeq(entries, m, Len(entries))
<1>0. entries \in Seq(States) /\ Len(entries) \in Nat /\ Depth \in Nat \ {0}
      /\ DOMAIN entries = 1..Len(entries)
  BY Params DEF Kept
<1>1. CASE journal' = <<>>
  <2>1. <<>> \in Seq(States) /\ Len(<<>>) = 0 /\ DOMAIN <<>> = {}
    OBVIOUS
  <2>. QED BY <1>0, <1>1, <2>1
<1>2. CASE journal' = s
  <2>1. m = IF 1 >= Len(entries) - Depth + 1 THEN 1 ELSE Len(entries) - Depth + 1
    <3>1. Len(entries) - Depth + 1 \in Int
      BY <1>0
    <3>. QED BY <3>1, Floors
  <2>2. m \in Nat /\ m >= 1 /\ m <= Len(entries) + 1 /\ Len(entries) - m + 1 <= Depth
    BY <1>0, <2>1
  <2>. HIDE DEF m
  <2>3. CASE m > Len(entries)
    <3>1. s = <<>>
      BY <1>0, <2>2, <2>3
    <3>2. <<>> \in Seq(States) /\ Len(<<>>) = 0 /\ DOMAIN <<>> = {}
      OBVIOUS
    <3>. QED BY <1>0, <1>2, <3>1, <3>2
  <2>4. CASE m <= Len(entries)
    <3>1. \A k \in m..Len(entries) : k \in 1..Len(entries)
      BY <1>0, <2>2
    <3>2. /\ s \in Seq(States) /\ Len(s) = Len(entries) - m + 1
          /\ \A k \in 1..(Len(entries) - m + 1) : s[k] = entries[m + k - 1]
      BY <1>0, <2>2, <2>4, <3>1
    <3>3. DOMAIN s = 1..(Len(entries) - m + 1)
      BY <3>2
    <3>. HIDE DEF s
    <3>4. \A k \in DOMAIN s : m + k - 1 \in DOMAIN entries /\ s[k] = entries[m + k - 1]
      BY <1>0, <2>2, <2>4, <3>2, <3>3
    <3>5. Len(s) <= Depth
      BY <2>2, <3>2
    <3>. QED BY <1>2, <3>2, <3>4, <3>5 DEF Kept
  <2>. QED BY <1>0, <2>2, <2>3, <2>4
<1>. QED BY <1>1, <1>2 DEF Journal

LEMMA CommitKeeps ==
    ASSUME Inv, NEW f, Sound(f), Calm(f), fight.epoch <= f.epoch, NEW close \in {"open", "shelved"},
           Commit(f, close), NEW entries, Kept(entries), Journal(entries)
    PROVE  Inv' /\ fight' = f
<1>1. /\ fight' = f /\ status' = IF f.ended THEN "ended" ELSE close
      /\ marker' = Synchronized(f, status' = "open") /\ there' = there
  BY DEF Commit
<1>2. status' \in {"open", "shelved", "ended"}
  BY <1>1
<1>3. marker' \in [Fighters -> {"here", "there", None}]
  <2>1. marker \in [Fighters -> {"here", "there", None}]
    BY DEF Inv
  <2>2. marker' = [i \in Fighters |->
           IF status' = "open" /\ ~f.ended /\ f.rows[i].status = "active" THEN "here"
           ELSE IF marker[i] = "here" THEN None ELSE marker[i]]
    BY <1>1 DEF Synchronized
  <2>. QED BY <2>1, <2>2
<1>4. /\ journal' \in Seq(States) /\ Len(journal') <= Depth
      /\ \A k \in DOMAIN journal' :
            Sound(journal'[k]) /\ Calm(journal'[k]) /\ journal'[k].epoch <= fight.epoch
  BY JournalKept
<1>5. \A k \in DOMAIN journal' : journal'[k].epoch <= f.epoch
  <2>1. fight.epoch \in Int /\ f.epoch \in Int
    BY SoundMeans, StateFields, Params DEF Inv
  <2>2. \A k \in DOMAIN journal' : journal'[k].epoch \in Int
    BY <1>4, SoundMeans, StateFields, Params
  <2>. QED BY <1>4, <2>1, <2>2
<1>6. there' \subseteq Fighters
  BY <1>1 DEF Inv
<1>. QED BY <1>1, <1>2, <1>3, <1>4, <1>5, <1>6 DEF Inv

LEMMA ConcludedIs ==
    ASSUME NEW f, Sound(f)
    PROVE  SameTable(f, Concluded(f))
<1>. DEFINE standing == {i \in Fighters : f.rows[i].status = "active" /\ f.rows[i].hp > 0}
            over == /\ f.started /\ Idle(f) /\ standing # {}
                    /\ \A i \in standing : f.rows[i].turns >= TurnLimit
            b == f.ended \/ over
<1>1. f \in States /\ f.ended \in BOOLEAN
  BY SoundMeans, StateFields
<1>2. Concluded(f) = [f EXCEPT !.ended = b]
  <2>1. Concluded(f) = [f EXCEPT !.ended = @ \/ over]
    BY DEF Concluded
  <2>. HIDE DEF over
  <2>. QED BY <1>1, <2>1 DEF States
<1>3. b \in BOOLEAN
  OBVIOUS
<1>. HIDE DEF b
<1>. QED BY <1>1, <1>2, <1>3 DEF States, SameTable

\* Every operation but a rollback moves the fight on.
Advances == Inv' /\ (Moves(fight, fight') \/ fight.epoch < fight'.epoch)

LEMMA ExecutedKeeps ==
    ASSUME Inv, NEW h, Sound(h), Moves(fight, h), NEW luck, Executed(h, luck)
    PROVE  Advances
<1>. DEFINE s == Settled(h, luck)
            c == Concluded(s)
<1>1. Sound(s) /\ Calm(s) /\ Settles(h, s)
  BY SettledSound
<1>. HIDE DEF s
<1>2. SameTable(s, c)
  BY <1>1, ConcludedIs
<1>3. Commit(c, "open") /\ Journal(Append(journal, fight))
  BY DEF Executed, s
<1>. HIDE DEF c
<1>4. Sound(c) /\ Calm(c) /\ Settles(h, c)
  BY <1>1, <1>2, SameTableSound, SettlesTwice
<1>5. Sound(fight) /\ Kept(Append(journal, fight))
  BY KeptOnes DEF Inv
<1>6. Moves(fight, c)
  BY <1>4, <1>5, MovesSettle
<1>7. fight.epoch <= c.epoch
  <2>1. fight.epoch \in Int
    BY <1>5, SoundMeans, StateFields, Params
  <2>. QED BY <1>6, <2>1 DEF Moves
<1>8. Inv' /\ fight' = c
  BY <1>3, <1>4, <1>5, <1>7, CommitKeeps
<1>. QED BY <1>6, <1>8 DEF Advances

\* An operation by i, on the fight in which i has been seen.
LEMMA SeenSound ==
    ASSUME Inv, NEW i \in Fighters
    PROVE  /\ Sound(fight) /\ Sound(Seen(i)) /\ Seen(i) = Marked(fight, i, FALSE)
<1>1. Sound(fight)
  BY DEF Inv
<1>2. Seen(i) = Marked(fight, i, FALSE)
  BY DEF Seen, Marked
<1>. QED BY <1>1, <1>2, MarkedSound

LEMMA SeenDone ==
    ASSUME Inv, NEW i \in Fighters, NEW h, Sound(h), Moves(Seen(i), h), NEW luck, Executed(h, luck)
    PROVE  Advances
<1>1. Moves(fight, h)
  BY SeenSound, MovesSeen
<1>. QED BY <1>1, ExecutedKeeps

-----------------------------------------------------------------------------
(***************************************************************************)
(* Declaring.                                                              *)
(***************************************************************************)
LEMMA ExchangeIs ==
    ASSUME NEW x \in Ids, NEW i \in Fighters, NEW targets \in SUBSET Fighters,
           NEW burst \in BOOLEAN, NEW revival \in BOOLEAN, NEW n \in 1..MaxHit,
           NEW answers \in UNION {[S -> Kinds] : S \in SUBSET Fighters},
           NEW e, e = [id |-> x, actor |-> i, targets |-> targets, burst |-> burst,
                       revival |-> revival, hit |-> n, reactions |-> answers, canceled |-> {},
                       covered |-> FALSE, redirected |-> FALSE, resolved |-> FALSE,
                       phase |-> "waiting"]
    PROVE  e \in Exchanges
<1>. DEFINE A == UNION {[S -> Kinds] : S \in SUBSET Fighters}
<1>1. Exchanges =
        [id : Ids, actor : Fighters, targets : SUBSET Fighters, burst : BOOLEAN,
         revival : BOOLEAN, hit : 1..MaxHit, reactions : A, canceled : SUBSET Fighters,
         covered : BOOLEAN, redirected : BOOLEAN, resolved : BOOLEAN, phase : {"waiting", "press"}]
  BY DEF Exchanges
<1>. HIDE DEF A
<1>2. answers \in A
  BY DEF A
<1>. QED BY <1>1, <1>2

LEMMA DeclaredSound ==
    ASSUME NEW f, Sound(f), NEW i \in Fighters, NEW targets \in SUBSET Fighters,
           Clear(f.rows[i]), f.rows[i].turns < TurnLimit, targets # {},
           Cardinality(targets) <= f.rows[i].left, i \notin targets, f.next <= MaxExchange,
           NEW burst \in BOOLEAN, NEW revival \in BOOLEAN, burst => ~revival,
           burst \/ revival => Cardinality(targets) = 1,
           NEW e, e = NewExchange(f, i, targets, burst, revival)
    PROVE  /\ Sound(Declared(f, e)) /\ Moves(f, Declared(f, e))
           /\ e.id \in DOMAIN Declared(f, e).exchanges /\ Declared(f, e).exchanges[e.id] = e
           /\ \A j \in Fighters : /\ Declared(f, e).rows[j].status = f.rows[j].status
                                  /\ Declared(f, e).rows[j].exposure = f.rows[j].exposure
<1>. DEFINE x == <<f.epoch, f.next>>
            g == Declared(f, e)
            row(j) == IF j = i THEN [f.rows[j] EXCEPT !.outgoing = x]
                      ELSE IF j \in targets
                      THEN [f.rows[j] EXCEPT !.incoming = Append(f.rows[j].incoming, Token(e))]
                      ELSE f.rows[j]
            rows == [j \in Fighters |-> row(j)]
            book == Entered(f.exchanges, x, e)
<1>1. /\ f \in States /\ f.rows \in [Fighters -> Rows] /\ DOMAIN f.exchanges \subseteq Ids
      /\ f.exchanges \in [DOMAIN f.exchanges -> Exchanges]
      /\ f.epoch \in 1..MaxEpoch /\ f.next \in 1..(MaxExchange + 1)
      /\ MaxEpoch \in Nat /\ MaxExchange \in Nat /\ None \notin Ids
  BY SoundMeans, StateFields, Params
<1>2. x \in Ids /\ x \notin DOMAIN f.exchanges /\ x[1] = f.epoch /\ x[2] = f.next /\ x # None
  <2>1. x \in Ids
    BY <1>1 DEF Ids
  <2>2. ASSUME x \in DOMAIN f.exchanges PROVE FALSE
    <3>1. x[2] < f.next
      BY <2>2, SoundMeans DEF Tied
    <3>. QED BY <1>1, <3>1
  <2>. QED BY <1>1, <2>1, <2>2
<1>3. /\ e.id = x /\ e.actor = i /\ e.targets = targets /\ e.burst = burst /\ e.revival = revival
      /\ e.hit = 1 /\ e.reactions = <<>> /\ e.canceled = {} /\ e.resolved = FALSE
      /\ e.phase = "waiting" /\ e.covered = FALSE /\ e.redirected = FALSE
  BY DEF NewExchange
<1>4. e \in Exchanges
  <2>1. <<>> \in [{} -> Kinds]
    OBVIOUS
  <2>2. <<>> \in UNION {[S -> Kinds] : S \in SUBSET Fighters}
    BY <2>1
  <2>3. 1 \in 1..MaxHit
    BY Params
  <2>. HIDE DEF x
  <2>4. e = [id |-> x, actor |-> i, targets |-> targets, burst |-> burst,
             revival |-> revival, hit |-> 1, reactions |-> <<>>, canceled |-> {},
             covered |-> FALSE, redirected |-> FALSE, resolved |-> FALSE, phase |-> "waiting"]
    BY DEF NewExchange, x
  <2>. QED BY <1>2, <2>2, <2>3, <2>4, ExchangeIs
<1>. HIDE DEF x
<1>5. Owing(e) = targets /\ DOMAIN e.reactions = {}
  BY <1>3 DEF Owing
<1>6. BookSound(e)
  BY <1>3, <1>5 DEF BookSound
<1>7. Token(e) \in Tokens /\ Token(e).id = x /\ Token(e).hit = 1
      /\ \A t \in Tokens : t.id = x /\ t.hit = 1 => t = Token(e)
  BY <1>3, <1>4, TokenIs
<1>8. /\ DOMAIN book = DOMAIN f.exchanges \cup {x} /\ book[x] = e
      /\ \A y \in DOMAIN f.exchanges : book[y] = f.exchanges[y]
      /\ book \in Books
  <2>1. DOMAIN book = DOMAIN f.exchanges \cup {x} /\ book[x] = e
    BY DEF Entered
  <2>2. \A y \in DOMAIN f.exchanges : book[y] = f.exchanges[y]
    BY <1>2 DEF Entered
  <2>3. book \in [DOMAIN f.exchanges \cup {x} -> Exchanges]
    BY <1>1, <1>4 DEF Entered
  <2>4. DOMAIN f.exchanges \cup {x} \in SUBSET Ids
    BY <1>1, <1>2
  <2>5. book \in Books
    BY <2>3, <2>4, BookIs
  <2>. QED BY <2>1, <2>2, <2>5
<1>9. ASSUME NEW j \in Fighters
      PROVE  \A t \in Waiting(f, j) : t.id # x /\ t \in Tokens
  <2>1. ASSUME NEW t \in Waiting(f, j) PROVE t.id # x /\ t \in Tokens
    <3>1. t \in Tokens
      <4>1. f.rows[j].incoming \in Seq(Tokens)
        BY <1>1, RowFields
      <4>. QED BY <4>1 DEF Waiting, ToSet
    <3>2. Awaits(f, j, t)
      BY <3>1, SoundMeans DEF QueueSound
    <3>. QED BY <1>2, <3>1, <3>2 DEF Awaits
  <2>. QED BY <2>1
<1>10. ASSUME NEW j \in Fighters
       PROVE  /\ row(j) \in Rows /\ IsInjective(row(j).incoming)
              /\ row(j).outgoing = IF j = i THEN x ELSE f.rows[j].outgoing
              /\ ToSet(row(j).incoming) =
                    IF j \in targets THEN Waiting(f, j) \cup {Token(e)} ELSE Waiting(f, j)
              /\ row(j).left = f.rows[j].left /\ row(j).turns = f.rows[j].turns
              /\ row(j).status = f.rows[j].status /\ row(j).fadedHp = f.rows[j].fadedHp
              /\ row(j).exposure = f.rows[j].exposure
  <2>. DEFINE r == f.rows[j]
              s == Append(r.incoming, Token(e))
  <2>1. r \in Rows /\ r.incoming \in Seq(Tokens) /\ IsInjective(r.incoming)
    <3>1. r \in Rows /\ RowSound(r, j)
      BY <1>1, SoundMeans
    <3>. QED BY <3>1, RowFields DEF RowSound
  <2>2. s \in Seq(Tokens) /\ IsInjective(s) /\ ToSet(s) = ToSet(r.incoming) \cup {Token(e)}
    <3>1. Token(e) \notin ToSet(r.incoming)
      BY <1>7, <1>9 DEF Waiting
    <3>. QED BY <1>7, <2>1, <3>1, Queues
  <2>3. Waiting(f, j) = ToSet(r.incoming)
    BY DEF Waiting
  <2>4. CASE j = i
    <3>1. row(j) = [r EXCEPT !.outgoing = x] /\ j \notin targets
      BY <2>4
    <3>2. f.rows[j].outgoing = r.outgoing /\ f.rows[j].left = r.left /\ f.rows[j].turns = r.turns
          /\ f.rows[j].status = r.status /\ f.rows[j].fadedHp = r.fadedHp
          /\ f.rows[j].exposure = r.exposure
      OBVIOUS
    <3>. HIDE DEF r, row, s
    <3>3. /\ row(j) \in Rows /\ row(j).incoming = r.incoming
          /\ row(j).outgoing = x /\ row(j).left = r.left /\ row(j).turns = r.turns
          /\ row(j).status = r.status /\ row(j).fadedHp = r.fadedHp
          /\ row(j).exposure = r.exposure
      BY <1>2, <2>1, <3>1 DEF Rows
    <3>. QED BY <2>1, <2>3, <2>4, <3>1, <3>2, <3>3
  <2>5. CASE j # i /\ j \in targets
    <3>1. row(j) = [r EXCEPT !.incoming = s]
      BY <2>5
    <3>2. f.rows[j].outgoing = r.outgoing /\ f.rows[j].left = r.left /\ f.rows[j].turns = r.turns
          /\ f.rows[j].status = r.status /\ f.rows[j].fadedHp = r.fadedHp
          /\ f.rows[j].exposure = r.exposure
      OBVIOUS
    <3>. HIDE DEF r, row, s
    <3>. QED BY <2>1, <2>2, <2>3, <2>5, <3>1, <3>2 DEF Rows
  <2>6. CASE j # i /\ j \notin targets
    <3>1. row(j) = r
      BY <2>6
    <3>. QED BY <2>1, <2>3, <2>6, <3>1
  <2>. QED BY <2>4, <2>5, <2>6
<1>11. rows \in [Fighters -> Rows] /\ \A j \in Fighters : rows[j] = row(j)
  <2>. HIDE DEF row
  <2>. QED BY <1>10
<1>12. g = [f EXCEPT !.exchanges = book, !.next = f.next + 1, !.started = TRUE, !.rows = rows]
  <2>1. g = [f EXCEPT !.exchanges = Entered(@, x, e), !.next = @ + 1, !.started = TRUE,
              !.rows = [j \in Fighters |->
                          IF j = i THEN [f.rows[j] EXCEPT !.outgoing = x]
                          ELSE IF j \in targets
                          THEN [f.rows[j] EXCEPT !.incoming = Append(@, Token(e))]
                          ELSE f.rows[j]]]
    BY <1>3, Zenon DEF Declared
  <2>. QED BY <2>1, Zenon
<1>. HIDE DEF rows, book, g
<1>13. /\ g \in States /\ g.rows = rows /\ g.exchanges = book /\ g.epoch = f.epoch
       /\ g.next = f.next + 1
  <2>1. f.next + 1 \in 1..(MaxExchange + 1)
    BY <1>1
  <2>. QED BY <1>1, <1>8, <1>11, <1>12, <2>1 DEF States
<1>. HIDE DEF row
<1>14. Beside(f, g, x)
  BY <1>1, <1>8, <1>13 DEF Beside
<1>15. ASSUME NEW j \in Fighters PROVE RowBeside(f, g, x, j)
  <2>1. g.rows[j] = row(j) /\ RowSound(f.rows[j], j) /\ f.rows[j] \in Rows
    BY <1>1, <1>11, <1>13, SoundMeans
  <2>2. f.rows[j].left <= g.rows[j].left
    <3>1. f.rows[j].left \in Int
      BY <2>1, RowFields
    <3>2. g.rows[j].left = f.rows[j].left
      BY <1>10, <2>1, Zenon
    <3>. QED BY <3>1, <3>2
  <2>3. RowSound(g.rows[j], j)
    <3>1. g.rows[j].outgoing # None => g.rows[j].turns < TurnLimit
      BY <1>10, <2>1 DEF RowSound
    <3>. QED BY <1>10, <2>1, <3>1 DEF RowSound
  <2>4. /\ \/ g.rows[j].outgoing = f.rows[j].outgoing
           \/ {g.rows[j].outgoing, f.rows[j].outgoing} \subseteq {x, None}
        /\ g.rows[j].outgoing = x => x = None \/ (x \in DOMAIN g.exchanges /\ g.exchanges[x].actor = j)
    <3>1. CASE j = i
      <4>1. f.rows[j].outgoing = None /\ g.rows[j].outgoing = x
        BY <1>10, <2>1, <3>1 DEF Clear
      <4>. QED BY <1>3, <1>8, <1>13, <3>1, <4>1
    <3>2. CASE j # i
      <4>1. g.rows[j].outgoing = f.rows[j].outgoing
        BY <1>10, <2>1, <3>2
      <4>2. f.rows[j].outgoing # x
        BY <1>2, SoundMeans DEF QueueSound
      <4>. QED BY <4>1, <4>2
    <3>. QED BY <3>1, <3>2
  <2>5. Waiting(g, j) = IF j \in targets THEN Waiting(f, j) \cup {Token(e)} ELSE Waiting(f, j)
    BY <1>10, <2>1, Zenon DEF Waiting
  <2>6. ASSUME NEW t \in Tokens, t.id = x PROVE t \in Waiting(g, j) <=> Awaits(g, j, t)
    <3>1. t \in Waiting(g, j) <=> j \in targets /\ t = Token(e)
      BY <1>9, <2>5, <2>6
    <3>2. Awaits(g, j, t) <=> t.hit = 1 /\ j \in targets
      BY <1>3, <1>8, <1>13, <2>6 DEF Awaits
    <3>. QED BY <1>7, <2>6, <3>1, <3>2
  <2>7. ASSUME NEW t \in Tokens, t.id # x PROVE t \in Waiting(g, j) <=> t \in Waiting(f, j)
    BY <1>7, <2>5, <2>7
  <2>. QED BY <2>2, <2>3, <2>4, <2>6, <2>7 DEF RowBeside
<1>16. Tied(g, x)
  <2>1. g.rows[i].outgoing = x /\ g.rows[i].left = f.rows[i].left
    BY <1>10, <1>11, <1>13
  <2>2. x[2] < g.next
    BY <1>1, <1>2, <1>13
  <2>. QED BY <1>2, <1>3, <1>8, <1>13, <2>1, <2>2 DEF Tied
<1>17. Sound(g)
  <2>1. BookSound(g.exchanges[x])
    BY <1>6, <1>8, <1>13
  <2>. QED BY <1>13, <1>14, <1>15, <1>16, <2>1, Reshape
<1>18. ASSUME NEW j \in Fighters
       PROVE  /\ g.rows[j].status = f.rows[j].status /\ g.rows[j].exposure = f.rows[j].exposure
              /\ SpentOf(g.rows[j], j) = SpentOf(f.rows[j], j)
  <2>1. g.rows[j] = row(j)
    BY <1>11, <1>13
  <2>. QED BY <1>10, <2>1, Zenon DEF SpentOf
<1>19. ASSUME NEW j \in Fighters, NEW t \in Waiting(g, j)
       PROVE  (\E k \in Fighters : t \in Waiting(f, k)) \/ IsNew(f, t)
  <2>1. t \in Waiting(f, j) \/ t = Token(e)
    <3>1. g.rows[j] = row(j)
      BY <1>11, <1>13
    <3>2. Waiting(g, j) = IF j \in targets THEN Waiting(f, j) \cup {Token(e)} ELSE Waiting(f, j)
      BY <1>10, <3>1, Zenon DEF Waiting
    <3>. QED BY <3>2
  <2>2. t = Token(e) => IsNew(f, t)
    BY <1>1, <1>2, <1>7 DEF IsNew
  <2>. QED BY <2>1, <2>2
<1>20. ASSUME NEW y \in DOMAIN f.exchanges PROVE Honours(f, g, y)
  <2>1. y \in DOMAIN g.exchanges /\ g.exchanges[y] = f.exchanges[y]
    BY <1>8, <1>13
  <2>2. f.exchanges[y].actor \in Fighters
    BY SoundMeans DEF Exchanges
  <2>3. SpentOf(f.rows[f.exchanges[y].actor], f.exchanges[y].actor) \in Int
    BY <1>1, <2>2, SpentType
  <2>4. SpentOf(g.rows[f.exchanges[y].actor], f.exchanges[y].actor)
           >= SpentOf(f.rows[f.exchanges[y].actor], f.exchanges[y].actor)
    BY <1>18, <2>2, <2>3
  <2>. QED BY <2>1, <2>4, HonoursOthers
<1>21. Moves(f, g)
  <2>1. f.next <= g.next
    BY <1>1, <1>13
  <2>. QED BY <1>13, <1>18, <1>19, <1>20, <2>1 DEF Moves, RowStands
<1>. QED BY <1>3, <1>8, <1>13, <1>17, <1>18, <1>21 DEF g

LEMMA DoneKeeps ==
    ASSUME Inv, NEW i \in Fighters, NEW h, Sound(h), Moves(Seen(i), h), Done(h)
    PROVE  Advances
BY SeenDone, Zenon DEF Done

LEMMA AttackKeeps ==
    ASSUME Inv, NEW i \in Fighters, NEW targets \in SUBSET Fighters, NEW burst \in BOOLEAN,
           Attack(i, targets, burst)
    PROVE  Advances
<1>. DEFINE f == Seen(i)
            e == NewExchange(f, i, targets, burst, FALSE)
<1>1. MayDeclare(f, i, targets) /\ (burst => Cardinality(targets) = 1) /\ Done(Declared(f, e))
  BY Zenon DEF Attack
<1>2. Sound(f)
  BY SeenSound
<1>. HIDE DEF f
<1>3. /\ Clear(f.rows[i]) /\ f.rows[i].turns < TurnLimit /\ targets # {}
      /\ Cardinality(targets) <= f.rows[i].left /\ i \notin targets /\ f.next <= MaxExchange
  BY <1>1, Zenon DEF MayDeclare
<1>4. Sound(Declared(f, e)) /\ Moves(f, Declared(f, e))
  <2>. HIDE DEF e
  <2>1. e = NewExchange(f, i, targets, burst, FALSE)
    BY DEF e
  <2>. QED BY <1>1, <1>2, <1>3, <2>1, DeclaredSound
<1>. HIDE DEF e
<1>. QED BY <1>1, <1>4, DoneKeeps DEF f

\* One row changes, but neither its packets nor what it has declared.
LEMMA OneRow ==
    ASSUME NEW f, Sound(f), NEW i \in Fighters, NEW q, RowTouched(f.rows[i], q, i),
           RowStands(f.rows[i], q), NEW g \in States, g.rows = [f.rows EXCEPT ![i] = q],
           g.exchanges = f.exchanges, g.epoch = f.epoch, f.next <= g.next
    PROVE  Sound(g) /\ Moves(f, g)
<1>1. f.rows \in [Fighters -> Rows] /\ \A j \in Fighters : RowSound(f.rows[j], j)
  BY SoundMeans
<1>2. ASSUME NEW j \in Fighters
      PROVE  RowTouched(f.rows[j], g.rows[j], j) /\ RowStands(f.rows[j], g.rows[j])
  <2>1. CASE j = i
    <3>1. g.rows[j] = q
      BY <1>1, <2>1
    <3>. QED BY <2>1, <3>1
  <2>2. CASE j # i
    <3>1. g.rows[j] = f.rows[j] /\ f.rows[j] \in Rows
      BY <1>1, <2>2
    <3>2. Fades(f.rows[j], f.rows[j], j)
      BY FadesSelf
    <3>. QED BY <3>1, <3>2 DEF Fades, RowStands
  <2>. QED BY <2>1, <2>2
<1>3. Touched(f, g)
  BY <1>2 DEF Touched
<1>. QED BY <1>2, <1>3, TouchedMoves

\* A row that spends actions, and has nothing else open.
LEMMA EndingTouches ==
    ASSUME NEW f, Sound(f), NEW i \in Fighters, f.rows[i].outgoing = None,
           f.rows[i].turns < TurnLimit, NEW n \in Nat, NEW loss \in Nat
    PROVE  /\ RowTouched(f.rows[i], Ending(i, f.rows[i], n, loss), i)
           /\ Ending(i, f.rows[i], n, loss).status = f.rows[i].status
           /\ Ending(i, f.rows[i], n, loss).exposure = f.rows[i].exposure
<1>. DEFINE r == f.rows[i]
            q == Ending(i, r, n, loss)
<1>1. r \in Rows /\ RowSound(r, i) /\ r.outgoing = None /\ r.turns < TurnLimit
  BY SoundMeans
<1>. HIDE DEF r
<1>2. Spends(r, q, i, n)
  BY <1>1, EndingMeans DEF RowSound
<1>. HIDE DEF q
<1>3. RowSound(q, i)
  BY <1>1, <1>2 DEF RowSound, Spends, Worn
<1>4. RowTouched(r, q, i) /\ q.status = r.status /\ q.exposure = r.exposure
  BY <1>1, <1>2, <1>3 DEF RowTouched, Spends, Worn
<1>. QED BY <1>4 DEF q, r

LEMMA SupportKeeps ==
    ASSUME Inv, NEW i \in Fighters, NEW targets \in SUBSET Fighters, NEW healed \in SUBSET targets,
           Support(i, targets, healed)
    PROVE  Advances
<1>0. PICK loss \in Losses(i) :
          Done([Seen(i) EXCEPT !.next = @ + 1, !.started = TRUE,
                               !.rows = [j \in Fighters |->
                                   IF j = i THEN Ending(i, @[i], Cardinality(targets), loss)
                                   ELSE IF j \in healed THEN Healed(Seen(i).rows[j], Damage)
                                   ELSE Seen(i).rows[j]]])
  BY Zenon DEF Support
<1>. DEFINE f == Seen(i)
            n == Cardinality(targets)
            row(j) == IF j = i THEN Ending(i, f.rows[i], n, loss)
                      ELSE IF j \in healed THEN Healed(f.rows[j], Damage) ELSE f.rows[j]
            rows == [j \in Fighters |-> row(j)]
            g == [f EXCEPT !.next = @ + 1, !.started = TRUE, !.rows = rows]
<1>1. MayDeclare(f, i, targets) /\ Done(g)
  BY <1>0, Zenon DEF Support
<1>2. Sound(f)
  BY SeenSound
<1>3. n \in Nat /\ loss \in Nat
  BY FightersFinite, LossIs
<1>. HIDE DEF f, n
<1>4. /\ Clear(f.rows[i]) /\ f.rows[i].turns < TurnLimit /\ f.next <= MaxExchange
  BY <1>1, Zenon DEF MayDeclare
<1>5. /\ f \in States /\ f.rows \in [Fighters -> Rows] /\ \A j \in Fighters : RowSound(f.rows[j], j)
      /\ f.next \in 1..(MaxExchange + 1) /\ MaxExchange \in Nat
  BY <1>2, SoundMeans, StateFields, Params
<1>6. ASSUME NEW j \in Fighters
      PROVE  /\ RowTouched(f.rows[j], row(j), j)
             /\ row(j).status = f.rows[j].status /\ row(j).exposure = f.rows[j].exposure
  <2>1. CASE j = i
    <3>1. row(j) = Ending(j, f.rows[j], n, loss)
      BY <2>1
    <3>2. f.rows[j].outgoing = None
      BY <1>4, <2>1 DEF Clear
    <3>. HIDE DEF row
    <3>. QED BY <1>2, <1>3, <1>4, <2>1, <3>1, <3>2, EndingTouches
  <2>2. CASE j # i /\ j \in healed
    <3>. DEFINE r == f.rows[j]
                q == Healed(r, Damage)
    <3>1. row(j) = q
      BY <2>2
    <3>2. r \in Rows /\ RowSound(r, j)
      BY <1>5
    <3>. HIDE DEF r
    <3>3. /\ q \in Rows /\ Steady(r, q) /\ q.incoming = r.incoming /\ q.status = r.status
          /\ q.fadedHp = r.fadedHp /\ q.exposure = r.exposure
      BY <3>2, HealedMeans
    <3>. HIDE DEF q
    <3>4. RowSound(q, j)
      BY <3>2, <3>3 DEF RowSound, Steady
    <3>5. SpentOf(q, j) = SpentOf(r, j) /\ SpentOf(r, j) \in Int /\ r.left \in Int
      <4>1. SpentOf(q, j) = SpentOf(r, j)
        BY <3>3, Zenon DEF SpentOf, Steady
      <4>. QED BY <3>2, <4>1, SpentType, RowFields
    <3>6. RowTouched(r, q, j)
      BY <3>3, <3>4, <3>5 DEF RowTouched, Steady
    <3>. HIDE DEF row
    <3>. QED BY <3>1, <3>3, <3>6 DEF r
  <2>3. CASE j # i /\ j \notin healed
    <3>1. row(j) = f.rows[j]
      BY <2>3
    <3>2. Fades(f.rows[j], f.rows[j], j)
      BY <1>2, FadesSelf
    <3>. HIDE DEF row
    <3>. QED BY <3>1, <3>2 DEF Fades
  <2>. QED BY <2>1, <2>2, <2>3
<1>. HIDE DEF row
<1>7. rows \in [Fighters -> Rows] /\ \A j \in Fighters : rows[j] = row(j)
  BY <1>6 DEF RowTouched
<1>. HIDE DEF rows
<1>8. /\ g \in States /\ g.rows = rows /\ g.exchanges = f.exchanges /\ g.epoch = f.epoch
      /\ g.next = f.next + 1
  <2>1. f.next + 1 \in 1..(MaxExchange + 1)
    BY <1>4, <1>5
  <2>. QED BY <1>5, <1>7, <2>1 DEF States
<1>. HIDE DEF g
<1>9. Touched(f, g) /\ \A j \in Fighters : RowStands(f.rows[j], g.rows[j])
  <2>1. f.next <= g.next
    BY <1>5, <1>8
  <2>. QED BY <1>6, <1>7, <1>8, <2>1 DEF Touched, RowStands
<1>10. Sound(g) /\ Moves(f, g)
  BY <1>2, <1>9, TouchedMoves
<1>. QED BY <1>1, <1>10, DoneKeeps DEF f

-----------------------------------------------------------------------------
(***************************************************************************)
(* Reviving: the Heal restores, then the exchange ends.                    *)
(***************************************************************************)
SamePlace(f, g) ==
    \A i \in Fighters : /\ g.rows[i].status = f.rows[i].status
                        /\ g.rows[i].exposure = f.rows[i].exposure

LEMMA MovesOn ==
    ASSUME NEW f, Sound(f), NEW g, Sound(g), NEW h, Moves(f, g), SamePlace(f, g),
           Touched(g, h), SamePlace(g, h)
    PROVE  Sound(h) /\ Moves(f, h)
<1>1. Sound(h) /\ Carries(g, h) /\ \A i \in Fighters : Waiting(h, i) = Waiting(g, i)
  BY TouchedSound
<1>2. f.next \in Int /\ g.next \in Int /\ h.next \in Int
  BY <1>1, SoundMeans, StateFields
<1>3. f.next <= h.next /\ h.epoch = f.epoch
  BY <1>2 DEF Moves, Touched
<1>4. \A i \in Fighters : RowStands(f.rows[i], h.rows[i])
  BY DEF SamePlace, RowStands
<1>5. \A x \in DOMAIN f.exchanges : f.exchanges[x].phase = "press" \/ Honours(f, h, x)
  BY <1>1, HonoursTwice DEF Moves
<1>. QED BY <1>1, <1>3, <1>4, <1>5 DEF Moves

LEMMA RevivedSound ==
    ASSUME NEW f0, Sound(f0), NEW f, Sound(f), Moves(f0, f), SamePlace(f0, f),
           NEW x \in DOMAIN f.exchanges, NEW e, e = f.exchanges[x], e.revival,
           e.phase = "waiting", NEW restores \in BOOLEAN, NEW waives \in BOOLEAN,
           NEW loss \in Nat
    PROVE  /\ Sound(Revived(f, e, restores, waives, loss))
           /\ Moves(f0, Revived(f, e, restores, waives, loss))
<1>. DEFINE j == CHOOSE t \in e.targets : TRUE
            r == f.rows[j]
            less == Removed(r.incoming, Token(e))
            s == [r EXCEPT !.incoming = less]
            p == IF restores
                 THEN [Healed(r, Damage) EXCEPT !.downed = FALSE, !.recovering = ~waives] ELSE r
            q == IF restores
                 THEN [Healed(s, Damage) EXCEPT !.downed = FALSE, !.recovering = ~waives] ELSE s
            f1 == [f EXCEPT !.rows[j] = p]
            k == [f EXCEPT !.rows[j] = q]
<1>1. /\ f \in States /\ f.rows \in [Fighters -> Rows] /\ e \in Exchanges /\ BookSound(e) /\ Tied(f, x)
      /\ x \in Ids /\ e.id = x /\ e.actor \in Fighters /\ e.targets \in SUBSET Fighters
  <2>1. e \in Exchanges /\ Tied(f, x)
    BY SoundMeans
  <2>2. e.actor \in Fighters /\ e.targets \in SUBSET Fighters
    BY <2>1 DEF Exchanges
  <2>. QED BY <2>1, <2>2, SoundMeans DEF Tied
<1>2. /\ j \in e.targets /\ e.targets = {j} /\ j \in Fighters /\ j # e.actor /\ ~e.burst
      /\ DOMAIN e.reactions = {} /\ ~e.resolved
  <2>1. e.targets # {} /\ Cardinality(e.targets) = 1 /\ e.actor \notin e.targets /\ ~e.burst
        /\ DOMAIN e.reactions = {} /\ ~e.resolved
    BY <1>1 DEF BookSound
  <2>2. j \in e.targets
    BY <2>1
  <2>. HIDE DEF j
  <2>. QED BY <1>1, <2>1, <2>2, OfOne
<1>. HIDE DEF j
<1>3. r \in Rows /\ RowSound(r, j) /\ IsInjective(r.incoming)
  <2>1. RowSound(r, j)
    BY <1>2, SoundMeans
  <2>. QED BY <1>1, <1>2, <2>1 DEF RowSound
<1>4. Revived(f, e, restores, waives, loss) = Finished(k, e, loss)
  <2>. DEFINE g == [f EXCEPT !.rows[j].incoming = Removed(@, Token(e))]
  <2>1. g = [f EXCEPT !.rows[j] = s]
    BY <1>1, <1>2 DEF States
  <2>2. Revived(f, e, restores, waives, loss) =
          Finished(IF restores
                   THEN [g EXCEPT !.rows[j] = [Healed(@, Damage) EXCEPT
                                                 !.downed = FALSE, !.recovering = ~waives]]
                   ELSE g, e, loss)
    BY Zenon DEF Revived, j
  <2>. DEFINE b == [g EXCEPT !.rows[j] = [Healed(g.rows[j], Damage) EXCEPT
                                            !.downed = FALSE, !.recovering = ~waives]]
  <2>3. Revived(f, e, restores, waives, loss) = Finished(IF restores THEN b ELSE g, e, loss)
    BY <2>2, Zenon
  <2>. HIDE DEF g, r, s
  <2>4. g.rows[j] = s /\ \A v : [g EXCEPT !.rows[j] = v] = [f EXCEPT !.rows[j] = v]
    BY <1>1, <1>2, <2>1 DEF States
  <2>5. (IF restores THEN b ELSE g) = k
    <3>1. CASE restores
      <4>1. q = [Healed(s, Damage) EXCEPT !.downed = FALSE, !.recovering = ~waives]
        BY <3>1
      <4>2. b = [g EXCEPT !.rows[j] = q]
        BY <2>4, <4>1, Zenon
      <4>. HIDE DEF b, q
      <4>3. b = [f EXCEPT !.rows[j] = q]
        BY <2>4, <4>2, Zenon
      <4>. QED BY <3>1, <4>3, Zenon
    <3>2. CASE ~restores
      <4>1. q = s
        BY <3>2
      <4>. HIDE DEF q
      <4>. QED BY <2>1, <3>2, <4>1
    <3>. QED BY <3>1, <3>2
  <2>. QED BY <2>3, <2>5, Zenon
<1>5. /\ s \in Rows /\ s.incoming = less /\ IsInjective(less)
      /\ ToSet(less) = ToSet(r.incoming) \ {Token(e)}
      /\ s.hp = r.hp /\ s.status = r.status /\ s.fadedHp = r.fadedHp /\ s.exposure = r.exposure
      /\ s.turns = r.turns /\ s.left = r.left /\ s.outgoing = r.outgoing
  <2>. DEFINE T == Token(e)
  <2>. HIDE DEF r, T
  <2>1. r.incoming \in Seq(Tokens)
    BY <1>3, RowFields
  <2>2. /\ Removed(r.incoming, T) \in Seq(Tokens) /\ IsInjective(Removed(r.incoming, T))
        /\ ToSet(Removed(r.incoming, T)) = ToSet(r.incoming) \ {T}
    BY <1>3, <2>1, Dropped
  <2>3. less = Removed(r.incoming, T)
    BY DEF T
  <2>. HIDE DEF less
  <2>4. less \in Seq(Tokens) /\ IsInjective(less) /\ ToSet(less) = ToSet(r.incoming) \ {T}
    BY <2>2, <2>3
  <2>5. s = [r EXCEPT !.incoming = less]
    OBVIOUS
  <2>. HIDE DEF s
  <2>6. s \in Rows /\ s.incoming = less
      /\ s.hp = r.hp /\ s.status = r.status /\ s.fadedHp = r.fadedHp /\ s.exposure = r.exposure
      /\ s.turns = r.turns /\ s.left = r.left /\ s.outgoing = r.outgoing
    BY <1>3, <2>4, <2>5 DEF Rows
  <2>. QED BY <2>4, <2>6 DEF T
<1>. HIDE DEF less, s, r
<1>6. /\ p \in Rows /\ q \in Rows /\ Steady(r, p) /\ Steady(p, q) /\ q.hp = p.hp
      /\ p.incoming = r.incoming /\ q.incoming = s.incoming
      /\ p.status = r.status /\ p.fadedHp = r.fadedHp /\ p.exposure = r.exposure
      /\ q.status = r.status /\ q.fadedHp = r.fadedHp /\ q.exposure = r.exposure
  <2>1. CASE restores
    <3>. DEFINE hr == Healed(r, Damage)
                hs == Healed(s, Damage)
    <3>1. /\ hr \in Rows /\ Steady(r, hr) /\ hr.incoming = r.incoming
          /\ hr.status = r.status /\ hr.fadedHp = r.fadedHp /\ hr.exposure = r.exposure
          /\ hs \in Rows /\ Steady(s, hs) /\ hs.incoming = s.incoming
          /\ hs.status = s.status /\ hs.fadedHp = s.fadedHp /\ hs.exposure = s.exposure
      BY <1>3, <1>5, HealedMeans
    <3>2. hs.hp = hr.hp
      <4>1. hr = [r EXCEPT !.hp = Least({MaxHp, r.hp + Damage})]
        BY Zenon DEF Healed
      <4>2. hs = [s EXCEPT !.hp = Least({MaxHp, s.hp + Damage})]
        BY Zenon DEF Healed
      <4>. HIDE DEF hr, hs
      <4>. DEFINE m == Least({MaxHp, r.hp + Damage})
      <4>3. hr = [r EXCEPT !.hp = m] /\ hs = [s EXCEPT !.hp = m]
        BY <1>5, <4>1, <4>2
      <4>. HIDE DEF m
      <4>. QED BY <1>3, <1>5, <4>3 DEF Rows
    <3>. HIDE DEF hr, hs
    <3>3. /\ p = [hr EXCEPT !.downed = FALSE, !.recovering = ~waives]
          /\ q = [hs EXCEPT !.downed = FALSE, !.recovering = ~waives]
      BY <2>1 DEF hr, hs
    <3>. HIDE DEF p, q
    <3>4. /\ p \in Rows /\ Steady(hr, p) /\ p.hp = hr.hp /\ p.incoming = hr.incoming
          /\ p.status = hr.status /\ p.fadedHp = hr.fadedHp /\ p.exposure = hr.exposure
      BY <3>1, <3>3 DEF Rows, Steady
    <3>5. /\ q \in Rows /\ Steady(hs, q) /\ q.hp = hs.hp /\ q.incoming = hs.incoming
          /\ q.status = hs.status /\ q.fadedHp = hs.fadedHp /\ q.exposure = hs.exposure
      BY <3>1, <3>3 DEF Rows, Steady
    <3>. QED BY <1>5, <3>1, <3>2, <3>4, <3>5 DEF Steady
  <2>2. CASE ~restores
    <3>1. p = r /\ q = s
      BY <2>2
    <3>. HIDE DEF p, q
    <3>. QED BY <1>3, <1>5, <3>1 DEF Steady
  <2>. QED BY <2>1, <2>2
<1>. HIDE DEF p, q
<1>7. /\ f1 \in States /\ f1.rows = [f.rows EXCEPT ![j] = p] /\ f1.exchanges = f.exchanges
      /\ SameClock(f, f1)
      /\ k \in States /\ k.rows = [f.rows EXCEPT ![j] = q] /\ k.exchanges = f.exchanges
      /\ SameClock(f, k)
  BY <1>1, <1>2, <1>6, SetRow
<1>. HIDE DEF f1, k
<1>8. /\ f1.rows[j] = p /\ k.rows[j] = q
      /\ \A i \in Fighters \ {j} : f1.rows[i] = f.rows[i] /\ k.rows[i] = f.rows[i]
  BY <1>1, <1>2, <1>7
<1>9. Touched(f, f1) /\ SamePlace(f, f1)
  <2>1. ASSUME NEW i \in Fighters
        PROVE  /\ RowTouched(f.rows[i], f1.rows[i], i) /\ f1.rows[i].status = f.rows[i].status
               /\ f1.rows[i].exposure = f.rows[i].exposure
    <3>1. CASE i = j
      <4>1. RowSound(p, j)
        BY <1>3, <1>6 DEF RowSound, Steady
      <4>2. SpentOf(p, j) = SpentOf(r, j) /\ SpentOf(r, j) \in Int /\ r.left \in Int
        <5>1. SpentOf(p, j) = SpentOf(r, j)
          BY <1>6, Zenon DEF SpentOf, Steady
        <5>. QED BY <1>2, <1>3, <5>1, SpentType, RowFields
      <4>3. RowTouched(r, p, j)
        BY <1>6, <4>1, <4>2 DEF RowTouched, Steady
      <4>. QED BY <1>6, <1>8, <3>1, <4>3 DEF r
    <3>2. CASE i # j
      <4>1. Fades(f.rows[i], f.rows[i], i)
        BY FadesSelf
      <4>. QED BY <1>8, <3>2, <4>1 DEF Fades
    <3>. QED BY <3>1, <3>2
  <2>2. f.next <= f1.next
    <3>1. f.next \in Int
      BY <1>1, StateFields
    <3>. QED BY <1>7, <3>1 DEF SameClock
  <2>. QED BY <1>7, <2>1, <2>2 DEF Touched, SamePlace, SameClock
<1>10. Sound(f1) /\ Moves(f0, f1)
  BY <1>9, MovesOn
<1>11. ASSUME NEW i \in Fighters
       PROVE  /\ Worn(f1.rows[i], k.rows[i]) /\ Steady(f1.rows[i], k.rows[i])
              /\ \A t \in Tokens : t \in Waiting(k, i) <=> t \in Waiting(f1, i) /\ t.id # x
  <2>1. CASE i = j
    <3>1. Worn(p, q)
      <4>1. p.hp \in Int
        BY <1>6, RowFields
      <4>. QED BY <1>5, <1>6, <4>1 DEF Worn
    <3>2. ASSUME NEW t \in Tokens PROVE t \in Waiting(k, i) <=> t \in Waiting(f1, i) /\ t.id # x
      <4>1. Waiting(k, i) = ToSet(r.incoming) \ {Token(e)} /\ Waiting(f1, i) = ToSet(r.incoming)
            /\ Waiting(f, i) = ToSet(r.incoming)
        BY <1>5, <1>6, <1>8, <2>1 DEF Waiting, r
      <4>2. ASSUME t \in Waiting(f, i), t.id = x PROVE t = Token(e)
        BY <4>2, PacketIs
      <4>3. Token(e).id = x
        BY <1>1, TokenIs
      <4>. QED BY <4>1, <4>2, <4>3
    <3>. QED BY <1>6, <1>8, <2>1, <3>1, <3>2
  <2>2. CASE i # j
    <3>1. f1.rows[i] = f.rows[i] /\ k.rows[i] = f.rows[i]
      BY <1>8, <2>2
    <3>2. f.rows[i] \in Rows /\ RowSound(f.rows[i], i) /\ f.rows[i].hp \in Int
      BY SoundMeans, RowFields
    <3>3. ASSUME NEW t \in Waiting(f, i), t.id = x PROVE FALSE
      <4>1. i \in e.targets
        BY <3>3, PacketIs
      <4>. QED BY <1>2, <2>2, <4>1
    <3>. QED BY <3>1, <3>2, <3>3 DEF Worn, Steady, Waiting, RowSound
  <2>. QED BY <2>1, <2>2
<1>12. Spares(f1, k, x)
  <2>1. SameClock(f1, k) /\ Elsewise(f1, k, x)
    BY <1>7 DEF SameClock, Elsewise
  <2>. QED BY <1>7, <1>11, <2>1 DEF Spares, WornRows
<1>. DEFINE n == Cardinality(e.targets \ e.canceled)
<1>13. /\ n \in Nat /\ n = (IF e.burst THEN 1 ELSE Cardinality(e.targets \ e.canceled))
       /\ n <= f1.rows[e.actor].left /\ Due(f1.exchanges[x]) <= n
  <2>1. n \in Nat /\ Cardinality(e.targets) \in Nat /\ n <= Cardinality(e.targets)
    BY <1>1, FightersFinite, Smaller
  <2>2. Cardinality(e.targets) <= f.rows[e.actor].left /\ f1.rows[e.actor] = f.rows[e.actor]
    BY <1>1, <1>2, <1>8 DEF Tied
  <2>3. f.rows[e.actor].left \in Int
    BY <1>1, RowFields
  <2>4. Due(f1.exchanges[x]) = 0
    BY <1>2, <1>7, FS_EmptySet DEF Due
  <2>. HIDE DEF n
  <2>5. n = (IF e.burst THEN 1 ELSE n)
    BY <1>2
  <2>6. n <= f1.rows[e.actor].left /\ Due(f1.exchanges[x]) <= n
    BY <2>1, <2>2, <2>3, <2>4
  <2>. QED BY <2>1, <2>5, <2>6 DEF n
<1>. HIDE DEF n
<1>14. Sound(Finished(k, e, loss)) /\ Settles(f1, Finished(k, e, loss))
  <2>1. x \in DOMAIN f1.exchanges /\ e.id = x /\ e.actor = f1.exchanges[x].actor
    BY <1>1, <1>7
  <2>. QED BY <1>1, <1>10, <1>12, <1>13, <2>1, FinishedEnds
<1>. QED BY <1>4, <1>10, <1>14, MovesSettle

LEMMA MovesSelf ==
    ASSUME NEW f, Sound(f)
    PROVE  Moves(f, f) /\ SamePlace(f, f)
BY UnfoldsSelf, UnfoldsMoves DEF Settles, SamePlace

LEMMA OfferRevivalKeeps ==
    ASSUME Inv, NEW i \in Fighters, NEW j \in Fighters, OfferRevival(i, j)
    PROVE  Advances
<1>. DEFINE f == Seen(i)
            e == NewExchange(f, i, {j}, FALSE, TRUE)
            g == Declared(f, e)
<1>1. /\ MayDeclare(f, i, {j})
      /\ \/ Done(g)
         \/ \E restores, waives \in BOOLEAN, loss \in Losses(i) :
               Done(Revived(g, e, restores, waives, loss))
  BY Zenon DEF OfferRevival
<1>2. Sound(f)
  BY SeenSound
<1>. HIDE DEF f
<1>3. /\ Clear(f.rows[i]) /\ f.rows[i].turns < TurnLimit /\ {j} # {}
      /\ Cardinality({j}) <= f.rows[i].left /\ i \notin {j} /\ f.next <= MaxExchange
      /\ Cardinality({j}) = 1 /\ {j} \in SUBSET Fighters
  BY <1>1, FS_Singleton, Zenon DEF MayDeclare
<1>4. e = NewExchange(f, i, {j}, FALSE, TRUE) /\ e.revival /\ e.phase = "waiting"
  BY DEF NewExchange
<1>. HIDE DEF e
<1>5. /\ Sound(g) /\ Moves(f, g) /\ e.id \in DOMAIN g.exchanges /\ g.exchanges[e.id] = e
      /\ SamePlace(f, g)
  <2>. DEFINE targets == {j}
              no == FALSE
              yes == TRUE
  <2>1. /\ targets \in SUBSET Fighters /\ targets # {} /\ Cardinality(targets) <= f.rows[i].left
        /\ i \notin targets /\ e = NewExchange(f, i, targets, no, yes)
        /\ no \in BOOLEAN /\ yes \in BOOLEAN /\ (no => ~yes)
        /\ (no \/ yes => Cardinality(targets) = 1)
    BY <1>3, <1>4
  <2>. HIDE DEF targets, no, yes
  <2>2. /\ Sound(g) /\ Moves(f, g) /\ e.id \in DOMAIN g.exchanges /\ g.exchanges[e.id] = e
        /\ \A k \in Fighters : /\ g.rows[k].status = f.rows[k].status
                               /\ g.rows[k].exposure = f.rows[k].exposure
    BY <1>2, <1>3, <2>1, DeclaredSound
  <2>. HIDE DEF g
  <2>. QED BY <2>2 DEF SamePlace
<1>. HIDE DEF g
<1>6. CASE Done(g)
  BY <1>5, <1>6, DoneKeeps DEF f
<1>7. CASE \E restores, waives \in BOOLEAN, loss \in Losses(i) :
             Done(Revived(g, e, restores, waives, loss))
  <2>1. PICK restores \in BOOLEAN, waives \in BOOLEAN, loss \in Losses(i) :
            Done(Revived(g, e, restores, waives, loss))
    BY <1>7
  <2>. DEFINE h == Revived(g, e, restores, waives, loss)
  <2>2. Sound(h) /\ Moves(f, h)
    BY <1>2, <1>4, <1>5, LossIs, RevivedSound
  <2>3. Done(h)
    BY <2>1
  <2>. HIDE DEF h
  <2>. QED BY <2>2, <2>3, DoneKeeps DEF f
<1>. QED BY <1>1, <1>6, <1>7

LEMMA AcceptRevivalKeeps ==
    ASSUME Inv, NEW i \in Fighters, NEW t, AcceptRevival(i, t)
    PROVE  Advances
<1>. DEFINE f == Seen(i)
            e == f.exchanges[t.id]
<1>1. /\ Live(f, t) /\ e.revival
      /\ \E restores, waives \in BOOLEAN, loss \in Losses(e.actor) :
            Done(Revived(f, e, restores, waives, loss))
  BY Zenon DEF AcceptRevival
<1>2. Sound(f) /\ Moves(f, f) /\ SamePlace(f, f)
  BY SeenSound, MovesSelf
<1>3. t.id \in DOMAIN f.exchanges /\ e.phase = "waiting"
  BY <1>1, Zenon DEF Live
<1>4. PICK restores \in BOOLEAN, waives \in BOOLEAN, loss \in Losses(e.actor) :
          Done(Revived(f, e, restores, waives, loss))
  BY <1>1
<1>. DEFINE h == Revived(f, e, restores, waives, loss)
<1>. HIDE DEF f
<1>5. Sound(h) /\ Moves(f, h)
  <2>1. e = f.exchanges[t.id]
    OBVIOUS
  <2>2. loss \in Nat
    BY LossIs
  <2>. HIDE DEF e
  <2>. QED BY <1>1, <1>2, <1>3, <2>1, <2>2, RevivedSound
<1>6. Done(h)
  BY <1>4
<1>. HIDE DEF h
<1>. QED BY <1>5, <1>6, DoneKeeps DEF f

\* Of an exchange still open, what its actor's row names is its own.
LEMMA OutgoingIs ==
    ASSUME NEW f, Sound(f), NEW i \in Fighters, f.rows[i].outgoing # None
    PROVE  /\ f.rows[i].outgoing \in DOMAIN f.exchanges
           /\ f.exchanges[f.rows[i].outgoing].actor = i
           /\ f.exchanges[f.rows[i].outgoing] \in Exchanges
           /\ BookSound(f.exchanges[f.rows[i].outgoing]) /\ Tied(f, f.rows[i].outgoing)
<1>1. f.rows[i].outgoing \in DOMAIN f.exchanges /\ f.exchanges[f.rows[i].outgoing].actor = i
  BY SoundMeans DEF QueueSound
<1>. QED BY <1>1, SoundMeans

LEMMA CanceledKeeps ==
    ASSUME Inv, NEW i \in Fighters, NEW j \in Fighters, NEW t \in Waiting(Seen(i), j),
           Live(Seen(i), t), ~Answered(Seen(i), j, t), NEW luck,
           Executed(Canceled(Seen(i), j, t, luck), luck)
    PROVE  Advances
<1>. DEFINE f == Seen(i)
            h == Canceled(f, j, t, luck)
<1>1. Sound(f)
  BY SeenSound
<1>2. Sound(h) /\ Settles(f, h)
  <2>. HIDE DEF f
  <2>1. t \in Waiting(f, j) /\ Live(f, t) /\ ~Answered(f, j, t)
    BY DEF f
  <2>. QED BY <1>1, <2>1, CanceledSound
<1>3. Executed(h, luck)
  OBVIOUS
<1>. HIDE DEF f, h
<1>4. Moves(f, h)
  BY <1>1, <1>2, UnfoldsMoves DEF Settles
<1>. QED BY <1>2, <1>3, <1>4, SeenDone DEF f

LEMMA ContainsMeans ==
    ASSUME NEW f, Sound(f), NEW i \in Fighters, NEW t, Contains(f.rows[i].incoming, t)
    PROVE  t \in Waiting(f, i) /\ t \in Tokens
<1>1. f.rows[i].incoming \in Seq(Tokens)
  BY SoundMeans, RowFields
<1>. QED BY <1>1 DEF Contains, Waiting, ToSet

LEMMA RetractKeeps ==
    ASSUME Inv, NEW i \in Fighters, Retract(i)
    PROVE  Advances
<1>. DEFINE f == Seen(i)
            x == f.rows[i].outgoing
            e == f.exchanges[x]
<1>1. /\ x # None /\ e.revival
      /\ \E luck \in Draws(f) : \E j \in e.targets : Executed(Canceled(f, j, Token(e), luck), luck)
  BY Zenon DEF Retract
<1>2. Sound(f)
  BY SeenSound
<1>. HIDE DEF f
<1>3. x \in DOMAIN f.exchanges /\ e \in Exchanges /\ BookSound(e)
  BY <1>1, <1>2, OutgoingIs
<1>4. PICK luck \in Draws(f), j \in e.targets : Executed(Canceled(f, j, Token(e), luck), luck)
  BY <1>1, Zenon
<1>. HIDE DEF x
<1>5. e.targets \in SUBSET Fighters /\ e.phase \in {"waiting", "press"}
  BY <1>3 DEF Exchanges
<1>6. /\ Cardinality(e.targets) = 1 /\ e.phase = "waiting" /\ Owing(e) # {}
  BY <1>1, <1>3, <1>5 DEF BookSound
<1>7. e.targets = {j} /\ j \in Fighters
  BY <1>5, <1>6, OfOne
<1>8. j \in Owing(e)
  BY <1>6, <1>7 DEF Owing
<1>9. StillOwes(f, j, x)
  BY <1>3, <1>6, <1>8 DEF StillOwes
<1>. DEFINE t == Token(e)
<1>10. t \in Waiting(f, j) /\ Live(f, t) /\ ~Answered(f, j, t)
  BY <1>2, <1>7, <1>9, OwingHolds
<1>11. Executed(Canceled(f, j, t, luck), luck)
  BY <1>4
<1>. HIDE DEF t
<1>. QED BY <1>7, <1>10, <1>11, CanceledKeeps DEF f

LEMMA CancelIncomingKeeps ==
    ASSUME Inv, NEW i \in Fighters, NEW t, CancelIncoming(i, t)
    PROVE  Advances
<1>. DEFINE f == Seen(i)
<1>1. /\ Contains(f.rows[i].incoming, t) /\ Live(f, t) /\ ~Answered(f, i, t)
      /\ \E luck \in Draws(f) : Executed(Canceled(f, i, t, luck), luck)
  BY Zenon DEF CancelIncoming
<1>2. t \in Waiting(f, i)
  BY <1>1, SeenSound, ContainsMeans
<1>. QED BY <1>1, <1>2, CanceledKeeps

LEMMA ReactKeeps ==
    ASSUME Inv, NEW i \in Fighters, NEW t, NEW kind \in Kinds, React(i, t, kind)
    PROVE  Advances
<1>. DEFINE f == Seen(i)
            x == t.id
            e == f.exchanges[x]
<1>1. /\ Contains(f.rows[i].incoming, t) /\ Live(f, t) /\ ~Answered(f, i, t)
      /\ ~e.revival /\ Accepted(f, e, i, kind)
  BY Zenon DEF React
<1>2. Sound(f)
  BY SeenSound
<1>. HIDE DEF f
<1>3. StillOwes(f, i, x)
  BY <1>1, <1>2, ContainsMeans, UnansweredMeans
<1>4. PICK luck : Executed(Completed(f, With(e, i, kind), luck), luck)
  BY <1>1 DEF Accepted
<1>. DEFINE h == Completed(f, With(e, i, kind), luck)
<1>5. Sound(h) /\ Settles(f, h)
  BY <1>1, <1>2, <1>3, ReactedSound
<1>6. Executed(h, luck)
  BY <1>4
<1>. HIDE DEF h
<1>7. Moves(f, h)
  BY <1>2, <1>5, UnfoldsMoves DEF Settles
<1>. QED BY <1>5, <1>6, <1>7, SeenDone DEF f

LEMMA StopKeeps ==
    ASSUME Inv, NEW i \in Fighters, Stop(i)
    PROVE  Advances
<1>0. PICK loss \in Losses(i) :
          Done(Finished(Seen(i), Seen(i).exchanges[Seen(i).rows[i].outgoing], loss))
  BY Zenon DEF Stop
<1>. DEFINE f == Seen(i)
            x == f.rows[i].outgoing
            h == Finished(f, f.exchanges[x], loss)
<1>1. x # None /\ f.exchanges[x].phase = "press" /\ Done(h)
  BY <1>0, Zenon DEF Stop, Pressing, Bursting
<1>2. Sound(f)
  BY SeenSound
<1>. HIDE DEF f
<1>3. Sound(h) /\ Settles(f, h)
  BY <1>1, <1>2, LossIs, OutgoingIs, StoppedSound
<1>. HIDE DEF h
<1>4. Moves(f, h)
  BY <1>2, <1>3, UnfoldsMoves DEF Settles
<1>. QED BY <1>1, <1>3, <1>4, DoneKeeps DEF f

LEMMA PassKeeps ==
    ASSUME Inv, NEW i \in Fighters, Pass(i)
    PROVE  Advances
<1>0. PICK loss \in Losses(i) :
          Done([Seen(i) EXCEPT !.started = TRUE,
                               !.rows[i] = Ending(i, [@ EXCEPT !.recovering = FALSE], 1, loss)])
  BY Zenon DEF Pass
<1>. DEFINE f == Seen(i)
            r == f.rows[i]
            s == [r EXCEPT !.recovering = FALSE]
            q == Ending(i, s, 1, loss)
            g == [f EXCEPT !.started = TRUE, !.rows[i] = q]
<1>1. Clear(r) /\ r.turns < TurnLimit /\ Done(g)
  <2>1. /\ Clear(r) /\ r.turns < TurnLimit
        /\ Done([f EXCEPT !.started = TRUE,
                          !.rows[i] = Ending(i, [@ EXCEPT !.recovering = FALSE], 1, loss)])
    BY <1>0, Zenon DEF Pass
  <2>. QED BY <2>1, Zenon
<1>2. Sound(f)
  BY SeenSound
<1>. HIDE DEF f
<1>3. /\ f \in States /\ f.rows \in [Fighters -> Rows] /\ r \in Rows /\ RowSound(r, i)
  BY <1>2, SoundMeans
<1>4. r.outgoing = None
  BY <1>1 DEF Clear
<1>5. /\ s \in Rows /\ s.incoming = r.incoming /\ s.outgoing = r.outgoing /\ s.status = r.status
      /\ s.fadedHp = r.fadedHp /\ s.exposure = r.exposure /\ s.turns = r.turns /\ s.left = r.left
  <2>. HIDE DEF r
  <2>. QED BY <1>3 DEF Rows
<1>. HIDE DEF s
<1>6. Spends(s, q, i, 1)
  <2>1. s.left <= Allowance[i] /\ s.turns < TurnLimit /\ IsInjective(s.incoming)
    BY <1>1, <1>3, <1>5 DEF RowSound
  <2>. QED BY <1>5, <2>1, LossIs, EndingMeans
<1>. HIDE DEF q
<1>7. SpentOf(s, i) = SpentOf(r, i)
  BY <1>5, Zenon DEF SpentOf
<1>8. RowSound(q, i)
  BY <1>3, <1>4, <1>5, <1>6 DEF RowSound, Spends, Worn
<1>9. RowTouched(r, q, i) /\ RowStands(r, q)
  BY <1>4, <1>5, <1>6, <1>7, <1>8 DEF RowTouched, RowStands, Spends, Worn
<1>10. /\ g \in States /\ g.rows = [f.rows EXCEPT ![i] = q] /\ g.exchanges = f.exchanges
       /\ g.epoch = f.epoch /\ f.next <= g.next
  <2>1. q \in Rows
    BY <1>9 DEF RowTouched
  <2>2. f.next \in Int
    BY <1>3, StateFields
  <2>. DEFINE rows == [f.rows EXCEPT ![i] = q]
  <2>3. g = [f EXCEPT !.started = TRUE, !.rows = rows]
    BY <1>3 DEF States
  <2>4. rows \in [Fighters -> Rows]
    BY <1>3, <2>1
  <2>. HIDE DEF r, g, rows
  <2>5. f \in States
    BY <1>3
  <2>6. /\ g.rows = rows /\ g.exchanges = f.exchanges /\ g.epoch = f.epoch /\ g.next = f.next
    BY <2>3, <2>5 DEF States
  <2>7. g \in States
    BY <2>3, <2>4, <2>5 DEF States
  <2>. QED BY <2>2, <2>6, <2>7 DEF rows
<1>. HIDE DEF g
<1>11. Sound(g) /\ Moves(f, g)
  BY <1>2, <1>9, <1>10, OneRow
<1>. QED BY <1>1, <1>11, DoneKeeps DEF f

-----------------------------------------------------------------------------
(***************************************************************************)
(* Covering an ally: their packet becomes one's own.                       *)
(***************************************************************************)
LEMMA Swapped ==
    ASSUME NEW S \in SUBSET Fighters, NEW i \in S, NEW j \in Fighters \ S
    PROVE  Cardinality((S \ {i}) \cup {j}) = Cardinality(S)
<1>1. IsFiniteSet(S) /\ Cardinality(S) \in Nat
  BY FightersFinite
<1>2. IsFiniteSet(S \ {i}) /\ Cardinality(S \ {i}) = Cardinality(S) - 1
  BY <1>1, FS_RemoveElement
<1>3. Cardinality((S \ {i}) \cup {j}) = Cardinality(S \ {i}) + 1
  BY <1>2, FS_AddElement
<1>. QED BY <1>1, <1>2, <1>3

\* The queue, of r, in which packets come and go.
LEMMA Requeued ==
    ASSUME NEW r \in Rows, NEW s \in Seq(Tokens), NEW q, q = [r EXCEPT !.incoming = s]
    PROVE  /\ q \in Rows /\ q.incoming = s /\ Steady(r, q) /\ q.hp = r.hp /\ q.status = r.status
           /\ q.fadedHp = r.fadedHp /\ q.exposure = r.exposure
BY DEF Rows, Steady

Turned(e, i, j) ==
    [e EXCEPT !.targets = (@ \ {i}) \cup {j}, !.covered = TRUE, !.redirected = TRUE]
Passed(f, i, j, t) ==
    [f EXCEPT !.rows[i].incoming = Removed(@, t), !.rows[j].incoming = Append(@, t),
              !.exchanges[t.id] = Turned(f.exchanges[t.id], i, j)]

LEMMA CoverSound ==
    ASSUME NEW f, Sound(f), NEW i \in Fighters, NEW j \in Fighters, i # j,
           NEW t \in Waiting(f, i), Live(f, t), Clear(f.rows[j]),
           NEW e, e = f.exchanges[t.id], j \notin e.targets, e.reactions = <<>>, ~e.revival,
           NEW d, d = Turned(e, i, j), NEW g, g = Passed(f, i, j, t)
    PROVE  /\ Sound(g) /\ Moves(f, g) /\ StillOwes(g, j, t.id)
           /\ g.exchanges[t.id] = d /\ ~d.revival
<1>. DEFINE x == t.id
            A == f.rows[i]
            B == f.rows[j]
            less == Removed(A.incoming, t)
            more == Append(B.incoming, t)
            a == [A EXCEPT !.incoming = less]
            b == [B EXCEPT !.incoming = more]
            rows == [f.rows EXCEPT ![i] = a, ![j] = b]
            book == [f.exchanges EXCEPT ![x] = d]
<1>1. /\ f \in States /\ f.rows \in [Fighters -> Rows] /\ DOMAIN f.exchanges \subseteq Ids
      /\ f.exchanges \in [DOMAIN f.exchanges -> Exchanges] /\ f.next \in Int
      /\ A \in Rows /\ B \in Rows /\ RowSound(A, i) /\ RowSound(B, j)
  BY SoundMeans, StateFields
<1>2. t \in Tokens
  <2>1. A.incoming \in Seq(Tokens)
    BY <1>1, RowFields
  <2>. QED BY <2>1 DEF Waiting, ToSet
<1>3. /\ x \in DOMAIN f.exchanges /\ e.phase = "waiting" /\ e.hit = t.hit /\ e.id = x
      /\ e \in Exchanges /\ BookSound(e) /\ Tied(f, x) /\ t = Token(e) /\ i \in e.targets \ e.canceled
  <2>1. x \in DOMAIN f.exchanges
    BY DEF Live
  <2>2. t = Token(e) /\ e.phase = "waiting" /\ i \in e.targets \ e.canceled
    BY <2>1, PacketIs
  <2>3. e \in Exchanges /\ BookSound(e) /\ Tied(f, x)
    BY <2>1, SoundMeans
  <2>. QED BY <2>1, <2>2, <2>3 DEF Tied, Live
<1>4. /\ e.actor \in Fighters /\ e.targets \in SUBSET Fighters /\ e.canceled \in SUBSET Fighters
      /\ e.actor # j /\ DOMAIN e.reactions = {}
  <2>1. e.actor \in Fighters /\ e.targets \in SUBSET Fighters /\ e.canceled \in SUBSET Fighters
    BY <1>3 DEF Exchanges
  <2>2. f.rows[e.actor].outgoing = x /\ x # None
    <3>1. None \notin Ids
      BY Params
    <3>. QED BY <1>1, <1>3, <3>1 DEF Tied
  <2>3. f.rows[j].outgoing = None
    BY DEF Clear
  <2>4. DOMAIN e.reactions = {}
    BY <1>3, Reactless
  <2>. QED BY <2>1, <2>2, <2>3, <2>4
<1>5. /\ d \in Exchanges /\ d.id = x /\ d.actor = e.actor /\ d.targets = (e.targets \ {i}) \cup {j}
      /\ d.burst = e.burst /\ d.revival = e.revival /\ d.hit = e.hit /\ d.reactions = e.reactions
      /\ d.canceled = e.canceled /\ d.resolved = e.resolved /\ d.phase = "waiting"
  <2>. DEFINE T == (e.targets \ {i}) \cup {j}
  <2>1. T \in SUBSET Fighters
    BY <1>4
  <2>2. d = [e EXCEPT !.targets = T, !.covered = TRUE, !.redirected = TRUE]
    BY DEF Turned
  <2>. HIDE DEF T
  <2>3. /\ d.id = x /\ d.actor = e.actor /\ d.targets = T
        /\ d.burst = e.burst /\ d.revival = e.revival /\ d.hit = e.hit /\ d.reactions = e.reactions
        /\ d.canceled = e.canceled /\ d.resolved = e.resolved /\ d.phase = "waiting"
    BY <1>3, <2>2 DEF Exchanges
  <2>4. d \in Exchanges
    BY <1>3, <2>1, <2>2 DEF Exchanges
  <2>. QED BY <2>3, <2>4 DEF T
<1>6. Cardinality(d.targets) = Cardinality(e.targets)
  <2>1. Cardinality((e.targets \ {i}) \cup {j}) = Cardinality(e.targets)
    <3>1. e.targets \in SUBSET Fighters /\ i \in e.targets /\ j \in Fighters \ e.targets
      BY <1>3, <1>4
    <3>. QED BY <3>1, Swapped, Zenon
  <2>2. d.targets = (e.targets \ {i}) \cup {j}
    BY <1>5
  <2>. QED BY <2>1, <2>2, Zenon
<1>7. BookSound(d) /\ j \in Owing(d) /\ j \notin d.canceled
  <2>1. j \notin e.canceled
    BY <1>3 DEF BookSound
  <2>2. j \in Owing(d)
    BY <1>4, <1>5, <2>1 DEF Owing
  <2>. QED BY <1>3, <1>4, <1>5, <1>6, <2>1, <2>2 DEF BookSound
<1>8. f.rows[j].incoming = <<>> /\ f.rows[j].outgoing = None
  BY DEF Clear
<1>9. /\ less \in Seq(Tokens) /\ IsInjective(less) /\ ToSet(less) = Waiting(f, i) \ {t}
  <2>1. A.incoming \in Seq(Tokens) /\ IsInjective(A.incoming)
    BY <1>1, RowFields DEF RowSound
  <2>2. Waiting(f, i) = ToSet(A.incoming)
    BY DEF Waiting
  <2>. HIDE DEF A
  <2>. QED BY <2>1, <2>2, Dropped
<1>10. /\ more \in Seq(Tokens) /\ IsInjective(more) /\ ToSet(more) = Waiting(f, j) \cup {t}
  <2>1. B.incoming \in Seq(Tokens) /\ IsInjective(B.incoming) /\ t \notin ToSet(B.incoming)
    <3>1. ToSet(<<>>) = {}
      BY DEF ToSet
    <3>. QED BY <1>1, <1>8, <3>1, RowFields DEF RowSound
  <2>2. Waiting(f, j) = ToSet(B.incoming)
    BY DEF Waiting
  <2>. HIDE DEF B
  <2>. QED BY <1>2, <2>1, <2>2, Queues
<1>. HIDE DEF less, more
<1>11. /\ a \in Rows /\ a.incoming = less /\ Steady(A, a) /\ a.hp = A.hp /\ a.status = A.status
       /\ a.fadedHp = A.fadedHp /\ a.exposure = A.exposure
       /\ b \in Rows /\ b.incoming = more /\ Steady(B, b) /\ b.hp = B.hp /\ b.status = B.status
       /\ b.fadedHp = B.fadedHp /\ b.exposure = B.exposure
  <2>1. a = [A EXCEPT !.incoming = less] /\ b = [B EXCEPT !.incoming = more]
    OBVIOUS
  <2>. HIDE DEF a, b, A, B
  <2>. QED BY <1>1, <1>9, <1>10, <2>1, Requeued
<1>12. g = [f EXCEPT !.rows = rows, !.exchanges = book]
  <2>. DEFINE f1 == [f EXCEPT !.rows[i] = a]
              f2 == [f1 EXCEPT !.rows[j] = b]
  <2>1. f1 = [f EXCEPT !.rows[i].incoming = Removed(@, t)]
    BY DEF less
  <2>2. f1 \in States /\ f1.rows = [f.rows EXCEPT ![i] = a] /\ f1.exchanges = f.exchanges
    BY <1>1, <1>11, SetRow
  <2>3. f1.rows[j] = B
    BY <1>1, <2>2
  <2>4. f2 = [f1 EXCEPT !.rows[j].incoming = Append(@, t)]
    <3>1. [f1 EXCEPT !.rows[j].incoming = Append(@, t)]
            = [f1 EXCEPT !.rows[j] = [f1.rows[j] EXCEPT !.incoming = Append(f1.rows[j].incoming, t)]]
      OBVIOUS
    <3>. HIDE DEF f1, B
    <3>. QED BY <2>3, <3>1 DEF more
  <2>5. g = [[[f EXCEPT !.rows[i].incoming = Removed(@, t)]
                 EXCEPT !.rows[j].incoming = Append(@, t)]
                 EXCEPT !.exchanges[x] = d]
    BY DEF Passed
  <2>6. g = [f2 EXCEPT !.exchanges[x] = d]
    BY <2>1, <2>4, <2>5, Zenon
  <2>. HIDE DEF f1, a, b, A, B
  <2>7. f2 = [f EXCEPT !.rows = rows] /\ f2.exchanges = f.exchanges
    BY <1>1, <2>2 DEF States, f1
  <2>. HIDE DEF f2, rows
  <2>8. g = [f2 EXCEPT !.exchanges = book]
    BY <1>1, <2>6, <2>7 DEF States
  <2>. HIDE DEF book
  <2>. QED BY <2>7, <2>8, <1>1 DEF States
<1>13. /\ rows \in [Fighters -> Rows] /\ rows[i] = a /\ rows[j] = b
       /\ \A k \in Fighters \ {i, j} : rows[k] = f.rows[k]
  <2>. HIDE DEF a, b
  <2>. QED BY <1>1, <1>11
<1>14. /\ book \in Books /\ DOMAIN book = DOMAIN f.exchanges /\ book[x] = d
       /\ \A y \in DOMAIN f.exchanges \ {x} : book[y] = f.exchanges[y]
  <2>. HIDE DEF x
  <2>1. /\ DOMAIN book = DOMAIN f.exchanges /\ book[x] = d
        /\ \A y \in DOMAIN f.exchanges \ {x} : book[y] = f.exchanges[y]
    BY <1>1, <1>3
  <2>2. book \in [DOMAIN f.exchanges -> Exchanges]
    BY <1>1, <1>3, <1>5
  <2>. QED BY <1>1, <2>1, <2>2, BookIs
<1>. HIDE DEF rows, book
<1>15. /\ g \in States /\ g.rows = rows /\ g.exchanges = book /\ g.epoch = f.epoch /\ g.next = f.next
  BY <1>1, <1>12, <1>13, <1>14 DEF States
<1>16. /\ g.rows[i] = a /\ g.rows[j] = b /\ \A k \in Fighters \ {i, j} : g.rows[k] = f.rows[k]
       /\ g.exchanges[x] = d /\ x \in DOMAIN g.exchanges
  BY <1>3, <1>13, <1>14, <1>15
<1>e. e = f.exchanges[x]
  OBVIOUS
<1>. HIDE DEF x, a, b
<1>17. Beside(f, g, x)
  BY <1>1, <1>14, <1>15 DEF Beside
<1>18. ASSUME NEW k \in Fighters
       PROVE  /\ g.rows[k] \in Rows /\ RowSound(g.rows[k], k) /\ Steady(f.rows[k], g.rows[k])
              /\ g.rows[k].status = f.rows[k].status /\ g.rows[k].exposure = f.rows[k].exposure
              /\ Waiting(g, k) = IF k = i THEN Waiting(f, i) \ {t}
                                 ELSE IF k = j THEN Waiting(f, j) \cup {t} ELSE Waiting(f, k)
  <2>1. CASE k = i
    <3>1. RowSound(a, i)
      BY <1>1, <1>9, <1>11 DEF RowSound, Steady
    <3>. QED BY <1>9, <1>11, <1>16, <2>1, <3>1 DEF Waiting
  <2>2. CASE k = j
    <3>1. RowSound(b, j)
      BY <1>1, <1>10, <1>11 DEF RowSound, Steady
    <3>. QED BY <1>10, <1>11, <1>16, <2>2, <3>1 DEF Waiting
  <2>3. CASE k # i /\ k # j
    <3>1. g.rows[k] = f.rows[k] /\ f.rows[k] \in Rows /\ RowSound(f.rows[k], k)
      BY <1>16, <2>3, SoundMeans
    <3>. QED BY <2>3, <3>1 DEF Waiting, Steady
  <2>. QED BY <2>1, <2>2, <2>3
<1>19. t.id = x /\ \A u \in Tokens : u.id = x /\ u.hit = t.hit => u = t
  BY <1>3, TokenIs DEF x
<1>20. ASSUME NEW k \in Fighters PROVE RowBeside(f, g, x, k)
  <2>1. g.rows[k].outgoing = f.rows[k].outgoing /\ g.rows[k].left = f.rows[k].left
        /\ f.rows[k].left \in Int
    BY <1>18, SoundMeans, RowFields DEF Steady
  <2>2. g.rows[k].outgoing = x => x = None \/ (x \in DOMAIN g.exchanges /\ g.exchanges[x].actor = k)
    <3>1. f.rows[k].outgoing # None => f.exchanges[f.rows[k].outgoing].actor = k
      BY OutgoingIs
    <3>. QED BY <1>3, <1>5, <1>16, <1>e, <2>1, <3>1
  <2>3. ASSUME NEW u \in Tokens, u.id = x PROVE u \in Waiting(g, k) <=> Awaits(g, k, u)
    <3>1. u \in Waiting(f, k) <=> Awaits(f, k, u)
      BY SoundMeans DEF QueueSound
    <3>2. Awaits(f, k, u) <=> u = t /\ k \in e.targets \ e.canceled
      BY <1>3, <1>19, <2>3 DEF Awaits
    <3>3. Awaits(g, k, u) <=> u = t /\ k \in d.targets \ d.canceled
      BY <1>3, <1>5, <1>16, <1>19, <2>3 DEF Awaits
    <3>4. k \in d.targets \ d.canceled <=> k # i /\ (k = j \/ k \in e.targets \ e.canceled)
      BY <1>5, <1>7
    <3>. QED BY <1>18, <3>1, <3>2, <3>3, <3>4
  <2>4. ASSUME NEW u \in Tokens, u.id # x PROVE u \in Waiting(g, k) <=> u \in Waiting(f, k)
    BY <1>18, <1>19, <2>4
  <2>. QED BY <1>18, <2>1, <2>2, <2>3, <2>4 DEF RowBeside
<1>21. Tied(g, x)
  <2>1. g.rows[e.actor].outgoing = f.rows[e.actor].outgoing /\ g.rows[e.actor].left = f.rows[e.actor].left
    BY <1>4, <1>18 DEF Steady
  <2>. QED BY <1>3, <1>5, <1>6, <1>15, <1>16, <1>e, <2>1 DEF Tied
<1>22. Sound(g)
  BY <1>7, <1>15, <1>16, <1>17, <1>20, <1>21, Reshape
<1>23. StillOwes(g, j, x) /\ ~d.revival
  BY <1>5, <1>7, <1>16 DEF StillOwes
<1>24. ASSUME NEW k \in Fighters
       PROVE  SpentOf(g.rows[k], k) = SpentOf(f.rows[k], k) /\ SpentOf(f.rows[k], k) \in Int
  <2>1. SpentOf(g.rows[k], k) = SpentOf(f.rows[k], k)
    BY <1>18, Zenon DEF Steady, SpentOf
  <2>. QED BY <2>1, SoundMeans, SpentType
<1>25. ASSUME NEW y \in DOMAIN f.exchanges PROVE Honours(f, g, y)
  <2>1. f.exchanges[y].actor \in Fighters
    BY SoundMeans DEF Exchanges
  <2>2. SpentOf(g.rows[f.exchanges[y].actor], f.exchanges[y].actor)
           >= SpentOf(f.rows[f.exchanges[y].actor], f.exchanges[y].actor)
    <3>. DEFINE c == f.exchanges[y].actor
    <3>1. SpentOf(g.rows[c], c) = SpentOf(f.rows[c], c) /\ SpentOf(f.rows[c], c) \in Int
      BY <1>24, <2>1
    <3>. HIDE DEF c
    <3>2. SpentOf(g.rows[c], c) >= SpentOf(f.rows[c], c)
      BY <3>1
    <3>. QED BY <3>2 DEF c
  <2>3. CASE y = x
    <3>1. Due(d) = Due(e) /\ Due(e) \in Nat
      <4>1. Due(d) = Due(e)
        <5>1. d.resolved = e.resolved /\ d.reactions = e.reactions
          BY <1>5
        <5>. QED BY <5>1, SMT DEF Due
      <4>. QED BY <1>3, <4>1, DueType
    <3>2. f.exchanges[y] = e /\ g.exchanges[y] = d /\ y \in DOMAIN g.exchanges
      BY <1>16, <1>e, <2>3
    <3>3. Due(d) >= Due(e)
      BY <3>1
    <3>. QED BY <1>3, <1>4, <1>5, <2>2, <3>2, <3>3, Zenon DEF Honours
  <2>4. CASE y # x
    <3>1. y \in DOMAIN g.exchanges /\ g.exchanges[y] = f.exchanges[y]
      BY <1>14, <1>15, <2>4
    <3>. QED BY <2>2, <3>1, HonoursOthers
  <2>. QED BY <2>3, <2>4
<1>26. Moves(f, g)
  <2>1. ASSUME NEW k \in Fighters, NEW u \in Waiting(g, k) PROVE \E l \in Fighters : u \in Waiting(f, l)
    BY <1>18
  <2>2. \A k \in Fighters : RowStands(f.rows[k], g.rows[k])
    BY <1>18 DEF RowStands
  <2>3. f.next <= g.next
    BY <1>1, <1>15
  <2>. QED BY <1>15, <1>25, <2>1, <2>2, <2>3 DEF Moves
<1>. QED BY <1>16, <1>22, <1>23, <1>26 DEF x

LEMMA CoverKeeps ==
    ASSUME Inv, NEW j \in Fighters, NEW i \in Fighters, i # j, NEW t, NEW kind \in Kinds,
           Cover(j, i, t, kind)
    PROVE  Advances
<1>. DEFINE f == Seen(j)
            e == f.exchanges[t.id]
            d == [e EXCEPT !.targets = (@ \ {i}) \cup {j}, !.covered = TRUE, !.redirected = TRUE]
            g == [f EXCEPT !.rows[i].incoming = Removed(@, t), !.rows[j].incoming = Append(@, t),
                           !.exchanges[t.id] = d]
<1>1. /\ Clear(f.rows[j]) /\ Contains(f.rows[i].incoming, t) /\ Live(f, t) /\ j \notin e.targets
      /\ e.reactions = <<>> /\ ~e.revival /\ Accepted(g, d, j, kind)
  BY Zenon DEF Cover
<1>2. Sound(f)
  BY SeenSound
<1>. HIDE DEF f
<1>3. t \in Waiting(f, i)
  BY <1>1, <1>2, ContainsMeans
<1>4. Sound(g) /\ Moves(f, g) /\ StillOwes(g, j, t.id) /\ g.exchanges[t.id] = d /\ ~d.revival
  <2>1. e = f.exchanges[t.id] /\ d = Turned(e, i, j) /\ g = Passed(f, i, j, t)
    BY Zenon DEF Turned, Passed
  <2>. HIDE DEF e, d, g
  <2>. QED BY <1>1, <1>2, <1>3, <2>1, CoverSound
<1>. HIDE DEF d, g
<1>5. PICK luck : Executed(Completed(g, With(d, j, kind), luck), luck)
  BY <1>1 DEF Accepted
<1>. DEFINE h == Completed(g, With(d, j, kind), luck)
<1>6. Sound(h) /\ Settles(g, h)
  BY <1>4, ReactedSound
<1>7. Executed(h, luck)
  BY <1>5
<1>. HIDE DEF h
<1>8. Moves(f, h)
  BY <1>2, <1>4, <1>6, MovesSettle
<1>. QED BY <1>6, <1>7, <1>8, SeenDone DEF f

-----------------------------------------------------------------------------
(***************************************************************************)
(* Going on with a Burst: its next hit waits for answers anew.             *)
(***************************************************************************)
Again(e) ==
    [e EXCEPT !.hit = @ + 1, !.phase = "waiting", !.reactions = <<>>,
              !.canceled = {}, !.covered = FALSE]

GoneOn(f, e) ==
    LET row(j) == IF j \in e.targets
                  THEN [f.rows[j] EXCEPT !.incoming = Append(@, Token(Again(e)))] ELSE f.rows[j]
    IN  [f EXCEPT !.exchanges[e.id] = Again(e), !.rows = [j \in Fighters |-> row(j)]]

LEMMA AgainIs ==
    ASSUME NEW e \in Exchanges, e.hit < MaxHit, NEW d, d = Again(e)
    PROVE  /\ d \in Exchanges /\ d.id = e.id /\ d.actor = e.actor /\ d.targets = e.targets
           /\ d.burst = e.burst /\ d.revival = e.revival /\ d.hit = e.hit + 1 /\ DOMAIN d.reactions = {}
           /\ d.canceled = {} /\ d.resolved = e.resolved /\ d.phase = "waiting"
<1>. DEFINE A == UNION {[S -> Kinds] : S \in SUBSET Fighters}
            none == <<>>
            n == e.hit + 1
<1>1. none \in A /\ DOMAIN none = {}
  <2>1. none \in [{} -> Kinds] /\ DOMAIN none = {}
    OBVIOUS
  <2>. QED BY <2>1
<1>2. Exchanges =
        [id : Ids, actor : Fighters, targets : SUBSET Fighters, burst : BOOLEAN,
         revival : BOOLEAN, hit : 1..MaxHit, reactions : A, canceled : SUBSET Fighters,
         covered : BOOLEAN, redirected : BOOLEAN, resolved : BOOLEAN, phase : {"waiting", "press"}]
  BY DEF Exchanges
<1>3. n \in 1..MaxHit
  <2>1. e.hit \in 1..MaxHit /\ MaxHit \in Nat
    BY Params DEF Exchanges
  <2>. QED BY <2>1
<1>4. d = [e EXCEPT !.hit = n, !.phase = "waiting", !.reactions = none,
                    !.canceled = {}, !.covered = FALSE]
  BY DEF Again
<1>. HIDE DEF A, none, n
<1>5. /\ d.id = e.id /\ d.actor = e.actor /\ d.targets = e.targets
      /\ d.burst = e.burst /\ d.revival = e.revival /\ d.hit = n /\ d.reactions = none
      /\ d.canceled = {} /\ d.resolved = e.resolved /\ d.phase = "waiting"
  BY <1>2, <1>4
<1>6. d \in Exchanges
  BY <1>1, <1>2, <1>3, <1>4
<1>. QED BY <1>1, <1>5, <1>6 DEF n

LEMMA GoneOnSound ==
    ASSUME NEW f, Sound(f), NEW x \in DOMAIN f.exchanges, NEW e, e = f.exchanges[x],
           e.phase = "press"
    PROVE  Sound(GoneOn(f, e)) /\ Moves(f, GoneOn(f, e))
<1>. DEFINE d == Again(e)
            g == GoneOn(f, e)
            row(j) == IF j \in e.targets
                      THEN [f.rows[j] EXCEPT !.incoming = Append(f.rows[j].incoming, Token(d))]
                      ELSE f.rows[j]
            rows == [j \in Fighters |-> row(j)]
            book == [f.exchanges EXCEPT ![x] = d]
<1>1. /\ f \in States /\ f.rows \in [Fighters -> Rows] /\ DOMAIN f.exchanges \subseteq Ids
      /\ f.exchanges \in [DOMAIN f.exchanges -> Exchanges] /\ f.next \in Int
      /\ \A j \in Fighters : f.rows[j] \in Rows /\ RowSound(f.rows[j], j)
  BY SoundMeans, StateFields
<1>2. /\ e \in Exchanges /\ BookSound(e) /\ Tied(f, x) /\ e.id = x
      /\ e.actor \in Fighters /\ e.targets \in SUBSET Fighters /\ e.hit \in Int
      /\ e.hit < MaxHit /\ e.burst
  <2>1. e \in Exchanges /\ BookSound(e) /\ Tied(f, x)
    BY SoundMeans
  <2>2. e.actor \in Fighters /\ e.targets \in SUBSET Fighters /\ e.hit \in Int
    BY <2>1, Params DEF Exchanges
  <2>3. e.hit < MaxHit /\ e.burst
    BY <2>1 DEF BookSound
  <2>. QED BY <2>1, <2>2, <2>3 DEF Tied
<1>3. /\ d \in Exchanges /\ d.id = x /\ d.actor = e.actor /\ d.targets = e.targets
      /\ d.burst = e.burst /\ d.revival = e.revival /\ d.hit = e.hit + 1 /\ DOMAIN d.reactions = {}
      /\ d.canceled = {} /\ d.resolved = e.resolved /\ d.phase = "waiting"
  BY <1>2, AgainIs
<1>. HIDE DEF d
<1>4. Owing(d) = e.targets /\ BookSound(d)
  <2>1. Owing(d) = e.targets
    BY <1>3 DEF Owing
  <2>. QED BY <1>2, <1>3, <2>1 DEF BookSound
<1>5. Token(d) \in Tokens /\ Token(d).id = x /\ Token(d).hit = d.hit
      /\ \A t \in Tokens : t.id = x /\ t.hit = d.hit => t = Token(d)
  BY <1>3, TokenIs
<1>6. ASSUME NEW j \in Fighters, NEW t \in Waiting(f, j) PROVE t \in Tokens /\ t.id # x
  <2>1. f.rows[j].incoming \in Seq(Tokens)
    BY <1>1, RowFields
  <2>2. t \in Tokens
    BY <2>1 DEF Waiting, ToSet
  <2>3. t.id = x => f.exchanges[x].phase = "waiting"
    BY PacketIs
  <2>. QED BY <2>2, <2>3
<1>7. ASSUME NEW j \in Fighters
      PROVE  /\ row(j) \in Rows /\ IsInjective(row(j).incoming) /\ Steady(f.rows[j], row(j))
             /\ row(j).hp = f.rows[j].hp /\ row(j).status = f.rows[j].status
             /\ row(j).fadedHp = f.rows[j].fadedHp /\ row(j).exposure = f.rows[j].exposure
             /\ ToSet(row(j).incoming) =
                   IF j \in e.targets THEN Waiting(f, j) \cup {Token(d)} ELSE Waiting(f, j)
  <2>. DEFINE r == f.rows[j]
              T == Token(d)
              s == Append(r.incoming, T)
  <2>1. r \in Rows /\ r.incoming \in Seq(Tokens) /\ IsInjective(r.incoming)
        /\ Waiting(f, j) = ToSet(r.incoming)
    BY <1>1, RowFields DEF RowSound, Waiting
  <2>2. T \in Tokens /\ T \notin ToSet(r.incoming)
    BY <1>5, <1>6, <2>1
  <2>3. row(j) = IF j \in e.targets THEN [r EXCEPT !.incoming = s] ELSE r
    OBVIOUS
  <2>. HIDE DEF T, row
  <2>4. s \in Seq(Tokens) /\ IsInjective(s) /\ ToSet(s) = ToSet(r.incoming) \cup {T}
    <3>. HIDE DEF r
    <3>. QED BY <2>1, <2>2, Queues
  <2>5. CASE j \in e.targets
    <3>1. row(j) = [r EXCEPT !.incoming = s]
      BY <2>3, <2>5
    <3>. HIDE DEF r, s
    <3>2. /\ row(j) \in Rows /\ row(j).incoming = s /\ Steady(r, row(j)) /\ row(j).hp = r.hp
          /\ row(j).status = r.status /\ row(j).fadedHp = r.fadedHp /\ row(j).exposure = r.exposure
      BY <2>1, <2>4, <3>1, Requeued
    <3>. QED BY <2>1, <2>4, <2>5, <3>2 DEF r, T
  <2>6. CASE j \notin e.targets
    <3>1. row(j) = r
      BY <2>3, <2>6
    <3>. HIDE DEF r
    <3>2. r = f.rows[j]
      BY DEF r
    <3>. QED BY <2>1, <2>6, <3>1, <3>2 DEF Steady
  <2>. QED BY <2>5, <2>6
<1>8. g = [f EXCEPT !.exchanges = book, !.rows = rows]
  <2>1. g = [f EXCEPT !.exchanges[x] = d,
                      !.rows = [j \in Fighters |->
                          IF j \in e.targets
                          THEN [f.rows[j] EXCEPT !.incoming = Append(@, Token(d))] ELSE f.rows[j]]]
    BY <1>2, Zenon DEF GoneOn, d
  <2>2. g = [f EXCEPT !.exchanges[x] = d, !.rows = rows]
    BY <2>1, Zenon
  <2>. HIDE DEF g, rows
  <2>. QED BY <1>1, <2>2 DEF States
<1>. HIDE DEF row, g
<1>9. rows \in [Fighters -> Rows] /\ \A j \in Fighters : rows[j] = row(j)
  BY <1>7
<1>10. /\ book \in Books /\ DOMAIN book = DOMAIN f.exchanges /\ book[x] = d
       /\ \A y \in DOMAIN f.exchanges \ {x} : book[y] = f.exchanges[y]
  <2>1. /\ DOMAIN book = DOMAIN f.exchanges /\ book[x] = d
        /\ \A y \in DOMAIN f.exchanges \ {x} : book[y] = f.exchanges[y]
    BY <1>1
  <2>2. book \in [DOMAIN f.exchanges -> Exchanges]
    BY <1>1, <1>3
  <2>. QED BY <1>1, <2>1, <2>2, BookIs
<1>. HIDE DEF rows, book
<1>11. /\ g \in States /\ g.rows = rows /\ g.exchanges = book /\ g.epoch = f.epoch /\ g.next = f.next
  BY <1>1, <1>8, <1>9, <1>10 DEF States
<1>12. g.exchanges[x] = d /\ x \in DOMAIN g.exchanges /\ Beside(f, g, x)
  BY <1>1, <1>10, <1>11 DEF Beside
<1>13. ASSUME NEW j \in Fighters
       PROVE  /\ g.rows[j] \in Rows /\ RowSound(g.rows[j], j) /\ Steady(f.rows[j], g.rows[j])
              /\ g.rows[j].status = f.rows[j].status /\ g.rows[j].exposure = f.rows[j].exposure
              /\ Waiting(g, j) =
                    IF j \in e.targets THEN Waiting(f, j) \cup {Token(d)} ELSE Waiting(f, j)
  <2>1. g.rows[j] = row(j) /\ RowSound(f.rows[j], j)
    BY <1>1, <1>9, <1>11
  <2>2. RowSound(g.rows[j], j)
    BY <1>7, <2>1 DEF RowSound, Steady
  <2>3. Waiting(g, j) = ToSet(row(j).incoming)
    BY <2>1 DEF Waiting
  <2>. QED BY <1>7, <2>1, <2>2, <2>3
<1>14. ASSUME NEW k \in Fighters PROVE RowBeside(f, g, x, k)
  <2>1. g.rows[k].outgoing = f.rows[k].outgoing /\ g.rows[k].left = f.rows[k].left
        /\ f.rows[k].left \in Int
    BY <1>1, <1>13, RowFields DEF Steady
  <2>2. g.rows[k].outgoing = x => x = None \/ (x \in DOMAIN g.exchanges /\ g.exchanges[x].actor = k)
    <3>1. f.rows[k].outgoing # None => f.exchanges[f.rows[k].outgoing].actor = k
      BY OutgoingIs
    <3>. QED BY <1>3, <1>12, <2>1, <3>1
  <2>3. ASSUME NEW u \in Tokens, u.id = x PROVE u \in Waiting(g, k) <=> Awaits(g, k, u)
    <3>1. Awaits(g, k, u) <=> u = Token(d) /\ k \in e.targets
      BY <1>3, <1>5, <1>12, <2>3 DEF Awaits
    <3>2. u \notin Waiting(f, k)
      BY <1>6, <2>3
    <3>. QED BY <1>13, <3>1, <3>2
  <2>4. ASSUME NEW u \in Tokens, u.id # x PROVE u \in Waiting(g, k) <=> u \in Waiting(f, k)
    BY <1>5, <1>13, <2>4
  <2>. QED BY <1>13, <2>1, <2>2, <2>3, <2>4 DEF RowBeside
<1>15. Tied(g, x)
  <2>1. g.rows[e.actor].outgoing = f.rows[e.actor].outgoing /\ g.rows[e.actor].left = f.rows[e.actor].left
    BY <1>2, <1>13 DEF Steady
  <2>. QED BY <1>2, <1>3, <1>11, <1>12, <2>1 DEF Tied
<1>16. Sound(g)
  BY <1>4, <1>11, <1>12, <1>14, <1>15, Reshape
<1>17. ASSUME NEW y \in DOMAIN f.exchanges, y # x PROVE Honours(f, g, y)
  <2>. DEFINE c == f.exchanges[y].actor
  <2>1. c \in Fighters
    BY SoundMeans DEF Exchanges
  <2>2. SpentOf(g.rows[c], c) >= SpentOf(f.rows[c], c)
    <3>. HIDE DEF c
    <3>1. SpentOf(g.rows[c], c) = SpentOf(f.rows[c], c)
      BY <1>13, <2>1, Zenon DEF Steady, SpentOf
    <3>2. SpentOf(f.rows[c], c) \in Int
      BY <1>1, <2>1, SpentType
    <3>. QED BY <3>1, <3>2
  <2>3. y \in DOMAIN g.exchanges /\ g.exchanges[y] = f.exchanges[y]
    BY <1>10, <1>11, <1>17
  <2>. QED BY <2>2, <2>3, HonoursOthers
<1>18. Moves(f, g)
  <2>1. ASSUME NEW k \in Fighters, NEW u \in Waiting(g, k)
        PROVE  (\E l \in Fighters : u \in Waiting(f, l)) \/ IsNew(f, u)
    <3>1. u \in Waiting(f, k) \/ u = Token(d)
      BY <1>13
    <3>2. IsNew(f, Token(d))
      BY <1>2, <1>3, <1>5 DEF IsNew
    <3>. QED BY <3>1, <3>2
  <2>2. \A k \in Fighters : RowStands(f.rows[k], g.rows[k])
    BY <1>13 DEF RowStands
  <2>3. f.next <= g.next
    BY <1>1, <1>11
  <2>. QED BY <1>11, <1>17, <2>1, <2>2, <2>3 DEF Moves
<1>. QED BY <1>16, <1>18 DEF g

LEMMA PressKeeps ==
    ASSUME Inv, NEW i \in Fighters, Press(i)
    PROVE  Advances
<1>. DEFINE f == Seen(i)
            x == f.rows[i].outgoing
            e == f.exchanges[x]
            g == GoneOn(f, e)
<1>1. x # None /\ e.phase = "press" /\ Done(g)
  <2>1. Pressing(f, i)
    BY Zenon DEF Press
  <2>2. Done(g)
    BY Zenon DEF Press, GoneOn, Again
  <2>. QED BY <2>1, <2>2, Zenon DEF Pressing, Bursting
<1>2. Sound(f)
  BY SeenSound
<1>. HIDE DEF f
<1>3. Sound(g) /\ Moves(f, g)
  BY <1>1, <1>2, OutgoingIs, GoneOnSound
<1>. HIDE DEF g
<1>. QED BY <1>1, <1>3, DoneKeeps DEF f

-----------------------------------------------------------------------------
(***************************************************************************)
(* Leaving and returning.                                                  *)
(***************************************************************************)
\* A row with nothing open turns into q, by an operation of its own.
LEMMA RowDone ==
    ASSUME Inv, NEW i \in Fighters, NEW q, RowTouched(Seen(i).rows[i], q, i),
           RowStands(Seen(i).rows[i], q), NEW g \in States,
           g.rows = [Seen(i).rows EXCEPT ![i] = q], g.exchanges = Seen(i).exchanges,
           SameClock(Seen(i), g), Done(g)
    PROVE  Advances
<1>1. Sound(Seen(i))
  BY SeenSound
<1>2. g.epoch = Seen(i).epoch /\ Seen(i).next <= g.next
  <2>1. Seen(i).next \in Int
    BY <1>1, SoundMeans, StateFields
  <2>. QED BY <2>1 DEF SameClock
<1>3. Sound(g) /\ Moves(Seen(i), g)
  BY <1>1, <1>2, OneRow
<1>. QED BY <1>3, DoneKeeps

\* q is r in another place, with another Vitality or exposure.
Replaces(r, q) ==
    /\ q \in Rows /\ q.incoming = r.incoming /\ q.outgoing = r.outgoing
    /\ q.turns = r.turns /\ q.left = r.left

LEMMA ReplacesTouches ==
    ASSUME NEW f, Sound(f), NEW i \in Fighters, NEW q, Replaces(f.rows[i], q),
           (q.status = "faded") <=> (q.fadedHp # None)
    PROVE  RowTouched(f.rows[i], q, i)
<1>. DEFINE r == f.rows[i]
<1>1. r \in Rows /\ RowSound(r, i) /\ r.left \in Int
  BY SoundMeans, RowFields
<1>. HIDE DEF r
<1>2. Replaces(r, q)
  BY DEF r
<1>3. RowSound(q, i)
  BY <1>1, <1>2 DEF RowSound, Replaces
<1>4. SpentOf(q, i) = SpentOf(r, i) /\ SpentOf(r, i) \in Int
  <2>1. SpentOf(q, i) = SpentOf(r, i)
    BY <1>2, Zenon DEF SpentOf, Replaces
  <2>. QED BY <1>1, <2>1, SpentType
<1>5. RowTouched(r, q, i)
  BY <1>1, <1>2, <1>3, <1>4 DEF RowTouched, Replaces
<1>. QED BY <1>5 DEF r

LEMMA FadeKeeps ==
    ASSUME Inv, NEW i \in Fighters, Fade(i)
    PROVE  Advances
<1>. DEFINE f == Seen(i)
            r == f.rows[i]
            q == [r EXCEPT !.status = "faded", !.fadedHp = r.hp]
            g == Left(f, i, q)
<1>1. Done(g)
  BY Zenon DEF Fade, Faded
<1>2. Sound(f)
  BY SeenSound
<1>. HIDE DEF f
<1>3. f \in States /\ r \in Rows /\ RowSound(r, i)
  BY <1>2, SoundMeans
<1>4. /\ Replaces(r, q) /\ q.status = "faded" /\ q.fadedHp = r.hp /\ q.exposure = r.exposure
      /\ q.hp = r.hp /\ r.hp # None /\ r.hp \in Int /\ r.exposure \in Int
  <2>. HIDE DEF r
  <2>1. r.hp \in 0..MaxHp /\ None \notin 0..MaxHp /\ r.exposure \in Int
    BY <1>3, Params DEF Rows
  <2>2. q \in Rows
    BY <1>3, <2>1 DEF Rows
  <2>. QED BY <1>3, <2>1, <2>2, Params DEF Rows, Replaces
<1>. HIDE DEF q
<1>5. RowTouched(r, q, i)
  BY <1>2, <1>4, ReplacesTouches
<1>6. RowStands(r, q)
  <2>1. CASE r.status = "faded"
    BY <1>4, <2>1 DEF RowStands
  <2>2. CASE r.status # "faded"
    <3>1. Standing(q) = q.fadedHp - q.exposure /\ Standing(r) = r.hp - r.exposure
      BY <1>4, <2>2 DEF Standing
    <3>2. Standing(q) <= Standing(r)
      BY <1>4, <3>1
    <3>. QED BY <3>2 DEF RowStands
  <2>. QED BY <2>1, <2>2
<1>7. /\ g \in States /\ g.rows = [f.rows EXCEPT ![i] = q] /\ g.exchanges = f.exchanges
      /\ SameClock(f, g)
  BY <1>3, <1>4, LeftIs DEF Replaces
<1>. HIDE DEF g
<1>. QED BY <1>1, <1>5, <1>6, <1>7, RowDone DEF f

LEMMA WithdrawKeeps ==
    ASSUME Inv, NEW i \in Fighters, Withdraw(i)
    PROVE  Advances
<1>. DEFINE f == Seen(i)
            r == f.rows[i]
            q == [r EXCEPT !.status = "withdrawn", !.hp = 0, !.downed = TRUE, !.fadedHp = None]
            g == Left(f, i, q)
<1>1. Done(g)
  BY Zenon DEF Withdraw
<1>2. Sound(f)
  BY SeenSound
<1>. HIDE DEF f
<1>3. f \in States /\ r \in Rows /\ RowSound(r, i)
  BY <1>2, SoundMeans
<1>4. /\ Replaces(r, q) /\ q.status = "withdrawn" /\ q.fadedHp = None /\ q.exposure = r.exposure
      /\ q.hp = 0
  <2>. HIDE DEF r
  <2>1. 0 \in 0..MaxHp
    BY Params
  <2>2. q \in Rows
    BY <1>3, <2>1 DEF Rows
  <2>. QED BY <1>3, <2>2 DEF Rows, Replaces
<1>. HIDE DEF q
<1>5. RowTouched(r, q, i)
  BY <1>2, <1>4, ReplacesTouches
<1>6. RowStands(r, q)
  <2>1. /\ r.hp \in Int /\ r.hp >= 0 /\ r.exposure \in Int
        /\ (r.status = "faded" => r.fadedHp \in Int /\ r.fadedHp >= 0)
    <3>1. MaxHp \in Nat /\ r.fadedHp \in (0..MaxHp) \cup {None} /\ (r.status = "faded" => r.fadedHp # None)
      BY <1>3, Params, RowFields DEF RowSound
    <3>2. r.status = "faded" => r.fadedHp \in 0..MaxHp
      BY <3>1
    <3>. QED BY <1>3, <3>1, <3>2, RowFields
  <2>. DEFINE s == IF r.status = "faded" THEN r.fadedHp ELSE r.hp
  <2>2. s \in Int /\ s >= 0
    BY <2>1
  <2>3. Standing(r) = s - r.exposure
    BY DEF Standing
  <2>4. Standing(q) = 0 - r.exposure
    BY <1>4 DEF Standing
  <2>. HIDE DEF s, r
  <2>5. Standing(q) <= Standing(r)
    BY <2>1, <2>2, <2>3, <2>4
  <2>. QED BY <2>5 DEF RowStands
<1>7. /\ g \in States /\ g.rows = [f.rows EXCEPT ![i] = q] /\ g.exchanges = f.exchanges
      /\ SameClock(f, g)
  BY <1>3, <1>4, LeftIs DEF Replaces
<1>. HIDE DEF g
<1>. QED BY <1>1, <1>5, <1>6, <1>7, RowDone DEF f

LEMMA RejoinKeeps ==
    ASSUME Inv, NEW i \in Fighters, Rejoin(i)
    PROVE  Advances
<1>. DEFINE f == Seen(i)
            r == f.rows[i]
            x == r.exposure + r.hp - r.fadedHp
            q == [r EXCEPT !.status = "active", !.fadedHp = None, !.exposure = x]
            g == [f EXCEPT !.rows[i] = q]
<1>1. r.status = "faded" /\ Done(g)
  BY Zenon DEF Rejoin
<1>2. Sound(f)
  BY SeenSound
<1>. HIDE DEF f
<1>3. f \in States /\ r \in Rows /\ RowSound(r, i)
  BY <1>2, SoundMeans
<1>4. r.hp \in Int /\ r.exposure \in Int /\ r.fadedHp \in Int /\ x \in Int
  <2>1. MaxHp \in Nat /\ r.fadedHp \in (0..MaxHp) \cup {None} /\ r.fadedHp # None
    BY <1>1, <1>3, Params, RowFields DEF RowSound
  <2>2. r.fadedHp \in 0..MaxHp
    BY <2>1
  <2>3. r.hp \in Int /\ r.exposure \in Int /\ r.fadedHp \in Int
    BY <1>3, <2>1, <2>2, RowFields
  <2>. HIDE DEF r
  <2>. QED BY <2>3
<1>5. /\ Replaces(r, q) /\ q.status = "active" /\ q.fadedHp = None /\ q.exposure = x /\ q.hp = r.hp
  <2>. HIDE DEF r, x
  <2>1. q \in Rows
    BY <1>3, <1>4 DEF Rows
  <2>. QED BY <1>3, <2>1 DEF Rows, Replaces
<1>. HIDE DEF q
<1>6. RowTouched(r, q, i)
  BY <1>2, <1>5, ReplacesTouches
<1>7. RowStands(r, q)
  <2>1. Standing(r) = r.fadedHp - r.exposure
    BY <1>1 DEF Standing
  <2>2. Standing(q) = r.hp - x
    BY <1>5 DEF Standing
  <2>3. x = r.exposure + r.hp - r.fadedHp
    OBVIOUS
  <2>. HIDE DEF r, x
  <2>4. Standing(q) <= Standing(r)
    BY <1>4, <2>1, <2>2, <2>3
  <2>. QED BY <2>4 DEF RowStands
<1>8. /\ g \in States /\ g.rows = [f.rows EXCEPT ![i] = q] /\ g.exchanges = f.exchanges
      /\ SameClock(f, g)
  BY <1>3, <1>5, SetRow DEF Replaces
<1>. HIDE DEF g
<1>. QED BY <1>1, <1>6, <1>7, <1>8, RowDone DEF f

LEMMA StoryMeans ==
    ASSUME NEW v \in StoryValues
    PROVE  v \in 0..MaxHp /\ v \in Int
<1>1. StoryValues \subseteq 0..MaxHp /\ MaxHp \in Nat
  BY CombatAssumption, Params, Zenon DEF CombatAssumption
<1>. QED BY <1>1

LEMMA VitalityKeeps ==
    ASSUME Inv, NEW i \in Fighters, NEW v \in StoryValues, Vitality(i, v)
    PROVE  Advances
<1>. DEFINE f == Seen(i)
            r == f.rows[i]
            b == r.downed \/ v = 0
            q == [r EXCEPT !.hp = v, !.downed = b]
            g == [f EXCEPT !.rows[i] = q]
<1>1. Done([f EXCEPT !.rows[i].hp = v, !.rows[i].downed = @ \/ v = 0])
  BY Zenon DEF Vitality
<1>2. Sound(f)
  BY SeenSound
<1>. HIDE DEF f
<1>3. f \in States /\ f.rows \in [Fighters -> Rows] /\ r \in Rows /\ RowSound(r, i)
  BY <1>2, SoundMeans
<1>4. [f EXCEPT !.rows[i].hp = v, !.rows[i].downed = @ \/ v = 0] = g
  <2>. DEFINE k == [f EXCEPT !.rows[i].hp = v]
              s == [r EXCEPT !.hp = v]
  <2>1. k = [f EXCEPT !.rows[i] = s]
    OBVIOUS
  <2>2. k.rows[i] = s /\ \A w : [k EXCEPT !.rows[i] = w] = [f EXCEPT !.rows[i] = w]
    <3>. HIDE DEF k, s
    <3>. QED BY <1>3, <2>1 DEF States
  <2>3. [f EXCEPT !.rows[i].hp = v, !.rows[i].downed = @ \/ v = 0]
          = [k EXCEPT !.rows[i] = [k.rows[i] EXCEPT !.downed = k.rows[i].downed \/ v = 0]]
    OBVIOUS
  <2>4. [s EXCEPT !.downed = s.downed \/ v = 0] = q
    <3>. HIDE DEF r
    <3>. QED BY <1>3 DEF Rows
  <2>. HIDE DEF k, s, q
  <2>5. [k EXCEPT !.rows[i] = [k.rows[i] EXCEPT !.downed = k.rows[i].downed \/ v = 0]]
          = [k EXCEPT !.rows[i] = q]
    BY <2>2, <2>4
  <2>6. [k EXCEPT !.rows[i] = q] = g
    BY <2>2
  <2>. QED BY <2>3, <2>5, <2>6, Zenon
<1>5. Done(g)
  BY <1>1, <1>4, Zenon
<1>6. b \in BOOLEAN
  OBVIOUS
<1>7. /\ Replaces(r, q) /\ q.status = r.status /\ q.fadedHp = r.fadedHp /\ q.exposure = r.exposure
  <2>. HIDE DEF r, b
  <2>1. q \in Rows
    BY <1>3, <1>6, StoryMeans DEF Rows
  <2>. QED BY <1>3, <2>1 DEF Rows, Replaces
<1>. HIDE DEF q
<1>8. RowTouched(r, q, i) /\ RowStands(r, q)
  <2>1. (q.status = "faded") <=> (q.fadedHp # None)
    BY <1>3, <1>7 DEF RowSound
  <2>. QED BY <1>2, <1>7, <2>1, ReplacesTouches DEF RowStands
<1>9. /\ g \in States /\ g.rows = [f.rows EXCEPT ![i] = q] /\ g.exchanges = f.exchanges
      /\ SameClock(f, g)
  BY <1>3, <1>7, SetRow DEF Replaces
<1>. HIDE DEF g
<1>. QED BY <1>5, <1>8, <1>9, RowDone DEF f

LEMMA ReturnKeeps ==
    ASSUME Inv, NEW i \in Fighters, NEW v \in StoryValues, Return(i, v)
    PROVE  Advances
<1>. DEFINE f == Seen(i)
            r == f.rows[i]
            prior == IF r.fadedHp = None THEN r.hp ELSE r.fadedHp
            x == r.exposure + v - prior
            q == [r EXCEPT !.status = "active", !.hp = v, !.downed = FALSE,
                           !.recovering = FALSE, !.fadedHp = None, !.exposure = x]
            g == [f EXCEPT !.rows[i] = q]
<1>1. Done(g)
  BY Zenon DEF Return
<1>2. Sound(f)
  BY SeenSound
<1>. HIDE DEF f
<1>3. f \in States /\ r \in Rows /\ RowSound(r, i)
  BY <1>2, SoundMeans
<1>4. r.exposure \in Int /\ prior \in Int /\ x \in Int /\ v \in Int
  <2>1. MaxHp \in Nat /\ r.fadedHp \in (0..MaxHp) \cup {None} /\ r.hp \in Int /\ r.exposure \in Int
    BY <1>3, Params, RowFields
  <2>2. prior \in Int
    <3>1. r.fadedHp # None => r.fadedHp \in 0..MaxHp
      BY <2>1
    <3>. HIDE DEF r
    <3>. QED BY <2>1, <3>1
  <2>3. v \in Int
    BY StoryMeans
  <2>. HIDE DEF r, prior
  <2>. QED BY <2>1, <2>2, <2>3
<1>5. Standing(r) = prior - r.exposure
  BY <1>3 DEF Standing, RowSound
<1>. HIDE DEF prior
<1>6. /\ Replaces(r, q) /\ q.status = "active" /\ q.fadedHp = None /\ q.exposure = x /\ q.hp = v
  <2>. HIDE DEF r, x
  <2>1. q \in Rows
    BY <1>3, <1>4, StoryMeans DEF Rows
  <2>. QED BY <1>3, <2>1 DEF Rows, Replaces
<1>. HIDE DEF q
<1>7. RowTouched(r, q, i)
  BY <1>2, <1>6, ReplacesTouches
<1>8. RowStands(r, q)
  <2>1. Standing(q) = v - x
    BY <1>6 DEF Standing
  <2>2. x = r.exposure + v - prior
    OBVIOUS
  <2>. HIDE DEF r, x
  <2>3. Standing(q) <= Standing(r)
    BY <1>4, <1>5, <2>1, <2>2
  <2>. QED BY <2>3 DEF RowStands
<1>9. /\ g \in States /\ g.rows = [f.rows EXCEPT ![i] = q] /\ g.exchanges = f.exchanges
      /\ SameClock(f, g)
  BY <1>3, <1>6, SetRow DEF Replaces
<1>. HIDE DEF g
<1>. QED BY <1>1, <1>7, <1>8, <1>9, RowDone DEF f

-----------------------------------------------------------------------------
(***************************************************************************)
(* What the table agrees on, and what nobody in the fight does.            *)
(***************************************************************************)
LEMMA TableDone ==
    ASSUME Inv, NEW h, SameTable(fight, h), Done(h)
    PROVE  Advances
<1>1. Sound(fight)
  BY DEF Inv
<1>2. Sound(h) /\ Settles(fight, h)
  BY <1>1, SameTableSound
<1>3. Moves(fight, h)
  BY <1>1, <1>2, UnfoldsMoves DEF Settles
<1>4. PICK luck : Executed(h, luck)
  BY DEF Done
<1>. QED BY <1>2, <1>3, <1>4, ExecutedKeeps

LEMMA PausedIs ==
    ASSUME NEW f \in States, NEW b \in BOOLEAN
    PROVE  SameTable(f, [f EXCEPT !.paused = b]) /\ SameTable(f, [f EXCEPT !.ended = b])
BY DEF States, SameTable

LEMMA CommittedKeeps ==
    ASSUME Inv, NEW h, Well(fight, h), NEW close \in {"open", "shelved"}, Commit(h, close),
           Journal(Append(journal, fight))
    PROVE  Advances
<1>1. Sound(fight) /\ Kept(Append(journal, fight)) /\ Sound(h) /\ Calm(h) /\ Unfolds(fight, h)
  BY KeptOnes DEF Inv, Well
<1>2. Moves(fight, h)
  BY <1>1, UnfoldsMoves
<1>3. fight.epoch <= h.epoch
  <2>1. fight.epoch \in Int
    BY <1>1, SoundMeans, StateFields, Params
  <2>. QED BY <1>2, <2>1 DEF Moves
<1>4. Inv' /\ fight' = h
  BY <1>1, <1>3, CommitKeeps
<1>. QED BY <1>2, <1>4 DEF Advances

LEMMA UnshelveKeeps ==
    ASSUME Inv, Unshelve
    PROVE  Advances
<1>1. /\ status' = "open" /\ marker' = Synchronized(fight, TRUE) /\ fight' = fight /\ there' = there
      /\ Journal(Append(journal, fight))
  BY DEF Unshelve
<1>2. marker' \in [Fighters -> {"here", "there", None}]
  <2>1. marker \in [Fighters -> {"here", "there", None}]
    BY DEF Inv
  <2>2. marker' = [i \in Fighters |->
           IF TRUE /\ ~fight.ended /\ fight.rows[i].status = "active" THEN "here"
           ELSE IF marker[i] = "here" THEN None ELSE marker[i]]
    BY <1>1 DEF Synchronized
  <2>. QED BY <2>1, <2>2
<1>3. /\ journal' \in Seq(States) /\ Len(journal') <= Depth
      /\ \A k \in DOMAIN journal' :
            Sound(journal'[k]) /\ Calm(journal'[k]) /\ journal'[k].epoch <= fight.epoch
  BY <1>1, KeptOnes, JournalKept
<1>4. Inv'
  BY <1>1, <1>2, <1>3 DEF Inv
<1>5. Moves(fight, fight')
  BY <1>1, MovesSelf DEF Inv
<1>. QED BY <1>4, <1>5 DEF Advances

LEMMA TableKeeps ==
    ASSUME Inv, Table
    PROVE  Advances
<1>0. fight \in States /\ Sound(fight) /\ Calm(fight)
  BY SoundMeans DEF Inv
<1>1. CASE Pause
  BY <1>0, <1>1, PausedIs, TableDone DEF Pause
<1>2. CASE Resume
  BY <1>0, <1>2, PausedIs, TableDone DEF Resume
<1>3. CASE End
  BY <1>0, <1>3, PausedIs, TableDone DEF End
<1>4. CASE Shelve
  <2>1. PICK luck : /\ Shelved(fight, luck).ok /\ Commit(Shelved(fight, luck).f, "shelved")
                    /\ Journal(Append(journal, fight))
    BY <1>4 DEF Shelve
  <2>2. Well(fight, Shelved(fight, luck).f)
    BY <1>0, <2>1, ShelvedFrees
  <2>. QED BY <2>1, <2>2, CommittedKeeps
<1>5. CASE Unshelve
  BY <1>5, UnshelveKeeps
<1>. QED BY <1>1, <1>2, <1>3, <1>4, <1>5 DEF Table

LEMMA MaintainKeeps ==
    ASSUME Inv, NEW gone, Maintain(gone)
    PROVE  Advances
<1>0. Sound(fight) /\ Calm(fight)
  BY DEF Inv
<1>1. PICK luck : Commit(Swept(fight, gone, luck).f, "open") /\ Journal(Append(journal, fight))
  BY DEF Maintain
<1>2. Well(fight, Swept(fight, gone, luck).f)
  BY <1>0, SweptFrees
<1>. QED BY <1>1, <1>2, CommittedKeeps

-----------------------------------------------------------------------------
(***************************************************************************)
(* The rollback: a restored state under the names of a new epoch.          *)
(***************************************************************************)
Now(n, x) == IF x = None THEN None ELSE <<n, x[2]>>
NowToken(n, t) == [id |-> Now(n, t.id), hit |-> t.hit]
NowQueue(n, s) == [k \in DOMAIN s |-> NowToken(n, s[k])]
NowRow(n, r) == [r EXCEPT !.outgoing = Now(n, r.outgoing), !.incoming = NowQueue(n, r.incoming)]

\* d is the book of f, under the names of epoch n.
Rebound(f, n, d) ==
    /\ d = [x \in {Now(n, y) : y \in DOMAIN f.exchanges} |-> d[x]]
    /\ \A y \in DOMAIN f.exchanges : d[Now(n, y)] = [f.exchanges[y] EXCEPT !.id = Now(n, y)]

LEMMA NowMeans ==
    ASSUME NEW f, Sound(f), NEW n \in 1..MaxEpoch
    PROVE  /\ \A y \in DOMAIN f.exchanges : Now(n, y) \in Ids /\ Now(n, y)[1] = n /\ Now(n, y)[2] = y[2]
           /\ \A y, z \in DOMAIN f.exchanges : Now(n, y) = Now(n, z) => y = z
           /\ Now(n, None) = None
<1>1. ASSUME NEW y \in DOMAIN f.exchanges
      PROVE  /\ y = <<f.epoch, y[2]>> /\ Now(n, y) = <<n, y[2]>> /\ Now(n, y) \in Ids
  <2>1. y \in Ids /\ None \notin Ids /\ y[1] = f.epoch
    BY SoundMeans, Params DEF Tied
  <2>2. y = <<y[1], y[2]>> /\ y[2] \in 1..MaxExchange
    BY <2>1 DEF Ids
  <2>3. Now(n, y) = <<n, y[2]>>
    BY <2>1 DEF Now
  <2>4. <<n, y[2]>> \in Ids
    BY <2>2 DEF Ids
  <2>. QED BY <2>1, <2>2, <2>3, <2>4
<1>2. \A y, z \in DOMAIN f.exchanges : Now(n, y) = Now(n, z) => y = z
  <2>1. ASSUME NEW y \in DOMAIN f.exchanges, NEW z \in DOMAIN f.exchanges, Now(n, y) = Now(n, z)
        PROVE  y = z
    <3>1. <<n, y[2]>> = <<n, z[2]>>
      BY <1>1, <2>1
    <3>2. y[2] = z[2]
      BY <3>1
    <3>3. y = <<f.epoch, y[2]>> /\ z = <<f.epoch, z[2]>>
      BY <1>1
    <3>. QED BY <3>2, <3>3, Zenon
  <2>. QED BY <2>1
<1>3. ASSUME NEW y \in DOMAIN f.exchanges PROVE Now(n, y)[1] = n /\ Now(n, y)[2] = y[2]
  BY <1>1
<1>. QED BY <1>1, <1>2, <1>3 DEF Now

\* Of a queue whose packets keep their hits, and whose names stay apart.
LEMMA NowQueueMeans ==
    ASSUME NEW n, NEW s \in Seq(Tokens), IsInjective(s),
           \A t \in ToSet(s) : Now(n, t.id) \in Ids,
           \A t, u \in ToSet(s) : Now(n, t.id) = Now(n, u.id) => t.id = u.id
    PROVE  /\ NowQueue(n, s) \in Seq(Tokens) /\ IsInjective(NowQueue(n, s))
           /\ ToSet(NowQueue(n, s)) = {NowToken(n, t) : t \in ToSet(s)}
<1>. DEFINE q == NowQueue(n, s)
<1>1. DOMAIN s = 1..Len(s) /\ Len(s) \in Nat /\ \A k \in 1..Len(s) : s[k] \in Tokens /\ s[k] \in ToSet(s)
  BY DEF ToSet
<1>2. \A t \in ToSet(s) : NowToken(n, t) \in Tokens
  <2>1. ASSUME NEW t \in ToSet(s) PROVE NowToken(n, t) \in Tokens
    <3>1. t \in Tokens /\ Now(n, t.id) \in Ids
      BY <1>1, <2>1 DEF ToSet
    <3>. QED BY <3>1 DEF NowToken, Tokens
  <2>. QED BY <2>1
<1>3. q = [k \in 1..Len(s) |-> NowToken(n, s[k])]
  BY <1>1 DEF NowQueue
<1>. HIDE DEF q
<1>4. q \in Seq(Tokens) /\ DOMAIN q = 1..Len(s) /\ \A k \in 1..Len(s) : q[k] = NowToken(n, s[k])
  <2>1. \A k \in 1..Len(s) : NowToken(n, s[k]) \in Tokens
    BY <1>1, <1>2
  <2>. QED BY <1>1, <1>3, <2>1
<1>5. IsInjective(q)
  <2>. SUFFICES ASSUME NEW a \in 1..Len(s), NEW b \in 1..Len(s), q[a] = q[b] PROVE a = b
    BY <1>4, Zenon DEF IsInjective
  <2>1. s[a] \in Tokens /\ s[b] \in Tokens /\ s[a] \in ToSet(s) /\ s[b] \in ToSet(s)
    BY <1>1
  <2>2. NowToken(n, s[a]) = NowToken(n, s[b])
    BY <1>4
  <2>3. Now(n, s[a].id) = Now(n, s[b].id) /\ s[a].hit = s[b].hit
    BY <2>2 DEF NowToken
  <2>4. s[a] = s[b]
    BY <2>1, <2>3 DEF Tokens
  <2>. QED BY <1>1, <2>4, Zenon DEF IsInjective
<1>6. ToSet(q) = {NowToken(n, t) : t \in ToSet(s)}
  BY <1>1, <1>4 DEF ToSet
<1>. QED BY <1>4, <1>5, <1>6 DEF q

LEMMA ReboundMeans ==
    ASSUME NEW f, Sound(f), NEW n \in 1..MaxEpoch, NEW d, Rebound(f, n, d)
    PROVE  /\ d \in Books
           /\ \A y \in DOMAIN f.exchanges :
                 LET e == f.exchanges[y]
                     v == d[Now(n, y)]
                 IN  /\ Now(n, y) \in DOMAIN d /\ v \in Exchanges /\ v.id = Now(n, y)
                     /\ v.actor = e.actor /\ v.targets = e.targets /\ v.burst = e.burst
                     /\ v.revival = e.revival /\ v.hit = e.hit /\ v.reactions = e.reactions
                     /\ v.canceled = e.canceled /\ v.resolved = e.resolved /\ v.phase = e.phase
           /\ \A x \in DOMAIN d : \E y \in DOMAIN f.exchanges : x = Now(n, y)
<1>1. ASSUME NEW y \in DOMAIN f.exchanges, NEW e, e = f.exchanges[y], NEW v, v = d[Now(n, y)]
      PROVE  /\ Now(n, y) \in DOMAIN d /\ v \in Exchanges /\ v.id = Now(n, y)
             /\ v.actor = e.actor /\ v.targets = e.targets /\ v.burst = e.burst
             /\ v.revival = e.revival /\ v.hit = e.hit /\ v.reactions = e.reactions
             /\ v.canceled = e.canceled /\ v.resolved = e.resolved /\ v.phase = e.phase
  <2>0. DOMAIN d = {Now(n, z) : z \in DOMAIN f.exchanges}
    BY DEF Rebound
  <2>1. Now(n, y) \in DOMAIN d /\ v = [e EXCEPT !.id = Now(n, y)]
    BY <1>1, <2>0 DEF Rebound
  <2>2. Now(n, y) \in Ids /\ e \in Exchanges
    BY <1>1, NowMeans, SoundMeans
  <2>. QED BY <2>1, <2>2 DEF Exchanges
<1>2. \A x \in DOMAIN d : \E y \in DOMAIN f.exchanges : x = Now(n, y)
  <2>1. DOMAIN d = {Now(n, y) : y \in DOMAIN f.exchanges}
    BY DEF Rebound
  <2>. QED BY <2>1
<1>3. d \in Books
  <2>1. DOMAIN d \in SUBSET Ids
    BY <1>2, NowMeans
  <2>2. \A x \in DOMAIN d : d[x] \in Exchanges
    BY <1>1, <1>2
  <2>3. d = [x \in DOMAIN d |-> d[x]]
    BY DEF Rebound
  <2>. QED BY <2>1, <2>2, <2>3, BookIs
<1>. QED BY <1>1, <1>2, <1>3

LEMMA RenamedIs ==
    ASSUME NEW f, Sound(f), NEW n \in 1..MaxEpoch
    PROVE  \E d : /\ Rebound(f, n, d)
                  /\ Renamed(f, n) = [f EXCEPT !.epoch = n, !.exchanges = d,
                                               !.rows = [i \in Fighters |-> NowRow(n, f.rows[i])]]
<1>. DEFINE D == DOMAIN f.exchanges
            was == [x \in {Now(n, y) : y \in D} |-> CHOOSE y \in D : Now(n, y) = x]
            d == [x \in DOMAIN was |-> [f.exchanges[was[x]] EXCEPT !.id = x]]
            rows == [i \in Fighters |-> NowRow(n, f.rows[i])]
<1>1. Renamed(f, n) = [f EXCEPT !.epoch = n, !.exchanges = d, !.rows = rows]
  BY Zenon DEF Renamed, Now, NowRow, NowQueue, NowToken
<1>2. DOMAIN was = {Now(n, y) : y \in D} /\ \A y \in D : was[Now(n, y)] = y
  <2>1. ASSUME NEW y \in D PROVE was[Now(n, y)] = y
    <3>1. was[Now(n, y)] = CHOOSE z \in D : Now(n, z) = Now(n, y)
      OBVIOUS
    <3>2. \A z \in D : Now(n, z) = Now(n, y) => z = y
      BY NowMeans
    <3>. HIDE DEF was, D
    <3>. QED BY <3>1, <3>2
  <2>2. DOMAIN was = {Now(n, y) : y \in D}
    OBVIOUS
  <2>. QED BY <2>1, <2>2
<1>. HIDE DEF was
<1>3. Rebound(f, n, d)
  <2>1. d = [x \in {Now(n, y) : y \in D} |-> d[x]]
    <3>1. DOMAIN d = {Now(n, y) : y \in D} /\ d = [x \in DOMAIN d |-> d[x]]
      BY <1>2
    <3>. HIDE DEF d
    <3>. QED BY <3>1, Zenon
  <2>2. ASSUME NEW y \in D PROVE d[Now(n, y)] = [f.exchanges[y] EXCEPT !.id = Now(n, y)]
    <3>1. Now(n, y) \in DOMAIN was /\ was[Now(n, y)] = y
      BY <1>2
    <3>. QED BY <3>1
  <2>. HIDE DEF d
  <2>. QED BY <2>1, <2>2 DEF Rebound
<1>. HIDE DEF d
<1>. QED BY <1>1, <1>3, Zenon

LEMMA NowRowMeans ==
    ASSUME NEW f, Sound(f), NEW n \in 1..MaxEpoch, NEW i \in Fighters, NEW q,
           q = NowRow(n, f.rows[i])
    PROVE  /\ q \in Rows /\ RowSound(q, i) /\ q.outgoing = Now(n, f.rows[i].outgoing)
           /\ q.outgoing # None => f.rows[i].outgoing # None
           /\ ToSet(q.incoming) = {NowToken(n, t) : t \in Waiting(f, i)}
           /\ q.left = f.rows[i].left /\ q.hp = f.rows[i].hp
<1>. DEFINE r == f.rows[i]
            s == NowQueue(n, r.incoming)
            o == Now(n, r.outgoing)
<1>1. r \in Rows /\ RowSound(r, i) /\ r.incoming \in Seq(Tokens) /\ QueueSound(f, i)
      /\ Waiting(f, i) = ToSet(r.incoming)
  BY SoundMeans, RowFields DEF Waiting
<1>2. \A t \in ToSet(r.incoming) : t.id \in DOMAIN f.exchanges
  <2>1. ASSUME NEW t \in ToSet(r.incoming) PROVE t.id \in DOMAIN f.exchanges
    <3>1. t \in Tokens
      BY <1>1 DEF ToSet
    <3>2. Awaits(f, i, t)
      BY <1>1, <3>1 DEF QueueSound
    <3>. QED BY <3>2 DEF Awaits
  <2>. QED BY <2>1
<1>3. o \in Ids \cup {None} /\ (o # None => r.outgoing # None)
  <2>1. CASE r.outgoing = None
    BY <2>1 DEF Now
  <2>2. CASE r.outgoing # None
    <3>1. r.outgoing \in DOMAIN f.exchanges
      BY <1>1, <2>2 DEF QueueSound
    <3>. QED BY <2>2, <3>1, NowMeans
  <2>. QED BY <2>1, <2>2
<1>4. /\ s \in Seq(Tokens) /\ IsInjective(s)
      /\ ToSet(s) = {NowToken(n, t) : t \in ToSet(r.incoming)}
  <2>1. \A t \in ToSet(r.incoming) : Now(n, t.id) \in Ids
    BY <1>2, NowMeans
  <2>2. \A t, u \in ToSet(r.incoming) : Now(n, t.id) = Now(n, u.id) => t.id = u.id
    BY <1>2, NowMeans
  <2>3. IsInjective(r.incoming)
    BY <1>1 DEF RowSound
  <2>. HIDE DEF r
  <2>. QED BY <1>1, <2>1, <2>2, <2>3, NowQueueMeans
<1>5. q = [r EXCEPT !.outgoing = o, !.incoming = s]
  BY DEF NowRow
<1>. HIDE DEF s, o
<1>6. /\ q \in Rows /\ q.outgoing = o /\ q.incoming = s /\ q.left = r.left /\ q.hp = r.hp
      /\ q.status = r.status /\ q.fadedHp = r.fadedHp /\ q.turns = r.turns
  <2>. HIDE DEF r
  <2>. QED BY <1>1, <1>3, <1>4, <1>5 DEF Rows
<1>7. RowSound(q, i)
  BY <1>1, <1>3, <1>4, <1>6 DEF RowSound
<1>. QED BY <1>1, <1>3, <1>4, <1>6, <1>7 DEF o

LEMMA RenamedSound ==
    ASSUME NEW f, Sound(f), Calm(f), NEW n \in 1..MaxEpoch
    PROVE  Sound(Renamed(f, n)) /\ Calm(Renamed(f, n)) /\ Renamed(f, n).epoch = n
<1>. DEFINE rows == [i \in Fighters |-> NowRow(n, f.rows[i])]
            g == Renamed(f, n)
<1>1. PICK d : Rebound(f, n, d) /\ g = [f EXCEPT !.epoch = n, !.exchanges = d, !.rows = rows]
  BY RenamedIs
<1>2. /\ f \in States /\ f.rows \in [Fighters -> Rows] /\ DOMAIN f.exchanges \subseteq Ids
      /\ None \notin Ids
  BY SoundMeans, Params
<1>3. ASSUME NEW i \in Fighters
      PROVE  /\ rows[i] \in Rows /\ RowSound(rows[i], i)
             /\ rows[i].outgoing = Now(n, f.rows[i].outgoing)
             /\ rows[i].outgoing # None => f.rows[i].outgoing # None
             /\ ToSet(rows[i].incoming) = {NowToken(n, t) : t \in Waiting(f, i)}
             /\ rows[i].left = f.rows[i].left /\ rows[i].hp = f.rows[i].hp
  <2>1. rows[i] = NowRow(n, f.rows[i])
    OBVIOUS
  <2>. HIDE DEF rows
  <2>. QED BY <2>1, NowRowMeans
<1>4. rows \in [Fighters -> Rows]
  <2>1. \A i \in Fighters : NowRow(n, f.rows[i]) \in Rows
    BY NowRowMeans
  <2>. QED BY <2>1
<1>. HIDE DEF rows, g
<1>5. d \in Books /\ \A x \in DOMAIN d : \E y \in DOMAIN f.exchanges : x = Now(n, y)
  BY <1>1, ReboundMeans
<1>6. ASSUME NEW y \in DOMAIN f.exchanges, NEW e, e = f.exchanges[y], NEW v, v = d[Now(n, y)]
      PROVE  /\ Now(n, y) \in DOMAIN d /\ v \in Exchanges /\ v.id = Now(n, y)
             /\ v.actor = e.actor /\ v.targets = e.targets /\ v.burst = e.burst
             /\ v.revival = e.revival /\ v.hit = e.hit /\ v.reactions = e.reactions
             /\ v.canceled = e.canceled /\ v.resolved = e.resolved /\ v.phase = e.phase
  BY <1>1, <1>6, ReboundMeans
<1>7. /\ g \in States /\ g.rows = rows /\ g.exchanges = d /\ g.epoch = n /\ g.next = f.next
  BY <1>1, <1>2, <1>4, <1>5 DEF States
<1>8. ASSUME NEW x \in DOMAIN g.exchanges PROVE BookSound(g.exchanges[x]) /\ Tied(g, x)
  <2>1. PICK y \in DOMAIN f.exchanges : x = Now(n, y)
    BY <1>5, <1>7
  <2>. DEFINE e == f.exchanges[y]
              v == d[Now(n, y)]
  <2>2. /\ v \in Exchanges /\ v.id = x /\ v.actor = e.actor /\ v.targets = e.targets
        /\ v.burst = e.burst /\ v.revival = e.revival /\ v.hit = e.hit
        /\ v.reactions = e.reactions /\ v.canceled = e.canceled /\ v.resolved = e.resolved
        /\ v.phase = e.phase
    BY <1>6, <2>1
  <2>3. BookSound(e) /\ Tied(f, y) /\ e \in Exchanges
    BY SoundMeans
  <2>4. g.exchanges[x] = v
    BY <1>7, <2>1
  <2>. HIDE DEF v
  <2>5. BookSound(v)
    <3>1. Owing(v) = Owing(e)
      BY <2>2, Zenon DEF Owing
    <3>. HIDE DEF e
    <3>. QED BY <2>2, <2>3, <3>1 DEF BookSound
  <2>6. /\ f.rows[e.actor].outgoing = y /\ y[2] < f.next
        /\ Cardinality(e.targets) <= f.rows[e.actor].left /\ e.actor \in Fighters
    BY <2>3 DEF Tied, Exchanges
  <2>7. x[1] = n /\ x[2] = y[2]
    BY <2>1, NowMeans
  <2>8. g.rows[e.actor].outgoing = x /\ g.rows[e.actor].left = f.rows[e.actor].left
    BY <1>3, <1>7, <2>1, <2>6
  <2>. HIDE DEF e
  <2>9. Tied(g, x)
    BY <1>7, <2>2, <2>4, <2>6, <2>7, <2>8 DEF Tied
  <2>. QED BY <2>4, <2>5, <2>9
\* A packet of a new name, and the one it had.
<1>9. ASSUME NEW i \in Fighters, NEW u \in Tokens, NEW y \in DOMAIN f.exchanges,
             u.id = Now(n, y), NEW t, t = [id |-> y, hit |-> u.hit]
      PROVE  t \in Tokens /\ NowToken(n, t) = u /\ (Awaits(g, i, u) <=> Awaits(f, i, t))
  <2>1. t \in Tokens /\ t.id = y /\ t.hit = u.hit
    BY <1>2, <1>9 DEF Tokens
  <2>2. NowToken(n, t) = u
    BY <1>9, <2>1 DEF NowToken, Tokens
  <2>3. Awaits(g, i, u) <=> Awaits(f, i, t)
    <3>. DEFINE e == f.exchanges[y]
                v == d[Now(n, y)]
    <3>1. /\ Now(n, y) \in DOMAIN d /\ v.phase = e.phase /\ v.hit = e.hit
          /\ v.targets = e.targets /\ v.canceled = e.canceled
      BY <1>6
    <3>2. u.id \in DOMAIN g.exchanges /\ g.exchanges[u.id] = v
      BY <1>7, <1>9, <3>1
    <3>. HIDE DEF v
    <3>. QED BY <2>1, <3>1, <3>2 DEF Awaits
  <2>. QED BY <2>1, <2>2, <2>3
<1>10. ASSUME NEW i \in Fighters, NEW u \in Waiting(g, i)
       PROVE  \E t \in Waiting(f, i) :
                 /\ t \in Tokens /\ u \in Tokens /\ u = NowToken(n, t) /\ t.id \in DOMAIN f.exchanges
                 /\ u.id = Now(n, t.id) /\ u.hit = t.hit
  <2>1. g.rows[i].incoming \in Seq(Tokens) /\ f.rows[i].incoming \in Seq(Tokens)
    BY <1>2, <1>3, <1>7, RowFields
  <2>2. PICK t \in Waiting(f, i) : u = NowToken(n, t)
    BY <1>3, <1>7 DEF Waiting
  <2>3. u \in Tokens /\ t \in Tokens
    BY <2>1 DEF Waiting, ToSet
  <2>4. Awaits(f, i, t)
    BY <2>3, SoundMeans DEF QueueSound
  <2>5. u.id = Now(n, t.id) /\ u.hit = t.hit
    BY <2>2 DEF NowToken
  <2>. QED BY <2>2, <2>3, <2>4, <2>5 DEF Awaits
<1>11. ASSUME NEW i \in Fighters PROVE QueueSound(g, i)
  <2>1. ASSUME NEW u \in Tokens, u \in Waiting(g, i) PROVE Awaits(g, i, u)
    <3>1. PICK t \in Waiting(f, i) :
             /\ t \in Tokens /\ t.id \in DOMAIN f.exchanges
             /\ u.id = Now(n, t.id) /\ u.hit = t.hit
      BY <1>10, <2>1
    <3>2. t = [id |-> t.id, hit |-> u.hit]
      BY <3>1 DEF Tokens
    <3>3. Awaits(f, i, t)
      BY <3>1, SoundMeans DEF QueueSound
    <3>. QED BY <1>9, <3>1, <3>2, <3>3
  <2>2. ASSUME NEW u \in Tokens, Awaits(g, i, u) PROVE u \in Waiting(g, i)
    <3>1. u.id \in DOMAIN d
      BY <1>7, <2>2 DEF Awaits
    <3>2. PICK y \in DOMAIN f.exchanges : u.id = Now(n, y)
      BY <1>5, <3>1
    <3>. DEFINE t == [id |-> y, hit |-> u.hit]
    <3>3. t \in Tokens /\ NowToken(n, t) = u /\ Awaits(f, i, t)
      BY <1>9, <2>2, <3>2
    <3>. HIDE DEF t
    <3>4. t \in Waiting(f, i)
      BY <3>3, SoundMeans DEF QueueSound
    <3>5. Waiting(g, i) = {NowToken(n, w) : w \in Waiting(f, i)}
      BY <1>3, <1>7 DEF Waiting
    <3>. QED BY <3>3, <3>4, <3>5
  <2>3. ASSUME g.rows[i].outgoing # None
        PROVE  /\ g.rows[i].outgoing \in DOMAIN g.exchanges
               /\ g.exchanges[g.rows[i].outgoing].actor = i
    <3>. DEFINE y == f.rows[i].outgoing
    <3>1. y # None /\ g.rows[i].outgoing = Now(n, y)
      BY <1>3, <1>7, <2>3
    <3>2. y \in DOMAIN f.exchanges /\ f.exchanges[y].actor = i
      BY <3>1, OutgoingIs
    <3>. HIDE DEF y
    <3>3. Now(n, y) \in DOMAIN d /\ d[Now(n, y)].actor = i
      BY <1>6, <3>2
    <3>. QED BY <1>7, <3>1, <3>3
  <2>. QED BY <2>1, <2>2, <2>3 DEF QueueSound
<1>12. Sound(g)
  BY <1>3, <1>7, <1>8, <1>11 DEF Sound
<1>13. Calm(g)
  <2>1. ASSUME NEW i \in Fighters, NEW u \in Voidable(g, i) PROVE FALSE
    <3>1. u \in Waiting(g, i) /\ Live(g, u) /\ ~Answered(g, i, u) /\ g.rows[i].hp = 0
          /\ ~g.exchanges[u.id].revival
      BY DEF Voidable, Unanswered, Waiting
    <3>2. PICK t \in Waiting(f, i) : /\ t.id \in DOMAIN f.exchanges
                                     /\ u.id = Now(n, t.id) /\ u.hit = t.hit
      BY <1>10, <3>1
    <3>. DEFINE e == f.exchanges[t.id]
                v == d[u.id]
    <3>3. /\ v.phase = e.phase /\ v.hit = e.hit /\ v.reactions = e.reactions
          /\ v.revival = e.revival
      BY <1>6, <3>2
    <3>4. g.exchanges[u.id] = v
      BY <1>7
    <3>. HIDE DEF v
    <3>5. Live(f, t)
      <4>1. t.id[1] = f.epoch
        BY <3>2, SoundMeans DEF Tied
      <4>. QED BY <3>1, <3>2, <3>3, <3>4, <4>1 DEF Live
    <3>6. ~Answered(f, i, t) /\ ~e.revival /\ f.rows[i].hp = 0
      BY <1>3, <1>7, <3>1, <3>3, <3>4 DEF Answered
    <3>7. t \in Voidable(f, i)
      BY <3>5, <3>6 DEF Voidable, Unanswered, Waiting
    <3>. QED BY <3>7 DEF Calm, Cornered
  <2>. QED BY <2>1 DEF Calm, Cornered
<1>. QED BY <1>7, <1>12, <1>13 DEF g

LEMMA RollbackKeeps ==
    ASSUME Inv, NEW k \in DOMAIN journal, NEW reconciles \in BOOLEAN, Rollback(k, reconciles)
    PROVE  Advances
<1>. DEFINE n == fight.epoch + 1
            f == journal[k]
            g == Renamed(f, n)
            b == g.paused \/ reconciles
            h == [g EXCEPT !.paused = b]
            entries == Append(SubSeq(journal, 1, k - 1), fight)
<1>1. fight.epoch < MaxEpoch /\ Commit(h, "open") /\ Journal(entries)
  <2>1. /\ fight.epoch < MaxEpoch /\ Journal(entries)
        /\ Commit([g EXCEPT !.paused = @ \/ reconciles], "open")
    BY Zenon DEF Rollback
  <2>. HIDE DEF g
  <2>. QED BY <2>1
<1>2. /\ fight \in States /\ fight.epoch \in 1..MaxEpoch /\ MaxEpoch \in Nat
  BY SoundMeans, StateFields, Params DEF Inv
<1>3. n \in 1..MaxEpoch /\ fight.epoch < n /\ fight.epoch <= n
  BY <1>1, <1>2
<1>4. Sound(f) /\ Calm(f) /\ Kept(entries)
  BY KeptOnes DEF Inv
<1>. HIDE DEF f, n, entries
<1>5. Sound(g) /\ Calm(g) /\ g.epoch = n
  BY <1>3, <1>4, RenamedSound
<1>. HIDE DEF g
<1>6. b \in BOOLEAN
  OBVIOUS
<1>. HIDE DEF b
<1>7. SameTable(g, h)
  BY <1>5, <1>6, SoundMeans, PausedIs
<1>. HIDE DEF h
<1>8. Sound(h) /\ Calm(h) /\ h.epoch = n
  BY <1>5, <1>7, SameTableSound DEF SameTable
<1>9. Inv' /\ fight' = h
  BY <1>1, <1>3, <1>4, <1>8, CommitKeeps
<1>. QED BY <1>3, <1>8, <1>9 DEF Advances

-----------------------------------------------------------------------------
(***************************************************************************)
(* The inductive invariant: what holds at the start, and after any step.   *)
(***************************************************************************)
LEMMA InitInv ==
    ASSUME Init
    PROVE  Inv
<1>. DEFINE none == <<>>
<1>1. fight = NewFight /\ status = "open" /\ journal = <<>> /\ there = {}
      /\ marker = [i \in Fighters |-> "here"]
  BY DEF Init
<1>2. none \in Seq(Tokens) /\ ToSet(none) = {} /\ IsInjective(none) /\ DOMAIN none = {}
  BY DEF ToSet, IsInjective
<1>3. none \in Books
  <2>1. none \in [{} -> Exchanges] /\ {} \in SUBSET Ids
    OBVIOUS
  <2>. QED BY <2>1 DEF Books
<1>. HIDE DEF none
<1>4. ASSUME NEW i \in Fighters, NEW r, r = NewRow(i)
      PROVE  r \in Rows /\ RowSound(r, i) /\ r.outgoing = None /\ r.incoming = none /\ r.hp = MaxHp
  <2>1. r = [status |-> "active", hp |-> MaxHp, downed |-> FALSE, recovering |-> FALSE,
             turns |-> 0, left |-> Allowance[i], incoming |-> none, outgoing |-> None,
             absent |-> FALSE, fadedHp |-> None, exposure |-> MaxHp]
    BY <1>4 DEF NewRow, none
  <2>2. /\ Allowance[i] \in 1..10 /\ MaxHp \in 0..MaxHp /\ MaxHp \in Int /\ 0 \in 0..TurnLimit
        /\ Allowance[i] <= Allowance[i]
    BY Params
  <2>3. r \in Rows
    BY <1>2, <2>1, <2>2 DEF Rows
  <2>4. RowSound(r, i)
    BY <1>2, <2>1, <2>2 DEF RowSound
  <2>. QED BY <2>1, <2>3, <2>4
<1>5. /\ fight.rows = [i \in Fighters |-> NewRow(i)] /\ fight.exchanges = none
      /\ fight.epoch = 1 /\ fight \in States
  <2>. DEFINE rows == [i \in Fighters |-> NewRow(i)]
  <2>1. rows \in [Fighters -> Rows]
    BY <1>4
  <2>2. fight = [rows |-> rows, exchanges |-> none, epoch |-> 1,
                 next |-> 1, started |-> FALSE, paused |-> FALSE, ended |-> FALSE]
    BY <1>1 DEF NewFight, none
  <2>. HIDE DEF rows
  <2>3. 1 \in 1..MaxEpoch /\ 1 \in 1..(MaxExchange + 1)
    BY Params
  <2>4. fight \in States /\ fight.rows = rows /\ fight.exchanges = none /\ fight.epoch = 1
    BY <1>3, <2>1, <2>2, <2>3 DEF States
  <2>. QED BY <2>4 DEF rows
<1>6. ASSUME NEW i \in Fighters
      PROVE  /\ RowSound(fight.rows[i], i) /\ QueueSound(fight, i) /\ Waiting(fight, i) = {}
  <2>1. RowSound(fight.rows[i], i) /\ fight.rows[i].outgoing = None /\ fight.rows[i].incoming = none
    BY <1>4, <1>5
  <2>2. Waiting(fight, i) = {}
    BY <1>2, <2>1 DEF Waiting
  <2>3. QueueSound(fight, i)
    BY <1>2, <1>5, <2>1, <2>2 DEF QueueSound, Awaits
  <2>. QED BY <2>1, <2>2, <2>3
<1>7. Sound(fight)
  BY <1>2, <1>5, <1>6 DEF Sound
<1>8. Calm(fight)
  BY <1>6 DEF Calm, Cornered, Voidable, Unanswered, Waiting
<1>9. journal \in Seq(States) /\ Len(journal) <= Depth /\ DOMAIN journal = {}
  BY <1>1, Params
<1>. QED BY <1>1, <1>7, <1>8, <1>9 DEF Inv

LEMMA NextAdvances ==
    ASSUME Inv, Next
    PROVE  Advances
<1>1. ASSUME NEW i \in Fighters, Declares(i) PROVE Advances
  <2>1. CASE \E targets \in Targets(i), burst \in BOOLEAN : Attack(i, targets, burst)
    BY <2>1, AttackKeeps DEF Targets
  <2>2. CASE \E targets \in Targets(i) : \E healed \in SUBSET targets : Support(i, targets, healed)
    BY <2>2, SupportKeeps DEF Targets
  <2>3. CASE \E j \in Fighters : OfferRevival(i, j)
    BY <2>3, OfferRevivalKeeps
  <2>. QED BY <1>1, <2>1, <2>2, <2>3 DEF Declares
<1>2. ASSUME NEW i \in Fighters, Answers(i) PROVE Advances
  <2>1. PICK t \in Queue(i) : \/ \E kind \in Kinds : React(i, t, kind)
                              \/ CancelIncoming(i, t)
                              \/ AcceptRevival(i, t)
    BY <1>2 DEF Answers
  <2>. QED BY <2>1, ReactKeeps, CancelIncomingKeeps, AcceptRevivalKeeps
<1>3. ASSUME NEW i \in Fighters, Covers(i) PROVE Advances
  <2>1. PICK j \in Fighters, kind \in Kinds : j # i /\ \E t \in Queue(j) : Cover(i, j, t, kind)
    BY <1>3 DEF Covers
  <2>. QED BY <2>1, CoverKeeps
<1>4. ASSUME NEW i \in Fighters, GoesOn(i) PROVE Advances
  BY <1>4, PressKeeps, StopKeeps, PassKeeps, RetractKeeps DEF GoesOn
<1>5. ASSUME NEW i \in Fighters, Leaves(i) PROVE Advances
  BY <1>5, FadeKeeps, WithdrawKeeps DEF Leaves
<1>6. ASSUME NEW i \in Fighters, Returns(i) PROVE Advances
  BY <1>6, RejoinKeeps, VitalityKeeps, ReturnKeeps DEF Returns
<1>7. CASE Table
  BY <1>7, TableKeeps
<1>8. CASE Staff
  BY <1>8, MaintainKeeps, RollbackKeeps DEF Staff
<1>. QED BY <1>1, <1>2, <1>3, <1>4, <1>5, <1>6, <1>7, <1>8 DEF Next

LEMMA StuttersInv ==
    ASSUME Inv, UNCHANGED vars
    PROVE  Inv'
BY DEF Inv, vars

(* Every state of the fight is sound, calm and may be rolled back from:    *)
(* the queues, the rows and the exchanges agree after every operation of   *)
(* services.py, however far its cascade went.                              *)
THEOREM SpecInv == Spec => []Inv
<1>1. Init => Inv
  BY InitInv
<1>2. Inv /\ [Next]_vars => Inv'
  BY NextAdvances, StuttersInv DEF Advances
<1>. QED BY <1>1, <1>2, PTL DEF Spec

-----------------------------------------------------------------------------
(***************************************************************************)
(* The invariants that the runs check.                                     *)
(***************************************************************************)
LEMMA InvTypeOK ==
    ASSUME Inv
    PROVE  TypeOK
<1>1. /\ fight \in States /\ fight.rows \in [Fighters -> Rows]
      /\ \A x \in DOMAIN fight.exchanges : fight.exchanges[x] \in Exchanges
      /\ \A i \in Fighters : RowSound(fight.rows[i], i)
  BY SoundMeans DEF Inv
<1>2. /\ fight.epoch \in 1..MaxEpoch /\ fight.next \in 1..(MaxExchange + 1)
      /\ {fight.started, fight.paused, fight.ended} \subseteq BOOLEAN
  BY <1>1, StateFields
<1>3. /\ status \in {"open", "shelved", "ended"} /\ Len(journal) <= Depth
      /\ marker \in [Fighters -> {"here", "there", None}] /\ there \subseteq Fighters
  BY DEF Inv
<1>. QED BY <1>1, <1>2, <1>3 DEF TypeOK, RowSound

LEMMA InvQueuesAgree ==
    ASSUME Inv
    PROVE  QueuesAgree
<1>. DEFINE open == Range(fight.exchanges)
<1>1. Sound(fight)
  BY DEF Inv
<1>2. ASSUME NEW e \in open
      PROVE  \E x \in DOMAIN fight.exchanges : e = fight.exchanges[x] /\ e.id = x
  BY <1>1, <1>2, SoundMeans DEF Range, Tied
<1>3. \A x \in DOMAIN fight.exchanges :
         /\ fight.exchanges[x].id = x /\ fight.rows[fight.exchanges[x].actor].outgoing = x
         /\ x[1] = fight.epoch /\ x[2] < fight.next
  BY <1>1, SoundMeans DEF Tied
<1>4. ASSUME NEW i \in Fighters
      PROVE  /\ fight.rows[i].outgoing \in DOMAIN fight.exchanges \cup {None}
             /\ IsInjective(fight.rows[i].incoming)
  BY <1>1, SoundMeans DEF QueueSound, RowSound
<1>5. ASSUME NEW i \in Fighters
      PROVE  Queue(i) = {Token(e) : e \in {o \in open : /\ o.phase = "waiting"
                                                        /\ i \in o.targets \ o.canceled}}
  <2>0. Queue(i) = Waiting(fight, i) /\ fight.rows[i].incoming \in Seq(Tokens)
    BY <1>1, SoundMeans, RowFields DEF Queue, Waiting
  <2>1. ASSUME NEW t \in Queue(i)
        PROVE  \E e \in open : e.phase = "waiting" /\ i \in e.targets \ e.canceled /\ t = Token(e)
    <3>1. t \in Tokens
      BY <2>0 DEF Waiting, ToSet
    <3>2. Awaits(fight, i, t)
      BY <1>1, <2>0, <3>1, SoundMeans DEF QueueSound
    <3>. DEFINE e == fight.exchanges[t.id]
    <3>3. e \in open /\ e.phase = "waiting" /\ i \in e.targets \ e.canceled
      BY <3>2 DEF Awaits, Range
    <3>4. t = Token(e)
      BY <1>1, <2>0, <3>2, PacketIs DEF Awaits
    <3>. HIDE DEF e, open
    <3>. QED BY <3>3, <3>4
  <2>2. ASSUME NEW e \in open, e.phase = "waiting", i \in e.targets \ e.canceled
        PROVE  Token(e) \in Queue(i)
    <3>1. PICK x \in DOMAIN fight.exchanges : e = fight.exchanges[x] /\ e.id = x
      BY <1>2
    <3>2. Token(e) \in Tokens /\ Token(e).id = x /\ Token(e).hit = e.hit
      BY <1>1, <3>1, SoundMeans, TokenIs
    <3>3. Awaits(fight, i, Token(e))
      BY <2>2, <3>1, <3>2 DEF Awaits
    <3>. QED BY <1>1, <2>0, <3>2, <3>3, SoundMeans DEF QueueSound
  <2>. HIDE DEF open
  <2>. QED BY <2>1, <2>2
<1>6. \A e \in open : e.phase = "waiting" => Owing(e) # {}
  BY <1>1, <1>2, SoundMeans DEF BookSound
<1>. QED BY <1>3, <1>4, <1>5, <1>6 DEF QueuesAgree

LEMMA InvNoneCornered ==
    ASSUME Inv
    PROVE  NoneCornered
<1>. SUFFICES ASSUME NEW i \in Fighters, fight.rows[i].hp = 0, NEW t \in Queue(i),
                     t.id \in DOMAIN fight.exchanges, ~Answered(fight, i, t),
                     ~fight.exchanges[t.id].revival
              PROVE  FALSE
  BY DEF NoneCornered
<1>1. Sound(fight) /\ Cornered(fight) = {}
  BY DEF Inv, Calm
<1>2. t \in Waiting(fight, i) /\ t \in Tokens
  <2>1. fight.rows[i].incoming \in Seq(Tokens)
    BY <1>1, SoundMeans, RowFields
  <2>. QED BY <2>1 DEF Queue, Waiting, ToSet
<1>3. Awaits(fight, i, t) /\ t.id[1] = fight.epoch
  BY <1>1, <1>2, SoundMeans DEF QueueSound, Tied
<1>4. t \in Voidable(fight, i)
  BY <1>2, <1>3 DEF Voidable, Unanswered, Live, Awaits, Waiting
<1>. QED BY <1>1, <1>4 DEF Cornered

(* The fight's state is well formed after every operation: no turn has     *)
(* more actions than the engine deals, no row more turns than its limit,   *)
(* and only a Faded row keeps a Vitality apart (engine.py, fade and join). *)
THEOREM TypeCorrect == Spec => []TypeOK
<1>1. Inv => TypeOK
  BY InvTypeOK
<1>. QED BY <1>1, SpecInv, PTL

(* However the calls of engine.py cascade - cancel, complete, resolve,     *)
(* void, release - each packet is queued exactly where its exchange still  *)
(* counts on an answer, and every open exchange is owed one.               *)
THEOREM QueuesStayInStep == Spec => []QueuesAgree
<1>1. Inv => QueuesAgree
  BY InvQueuesAgree
<1>. QED BY <1>1, SpecInv, PTL

(* settle reaches its fixpoint within the rounds it may take: nobody is    *)
(* left at 0 Vitality with a packet to answer, in any fight of any size.   *)
THEOREM NobodyIsCornered == Spec => []NoneCornered
<1>1. Inv => NoneCornered
  BY InvNoneCornered
<1>. QED BY <1>1, SpecInv, PTL

(* A second fight that someone joins and fades from moves their marker     *)
(* alone: what makes the fight sound needs no word about it.               *)
LEMMA ElsewhereInv ==
    ASSUME Inv, NEW i \in Fighters, JoinElsewhere(i) \/ FadeElsewhere(i)
    PROVE  Inv'
<1>1. UNCHANGED <<fight, status, journal>>
  BY DEF JoinElsewhere, FadeElsewhere
<1>2. there' \subseteq Fighters /\ marker' \in [Fighters -> {"here", "there", None}]
  BY DEF Inv, JoinElsewhere, FadeElsewhere
<1>. QED BY <1>1, <1>2 DEF Inv

(* The state stays sound when its people may also be in another fight: a   *)
(* rollback that makes someone active in both (ActiveOnce) spoils neither  *)
(* the queues nor the rows of the fight it restores.                       *)
THEOREM TwoFightsInv == TwoFightsSpec => [](TypeOK /\ QueuesAgree /\ NoneCornered)
<1>1. Init => Inv
  BY InitInv
<1>2. Inv /\ [TwoFightsNext]_vars => Inv'
  <2>1. Elsewhere \subseteq Fighters
    BY CombatAssumption
  <2>. QED BY <2>1, NextAdvances, StuttersInv, ElsewhereInv DEF TwoFightsNext, Advances
<1>3. Inv => TypeOK /\ QueuesAgree /\ NoneCornered
  BY InvTypeOK, InvQueuesAgree, InvNoneCornered
<1>. QED BY <1>1, <1>2, <1>3, PTL DEF TwoFightsSpec

-----------------------------------------------------------------------------
(***************************************************************************)
(* What no step does.                                                      *)
(***************************************************************************)
LEMMA FreshStep ==
    ASSUME Inv, Advances
    PROVE  /\ fight'.epoch >= fight.epoch
           /\ fight'.epoch = fight.epoch => fight'.next >= fight.next
           /\ \A t \in Queued(fight') \ Queued(fight) :
                 \/ t.id[1] > fight.epoch
                 \/ t.id[1] = fight.epoch /\ t.id[2] >= fight.next
                 \/ t.id \in DOMAIN fight.exchanges /\ t.hit > fight.exchanges[t.id].hit
<1>1. /\ Sound(fight) /\ Sound(fight') /\ (Moves(fight, fight') \/ fight.epoch < fight'.epoch)
  BY DEF Inv, Advances
<1>2. /\ fight.epoch \in Int /\ fight'.epoch \in Int /\ fight.next \in Int /\ fight'.next \in Int
  BY <1>1, SoundMeans, StateFields, Params
<1>3. CASE Moves(fight, fight')
  <2>1. fight'.epoch = fight.epoch /\ fight.next <= fight'.next
    BY <1>3 DEF Moves
  <2>2. ASSUME NEW t \in Queued(fight') \ Queued(fight) PROVE IsNew(fight, t)
    BY <1>3 DEF Moves, Queued, Waiting
  <2>. QED BY <1>2, <2>1, <2>2 DEF IsNew
<1>4. CASE fight.epoch < fight'.epoch
  <2>1. ASSUME NEW t \in Queued(fight') PROVE t.id[1] = fight'.epoch
    <3>1. PICK i \in Fighters : t \in Waiting(fight', i)
      BY DEF Queued, Waiting
    <3>2. fight'.rows[i].incoming \in Seq(Tokens)
      BY <1>1, SoundMeans, RowFields
    <3>3. t \in Tokens
      BY <3>1, <3>2 DEF Waiting, ToSet
    <3>4. Awaits(fight', i, t)
      BY <1>1, <3>1, <3>3, SoundMeans DEF QueueSound
    <3>. QED BY <1>1, <3>4, SoundMeans DEF Awaits, Tied
  <2>. QED BY <1>2, <1>4, <2>1
<1>. QED BY <1>1, <1>3, <1>4

LEMMA LossStep ==
    ASSUME Inv, Advances, fight'.epoch = fight.epoch, NEW i \in Fighters
    PROVE  RowStands(fight.rows[i], fight'.rows[i])
<1>1. Sound(fight) /\ (Moves(fight, fight') \/ fight.epoch < fight'.epoch)
  BY DEF Inv, Advances
<1>2. fight.epoch \in Int
  BY <1>1, SoundMeans, StateFields, Params
<1>. QED BY <1>1, <1>2 DEF Moves

LEMMA DueCovers ==
    ASSUME NEW e \in Exchanges, BookSound(e)
    PROVE  /\ Due(e) \in Nat /\ Cardinality(DOMAIN e.reactions) \in Nat
           /\ Due(e) >= Cardinality(DOMAIN e.reactions)
<1>1. e.targets \in SUBSET Fighters /\ DOMAIN e.reactions \in SUBSET e.targets
  BY DEF BookSound, Exchanges
<1>2. DOMAIN e.reactions \in SUBSET Fighters
  BY <1>1
<1>3. Cardinality(DOMAIN e.reactions) \in Nat /\ Cardinality(e.targets) \in Nat
      /\ Cardinality(DOMAIN e.reactions) <= Cardinality(e.targets)
  BY <1>1, <1>2, FightersFinite, Smaller
<1>4. e.resolved => Cardinality(e.targets) = 1
  BY DEF BookSound
<1>. QED BY <1>3, <1>4 DEF Due

LEMMA CommittedStep ==
    ASSUME Inv, Advances, NEW x \in DOMAIN fight.exchanges,
           fight.exchanges[x].phase # "press", fight'.epoch = fight.epoch
    PROVE  IF x \in DOMAIN fight'.exchanges
           THEN \/ fight'.exchanges[x].phase = "press"
                \/ \A i \in DOMAIN fight.exchanges[x].reactions :
                      /\ i \in DOMAIN fight'.exchanges[x].reactions
                      /\ fight'.exchanges[x].reactions[i] = fight.exchanges[x].reactions[i]
           ELSE Spent(fight', fight.exchanges[x].actor)
                   >= Spent(fight, fight.exchanges[x].actor)
                        + Cardinality(DOMAIN fight.exchanges[x].reactions)
<1>. DEFINE e == fight.exchanges[x]
            a == e.actor
<1>1. Sound(fight) /\ Sound(fight') /\ (Moves(fight, fight') \/ fight.epoch < fight'.epoch)
  BY DEF Inv, Advances
<1>2. fight.epoch \in Int
  BY <1>1, SoundMeans, StateFields, Params
<1>3. Honours(fight, fight', x)
  BY <1>1, <1>2 DEF Moves
<1>4. CASE x \in DOMAIN fight'.exchanges
  BY <1>3, <1>4 DEF Honours
<1>5. CASE x \notin DOMAIN fight'.exchanges
  <2>1. SpentOf(fight'.rows[a], a) >= SpentOf(fight.rows[a], a) + Due(e)
    BY <1>3, <1>5 DEF Honours
  <2>2. e \in Exchanges /\ BookSound(e)
    BY <1>1, SoundMeans
  <2>3. a \in Fighters /\ fight.rows[a] \in Rows /\ fight'.rows[a] \in Rows
    <3>1. a \in Fighters
      BY <2>2 DEF Exchanges
    <3>. HIDE DEF a
    <3>. QED BY <1>1, <3>1, SoundMeans
  <2>. HIDE DEF e
  <2>4. /\ Due(e) \in Nat /\ Cardinality(DOMAIN e.reactions) \in Nat
        /\ Due(e) >= Cardinality(DOMAIN e.reactions)
    BY <2>2, DueCovers
  <2>. HIDE DEF a
  <2>5. SpentOf(fight'.rows[a], a) \in Int /\ SpentOf(fight.rows[a], a) \in Int
    BY <2>3, SpentType
  <2>6. SpentOf(fight'.rows[a], a) >= SpentOf(fight.rows[a], a) + Cardinality(DOMAIN e.reactions)
    BY <2>1, <2>4, <2>5
  <2>7. Spent(fight', a) = SpentOf(fight'.rows[a], a) /\ Spent(fight, a) = SpentOf(fight.rows[a], a)
    BY Zenon DEF Spent, SpentOf
  <2>8. Spent(fight', a) >= Spent(fight, a) + Cardinality(DOMAIN e.reactions)
    BY <2>6, <2>7
  <2>. QED BY <1>5, <2>8 DEF a, e
<1>. QED BY <1>4, <1>5

(* No packet is ever queued under a name that was in use before: not by an *)
(* operation, and not by a rollback, which renames all that it restores.   *)
THEOREM NamesAreFresh == Spec => TokensFresh
<1>1. Inv /\ [Next]_vars =>
        [/\ fight'.epoch >= fight.epoch
         /\ fight'.epoch = fight.epoch => fight'.next >= fight.next
         /\ \A t \in Queued(fight') \ Queued(fight) :
               \/ t.id[1] > fight.epoch
               \/ t.id[1] = fight.epoch /\ t.id[2] >= fight.next
               \/ t.id \in DOMAIN fight.exchanges /\ t.hit > fight.exchanges[t.id].hit]_vars
  BY NextAdvances, FreshStep
<1>. QED BY <1>1, SpecInv, PTL DEF Spec, TokensFresh

(* Fading, withdrawing, rejoining and a storyteller's return never raise   *)
(* what the assessment counts as standing: Vitality less exposure.         *)
THEOREM LossesStand == Spec => LossStands
<1>1. Inv /\ [Next]_vars =>
        [fight'.epoch = fight.epoch =>
           \A i \in Fighters :
             LET row == fight.rows[i]
                 later == fight'.rows[i]
             IN  later.status # row.status \/ later.exposure # row.exposure
                   => Standing(later) <= Standing(row)]_vars
  BY NextAdvances, LossStep DEF RowStands
<1>. QED BY <1>1, SpecInv, PTL DEF Spec, LossStands

(* What a target accepted stands: whoever else cancels, is voided, swept   *)
(* or shelved, the exchange keeps the reaction or its actor pays for it.   *)
THEOREM CommitmentsHold == Spec => CommitmentsStand
<1>1. Inv /\ [Next]_vars =>
        [\A x \in DOMAIN fight.exchanges :
           LET e == fight.exchanges[x]
               later == fight'.exchanges[x]
           IN  e.phase = "press" \/ fight'.epoch # fight.epoch
               \/ IF x \in DOMAIN fight'.exchanges
                  THEN later.phase = "press" \/ \A i \in DOMAIN e.reactions :
                         i \in DOMAIN later.reactions /\ later.reactions[i] = e.reactions[i]
                  ELSE Spent(fight', e.actor)
                         >= Spent(fight, e.actor) + Cardinality(DOMAIN e.reactions)]_vars
  BY NextAdvances, CommittedStep, Zenon
<1>. QED BY <1>1, SpecInv, PTL DEF Spec, CommitmentsStand

===============================================================================
