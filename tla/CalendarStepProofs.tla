---- MODULE CalendarStepProofs ----
(***************************************************************************)
(* What a step of Calendar may never do: spend a token for nothing, or     *)
(* pass somebody over in a cluster's draw.  The steps are described as in  *)
(* CalendarProofs, by what a sweep's saves have made of a database b.      *)
(***************************************************************************)
EXTENDS CalendarProofs

-----------------------------------------------------------------------------
(***************************************************************************)
(* Tokens.                                                                 *)
(***************************************************************************)
(* A token that t has spent on an event, and b has not; that its holder     *)
(* was entered for the event and has been seated since, or released again.  *)
Spends(b, t, k, e) == t.tokens[k].redeemed /\ ~b.tokens[k].redeemed /\ t.tokens[k].use = e
Bought(b, t, k, e) ==
    /\ Is(b.rows[e], b.tokens[k].holder, {"entered"})
    /\ Is(t.rows[e], b.tokens[k].holder, {"selected", "released"})
Wasted(b, t, e) == {k \in DOMAIN b.tokens : Spends(b, t, k, e) /\ ~Bought(b, t, k, e)}

(* The save by which a lottery has spent a token: only if it is the last   *)
(* one made is the holder not seated yet.                                  *)
LEMMA SpentBySave ==
    ASSUME InSchedule, NEW b, Sound(b), NEW e \in Events, e \in Staff, NEW saves, NEW S, Lots(e, b, saves, S),
           NEW n \in 0..Len(saves), NEW s \in Reached(b, saves, n),
           NEW k \in DOMAIN b.tokens, NEW d, Spends(b, s, k, d)
    PROVE  /\ d = e /\ \E i \in 1..n : saves[i] = Redeems(k, e)
           /\ ~Bought(b, s, k, e) => n < Len(saves) /\ saves[n] = Redeems(k, e)
<1>. DEFINE K == LotteryKinds(e, b, S)
            P == LotteryPairs(e, b)
            p == b.rows[e]
            r == s.rows[e]
<1>1. saves \in Seq(K) /\ Chained(saves, P) /\ ToSet(Holding(e, b)) \subseteq At(p, "entered")
  BY DEF Lots
<1>2. s \in Grown(b) /\ Moved(b, s, {saves[i] : i \in 1..n}) /\ \A i \in 1..n : Made(b, s, saves[i])
  BY DEF Reached
<1>3. /\ p \in Seq(Rows) /\ r \in Seq(Rows) /\ RowsSound(e, p) /\ RowsSound(e, r) /\ Kept(r, p)
      /\ DOMAIN p \subseteq DOMAIN r /\ b.tokens \in Seq(Tokens)
  BY <1>2, GrownLengths
<1>4. PICK i \in 1..n : saves[i] = Redeems(k, d)
  <2>1. s.tokens[k] # b.tokens[k] /\ s.tokens[k].use = d
    BY DEF Spends
  <2>2. Redeems(k, s.tokens[k].use) \in {saves[i] : i \in 1..n}
    BY <1>2, <2>1 DEF Moved
  <2>. QED BY <2>1, <2>2
<1>5. Len(saves) \in Nat /\ DOMAIN saves = 1..Len(saves) /\ i \in DOMAIN saves /\ saves[i] \in K
  <2>. HIDE DEF K
  <2>. QED BY <1>1
<1>6. saves[i] \in LotteryTokens(e, b)
  <2>1. saves[i].save = "token"
    BY <1>4 DEF Redeems
  <2>. QED BY <1>5, <2>1 DEF LotteryKinds, LotterySeats, Becomes, Draws
<1>7. d = e
  <2>1. saves[i].use = d
    BY <1>4 DEF Redeems
  <2>2. saves[i].use = e
    BY <1>6 DEF LotteryTokens, TokenFor, Redeems
  <2>. QED BY <2>1, <2>2
<1>8. saves[i] \in {q[1] : q \in P}
  <2>1. PICK h \in ToSet(Holding(e, b)) : saves[i] = TokenFor(e, b, h)
    BY <1>6 DEF LotteryTokens
  <2>. DEFINE q == <<TokenFor(e, b, h), Becomes(e, h, "selected")>>
  <2>2. q \in P /\ q[1] = saves[i]
    BY <2>1 DEF LotteryPairs
  <2>. HIDE DEF q, P
  <2>. QED BY <2>2
<1>9. i + 1 \in DOMAIN saves /\ <<saves[i], saves[i + 1]>> \in P
  <2>. HIDE DEF P
  <2>. QED BY <1>1, <1>5, <1>8 DEF Chained
<1>10. ASSUME i < n PROVE Bought(b, s, k, e)
  <2>1. PICK h \in ToSet(Holding(e, b)) : saves[i] = TokenFor(e, b, h) /\ saves[i + 1] = Becomes(e, h, "selected")
    <3>1. PICK h \in ToSet(Holding(e, b)) : <<saves[i], saves[i + 1]>> = <<TokenFor(e, b, h), Becomes(e, h, "selected")>>
      BY <1>9 DEF LotteryPairs
    <3>. QED BY <3>1
  <2>2. k = TokenOf(b.tokens, p[h].who, None)
    BY <1>4, <2>1 DEF TokenFor, Redeems
  <2>3. b.tokens[k].holder = p[h].who
    <3>1. k # 0
      BY <1>3
    <3>2. Usable(b.tokens[TokenOf(b.tokens, p[h].who, None)], p[h].who, None)
      BY <1>3, <2>2, <3>1, TokenOfMeans
    <3>. QED BY <2>2, <3>2 DEF Usable
  <2>4. h \in DOMAIN p /\ p[h].status = "entered"
    BY <1>1 DEF At
  <2>5. i + 1 \in 1..n
    BY <1>10
  <2>6. Made(b, s, Becomes(e, h, "selected"))
    BY <1>2, <2>1, <2>5
  <2>7. r[h].status = "selected"
    BY <2>6 DEF Made, Becomes
  <2>8. h \in DOMAIN r /\ r[h].who = p[h].who
    BY <1>3, <2>4 DEF Kept
  <2>9. Is(p, p[h].who, {"entered"})
    BY <1>3, <2>4, RowsIs
  <2>10. Is(r, p[h].who, {"selected", "released"})
    BY <1>3, <2>7, <2>8, RowsIs
  <2>. QED BY <2>3, <2>9, <2>10 DEF Bought
<1>11. ~Bought(b, s, k, e) => i = n /\ n < Len(saves)
  BY <1>5, <1>9, <1>10
<1>. QED BY <1>4, <1>7, <1>11

(* What a lottery, or nothing of it, does to tokens. *)
LEMMA LotteryBuys ==
    ASSUME InSchedule, Sound(State), NEW e \in Events, NEW s, LotteryStep(e, State, s)
    PROVE  /\ s \in Grown(State)
           /\ \A d : d # e => \A k \in DOMAIN State.tokens : ~Spends(State, s, k, d)
           /\ \A k, l \in Wasted(State, s, e) : k = l
           /\ Wasted(State, s, e) = {} \/ Interrupted(e)
<1>. DEFINE b == State
<1>0. Sound(b)
  OBVIOUS
<1>1. CASE s = b
  <2>1. s \in Grown(b)
    BY <1>0, <1>1, GrownSelf
  <2>2. \A k, d : ~Spends(b, s, k, d)
    BY <1>1 DEF Spends
  <2>. QED BY <2>1, <2>2 DEF Wasted
<1>2. ASSUME LotteryDue(e), NEW saves, NEW S, NEW n \in 0..Len(saves), Lots(e, b, saves, S),
             s \in Reached(b, saves, n), n = Len(saves) \/ Interrupted(e)
      PROVE  /\ s \in Grown(b)
             /\ \A d : d # e => \A k \in DOMAIN b.tokens : ~Spends(b, s, k, d)
             /\ \A k, l \in Wasted(b, s, e) : k = l
             /\ Wasted(b, s, e) = {} \/ Interrupted(e)
  <2>. HIDE DEF b
  <2>1. s \in Grown(b) /\ e \in Staff
    BY <1>2 DEF Reached, LotteryDue
  <2>2. ASSUME NEW d, NEW k \in DOMAIN b.tokens, Spends(b, s, k, d) PROVE d = e
    BY <1>0, <1>2, <2>1, <2>2, SpentBySave
  <2>3. ASSUME NEW k \in Wasted(b, s, e) PROVE n < Len(saves) /\ saves[n] = Redeems(k, e)
    <3>1. k \in DOMAIN b.tokens /\ Spends(b, s, k, e) /\ ~Bought(b, s, k, e)
      BY <2>3 DEF Wasted
    <3>. QED BY <1>0, <1>2, <2>1, <3>1, SpentBySave
  <2>4. ASSUME NEW k \in Wasted(b, s, e), NEW l \in Wasted(b, s, e) PROVE k = l
    <3>1. saves[n] = Redeems(k, e) /\ saves[n] = Redeems(l, e)
      BY <2>3, <2>4
    <3>2. Redeems(k, e).at = k /\ Redeems(l, e).at = l
      BY DEF Redeems
    <3>. QED BY <3>1, <3>2
  <2>5. Wasted(b, s, e) = {} \/ Interrupted(e)
    <3>1. n = Len(saves) => ~(n < Len(saves))
      OBVIOUS
    <3>. QED BY <1>2, <2>3, <3>1
  <2>. QED BY <2>1, <2>2, <2>4, <2>5
<1>. QED BY <1>1, <1>2 DEF LotteryStep

(* Who was seated or released stays so, whatever a sweep saves next.        *)
LEMMA BoughtStays ==
    ASSUME InSchedule, NEW b, Sound(b), NEW s, Sound(s), s \in Grown(b), NEW u \in Grown(s), NEW e \in Events,
           NEW k, Bought(b, s, k, e)
    PROVE  Bought(b, u, k, e)
<1>. DEFINE c == b.tokens[k].holder
            r == s.rows[e]
            q == u.rows[e]
<1>1. /\ r \in Seq(Rows) /\ q \in Seq(Rows) /\ RowsSound(e, r) /\ RowsSound(e, q) /\ Kept(q, r)
      /\ DOMAIN r \subseteq DOMAIN q
  BY GrownLengths
<1>2. Is(r, c, {"selected", "released"})
  BY DEF Bought
<1>3. PICK l \in DOMAIN r : r[l].who = c /\ r[l].status \in {"selected", "released"}
  BY <1>1, <1>2, RowsIs
<1>4. q[l].who = c /\ q[l].status \in {"selected", "released"} /\ l \in DOMAIN q
  BY <1>1, <1>3 DEF Kept
<1>5. Is(q, c, {"selected", "released"})
  BY <1>1, <1>4, RowsIs
<1>. QED BY <1>5 DEF Bought

LEMMA ScriptBuys ==
    ASSUME InSchedule, Sound(State), NEW e \in Events, Script(e)
    PROVE  \E t \in Grown(State) :
              /\ Leaves(t) /\ (UNCHANGED crashes \/ Interrupted(e))
              /\ \A d : d # e => Wasted(State, t, d) = {}
              /\ \A k, l \in Wasted(State, t, e) : k = l
              /\ Wasted(State, t, e) = {} \/ Interrupted(e)
<1>. DEFINE b == State
<1>1. PICK s, u, t : /\ LotteryStep(e, b, s) /\ Sound(s) /\ s \in Grown(b)
                     /\ ExpiryStep(e, s, u) /\ Sound(u) /\ u \in Grown(s)
                     /\ IssueStep(e, u, t)
                     /\ Leaves(t) /\ (UNCHANGED crashes \/ Interrupted(e))
  BY SweepIs
<1>2. /\ \A d : d # e => \A k \in DOMAIN b.tokens : ~Spends(b, s, k, d)
      /\ \A k, l \in Wasted(b, s, e) : k = l
      /\ Wasted(b, s, e) = {} \/ Interrupted(e)
  BY <1>1, LotteryBuys
<1>3. Sound(b)
  OBVIOUS
<1>. HIDE DEF b
<1>4. t \in Grown(u)
  BY <1>1, IssueTouches DEF Touched
<1>5. u \in Grown(b) /\ t \in Grown(b) /\ t \in Grown(s)
  BY <1>1, <1>3, <1>4, GrownTwice
<1>6. \A k \in DOMAIN s.tokens : u.tokens[k] = s.tokens[k]
  <2>1. CASE u = s
    BY <2>1
  <2>2. CASE \E n \in 0..Len(Expiry(e, s)) : u \in Reached(s, Expiry(e, s), n)
    BY <1>1, <2>2, ExpiryLapsed DEF Lapsed
  <2>. QED BY <1>1, <2>1, <2>2 DEF ExpiryStep
<1>7. \A k \in DOMAIN u.tokens : t.tokens[k] = u.tokens[k]
  BY <1>1, IssueTouches
<1>8. DOMAIN b.tokens \subseteq DOMAIN s.tokens /\ DOMAIN s.tokens \subseteq DOMAIN u.tokens
  BY <1>1, <1>3, GrownLengths
<1>9. \A k \in DOMAIN b.tokens : t.tokens[k] = s.tokens[k]
  BY <1>6, <1>7, <1>8
<1>10. ASSUME NEW d, d # e PROVE Wasted(b, t, d) = {}
  BY <1>2, <1>9, <1>10 DEF Wasted, Spends
<1>11. Wasted(b, t, e) \subseteq Wasted(b, s, e)
  <2>. SUFFICES ASSUME NEW k \in Wasted(b, t, e) PROVE k \in Wasted(b, s, e)
    OBVIOUS
  <2>1. k \in DOMAIN b.tokens /\ Spends(b, t, k, e) /\ ~Bought(b, t, k, e)
    BY DEF Wasted
  <2>2. Spends(b, s, k, e)
    BY <1>9, <2>1 DEF Spends
  <2>3. ~Bought(b, s, k, e)
    BY <1>1, <1>3, <1>5, <2>1, BoughtStays
  <2>. QED BY <2>1, <2>2, <2>3 DEF Wasted
<1>. QED BY <1>1, <1>2, <1>5, <1>10, <1>11 DEF b

(* A cluster's draw spends tokens on the cluster, on no event.              *)
LEMMA DrawBuys ==
    ASSUME InSchedule, Sound(State), NEW x \in Clusters, Draw(x)
    PROVE  \E t \in Grown(State) :
              /\ Leaves(t) /\ (UNCHANGED crashes \/ Interrupted(x))
              /\ \A d \in Events : Wasted(State, t, d) = {}
<1>. DEFINE b == State
<1>1. PICK order \in Orders(x, b) :
         \E n \in 0..Len(ClusterDraw(x, b, order)) :
            \E t \in Reached(b, ClusterDraw(x, b, order), n) :
               /\ Leaves(t) /\ ~HasRun(x)
               /\ (n = Len(ClusterDraw(x, b, order)) /\ UNCHANGED crashes) \/ Interrupted(x)
  BY DrawStep, Zenon
<1>2. PICK n \in 0..Len(ClusterDraw(x, b, order)) :
         \E t \in Reached(b, ClusterDraw(x, b, order), n) :
            /\ Leaves(t) /\ ~HasRun(x)
            /\ (n = Len(ClusterDraw(x, b, order)) /\ UNCHANGED crashes) \/ Interrupted(x)
  BY <1>1, Zenon
<1>3. PICK t \in Reached(b, ClusterDraw(x, b, order), n) :
         /\ Leaves(t) /\ ~HasRun(x)
         /\ (n = Len(ClusterDraw(x, b, order)) /\ UNCHANGED crashes) \/ Interrupted(x)
  BY <1>2, Zenon
<1>4. Sound(b)
  OBVIOUS
<1>. HIDE DEF b
<1>. DEFINE K == DrawKinds(x, b, order)
            saves == ClusterDraw(x, b, order)
<1>5. saves \in Seq(K)
  <2>1. order \in Seq(DOMAIN b.tickets[x])
    BY <1>4, OrdersMean
  <2>2. PICK front, back : Ranks(x, b, order, front, back)
    BY <1>4, <2>1, DrawIs
  <2>3. front \in Seq(K) /\ back \in Seq(K) /\ saves = front \o back
    BY <1>4, <2>2, DrawAreSaves DEF Ranks
  <2>. HIDE DEF K, saves
  <2>. QED BY <2>3
<1>6. \A w \in K : w.save = "token" => w.use = x
  BY <1>4, DrawKindsMean
<1>7. x \notin Events
  BY CalendarAssumption DEF InSchedule
<1>8. t \in Grown(b) /\ Moved(b, t, {saves[i] : i \in 1..n})
  BY <1>3 DEF Reached
<1>. HIDE DEF K, saves
<1>9. \A i \in 1..n : saves[i] \in K
  BY <1>2, <1>5 DEF saves
<1>10. ASSUME NEW d \in Events, NEW k \in Wasted(b, t, d) PROVE FALSE
  <2>1. k \in DOMAIN b.tokens /\ Spends(b, t, k, d)
    BY <1>10 DEF Wasted
  <2>2. t.tokens[k] # b.tokens[k] /\ t.tokens[k].use = d
    BY <2>1 DEF Spends
  <2>3. Redeems(k, t.tokens[k].use) \in {saves[i] : i \in 1..n}
    BY <1>8, <2>1, <2>2 DEF Moved
  <2>4. Redeems(k, d) \in K
    BY <1>9, <2>2, <2>3
  <2>5. d = x
    BY <1>6, <2>4 DEF Redeems
  <2>. QED BY <1>7, <2>5
<1>. QED BY <1>3, <1>8, <1>10 DEF b

(* As TokensBuySeats has it, of the step taken. *)
Lost(d) ==
    {t \in DOMAIN tokens :
        /\ tokens'[t].redeemed /\ ~tokens[t].redeemed /\ tokens'[t].use = d
        /\ ~(/\ Is(rows[d], tokens[t].holder, {"entered"})
             /\ Is(rows'[d], tokens[t].holder, {"selected", "released"}))}
Held ==
    \A t \in DOMAIN tokens :
        /\ tokens'[t].holder = tokens[t].holder
        /\ tokens[t].redeemed => tokens'[t] = tokens[t]

LEMMA LostIsWasted ==
    ASSUME NEW t, Leaves(t), NEW d
    PROVE  Lost(d) = Wasted(State, t, d)
<1>1. rows' = t.rows /\ tokens' = t.tokens /\ State.rows = rows /\ State.tokens = tokens
  BY DEF Leaves, State
<1>. QED BY <1>1 DEF Lost, Wasted, Spends, Bought

LEMMA LostFew ==
    ASSUME InSchedule, crashes \in [Jobs -> 0..MaxCrashes],
           NEW job \in Jobs, UNCHANGED crashes \/ Interrupted(job), NEW d \in Events,
           \A k, l \in Lost(d) : k = l, Lost(d) = {} \/ (d = job /\ Interrupted(job))
    PROVE  Cardinality(Lost(d)) <= crashes'[d] - crashes[d]
<1>1. d \in Jobs
  BY DEF Jobs
<1>2. MaxCrashes \in Nat
  BY CalendarAssumption
<1>3. crashes[d] \in Nat /\ crashes'[d] \in Nat /\ crashes[d] <= crashes'[d]
  BY <1>1, <1>2, CrashesBounded
<1>4. CASE Lost(d) = {}
  <2>1. Cardinality(Lost(d)) = 0
    BY <1>4, FS_EmptySet
  <2>. QED BY <1>3, <2>1
<1>5. ASSUME NEW k \in Lost(d), d = job, Interrupted(job) PROVE Cardinality(Lost(d)) <= crashes'[d] - crashes[d]
  <2>1. Lost(d) = {k}
    OBVIOUS
  <2>2. Cardinality(Lost(d)) = 1
    BY <2>1, FS_Singleton
  <2>3. crashes'[d] = crashes[d] + 1
    BY <1>1, <1>5 DEF Interrupted
  <2>. QED BY <1>3, <2>2, <2>3
<1>. QED BY <1>4, <1>5

LEMMA SweepHolds ==
    ASSUME InSchedule, Sound(State), NEW t \in Grown(State), Leaves(t)
    PROVE  Held
<1>. DEFINE b == State
<1>1. tokens' = t.tokens /\ b.tokens = tokens
  BY DEF Leaves, State
<1>2. SameHolders(t.tokens, b.tokens)
  BY DEF Grown
<1>. QED BY <1>1, <1>2 DEF SameHolders, Held

LEMMA TokensStep ==
    ASSUME Inv, [Next]_vars
    PROVE  Held /\ \A d \in Events : Cardinality(Lost(d)) <= crashes'[d] - crashes[d]
<1>1. Basics /\ InSchedule /\ Sound(State) /\ crashes \in [Jobs -> 0..MaxCrashes]
  BY InvMeans, BasicsMean
<1>2. \A d \in Events : d \in Jobs
  BY DEF Jobs
<1>3. CASE UNCHANGED <<tokens, crashes>>
  <2>1. Held
    BY <1>3 DEF Held
  <2>2. \A d : Lost(d) = {}
    BY <1>3 DEF Lost
  <2>3. \A d \in Events : Cardinality(Lost(d)) <= crashes'[d] - crashes[d]
    BY <1>1, <1>2, <1>3, <2>2, LostFew
  <2>. QED BY <2>1, <2>3
<1>4. ASSUME NEW e \in Events, Script(e)
      PROVE  Held /\ \A d \in Events : Cardinality(Lost(d)) <= crashes'[d] - crashes[d]
  <2>1. PICK t \in Grown(State) :
              /\ Leaves(t) /\ (UNCHANGED crashes \/ Interrupted(e))
              /\ \A d : d # e => Wasted(State, t, d) = {}
              /\ \A k, l \in Wasted(State, t, e) : k = l
              /\ Wasted(State, t, e) = {} \/ Interrupted(e)
    BY <1>1, <1>4, ScriptBuys
  <2>2. \A d : Lost(d) = Wasted(State, t, d)
    BY <2>1, LostIsWasted
  <2>3. ASSUME NEW d \in Events
        PROVE  (\A k, l \in Lost(d) : k = l) /\ (Lost(d) = {} \/ (d = e /\ Interrupted(e)))
    BY <2>1, <2>2
  <2>4. \A d \in Events : Cardinality(Lost(d)) <= crashes'[d] - crashes[d]
    BY <1>1, <1>2, <2>1, <2>3, LostFew
  <2>. QED BY <1>1, <2>1, <2>4, SweepHolds
<1>5. ASSUME NEW x \in Clusters, Draw(x)
      PROVE  Held /\ \A d \in Events : Cardinality(Lost(d)) <= crashes'[d] - crashes[d]
  <2>1. PICK t \in Grown(State) :
              /\ Leaves(t) /\ (UNCHANGED crashes \/ Interrupted(x))
              /\ \A d \in Events : Wasted(State, t, d) = {}
    BY <1>1, <1>5, DrawBuys
  <2>2. \A d \in Events : Lost(d) = {}
    BY <2>1, LostIsWasted
  <2>3. x \in Jobs
    BY DEF Jobs
  <2>4. \A d \in Events : Cardinality(Lost(d)) <= crashes'[d] - crashes[d]
    BY <1>1, <2>1, <2>2, <2>3, LostFew
  <2>. QED BY <1>1, <2>1, <2>4, SweepHolds
<1>6. CASE Answered
  <2>1. PICK e \in Events : \E r, n : n \in {0, 1} /\ Commanded(e, r, n)
    BY <1>6 DEF Answered
  <2>2. PICK r, n : n \in {0, 1} /\ Commanded(e, r, n)
    BY <2>1
  <2>3. Unspent /\ (UNCHANGED crashes \/ Interrupted(e))
    BY <2>2 DEF Commanded
  <2>4. Held /\ \A d : Lost(d) = {}
    BY <2>3 DEF Unspent, Held, Lost
  <2>5. \A d \in Events : Cardinality(Lost(d)) <= crashes'[d] - crashes[d]
    BY <1>1, <1>2, <2>3, <2>4, LostFew
  <2>. QED BY <2>4, <2>5
<1>7. CASE Applied
  <2>1. PICK x \in Clusters : \E q : Submitted(x, q)
    BY <1>7 DEF Applied
  <2>2. x \in Jobs /\ UNCHANGED tokens /\ (UNCHANGED crashes \/ Interrupted(x))
    BY <2>1 DEF Submitted, Jobs
  <2>3. Held /\ \A d : Lost(d) = {}
    BY <2>2 DEF Held, Lost
  <2>4. \A d \in Events : Cardinality(Lost(d)) <= crashes'[d] - crashes[d]
    BY <1>1, <2>2, <2>3, LostFew
  <2>. QED BY <2>3, <2>4
<1>8. CASE UNCHANGED vars
  BY <1>3, <1>8 DEF vars
<1>9. ASSUME NEW e \in Events, Time(e) PROVE UNCHANGED <<tokens, crashes>>
  BY <1>9 DEF Time
<1>10. ASSUME NEW e \in Events, Host(e) \/ \E c \in Everyone : Player(e, c) PROVE Answered
  BY <1>1, <1>10, EventCommanded DEF Answered
<1>11. ASSUME NEW x \in Clusters, NEW c \in Everyone, Applicant(x, c) PROVE Applied
  BY <1>1, <1>11, ApplicantSubmitted DEF Applied
<1>12. CASE Next
  BY <1>3, <1>4, <1>5, <1>6, <1>7, <1>9, <1>10, <1>11, <1>12, Zenon DEF Next
<1>. QED BY <1>8, <1>12

(* No token is spent on a lottery without seating its holder, but for one  *)
(* token when the sweep is interrupted between the two saves; none is ever *)
(* spent twice, taken back or given to another, by commands either.        *)
THEOREM TokensBuySeatsAlways == Spec => TokensBuySeats
<1>1. Inv /\ [Next]_vars =>
        /\ \A t \in DOMAIN tokens :
             /\ tokens'[t].holder = tokens[t].holder
             /\ tokens[t].redeemed => tokens'[t] = tokens[t]
        /\ \A e \in Events :
             Cardinality({t \in DOMAIN tokens :
                 /\ tokens'[t].redeemed /\ ~tokens[t].redeemed /\ tokens'[t].use = e
                 /\ ~(/\ Is(rows[e], tokens[t].holder, {"entered"})
                      /\ Is(rows'[e], tokens[t].holder, {"selected", "released"}))})
             <= crashes'[e] - crashes[e]
  BY TokensStep, Zenon DEF Held, Lost
<1>. QED BY <1>1, Invariance, PTL DEF Spec, TokensBuySeats

-----------------------------------------------------------------------------
(***************************************************************************)
(* A cluster's draw.                                                       *)
(***************************************************************************)
(* A pending ticket is in the order of the draw.                            *)
LEMMA TicketInOrder ==
    ASSUME NEW s, Sound(s), NEW x \in Clusters, NEW order \in Orders(x, s), NEW k \in At(s.tickets[x], "pending")
    PROVE  \E i \in DOMAIN order : order[i] = k
<1>1. \A h \in At(s.tickets[x], "pending") : \E i \in DOMAIN order : order[i] = h
  BY OrdersMean, Z3
<1>. QED BY <1>1, Zenon

(* An event that is full when a ticket's turn comes is full in the end.     *)
StaysFull(left, order, e) == \A h \in 0..Len(order) : left[h][e] = 0 => left[Len(order)][e] = 0

LEMMA LeftStays ==
    ASSUME NEW x, NEW s, NEW order, Len(order) \in Nat, NEW left, Allots(left, x, s, order),
           NEW e \in Members[x]
    PROVE  StaysFull(left, order, e)
<1>. SUFFICES ASSUME NEW h \in 0..Len(order), left[h][e] = 0 PROVE left[Len(order)][e] = 0
  BY DEF StaysFull
<1>. DEFINE N == Len(order)
            S == {j \in 0..N : j >= h => left[j][e] = 0}
<1>1. /\ N \in Nat /\ \A j \in 0..N : left[j][e] \in Nat
      /\ \A j \in 1..N : left[j][e] = left[j - 1][e] \/ left[j][e] = left[j - 1][e] - 1
  <2>1. N \in Nat /\ left \in [0..N -> [Members[x] -> Nat]]
    BY DEF Allots
  <2>2. \A j \in 1..N : left[j][e] = left[j - 1][e] - IF Assigned(x, s, order)[j] = e THEN 1 ELSE 0
    BY DEF Allots
  <2>3. \A j \in 1..N : j \in 0..N /\ j - 1 \in 0..N
    BY <2>1
  <2>4. \A j \in 0..N : left[j][e] \in Nat
    BY <2>1
  <2>5. ASSUME NEW j \in 1..N
        PROVE  left[j][e] = left[j - 1][e] \/ left[j][e] = left[j - 1][e] - 1
    <3>1. left[j - 1][e] \in Nat
      BY <2>3, <2>4
    <3>2. CASE Assigned(x, s, order)[j] = e
      BY <2>2, <3>2
    <3>3. CASE Assigned(x, s, order)[j] # e
      BY <2>2, <3>1, <3>3
    <3>. QED BY <3>2, <3>3
  <2>. HIDE DEF N
  <2>. QED BY <2>1, <2>4, <2>5
<1>2. 0 \in S
  BY <1>1
<1>3. ASSUME NEW j \in 1..N, j - 1 \in S PROVE j \in S
  <2>1. j \in 0..N /\ left[j][e] \in Nat
    BY <1>1
  <2>2. CASE j = h
    BY <2>1, <2>2
  <2>3. CASE j > h
    <3>1. left[j - 1][e] = 0
      BY <1>1, <1>3, <2>3
    <3>2. left[j][e] = 0
      BY <1>1, <2>1, <3>1
    <3>. QED BY <2>1, <3>2
  <2>4. CASE j < h
    BY <2>1, <2>4
  <2>. QED BY <1>1, <2>2, <2>3, <2>4
<1>4. \A j \in 1..N : j - 1 \in S => j \in S
  BY <1>3
<1>5. N \in S
  <2>. HIDE DEF S, N
  <2>. QED BY <1>1, <1>2, <1>4, Climb
<1>. QED BY <1>1, <1>5

(* The seats of an event, after rows are added to it for each of J.         *)
LEMMA SeatsAdded ==
    ASSUME NEW p \in Seq(Rows), NEW r \in Seq(Rows), Kept(r, p), DOMAIN p \subseteq DOMAIN r, NEW J, NEW who,
           \A i, j \in J : who[i] = who[j] => i = j,
           \A j \in J : \E k \in DOMAIN r : k \notin DOMAIN p /\ r[k].who = who[j] /\ r[k].status = "selected"
    PROVE  /\ Cardinality(J) \in Nat /\ Count(p, "confirmed") \in Nat
           /\ Cardinality(J) + Count(p, "confirmed") <= Taken(r)
<1>. DEFINE C == At(p, "confirmed")
            R == SeatsIn(r)
            D == R \ C
            f == [j \in J |-> CHOOSE k \in DOMAIN r : k \notin DOMAIN p /\ r[k].who = who[j] /\ r[k].status = "selected"]
<1>1. IsFiniteSet(R) /\ Taken(r) = Cardinality(R) /\ Cardinality(R) \in Nat
  BY TakenIs
<1>2. IsFiniteSet(C) /\ C \subseteq DOMAIN p /\ Count(p, "confirmed") = Cardinality(C) /\ Cardinality(C) \in Nat
  BY AtMeans DEF Count
<1>3. C \subseteq R
  BY DEF At, SeatsIn, SeatStatuses, Kept
<1>4. \A j \in J : f[j] \in DOMAIN r /\ f[j] \notin DOMAIN p /\ r[f[j]].who = who[j] /\ r[f[j]].status = "selected"
  OBVIOUS
<1>. HIDE DEF f
<1>5. \A j \in J : f[j] \in D
  BY <1>2, <1>4 DEF SeatsIn, SeatStatuses
<1>6. \A i, j \in J : f[i] = f[j] => i = j
  BY <1>4
<1>. HIDE DEF R, C
<1>7. IsFiniteSet(D) /\ Cardinality(D) = Cardinality(R) - Cardinality(C)
  <2>1. R \cap C = C
    BY <1>3
  <2>2. IsFiniteSet(R \ C) /\ Cardinality(R \ C) = Cardinality(R) - Cardinality(R \cap C)
    BY <1>1, FS_Difference
  <2>. QED BY <2>1, <2>2 DEF D
<1>. HIDE DEF D
<1>8. Cardinality(J) \in Nat /\ Cardinality(J) <= Cardinality(D)
  BY <1>5, <1>6, <1>7, AtMost
<1>. QED BY <1>1, <1>2, <1>7, <1>8

LEMMA NonePassedOver ==
    ASSUME InSchedule, NEW b, Sound(b), NEW x \in Clusters, NEW order \in Orders(x, b),
           NEW n \in 0..Len(ClusterDraw(x, b, order)), NEW t \in Reached(b, ClusterDraw(x, b, order), n),
           Members[x] \cap b.drawn = {}, Members[x] \cap t.drawn # {},
           NEW k \in At(b.tickets[x], "pending"), NEW m \in DOMAIN b.tickets[x][k].wishes,
           \A j \in DOMAIN b.tickets[x][k].wishes :
               Is(t.rows[b.tickets[x][k].wishes[j]], b.tickets[x][k].who, {"selected"}) => m < j
    PROVE  Taken(t.rows[b.tickets[x][k].wishes[m]]) >= Cap[b.tickets[x][k].wishes[m]]
<1>. DEFINE K == DrawKinds(x, b, order)
            q == b.tickets[x]
            w == q[k].wishes
            c == q[k].who
            e == w[m]
            to == Assigned(x, b, order)
            N == Len(order)
            J == {j \in 1..N : to[j] = e}
<1>1. PICK front, back : Ranks(x, b, order, front, back)
  BY OrdersMean, DrawIs
<1>2. front \in Seq(K) /\ back \in Seq(K) /\ ClusterDraw(x, b, order) = front \o back /\ front \in Seq(DrawSaves(x, b, order))
  BY <1>1, DrawAreSaves DEF Ranks
<1>3. /\ t \in Grown(b)
      /\ n <= Len(front) => Moved(b, t, ToSet(front))
      /\ n >= Len(front) => \A i \in DOMAIN front : Made(b, t, front[i])
  <2>. HIDE DEF K
  <2>1. n \in 0..Len(front \o back) /\ t \in Reached(b, front \o back, n)
    BY <1>2
  <2>. QED BY <1>2, <2>1, ReachedParts
<1>4. ~(n <= Len(front))
  <2>. SUFFICES ASSUME n <= Len(front) PROVE FALSE
    OBVIOUS
  <2>1. PICK d \in Members[x] : d \in t.drawn /\ d \notin b.drawn
    OBVIOUS
  <2>2. Draws(d) \in ToSet(front)
    BY <1>3, <2>1 DEF Moved
  <2>3. ToSet(front) \subseteq DrawSaves(x, b, order)
    BY <1>2, ToSetSize
  <2>4. \A v \in DrawSaves(x, b, order) : v.save # "drawn"
    BY DEF DrawSaves, SeatSaves, MarkSaves, SpendSaves, NewTokenSaves, Seats, Marks, TokenSaves
  <2>. QED BY <2>2, <2>3, <2>4 DEF Draws
<1>5. \A i \in DOMAIN front : Made(b, t, front[i])
  <2>. HIDE DEF K
  <2>1. n \in Nat /\ Len(front) \in Nat
    <3>1. Len(front \o back) \in Nat
      BY <1>2
    <3>. QED BY <1>2, <3>1
  <2>. QED BY <1>3, <1>4, <2>1
<1>6. ASSUME NEW i \in SeatedAt(x, b, order)
      PROVE  \E l \in DOMAIN t.rows[to[i]] : /\ l \notin DOMAIN b.rows[to[i]]
                                             /\ t.rows[to[i]][l].who = WhoAt(x, b, order, i)
                                             /\ t.rows[to[i]][l].status = "selected"
  <2>1. \E j \in DOMAIN front : front[j] = Seats(to[i], WhoAt(x, b, order, i))
    BY <1>1 DEF Ranks
  <2>2. Made(b, t, Seats(to[i], WhoAt(x, b, order, i)))
    BY <1>5, <2>1
  <2>. QED BY <2>2 DEF Made, Seats
<1>7. order \in Seq(DOMAIN q) /\ N \in Nat /\ DOMAIN order = 1..N
  <2>1. order \in Seq(DOMAIN q)
    BY OrdersMean
  <2>. HIDE DEF q
  <2>. QED BY <2>1
<1>8. PICK i \in 1..N : order[i] = k
  <2>2. \E i \in DOMAIN order : order[i] = k
    BY TicketInOrder
  <2>. HIDE DEF N
  <2>. QED BY <1>7, <2>2
<1>9. /\ w \in Seq(Members[x]) /\ None \notin Members[x] /\ Members[x] \subseteq Events
      /\ e \in Members[x]
  <2>1. k \in DOMAIN q
    BY DEF At
  <2>2. w \in Seq(Members[x]) /\ None \notin Members[x] /\ Members[x] \subseteq Events
    BY <2>1, WishesMean
  <2>. QED BY <2>2
<1>10. PICK left : Allots(left, x, b, order)
  BY <1>7, AssignedMeans
<1>11. to[i] = BestWish(w, left[i - 1]) /\ left[i - 1][e] \in Nat
  <2>1. i - 1 \in 0..N
    BY <1>7
  <2>2. left \in [0..N -> [Members[x] -> Nat]]
    BY <1>10 DEF Allots
  <2>3. to[i] = BestWish(b.tickets[x][order[i]].wishes, left[i - 1])
    BY <1>10 DEF Allots
  <2>. QED BY <1>8, <1>9, <2>1, <2>2, <2>3
<1>12. ASSUME NEW j \in DOMAIN w, to[i] = w[j] PROVE m < j
  <2>1. w[j] \in Members[x]
    BY <1>9
  <2>2. i \in SeatedAt(x, b, order) /\ w[j] \in Events
    BY <1>7, <1>9, <1>12, <2>1 DEF SeatedAt
  <2>3. WhoAt(x, b, order, i) = c
    BY <1>8 DEF WhoAt
  <2>4. PICK l \in DOMAIN t.rows[w[j]] : t.rows[w[j]][l].who = c /\ t.rows[w[j]][l].status \in {"selected"}
    BY <1>6, <1>12, <2>2, <2>3
  <2>5. t.rows[w[j]] \in Seq(Rows) /\ RowsSound(w[j], t.rows[w[j]])
    BY <1>3, <2>2, GrownLengths
  <2>. DEFINE d == w[j]
              r == t.rows[d]
              a == c
  <2>6. Is(r, a, {"selected"})
    <3>1. r \in Seq(Rows) /\ RowsSound(d, r) /\ l \in DOMAIN r /\ r[l].who = a /\ r[l].status \in {"selected"}
      BY <2>4, <2>5
    <3>. HIDE DEF d, r, a
    <3>. QED BY <3>1, RowsIs
  <2>. QED BY <2>6
<1>13. left[i - 1][e] = 0
  <2>. DEFINE f == left[i - 1]
  <2>. HIDE DEF f
  <2>1. \/ /\ BestWish(w, f) = None
           /\ \A l \in DOMAIN w : ~(f[w[l]] > 0)
        \/ \E l \in DOMAIN w :
              /\ BestWish(w, f) = w[l] /\ f[w[l]] > 0
              /\ \A h \in DOMAIN w : h < l => ~(f[w[h]] > 0)
    <3>. HIDE DEF w
    <3>. QED BY <1>9, BestWishMeans
  <2>2. to[i] = BestWish(w, f) /\ f[e] \in Nat
    BY <1>11 DEF f
  <2>3. ~(f[e] > 0)
    <3>1. CASE \A l \in DOMAIN w : ~(f[w[l]] > 0)
      BY <3>1
    <3>2. ASSUME NEW l \in DOMAIN w, BestWish(w, f) = w[l], \A h \in DOMAIN w : h < l => ~(f[w[h]] > 0)
          PROVE  ~(f[e] > 0)
      <4>1. m < l
        BY <1>12, <2>2, <3>2
      <4>. QED BY <3>2, <4>1
    <3>. QED BY <2>1, <3>1, <3>2
  <2>4. f[e] = 0
    BY <2>2, <2>3
  <2>. QED BY <2>4 DEF f
<1>. HIDE DEF e, J
<1>14. left[N][e] = 0
  <2>. DEFINE h == i - 1
  <2>1. h \in 0..Len(order) /\ Len(order) \in Nat
    <3>. HIDE DEF q
    <3>. QED BY <1>7, <1>8
  <2>2. left[h][e] = 0
    BY <1>13
  <2>. HIDE DEF h, N
  <2>3. StaysFull(left, order, e)
    <3>1. e \in Members[x] /\ Len(order) \in Nat /\ Allots(left, x, b, order)
      BY <1>9, <1>10, <2>1
    <3>. HIDE DEF q, w, c, to
    <3>. QED BY <3>1, LeftStays
  <2>4. left[Len(order)][e] = 0
    BY <2>1, <2>2, <2>3 DEF StaysFull
  <2>. QED BY <2>4 DEF N
<1>15. Cardinality(J) = Free(x, b)[e] /\ Cardinality(J) \in Nat
  <2>1. Cardinality(J) + left[N][e] = Free(x, b)[e]
    BY <1>9, <1>10 DEF Allots, J
  <2>2. IsFiniteSet(1..N) /\ J \subseteq 1..N
    <3>1. J \subseteq 1..N
      BY DEF J
    <3>2. N \in Nat
      BY <1>7
    <3>3. 1 \in Int /\ N \in Int
      BY <3>2
    <3>. HIDE DEF N, J, q, w, c, to
    <3>4. IsFiniteSet(1..N)
      BY <3>3, FS_Interval
    <3>. QED BY <3>1, <3>4
  <2>3. Cardinality(J) \in Nat
    BY <2>2, FS_Subset, FS_CardinalityType
  <2>. QED BY <1>14, <2>1, <2>3
<1>16. Cap[e] - Count(b.rows[e], "confirmed") <= Free(x, b)[e] /\ e \in Events /\ Cap[e] \in Nat
  BY <1>9, FreeMeans
<1>17. /\ Cardinality(J) \in Nat /\ Count(b.rows[e], "confirmed") \in Nat
       /\ Cardinality(J) + Count(b.rows[e], "confirmed") <= Taken(t.rows[e])
       /\ Taken(t.rows[e]) \in Nat
  <2>. DEFINE who == [j \in 1..N |-> WhoAt(x, b, order, j)]
              p == b.rows[e]
              r == t.rows[e]
  <2>1. p \in Seq(Rows) /\ r \in Seq(Rows) /\ Kept(r, p) /\ DOMAIN p \subseteq DOMAIN r
    BY <1>3, <1>16, GrownLengths
  <2>2. \A j, l \in J : who[j] = who[l] => j = l
    BY <1>7, OneTicketEach DEF J
  <2>3. ASSUME NEW j \in J PROVE \E l \in DOMAIN r : l \notin DOMAIN p /\ r[l].who = who[j] /\ r[l].status = "selected"
    <3>1. j \in SeatedAt(x, b, order) /\ to[j] = e /\ who[j] = WhoAt(x, b, order, j)
      BY <1>7, <1>9 DEF J, SeatedAt
    <3>. QED BY <1>6, <3>1
  <2>. HIDE DEF who, p, r
  <2>4. Cardinality(J) + Count(p, "confirmed") <= Taken(r) /\ Count(p, "confirmed") \in Nat
    BY <2>1, <2>2, <2>3, SeatsAdded
  <2>5. Taken(r) \in Nat
    BY <2>1, TakenIs
  <2>. QED BY <1>15, <2>4, <2>5 DEF p, r
<1>18. Taken(t.rows[e]) >= Cap[e]
  <2>. DEFINE a == Count(b.rows[e], "confirmed")
              z == Taken(t.rows[e])
              y == Cardinality(J)
              v == Cap[e]
  <2>1. a \in Nat /\ z \in Nat /\ y \in Nat /\ v \in Nat /\ v - a <= y /\ y + a <= z
    BY <1>15, <1>16, <1>17
  <2>. HIDE DEF a, z, y, v
  <2>2. z >= v
    BY <2>1
  <2>. QED BY <2>2 DEF z, v
<1>. QED BY <1>18 DEF e

(* An event's sweep marks as drawn at most that event, if it is of no       *)
(* cluster.                                                                 *)
LEMMA ScriptMarks ==
    ASSUME InSchedule, Sound(State), NEW e \in Events, Script(e), NEW d, d \in drawn', d \notin drawn
    PROVE  d = e /\ ~Clustered(e)
<1>. DEFINE b == State
<1>1. PICK s, u, t : /\ LotteryStep(e, b, s) /\ Sound(s) /\ ExpiryStep(e, s, u) /\ Sound(u)
                     /\ IssueStep(e, u, t) /\ Leaves(t)
  BY SweepIs
<1>2. u.drawn = s.drawn /\ t.drawn = u.drawn
  BY <1>1, ExpiryTouches, IssueTouches
<1>3. t.drawn = drawn' /\ b.drawn = drawn
  BY <1>1, Zenon DEF Leaves, State
<1>4. Sound(b) /\ d \in s.drawn /\ d \notin b.drawn
  BY <1>2, <1>3
<1>. HIDE DEF b
<1>5. ASSUME LotteryDue(e), NEW saves, NEW S, NEW n \in 0..Len(saves), Lots(e, b, saves, S), s \in Reached(b, saves, n)
      PROVE  d = e /\ ~Clustered(e)
  <2>1. e \in Staff /\ ~Clustered(e)
    BY <1>5 DEF LotteryDue
  <2>2. Drew(e, b, s)
    BY <1>4, <1>5, <2>1, LotteryDrew
  <2>. QED BY <1>4, <2>1, <2>2 DEF Drew
<1>6. s # b
  BY <1>4
<1>. QED BY <1>1, <1>5, <1>6, Zenon DEF LotteryStep

(* Only its own draw marks the events of a cluster as drawn.                *)
LEMMA RunsByDraw ==
    ASSUME InSchedule, Sound(State), [Next]_vars, NEW x \in Clusters, ~HasRun(x), HasRun(x)'
    PROVE  Draw(x)
<1>1. PICK d \in Members[x] : d \in drawn' /\ d \notin drawn
  BY DEF HasRun
<1>2. Clustered(d)
  BY DEF Clustered
<1>3. ~(UNCHANGED vars)
  BY <1>1 DEF vars
<1>4. ASSUME NEW e \in Events, Time(e) PROVE FALSE
  BY <1>1, <1>4, Zenon DEF Time
<1>5. ASSUME NEW e \in Events, Script(e) PROVE FALSE
  BY <1>1, <1>2, <1>5, ScriptMarks
<1>6. ASSUME NEW e \in Events, Host(e) \/ \E c \in Everyone : Player(e, c) PROVE FALSE
  <2>1. PICK r, n : Commanded(e, r, n)
    BY <1>6, EventCommanded
  <2>. QED BY <1>1, <2>1 DEF Commanded
<1>7. ASSUME NEW y \in Clusters, NEW c \in Everyone, Applicant(y, c) PROVE FALSE
  <2>1. PICK q : Submitted(y, q)
    BY <1>7, ApplicantSubmitted
  <2>. QED BY <1>1, <2>1 DEF Submitted
<1>8. ASSUME NEW y \in Clusters, Draw(y) PROVE y = x
  <2>. DEFINE b == State
  <2>0. Sound(b) /\ b.drawn = drawn
    BY DEF State
  <2>1. PICK order \in Orders(y, b) :
           \E n \in 0..Len(ClusterDraw(y, b, order)) :
              \E t \in Reached(b, ClusterDraw(y, b, order), n) : Leaves(t)
    BY <1>8, DrawStep, Zenon
  <2>2. PICK n \in 0..Len(ClusterDraw(y, b, order)) :
           \E t \in Reached(b, ClusterDraw(y, b, order), n) : Leaves(t)
    BY <2>1, Zenon
  <2>3. PICK t \in Reached(b, ClusterDraw(y, b, order), n) : Leaves(t)
    BY <2>2, Zenon
  <2>4. t.drawn = drawn'
    BY <2>3, Zenon DEF Leaves
  <2>. HIDE DEF b
  <2>5. Ranked(y, b, t)
    BY <2>0, DrawRanked
  <2>6. d \in Members[y]
    BY <1>1, <2>0, <2>4, <2>5 DEF Ranked
  <2>7. x \in DOMAIN Members /\ y \in DOMAIN Members
    BY DEF InSchedule
  <2>. QED BY <1>1, <2>6, <2>7, CalendarAssumption
<1>9. Next
  BY <1>3
<1>. QED BY <1>4, <1>5, <1>6, <1>7, <1>8, <1>9, Zenon DEF Next

(* The seats of a ticket's applicant in the events that it ranks.           *)
SeatsOf(ticket, r) ==
    {n \in DOMAIN ticket.wishes : Is(r[ticket.wishes[n]], ticket.who, {"selected"})}
PassedOver(ticket, r, n) ==
    (\A m \in SeatsOf(ticket, r) : n < m) /\ ~(Taken(r[ticket.wishes[n]]) >= Cap[ticket.wishes[n]])

LEMMA DrawPassesNone ==
    ASSUME InSchedule, Sound(State), NEW x \in Clusters, Draw(x), HasRun(x)',
           NEW k \in At(tickets[x], "pending"), NEW n \in DOMAIN tickets[x][k].wishes
    PROVE  ~PassedOver(tickets[x][k], rows', n)
<1>. DEFINE b == State
<1>0. Sound(b) /\ b.drawn = drawn /\ b.tickets = tickets
  BY DEF State
<1>1. PICK order \in Orders(x, b) :
         \E j \in 0..Len(ClusterDraw(x, b, order)) :
            \E t \in Reached(b, ClusterDraw(x, b, order), j) : Leaves(t) /\ ~HasRun(x)
  BY DrawStep, Zenon
<1>2. PICK j \in 0..Len(ClusterDraw(x, b, order)) :
         \E t \in Reached(b, ClusterDraw(x, b, order), j) : Leaves(t) /\ ~HasRun(x)
  BY <1>1, Zenon
<1>3. PICK t \in Reached(b, ClusterDraw(x, b, order), j) : Leaves(t) /\ ~HasRun(x)
  BY <1>2, Zenon
<1>4. t.drawn = drawn' /\ t.rows = rows'
  BY <1>3, Zenon DEF Leaves
<1>5. Members[x] \cap b.drawn = {} /\ Members[x] \cap t.drawn # {}
  <2>1. Members[x] \cap drawn = {}
    BY <1>3 DEF HasRun
  <2>2. Members[x] \cap drawn' # {}
    BY DEF HasRun
  <2>. QED BY <1>0, <1>4, <2>1, <2>2
<1>. SUFFICES ASSUME \A m \in SeatsOf(b.tickets[x][k], t.rows) : n < m
              PROVE  Taken(t.rows[b.tickets[x][k].wishes[n]]) >= Cap[b.tickets[x][k].wishes[n]]
  BY <1>0, <1>4 DEF PassedOver
<1>6. k \in At(b.tickets[x], "pending") /\ n \in DOMAIN b.tickets[x][k].wishes
  BY <1>0
<1>. HIDE DEF b
<1>7. \A m \in DOMAIN b.tickets[x][k].wishes :
         Is(t.rows[b.tickets[x][k].wishes[m]], b.tickets[x][k].who, {"selected"}) => n < m
  BY DEF SeatsOf
<1>. QED BY <1>0, <1>5, <1>6, <1>7, NonePassedOver

(* When a cluster's draw is through, whoever is not seated, or seated in    *)
(* another event than the one they ranked first, would find every event     *)
(* they ranked higher full.                                                 *)
THEOREM NoBetterSeatFreeAlways == Spec => NoBetterSeatFree
<1>1. Inv /\ [Next]_vars =>
        \A x \in Clusters : ~HasRun(x) /\ HasRun(x)' =>
         \A ticket \in {tickets[x][k] : k \in At(tickets[x], "pending")} :
           LET seats == {n \in DOMAIN ticket.wishes :
                            Is(rows'[ticket.wishes[n]], ticket.who, {"selected"})}
           IN  \A n \in DOMAIN ticket.wishes :
                  (\A m \in seats : n < m) => Taken(rows'[ticket.wishes[n]]) >= Cap[ticket.wishes[n]]
  <2>. SUFFICES ASSUME Inv, [Next]_vars, NEW x \in Clusters, ~HasRun(x), HasRun(x)',
                       NEW k \in At(tickets[x], "pending")
                PROVE  \A n \in DOMAIN tickets[x][k].wishes :
                          (\A m \in SeatsOf(tickets[x][k], rows') : n < m)
                          => Taken(rows'[tickets[x][k].wishes[n]]) >= Cap[tickets[x][k].wishes[n]]
    BY Zenon DEF SeatsOf
  <2>1. InSchedule /\ Sound(State)
    BY InvMeans
  <2>2. Draw(x)
    BY <2>1, RunsByDraw
  <2>3. \A n \in DOMAIN tickets[x][k].wishes : ~PassedOver(tickets[x][k], rows', n)
    BY <2>1, <2>2, DrawPassesNone
  <2>. QED BY <2>3 DEF PassedOver
<1>. QED BY <1>1, Invariance, PTL DEF Spec, NoBetterSeatFree
====
