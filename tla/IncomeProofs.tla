---------------------------- MODULE IncomeProofs ----------------------------
(***************************************************************************)
(* Theorems about Income and the queue it schedules payments with, for any *)
(* characters, periods, attempts and queue length.                         *)
(***************************************************************************)
EXTENDS Income, SequenceTheorems, TLAPS

(* Periods are numbers.                                                    *)
LEMMA PeriodsInt == \A n \in Periods : n \in Int /\ n >= 0
BY PeriodicAssumption

(* What the fields of a queue entry are.                                   *)
LEMMA EntryTyped ==
    ASSUME NEW e \in Entry
    PROVE  /\ e.ids \subseteq Characters
           /\ e.period \in Periods /\ e.period \in Int
           /\ e.attempt \in 0..(MaxAttempts - 1) /\ e.attempt \in Int
           /\ e.due \in BOOLEAN
<1>1. e.ids \in SUBSET Characters /\ e.period \in Periods /\ e.due \in BOOLEAN
  BY DEF Entry
<1>2. e.attempt \in 0..(MaxAttempts - 1)
  BY DEF Entry
<1>3. e.period \in Int
  BY <1>1, PeriodsInt, Zenon
<1>4. \A n \in 0..(MaxAttempts - 1) : n \in Int
  OBVIOUS
<1>5. e.attempt \in Int
  BY <1>2, <1>4, Zenon
<1> QED
  BY <1>1, <1>2, <1>3, <1>5

(* The entries of a queue are entries.                                     *)
LEMMA EntriesTyped ==
    ASSUME NEW s \in Seq(Entry), NEW k \in 1..Len(s)
    PROVE  /\ s[k] \in Entry /\ s[k].ids \subseteq Characters
           /\ s[k].period \in Periods /\ s[k].period \in Int
           /\ s[k].attempt \in Int
<1>1. s[k] \in Entry
  OBVIOUS
<1> QED
  BY <1>1, EntryTyped

(* Entries of a queue are well typed, and so are the claims in it.         *)
LEMMA ClaimsMean ==
    ASSUME NEW s \in Seq(Entry)
    PROVE  /\ Claims(s) \subseteq Characters \X Periods
           /\ \A x : x \in Claims(s) <=> \E k \in 1..Len(s) : x \in s[k].ids \X {s[k].period}
<1>1. DOMAIN s = 1..Len(s)
  OBVIOUS
<1>2. \A x : x \in Claims(s) <=> \E k \in 1..Len(s) : x \in s[k].ids \X {s[k].period}
  BY <1>1, Zenon DEF Claims
<1>3. ASSUME NEW k \in 1..Len(s)
      PROVE  s[k].ids \subseteq Characters /\ s[k].period \in Periods
  BY EntriesTyped
<1> QED
  BY <1>2, <1>3

(* The empty queue owes nobody.                                            *)
LEMMA ClaimsEmpty == Claims(<<>>) = {}
BY DEF Claims

(* A new entry adds its own claims.                                        *)
LEMMA ClaimsAppend ==
    ASSUME NEW s \in Seq(Entry), NEW e \in Entry
    PROVE  Claims(Append(s, e)) = Claims(s) \cup (e.ids \X {e.period})
<1> DEFINE t == Append(s, e)
<1>1. t \in Seq(Entry) /\ Len(t) = Len(s) + 1 /\ t[Len(t)] = e
      /\ \A k \in 1..Len(s) : t[k] = s[k]
  OBVIOUS
<1>2. \A x : x \in Claims(t) <=> \E k \in 1..Len(t) : x \in t[k].ids \X {t[k].period}
  BY <1>1, ClaimsMean
<1>3. \A x : x \in Claims(s) <=> \E k \in 1..Len(s) : x \in s[k].ids \X {s[k].period}
  BY ClaimsMean
<1>4. 1..Len(t) = (1..Len(s)) \cup {Len(t)} /\ Len(s) \in Nat
  BY <1>1
<1> HIDE DEF t
<1>5. ASSUME NEW x PROVE x \in Claims(t) <=> x \in Claims(s) \/ x \in e.ids \X {e.period}
  BY <1>1, <1>2, <1>3, <1>4, Zenon
<1>6. Claims(t) = Claims(s) \cup (e.ids \X {e.period})
  BY <1>5, Zenon
<1> QED
  BY <1>6 DEF t

(* The head's claims and the tail's are all there are.                     *)
LEMMA ClaimsTail ==
    ASSUME NEW s \in Seq(Entry), s # <<>>
    PROVE  Claims(s) = (s[1].ids \X {s[1].period}) \cup Claims(Tail(s))
<1> DEFINE t == Tail(s)
<1>1. t \in Seq(Entry) /\ Len(s) = Len(t) + 1 /\ Len(t) \in Nat
      /\ \A k \in 1..Len(t) : t[k] = s[k + 1]
  OBVIOUS
<1>2. \A x : x \in Claims(t) <=> \E k \in 1..Len(t) : x \in t[k].ids \X {t[k].period}
  BY <1>1, ClaimsMean
<1>3. \A x : x \in Claims(s) <=> \E k \in 1..Len(s) : x \in s[k].ids \X {s[k].period}
  BY ClaimsMean
<1> HIDE DEF t
<1>4. ASSUME NEW x, x \in Claims(s), x \notin s[1].ids \X {s[1].period}
      PROVE  x \in Claims(t)
  <2>1. PICK k \in 1..Len(s) : x \in s[k].ids \X {s[k].period}
    BY <1>3, <1>4
  <2>2. k # 1 /\ k - 1 \in 1..Len(t) /\ t[k - 1] = s[k]
    BY <1>1, <1>4, <2>1
  <2> QED
    BY <1>2, <2>1, <2>2
<1>5. ASSUME NEW x, x \in Claims(t)
      PROVE  x \in Claims(s)
  <2>1. PICK k \in 1..Len(t) : x \in t[k].ids \X {t[k].period}
    BY <1>2, <1>5
  <2>2. k + 1 \in 1..Len(s) /\ t[k] = s[k + 1]
    BY <1>1, <2>1
  <2> QED
    BY <1>3, <2>1, <2>2
<1>6. 1 \in 1..Len(s)
  BY <1>1
<1>7. s[1].ids \X {s[1].period} \subseteq Claims(s)
  BY <1>3, <1>6
<1>8. Claims(s) = (s[1].ids \X {s[1].period}) \cup Claims(t)
  BY <1>4, <1>5, <1>7, Zenon
<1> QED
  BY <1>8 DEF t
-----------------------------------------------------------------------------
(* How queues grow.                                                        *)

Failures == [Characters -> [Periods -> 0..MaxAttempts]]

(* Failed attempts are counted up to MaxAttempts.                          *)
LEMMA FailuresCount ==
    ASSUME NEW t \in Failures, NEW c \in Characters, NEW n \in Periods
    PROVE  t[c][n] \in 0..MaxAttempts /\ t[c][n] \in Int
BY DEF Failures

(* A later period at the end keeps a queue spaced.                         *)
LEMMA SpacedAppend ==
    ASSUME NEW s \in Seq(Entry), NEW e \in Entry, Spaced(s),
           \A k \in 1..Len(s) : s[k].period + (Len(s) - k) + 1 <= e.period
    PROVE  Spaced(Append(s, e))
<1> DEFINE t == Append(s, e)
<1>1. t \in Seq(Entry) /\ Len(t) = Len(s) + 1 /\ t[Len(t)] = e /\ Len(s) \in Nat
      /\ \A k \in 1..Len(s) : t[k] = s[k]
  OBVIOUS
<1> HIDE DEF t
<1>2. ASSUME NEW j \in 1..Len(t), NEW k \in 1..Len(t), j < k
      PROVE  t[j].period + (k - j) <= t[k].period
  <2>1. CASE k = Len(t)
    <3>1. j \in 1..Len(s) /\ t[j] = s[j] /\ t[k] = e /\ k = Len(s) + 1
      BY <1>1, <1>2, <2>1
    <3>2. s[j].period + (Len(s) - j) + 1 <= e.period
      BY <3>1
    <3>3. s[j].period \in Int /\ e.period \in Int
      BY <3>1, EntriesTyped, EntryTyped
    <3> QED
      BY <1>1, <3>1, <3>2, <3>3
  <2>2. CASE k # Len(t)
    <3> DEFINE n == Len(s)  m == Len(t)
    <3>0. n \in Nat /\ m = n + 1 /\ j \in 1..m /\ k \in 1..m /\ j < k /\ k # m
      BY <1>1, <1>2, <2>2
    <3>1. j \in 1..Len(s) /\ k \in 1..Len(s)
      <4> HIDE DEF n, m
      <4>1. j \in 1..n /\ k \in 1..n
        BY <3>0
      <4> QED
        BY <4>1 DEF n
    <3>2. s[j].period + (k - j) <= s[k].period
      BY <1>2, <3>1 DEF Spaced
    <3> QED
      BY <1>1, <3>1, <3>2
  <2> QED
    BY <2>1, <2>2
<1>3. Spaced(t)
  BY <1>2 DEF Spaced
<1> QED
  BY <1>3 DEF t

(* What is left of a spaced queue is spaced.                               *)
LEMMA SpacedTail ==
    ASSUME NEW s \in Seq(Entry), s # <<>>, Spaced(s)
    PROVE  Spaced(Tail(s))
<1> DEFINE t == Tail(s)
<1>1. t \in Seq(Entry) /\ Len(s) = Len(t) + 1 /\ Len(t) \in Nat
      /\ \A k \in 1..Len(t) : t[k] = s[k + 1]
  OBVIOUS
<1> HIDE DEF t
<1>2. ASSUME NEW j \in 1..Len(t), NEW k \in 1..Len(t), j < k
      PROVE  t[j].period + (k - j) <= t[k].period
  <2>1. j + 1 \in 1..Len(s) /\ k + 1 \in 1..Len(s) /\ j + 1 < k + 1
    BY <1>1, <1>2
  <2>2. s[j + 1].period + ((k + 1) - (j + 1)) <= s[k + 1].period
    BY <2>1 DEF Spaced
  <2> QED
    BY <1>1, <2>2
<1>3. Spaced(t)
  BY <1>2 DEF Spaced
<1> QED
  BY <1>3 DEF t

(* What an entry at the end does to the attempts and the last period.      *)
LEMMA AppendKeeps ==
    ASSUME NEW s \in Seq(Entry), NEW e \in Entry, NEW failures, NEW last,
           Tried(s, failures), \A c \in e.ids : failures[c][e.period] >= e.attempt,
           UpTo(s, last), e.period <= last
    PROVE  Tried(Append(s, e), failures) /\ UpTo(Append(s, e), last)
<1> DEFINE t == Append(s, e)
<1>1. t \in Seq(Entry) /\ Len(t) = Len(s) + 1 /\ t[Len(t)] = e /\ Len(s) \in Nat
      /\ \A k \in 1..Len(s) : t[k] = s[k]
  OBVIOUS
<1>2. \A k \in 1..Len(t) : k = Len(t) \/ k \in 1..Len(s)
  BY <1>1
<1> HIDE DEF t
<1>3. Tried(t, failures) /\ UpTo(t, last)
  BY <1>1, <1>2 DEF Tried, UpTo
<1> QED
  BY <1>3 DEF t

(* What is left of a queue keeps its attempts and its last period.         *)
LEMMA TailKeeps ==
    ASSUME NEW s \in Seq(Entry), s # <<>>, NEW failures, NEW last,
           Tried(s, failures), UpTo(s, last)
    PROVE  Tried(Tail(s), failures) /\ UpTo(Tail(s), last)
<1> DEFINE t == Tail(s)
<1>1. t \in Seq(Entry) /\ Len(s) = Len(t) + 1 /\ Len(t) \in Nat
      /\ \A k \in 1..Len(t) : t[k] = s[k + 1]
  OBVIOUS
<1>2. \A k \in 1..Len(t) : k + 1 \in 1..Len(s)
  BY <1>1
<1> HIDE DEF t
<1>3. Tried(t, failures) /\ UpTo(t, last)
  BY <1>1, <1>2 DEF Tried, UpTo
<1> QED
  BY <1>3 DEF t

(* Attempts are only ever added.                                           *)
LEMMA TriedGrows ==
    ASSUME NEW s \in Seq(Entry), NEW t \in Failures, NEW u \in Failures, Tried(s, t),
           \A c \in Characters, p \in Periods : t[c][p] <= u[c][p]
    PROVE  Tried(s, u)
<1> SUFFICES ASSUME NEW k \in 1..Len(s), NEW c \in s[k].ids
             PROVE  u[c][s[k].period] >= s[k].attempt
  BY DEF Tried
<1> DEFINE n == s[k].period
<1>1. c \in Characters /\ n \in Periods /\ s[k].attempt \in Int
  BY EntriesTyped
<1>2. t[c][n] >= s[k].attempt
  BY DEF Tried
<1> HIDE DEF n
<1>3. t[c][n] \in Int /\ u[c][n] \in Int
  BY <1>1, FailuresCount
<1>4. u[c][n] >= s[k].attempt
  BY <1>1, <1>2, <1>3
<1> QED
  BY <1>4 DEF n

(* What comes after a queue's head comes after what came before it.        *)
LEMMA BeforeTail ==
    ASSUME NEW r \in Seq(Entry), NEW q \in Seq(Entry), q # <<>>, Before(r, q)
    PROVE  Before(r, Tail(q))
<1> DEFINE t == Tail(q)
<1>1. t \in Seq(Entry) /\ Len(q) = Len(t) + 1 /\ Len(t) \in Nat
      /\ \A k \in 1..Len(t) : t[k] = q[k + 1]
  OBVIOUS
<1> HIDE DEF t
<1>2. ASSUME NEW j \in 1..Len(r), NEW k \in 1..Len(t)
      PROVE  r[j].period + (Len(r) - j) + k <= t[k].period
  <2>1. k + 1 \in 1..Len(q)
    BY <1>1
  <2>2. r[j].period + (Len(r) - j) + (k + 1) <= q[k + 1].period
    BY <2>1 DEF Before
  <2>3. r[j].period \in Int /\ q[k + 1].period \in Int /\ Len(r) \in Int
    BY <2>1, EntriesTyped
  <2> QED
    BY <1>1, <2>2, <2>3
<1>3. Before(r, t)
  BY <1>2 DEF Before
<1> QED
  BY <1>3 DEF t

(* A queue's head, or a retry of it, can go to the end of what preceded.   *)
LEMMA HeadMoves ==
    ASSUME NEW r \in Seq(Entry), NEW q \in Seq(Entry), q # <<>>, NEW e \in Entry,
           Before(r, q), Spaced(r), Spaced(q), e.period = q[1].period
    PROVE  Spaced(Append(r, e)) /\ Before(Append(r, e), Tail(q))
<1> DEFINE t == Tail(q)  u == Append(r, e)
<1>1. t \in Seq(Entry) /\ Len(q) = Len(t) + 1 /\ Len(t) \in Nat
      /\ \A k \in 1..Len(t) : t[k] = q[k + 1]
  OBVIOUS
<1>2. u \in Seq(Entry) /\ Len(u) = Len(r) + 1 /\ u[Len(u)] = e /\ Len(r) \in Nat
      /\ \A k \in 1..Len(r) : u[k] = r[k]
  OBVIOUS
<1>3. 1 \in 1..Len(q) /\ e.period \in Int
  BY <1>1, EntryTyped
<1>4. Spaced(u)
  <2>1. ASSUME NEW k \in 1..Len(r)
        PROVE  r[k].period + (Len(r) - k) + 1 <= e.period
    BY <1>3 DEF Before
  <2> QED
    BY <2>1, SpacedAppend
<1> HIDE DEF t, u
<1>5. ASSUME NEW j \in 1..Len(u), NEW k \in 1..Len(t)
      PROVE  u[j].period + (Len(u) - j) + k <= t[k].period
  <2>1. k + 1 \in 1..Len(q) /\ 1 < k + 1
    BY <1>1
  <2>2. q[k + 1].period \in Int
    BY <2>1, EntriesTyped
  <2>3. CASE j = Len(u)
    <3>1. e.period + ((k + 1) - 1) <= q[k + 1].period
      BY <1>3, <2>1 DEF Spaced
    <3> QED
      BY <1>1, <1>2, <1>3, <2>2, <2>3, <3>1
  <2>4. CASE j # Len(u)
    <3> DEFINE n == Len(r)  m == Len(u)
    <3>1. n \in Nat /\ m = n + 1 /\ j \in 1..m /\ j # m
      BY <1>2, <2>4
    <3>2. j \in 1..n
      <4> HIDE DEF n, m
      <4> QED
        BY <3>1
    <3>3. r[j].period + (n - j) + (k + 1) <= q[k + 1].period
      BY <2>1, <3>2 DEF Before
    <3>4. r[j].period \in Int /\ u[j] = r[j]
      BY <1>2, <3>2, EntriesTyped
    <3> QED
      BY <1>1, <2>2, <3>1, <3>3, <3>4
  <2> QED
    BY <2>3, <2>4
<1>6. Before(u, t)
  BY <1>5 DEF Before
<1> QED
  BY <1>4, <1>6 DEF t, u

(* A retry is one entry, for those who failed, or nothing at all.          *)
LEMMA RetryMeans ==
    ASSUME NEW r \in Seq(Entry), NEW e \in Entry, NEW failed \in SUBSET e.ids
    PROVE  \/ (failed = {} \/ GivesUp(e)) /\ r \o Retry(e, failed) = r
           \/ ~GivesUp(e) /\ \E f \in Entry :
                 /\ f.period = e.period /\ f.ids = failed /\ f.attempt = e.attempt + 1
                 /\ r \o Retry(e, failed) = Append(r, f)
<1>1. CASE failed = {} \/ GivesUp(e)
  <2>1. r \o Retry(e, failed) = r
    BY <1>1 DEF Retry
  <2> QED
    BY <1>1, <2>1
<1>2. CASE ~(failed = {} \/ GivesUp(e))
  <2> DEFINE f == [period |-> e.period, ids |-> failed, attempt |-> e.attempt + 1, due |-> FALSE]
  <2>1. failed \in SUBSET Characters /\ e.period \in Periods
    BY EntryTyped
  <2>2. e.attempt + 1 \in 0..(MaxAttempts - 1)
    BY <1>2, EntryTyped, PeriodicAssumption DEF GivesUp
  <2>3. f \in Entry
    BY <2>1, <2>2 DEF Entry
  <2>4. Retry(e, failed) = <<f>>
    BY <1>2 DEF Retry
  <2>5. f.period = e.period /\ f.ids = failed /\ f.attempt = e.attempt + 1
    OBVIOUS
  <2> HIDE DEF f
  <2>6. r \o <<f>> = Append(r, f)
    BY <2>3
  <2> QED
    BY <1>2, <2>3, <2>4, <2>5, <2>6
<1> QED
  BY <1>1, <1>2

(* One period too many drops the oldest.                                   *)
LEMMA NewestDrops ==
    ASSUME NEW s \in Seq(Entry), Len(s) <= MaxPending + 1
    PROVE  IF Len(s) <= MaxPending THEN Newest(s) = s ELSE s # <<>> /\ Newest(s) = Tail(s)
<1>1. CASE Len(s) <= MaxPending
  BY <1>1, PeriodicAssumption DEF Newest
<1>2. CASE ~(Len(s) <= MaxPending)
  <2>1. Len(s) > MaxPending /\ Len(s) - MaxPending + 1 = 2 /\ s # <<>>
    BY <1>2, PeriodicAssumption
  <2>2. Newest(s) = SubSeq(s, 2, Len(s))
    BY <2>1 DEF Newest
  <2>3. Tail(s) = SubSeq(s, 2, Len(s))
    BY <2>1, TailIsSubSeq
  <2> QED
    BY <1>2, <2>1, <2>2, <2>3
<1> QED
  BY <1>1, <1>2

(* What a tick starts with: the stored queue, and the period just over.    *)
LEMMA EnqueueKeeps ==
    ASSUME TypeOK, QueueSound, now # -1,
           NEW q, q = Enqueue(store, now).pending
    PROVE  /\ Enqueue(store, now) = [latest |-> now, pending |-> q]
           /\ q \in Seq(Entry) /\ Len(q) <= MaxPending
           /\ Spaced(q) /\ Tried(q, tries) /\ UpTo(q, now)
           /\ now = store.latest => q = store.pending
           /\ now # store.latest =>
                 /\ Dropped(store, now) \subseteq Characters \X Periods
                 /\ \A c \in Characters, p \in Periods :
                       <<c, p>> \in Dropped(store, now) => p + MaxPending <= now
                 /\ Claims(store.pending) \subseteq Claims(q) \cup Dropped(store, now)
<1> DEFINE s == store.pending
<1>1. /\ store = [latest |-> store.latest, pending |-> s] /\ s \in Seq(Entry)
      /\ store.latest \in Periods \cup {-1} /\ now \in Periods /\ tries \in Failures
  BY DEF TypeOK, State, Failures
<1>2. now \in Int /\ store.latest \in Int /\ now >= 0
  BY <1>1, PeriodsInt
<1>3. CASE now = store.latest
  <2>1. Enqueue(store, now) = store
    BY <1>3 DEF Enqueue
  <2> QED
    BY <1>1, <1>3, <2>1 DEF QueueSound
<1>4. CASE now # store.latest
  <2> DEFINE e == [period |-> now, ids |-> Characters, attempt |-> 0, due |-> TRUE]
             t == Append(s, e)
  <2>1. e \in Entry
    <3>1. 0 \in 0..(MaxAttempts - 1)
      BY PeriodicAssumption
    <3> QED
      BY <1>1, <3>1 DEF Entry
  <2>2. e.period = now /\ e.attempt = 0 /\ e.ids = Characters
    OBVIOUS
  <2>3. Enqueue(store, now) = [latest |-> now, pending |-> Newest(t)] /\ Queued(s, now) = t
    BY <1>4 DEF Enqueue, Queued
  <2>4. q = Newest(t)
    BY <2>3
  <2> HIDE DEF e
  <2>5. t \in Seq(Entry) /\ Len(t) = Len(s) + 1 /\ t[Len(t)] = e /\ Len(s) \in Nat
    BY <1>1, <2>1
  <2>6. ASSUME NEW k \in 1..Len(s)
        PROVE  s[k].period + (Len(s) - k) + 1 <= now
    <3>1. Len(s) \in 1..Len(s) /\ k \in Int /\ k <= Len(s)
      BY <2>5
    <3>2. s[k].period \in Int /\ s[Len(s)].period \in Int
      BY <1>1, <3>1, EntriesTyped
    <3>3. s[Len(s)].period <= store.latest /\ store.latest <= now
      BY <3>1 DEF QueueSound, UpTo
    <3>4. k < Len(s) => s[k].period + (Len(s) - k) <= s[Len(s)].period
      BY <3>1 DEF QueueSound, Spaced
    <3> QED
      BY <1>2, <1>4, <2>5, <3>1, <3>2, <3>3, <3>4
  <2>7. Spaced(t)
    BY <1>1, <2>1, <2>2, <2>6, SpacedAppend DEF QueueSound
  <2>8. UpTo(s, now)
    <3> SUFFICES ASSUME NEW k \in 1..Len(s) PROVE s[k].period <= now
      BY DEF UpTo
    <3>1. s[k].period <= store.latest /\ store.latest <= now
      BY DEF QueueSound, UpTo
    <3>2. s[k].period \in Int
      BY <1>1, EntriesTyped
    <3> QED
      BY <1>2, <3>1, <3>2
  <2>9. \A c \in e.ids : tries[c][e.period] >= e.attempt
    BY <1>1, <2>2, FailuresCount
  <2>10. Tried(t, tries) /\ UpTo(t, now)
    <3>1. e.period <= now
      BY <1>2, <2>2
    <3> QED
      BY <1>1, <2>1, <2>8, <2>9, <3>1, AppendKeeps DEF QueueSound
  <2>11. Claims(t) = Claims(s) \cup (e.ids \X {e.period}) /\ Claims(t) \subseteq Characters \X Periods
    BY <1>1, <2>1, <2>5, ClaimsAppend, ClaimsMean
  <2>12. Dropped(store, now) = Claims(t) \ Claims(q)
    <3>1. Dropped(store, now) = (Claims(s) \cup Claims(t)) \ Claims(q)
      BY <2>3 DEF Dropped
    <3>2. Claims(s) \subseteq Claims(t)
      BY <2>11
    <3> QED
      BY <3>1, <3>2
  <2>13. Claims(s) \subseteq Claims(q) \cup Dropped(store, now)
    BY <2>11, <2>12
  <2>14. Len(t) <= MaxPending + 1
    BY <2>5, PeriodicAssumption DEF QueueSound
  <2> HIDE DEF t
  <2>15. CASE Len(t) <= MaxPending
    <3>1. q = t
      BY <2>4, <2>5, <2>14, <2>15, NewestDrops
    <3>2. Dropped(store, now) = {}
      BY <2>12, <3>1
    <3> QED
      BY <1>4, <2>3, <2>4, <2>5, <2>7, <2>10, <2>13, <2>15, <3>1, <3>2
  <2>16. CASE ~(Len(t) <= MaxPending)
    <3>1. t # <<>> /\ q = Tail(t)
      BY <2>4, <2>5, <2>14, <2>16, NewestDrops
    <3>2. q \in Seq(Entry) /\ Len(q) <= MaxPending
      BY <2>5, <2>14, <3>1, PeriodicAssumption
    <3>3. Spaced(q) /\ Tried(q, tries) /\ UpTo(q, now)
      BY <2>5, <2>7, <2>10, <3>1, SpacedTail, TailKeeps
    <3>4. Dropped(store, now) \subseteq t[1].ids \X {t[1].period}
      BY <2>5, <2>12, <3>1, ClaimsTail
    <3>5. t[1].period + MaxPending <= now
      <4>1. Len(t) = MaxPending + 1 /\ 1 \in 1..Len(t) /\ Len(t) \in 1..Len(t) /\ 1 < Len(t)
        BY <2>5, <2>14, <2>16, PeriodicAssumption
      <4>2. t[1].period + (Len(t) - 1) <= t[Len(t)].period
        BY <2>7, <4>1 DEF Spaced
      <4>3. t[Len(t)].period = now
        BY <2>2, <2>5
      <4> QED
        BY <4>1, <4>2, <4>3, PeriodicAssumption
    <3>6. \A c \in Characters, p \in Periods : <<c, p>> \in Dropped(store, now) => p + MaxPending <= now
      BY <3>4, <3>5
    <3>7. Dropped(store, now) \subseteq Characters \X Periods
      BY <2>11, <2>12
    <3> QED
      BY <1>4, <2>3, <2>4, <2>13, <3>2, <3>3, <3>6, <3>7
  <2> QED
    BY <2>15, <2>16
<1> QED
  BY <1>3, <1>4

-----------------------------------------------------------------------------
(* Steps.                                                                  *)

(* What the fields of a tick are.                                          *)
LEMMA TickTyped ==
    ASSUME TypeOK
    PROVE  /\ tick.pc \in {"idle", "run", "pay"} /\ tick.latest \in Periods \cup {-1}
           /\ tick.queue \in Seq(Entry) /\ tick.remaining \in Seq(Entry)
           /\ tick.todo \in SUBSET Characters /\ tick.failed \in SUBSET Characters
           /\ tick = [pc |-> tick.pc, latest |-> tick.latest, queue |-> tick.queue,
                      remaining |-> tick.remaining, todo |-> tick.todo, failed |-> tick.failed]
BY DEF TypeOK, Tick

(* The first entry of a tick that has one.                                 *)
LEMMA HeadTyped ==
    ASSUME TypeOK, tick.queue # <<>>
    PROVE  Head1 \in Entry /\ 1 \in 1..Len(tick.queue) /\ Head1 = tick.queue[1]
<1>1. tick.queue \in Seq(Entry)
  BY TickTyped
<1>2. 1 \in 1..Len(tick.queue)
  BY <1>1
<1> QED
  BY <1>1, <1>2, EntriesTyped DEF Head1

TriesGrow ==
    /\ tries \in Failures /\ tries' \in Failures
    /\ \A c \in Characters, p \in Periods : tries[c][p] <= tries'[c][p]

(* Failures are only ever counted.                                         *)
LEMMA FailedGrows ==
    ASSUME TypeOK, NEW who \in SUBSET Characters, NEW n \in Periods, Failed(who, n)
    PROVE  /\ TriesGrow
           /\ \A c \in who : tries'[c][n] = Least(tries[c][n] + 1, MaxAttempts)
<1>1. tries \in Failures
  BY DEF TypeOK, Failures
<1>2. \A c \in Characters :
        tries'[c] = [tries[c] EXCEPT ![n] = IF c \in who THEN Least(@ + 1, MaxAttempts) ELSE @]
  BY DEF Failed
<1>3. ASSUME NEW c \in Characters, NEW p \in Periods
      PROVE  /\ tries'[c][p] = IF p = n /\ c \in who THEN Least(tries[c][p] + 1, MaxAttempts)
                               ELSE tries[c][p]
             /\ tries'[c][p] \in 0..MaxAttempts
             /\ tries[c][p] <= tries'[c][p]
  <2>1. tries[c] \in [Periods -> 0..MaxAttempts]
    BY <1>1 DEF Failures
  <2>2. tries'[c][p] = IF p = n /\ c \in who THEN Least(tries[c][p] + 1, MaxAttempts) ELSE tries[c][p]
    BY <1>2, <2>1
  <2>3. tries[c][p] \in 0..MaxAttempts
    BY <2>1
  <2> QED
    BY <2>2, <2>3, PeriodicAssumption DEF Least
<1>4. tries' \in Failures
  <2>1. ASSUME NEW c \in Characters PROVE tries'[c] \in [Periods -> 0..MaxAttempts]
    <3>1. tries[c] \in [Periods -> 0..MaxAttempts]
      BY <1>1 DEF Failures
    <3>2. tries'[c] \in [Periods -> {tries'[c][p] : p \in Periods}]
      BY <1>2, <3>1
    <3> QED
      BY <1>3, <3>2
  <2> DEFINE G(c) == [tries[c] EXCEPT ![n] = IF c \in who THEN Least(@ + 1, MaxAttempts) ELSE @]
  <2>2. tries' = [c \in Characters |-> G(c)]
    BY DEF Failed
  <2> HIDE DEF G
  <2>3. \A c \in Characters : G(c) \in [Periods -> 0..MaxAttempts]
    BY <2>1, <2>2
  <2> QED
    BY <2>2, <2>3 DEF Failures
<1> QED
  BY <1>1, <1>3, <1>4 DEF TriesGrow

(* An entry that has been run: dropped, put back for another attempt, or   *)
(* given up for those who have failed MaxAttempts times.                   *)
LEMMA SettleKeeps ==
    ASSUME TypeOK, TickSound, tick.pc \in {"run", "pay"}, tick.queue # <<>>,
           NEW ids \in SUBSET Head1.ids, Settle(Head1, ids), TriesGrow,
           \A c \in ids : tries'[c][Head1.period] > Head1.attempt,
           now' = now
    PROVE  /\ tick' \in Tick /\ tick'.pc = "run" /\ TickSound'
           /\ tick'.queue = Tail(tick.queue)
           /\ forsaken \subseteq forsaken' /\ forsaken' \subseteq Characters \X Periods
           /\ \A c \in Characters, p \in Periods :
                 <<c, p>> \in forsaken' => <<c, p>> \in forsaken \/ tries'[c][p] >= MaxAttempts
           /\ Claims(tick.remaining) \cup (ids \X {Head1.period})
                 \subseteq Claims(tick'.remaining) \cup forsaken'
<1> DEFINE r == tick.remaining  q == tick.queue  t == Tail(tick.queue)  h == Head1
           u == r \o Retry(h, ids)
<1>1. /\ r \in Seq(Entry) /\ q \in Seq(Entry) /\ t \in Seq(Entry) /\ Len(q) = Len(t) + 1
      /\ Len(t) \in Nat /\ Len(r) \in Nat /\ h \in Entry /\ 1 \in 1..Len(q) /\ h = q[1]
  BY TickTyped, HeadTyped
<1>2. /\ h.ids \subseteq Characters /\ h.period \in Periods /\ h.attempt \in Int
      /\ ids \in SUBSET Characters
  BY <1>1, EntryTyped
<1>3. tick' = [pc |-> "run", latest |-> tick.latest, queue |-> t, remaining |-> u,
               todo |-> {}, failed |-> {}]
  BY TickTyped DEF Settle
<1>4. /\ tick'.pc = "run" /\ tick'.latest = tick.latest /\ tick'.queue = t
      /\ tick'.remaining = u
  BY <1>3
<1>5. /\ Spaced(r) /\ Spaced(q) /\ Before(r, q) /\ Len(r) + Len(q) <= MaxPending
      /\ UpTo(r, tick.latest) /\ UpTo(q, tick.latest) /\ tick.latest <= now
      /\ Tried(r, tries') /\ Tried(q, tries')
  <2>1. /\ Spaced(r) /\ Spaced(q) /\ Before(r, q) /\ Len(r) + Len(q) <= MaxPending
        /\ UpTo(r, tick.latest) /\ UpTo(q, tick.latest) /\ tick.latest <= now
        /\ Tried(r, tries) /\ Tried(q, tries)
    BY DEF TickSound
  <2>2. Tried(r, tries') /\ Tried(q, tries')
    BY <1>1, <2>1, TriedGrows DEF TriesGrow
  <2> QED
    BY <2>1, <2>2
<1>6. Spaced(t) /\ Tried(t, tries') /\ UpTo(t, tick.latest)
  BY <1>1, <1>5, SpacedTail, TailKeeps
<1> DEFINE Kept ==
             /\ u \in Seq(Entry) /\ Len(u) + Len(t) <= MaxPending /\ Spaced(u) /\ Before(u, t)
             /\ Tried(u, tries') /\ UpTo(u, tick.latest)
             /\ GivesUp(h) \/ Claims(u) = Claims(r) \cup (ids \X {h.period})
<1>7. Kept
  <2>1. ASSUME u = r, ids = {} \/ GivesUp(h)
        PROVE  Kept
    <3>1. Before(r, t)
      BY <1>1, <1>5, BeforeTail
    <3>2. GivesUp(h) \/ ids \X {h.period} = {}
      BY <2>1
    <3>3. Len(r) + Len(t) <= MaxPending
      <4> HIDE DEF r, q, t
      <4> QED
        BY <1>1, <1>5, PeriodicAssumption
    <3> HIDE DEF u, r, q, t, h
    <3> QED
      BY <1>1, <1>5, <2>1, <3>1, <3>2, <3>3
  <2>2. ASSUME NEW f \in Entry, f.period = h.period, f.ids = ids, f.attempt = h.attempt + 1,
               u = Append(r, f)
        PROVE  Kept
    <3>1. Spaced(u) /\ Before(u, t)
      BY <1>1, <1>5, <2>2, HeadMoves
    <3>2. \A c \in f.ids : tries'[c][f.period] >= f.attempt
      <4>1. SUFFICES ASSUME NEW c \in ids PROVE tries'[c][h.period] >= h.attempt + 1
        BY <2>2
      <4>2. tries'[c][h.period] \in Int
        BY <1>2, FailuresCount DEF TriesGrow
      <4> QED
        BY <1>2, <4>2
    <3>3. f.period <= tick.latest
      BY <1>1, <1>5, <2>2 DEF UpTo
    <3>4. Tried(u, tries') /\ UpTo(u, tick.latest)
      BY <1>1, <1>5, <2>2, <3>2, <3>3, AppendKeeps
    <3>5. u \in Seq(Entry) /\ Len(u) = Len(r) + 1
      BY <1>1, <2>2
    <3>6. Claims(u) = Claims(r) \cup (ids \X {h.period})
      BY <1>1, <2>2, ClaimsAppend
    <3>7. Len(u) + Len(t) <= MaxPending
      <4> HIDE DEF u, r, q, t
      <4> QED
        BY <1>1, <1>5, <3>5, PeriodicAssumption
    <3> HIDE DEF u, r, q, t, h
    <3> QED
      BY <3>1, <3>4, <3>5, <3>6, <3>7
  <2>3. \/ (ids = {} \/ GivesUp(h)) /\ u = r
        \/ \E f \in Entry : /\ f.period = h.period /\ f.ids = ids /\ f.attempt = h.attempt + 1
                             /\ u = Append(r, f)
    BY <1>1, RetryMeans
  <2> HIDE DEF Kept, u, r, q, t, h
  <2> QED
    BY <2>1, <2>2, <2>3
<1>8. tick' \in Tick
  <2> HIDE DEF u, t
  <2> QED
    BY <1>1, <1>3, <1>7, TickTyped DEF Tick
<1>9. TickSound'
  <2> HIDE DEF u, t
  <2> QED
    BY <1>4, <1>5, <1>6, <1>7 DEF TickSound
<1>10. forsaken' = forsaken \cup IF GivesUp(h) THEN ids \X {h.period} ELSE {}
  BY DEF Settle
<1>11. forsaken' \subseteq Characters \X Periods
  <2>1. forsaken \subseteq Characters \X Periods
    BY DEF TypeOK
  <2> HIDE DEF h
  <2> QED
    BY <1>2, <1>10, <2>1
<1>12. ASSUME NEW c \in Characters, NEW p \in Periods, <<c, p>> \in forsaken', <<c, p>> \notin forsaken
       PROVE  tries'[c][p] >= MaxAttempts
  <2>1. GivesUp(h) /\ c \in ids /\ p = h.period
    BY <1>10, <1>12
  <2>2. tries'[c][p] \in Int /\ tries'[c][p] > h.attempt
    BY <2>1, FailuresCount DEF TriesGrow
  <2>3. h.attempt + 1 >= MaxAttempts
    BY <2>1 DEF GivesUp
  <2> HIDE DEF h
  <2> QED
    BY <1>2, <2>2, <2>3, PeriodicAssumption
<1>13. Claims(r) \cup (ids \X {h.period}) \subseteq Claims(u) \cup forsaken'
  <2>1. CASE GivesUp(h)
    <3>1. u = r
      BY <1>1, <2>1, RetryMeans
    <3> QED
      BY <1>10, <2>1, <3>1
  <2>2. CASE ~GivesUp(h)
    BY <1>7, <2>2
  <2> QED
    BY <2>1, <2>2
<1>14. forsaken \subseteq forsaken'
  BY <1>10
<1> HIDE DEF u, r, q, t, h
<1> QED
  BY <1>4, <1>8, <1>9, <1>11, <1>12, <1>13, <1>14 DEF u, r, q, t, h

(* Income is never negative, and never lifts a purse above the cap.        *)
LEMMA AmountBounds ==
    ASSUME NEW held \in Nat
    PROVE  IncomeAmount(held) \in Nat /\ held + IncomeAmount(held) <= Most(held, Cap)
<1>1. CASE Cap = 0
  BY <1>1, IncomeAssumption DEF IncomeAmount, Most
<1>2. CASE Cap # 0
  <2> DEFINE room == Most(0, Cap - held)
             taper == Cap * (TaperDen - TaperNum)
             due == Weekly * room * TaperDen
             share == CeilDiv(due, taper)
  <2>1. room \in Nat /\ held + room <= Most(held, Cap)
    BY IncomeAssumption DEF Most
  <2>2. TaperDen - TaperNum \in Nat \ {0} /\ Cap \in Nat \ {0}
    BY <1>2, IncomeAssumption
  <2>3. \A m, n \in Nat \ {0} : m * n \in Nat \ {0}
    OBVIOUS
  <2>4. \A m, n \in Nat : m * n \in Nat
    OBVIOUS
  <2>5. taper \in Nat \ {0} /\ due \in Nat
    <3>1. taper \in Nat \ {0}
      BY <2>2, <2>3
    <3>2. Weekly * room \in Nat
      BY <2>1, <2>4, IncomeAssumption
    <3>3. due \in Nat
      BY <2>4, <3>2, IncomeAssumption
    <3> QED
      BY <3>1, <3>3
  <2>6. IncomeAmount(held) = Least(room, Least(Weekly, share))
    BY <1>2 DEF IncomeAmount
  <2> HIDE DEF room, taper, due
  <2>7. share \in Nat
    <3>1. due + taper - 1 \in Nat
      BY <2>5
    <3> QED
      BY <2>5, <3>1 DEF CeilDiv
  <2> HIDE DEF share
  <2>8. IncomeAmount(held) \in Nat /\ IncomeAmount(held) <= room
    BY <2>1, <2>6, <2>7, IncomeAssumption DEF Least
  <2>9. Most(held, Cap) \in Int
    BY IncomeAssumption DEF Most
  <2> QED
    BY <2>1, <2>8, <2>9
<1> QED
  BY <1>1, <1>2

(* A payment writes its row, and a ledger row with it if it is of anything,*)
(* or finds the row.                                                       *)
LEMMA PayOnceKeeps ==
    ASSUME TypeOK, PaidOnce, NEW c \in Characters, NEW p \in Periods, PayOnce(c, p)
    PROVE  /\ rows' = rows \cup {<<c, p>>} /\ rows' \subseteq Characters \X Periods
           /\ purse' \in [Characters -> Nat]
           /\ \A d \in Characters : /\ purse[d] <= purse'[d]
                                     /\ purse'[d] <= Most(purse[d], Cap)
           /\ paid' \subseteq rows' /\ ubi' \in [Characters -> [Periods -> Nat]]
           /\ PaidOnce'
<1>1. /\ rows \subseteq Characters \X Periods /\ purse \in [Characters -> Nat]
      /\ paid \subseteq rows /\ ubi \in [Characters -> [Periods -> Nat]]
  BY DEF TypeOK
<1>2. \A d \in Characters : purse[d] \in Nat /\ purse[d] <= Most(purse[d], Cap)
  BY <1>1, IncomeAssumption DEF Most
<1>3. CASE <<c, p>> \in rows
  <2>1. purse' = purse /\ rows' = rows /\ paid' = paid /\ ubi' = ubi
    BY <1>3 DEF PayOnce, money
  <2>2. PaidOnce'
    BY <2>1 DEF PaidOnce
  <2>3. rows = rows \cup {<<c, p>>}
    BY <1>3
  <2> QED
    BY <1>1, <1>2, <2>1, <2>2, <2>3
<1>4. CASE <<c, p>> \notin rows
  <2> DEFINE amount == IncomeAmount(purse[c])
  <2>1. Payment(c, p, amount)
    BY <1>4 DEF PayOnce
  <2>2. amount \in Nat /\ purse[c] + amount <= Most(purse[c], Cap)
    BY <1>2, AmountBounds
  <2> HIDE DEF amount
  <2>3. rows' = rows \cup {<<c, p>>} /\ purse' = [purse EXCEPT ![c] = @ + amount]
    BY <2>1 DEF Payment
  <2>4. purse' \in [Characters -> Nat] /\ \A d \in Characters : /\ purse[d] <= purse'[d]
                                                                 /\ purse'[d] <= Most(purse[d], Cap)
    BY <1>1, <1>2, <2>2, <2>3
  <2>5. CASE amount > 0
    <3>1. paid' = paid \cup {<<c, p>>} /\ ubi' = [ubi EXCEPT ![c][p] = @ + 1]
      BY <2>1, <2>5 DEF Payment
    <3>2. paid' \subseteq rows' /\ ubi' \in [Characters -> [Periods -> Nat]]
      BY <1>1, <2>3, <3>1
    <3>3. ASSUME NEW d \in Characters, NEW n \in Periods
          PROVE  ubi'[d][n] = IF <<d, n>> \in paid' THEN 1 ELSE 0
      <4>1. ubi[d][n] = IF <<d, n>> \in paid THEN 1 ELSE 0
        BY DEF PaidOnce
      <4>2. ubi'[d][n] = IF d = c /\ n = p THEN ubi[d][n] + 1 ELSE ubi[d][n]
        BY <1>1, <3>1
      <4>3. <<d, n>> \in paid' <=> <<d, n>> \in paid \/ (d = c /\ n = p)
        BY <3>1
      <4>4. <<c, p>> \notin paid
        BY <1>1, <1>4
      <4> QED
        BY <4>1, <4>2, <4>3, <4>4
    <3>4. PaidOnce'
      BY <3>3 DEF PaidOnce
    <3> QED
      BY <1>1, <2>3, <2>4, <3>2, <3>4
  <2>6. CASE ~(amount > 0)
    <3>1. paid' = paid /\ ubi' = ubi
      BY <2>1, <2>6 DEF Payment
    <3>2. PaidOnce'
      BY <3>1 DEF PaidOnce
    <3> QED
      BY <1>1, <2>3, <2>4, <3>1, <3>2
  <2> QED
    BY <2>5, <2>6
<1> QED
  BY <1>3, <1>4

(* A tick that is over, or lost, leaves nothing to be wrong.               *)
LEMMA NoTickSound ==
    ASSUME tick' = NoTick, now' \in Periods \cup {-1}
    PROVE  tick' \in Tick /\ TickSound'
<1>1. <<>> \in Seq(Entry) /\ Len(<<>>) = 0 /\ now' >= -1
  BY PeriodsInt
<1>2. tick' \in Tick
  BY <1>1 DEF NoTick, Tick
<1>3. /\ tick'.remaining = <<>> /\ tick'.queue = <<>> /\ tick'.latest = -1 /\ tick'.pc = "idle"
  BY DEF NoTick
<1>4. TickSound'
  BY <1>1, <1>3, PeriodicAssumption DEF TickSound, Spaced, Before, Tried, UpTo
<1> QED
  BY <1>2, <1>4

(* Money moves, or the freeze, and nothing of the queue.                   *)
LEMMA MoneyStep ==
    ASSUME ThreadsInv, UNCHANGED <<now, store, tick, history>>, frozen' \in BOOLEAN,
           rows' \subseteq Characters \X Periods, purse' \in [Characters -> Nat],
           paid' \subseteq rows', ubi' \in [Characters -> [Periods -> Nat]], PaidOnce'
    PROVE  ThreadsInv'
<1>1. TypeOK'
  BY DEF ThreadsInv, TypeOK, history
<1>2. QueueSound' /\ TickSound'
  BY DEF ThreadsInv, QueueSound, TickSound, Head1, history
<1>3. GivenUpLate'
  BY DEF ThreadsInv, GivenUpLate, history
<1> QED
  BY <1>1, <1>2, <1>3 DEF ThreadsInv

(* The tick moves on, and nothing else.                                    *)
LEMMA TickStep ==
    ASSUME ThreadsInv, UNCHANGED <<now, frozen, money, store, history>>,
           tick' \in Tick, TickSound'
    PROVE  ThreadsInv'
<1>1. TypeOK'
  BY DEF ThreadsInv, TypeOK, history, money
<1>2. QueueSound' /\ PaidOnce' /\ GivenUpLate'
  BY DEF ThreadsInv, QueueSound, PaidOnce, GivenUpLate, history, money
<1> QED
  BY <1>1, <1>2 DEF ThreadsInv

(* A completed period only makes the others older.                         *)
LEMMA NewPeriodStep == ASSUME ThreadsInv, NewPeriod PROVE ThreadsInv'
<1>1. now \in Int /\ now' = now + 1 /\ now' \in Periods
  BY PeriodsInt DEF ThreadsInv, TypeOK, NewPeriod
<1>2. TypeOK'
  BY <1>1 DEF ThreadsInv, TypeOK, NewPeriod, history, money
<1>3. store.latest \in Int /\ tick.latest \in Int
  <2>1. TypeOK /\ store.latest \in Periods \cup {-1}
    BY DEF ThreadsInv, TypeOK, State
  <2>2. tick.latest \in Periods \cup {-1}
    BY <2>1, TickTyped, Zenon
  <2> QED
    BY <2>1, <2>2, PeriodsInt
<1>4. /\ tick' = tick /\ store' = store /\ tries' = tries
      /\ QueueSound /\ TickSound
  BY DEF ThreadsInv, NewPeriod, history
<1>7. store.latest <= now' /\ tick.latest <= now'
  BY <1>1, <1>3, <1>4 DEF QueueSound, TickSound
<1>8. QueueSound'
  BY <1>4, <1>7 DEF QueueSound
<1>9. TickSound'
  BY <1>4, <1>7 DEF TickSound, Head1
<1>5. PaidOnce'
  BY DEF ThreadsInv, NewPeriod, PaidOnce, money
<1>6. GivenUpLate'
  BY <1>1, PeriodsInt, PeriodicAssumption DEF ThreadsInv, NewPeriod, GivenUpLate, history
<1> QED
  BY <1>2, <1>5, <1>6, <1>8, <1>9 DEF ThreadsInv

(* Freezing, or unfreezing, touches neither queue nor money.               *)
LEMMA SetFrozenStep == ASSUME ThreadsInv, SetFrozen PROVE ThreadsInv'
<1>1. /\ UNCHANGED <<now, store, tick, history>> /\ UNCHANGED money
      /\ frozen' \in BOOLEAN
  BY DEF ThreadsInv, TypeOK, SetFrozen
<1>2. /\ rows' \subseteq Characters \X Periods /\ purse' \in [Characters -> Nat]
      /\ paid' \subseteq rows' /\ ubi' \in [Characters -> [Periods -> Nat]] /\ PaidOnce'
  BY <1>1 DEF ThreadsInv, TypeOK, PaidOnce, money
<1> QED
  BY <1>1, <1>2, MoneyStep

(* A purse that changes otherwise has no income row.                       *)
LEMMA SpendStep ==
    ASSUME ThreadsInv, NEW c \in Characters, NEW amount \in Trades, Spend(c, amount)
    PROVE  ThreadsInv'
<1>1. UNCHANGED <<now, store, tick, history>> /\ frozen' \in BOOLEAN
  BY DEF ThreadsInv, TypeOK, Spend
<1>2. purse' \in [Characters -> Nat]
  BY IncomeAssumption DEF ThreadsInv, TypeOK, Spend
<1>3. /\ rows' \subseteq Characters \X Periods
      /\ paid' \subseteq rows' /\ ubi' \in [Characters -> [Periods -> Nat]] /\ PaidOnce'
  BY DEF ThreadsInv, TypeOK, PaidOnce, Spend
<1> QED
  BY <1>1, <1>2, <1>3, MoneyStep

(* Staff's run pays under the same check as the script's.                  *)
LEMMA PayByHandStep ==
    ASSUME ThreadsInv, NEW c \in Characters, NEW p \in Periods, PayByHand(c, p)
    PROVE  ThreadsInv'
<1>1. UNCHANGED <<now, store, tick, history>> /\ frozen' \in BOOLEAN
  BY DEF ThreadsInv, TypeOK, PayByHand
<1>2. PayOnce(c, p)
  BY DEF PayByHand
<1> QED
  BY <1>1, <1>2, PayOnceKeeps, MoneyStep DEF ThreadsInv

(* The queue with the new period in it is stored, or taken to be run.      *)
LEMMA DropsLate ==
    ASSUME ThreadsInv, now # -1,
           forsaken' = IF now = store.latest THEN forsaken ELSE forsaken \cup Dropped(store, now),
           now' = now, tries' = tries
    PROVE  /\ forsaken' \subseteq Characters \X Periods /\ GivenUpLate'
           /\ forsaken \subseteq forsaken'
<1>1. TypeOK /\ QueueSound /\ GivenUpLate /\ forsaken \subseteq Characters \X Periods
  BY DEF ThreadsInv, TypeOK
<1>2. now # store.latest =>
        /\ Dropped(store, now) \subseteq Characters \X Periods
        /\ \A c \in Characters, p \in Periods :
              <<c, p>> \in Dropped(store, now) => p + MaxPending <= now
  BY <1>1, EnqueueKeeps
<1>3. forsaken' \subseteq Characters \X Periods /\ forsaken \subseteq forsaken'
  BY <1>1, <1>2
<1>4. GivenUpLate'
  BY <1>1, <1>2 DEF GivenUpLate
<1> QED
  BY <1>3, <1>4

(* A frozen tick stores the queue with the period just over.               *)
LEMMA TickPausedStep == ASSUME ThreadsInv, TickPaused PROVE ThreadsInv'
<1> DEFINE q == Enqueue(store, now).pending
<1>1. TypeOK /\ QueueSound /\ now # -1 /\ now \in Periods /\ now \in Int
  BY PeriodsInt DEF ThreadsInv, TypeOK, TickPaused
<1>2. /\ Enqueue(store, now) = [latest |-> now, pending |-> q]
      /\ q \in Seq(Entry) /\ Len(q) <= MaxPending
      /\ Spaced(q) /\ Tried(q, tries) /\ UpTo(q, now)
  BY <1>1, EnqueueKeeps
<1> HIDE DEF q
<1>3. /\ store' = [latest |-> now, pending |-> q] /\ owed' = owed \cup Claims(q)
      /\ UNCHANGED <<now, frozen, money, tick, tries>>
      /\ forsaken' = IF now = store.latest THEN forsaken ELSE forsaken \cup Dropped(store, now)
  BY <1>2 DEF TickPaused, Persist
<1>4. forsaken' \subseteq Characters \X Periods /\ GivenUpLate'
  BY <1>1, <1>3, DropsLate
<1>5. store' \in State /\ owed' \subseteq Characters \X Periods
  <2>1. Claims(q) \subseteq Characters \X Periods /\ owed \subseteq Characters \X Periods
    BY <1>1, <1>2, ClaimsMean DEF TypeOK
  <2> QED
    BY <1>1, <1>2, <1>3, <2>1 DEF State
<1>6. TypeOK'
  BY <1>1, <1>3, <1>4, <1>5 DEF TypeOK, money
<1>7. QueueSound'
  BY <1>1, <1>2, <1>3 DEF QueueSound
<1>8. TickSound' /\ PaidOnce'
  BY <1>3 DEF ThreadsInv, TickSound, PaidOnce, Head1, money
<1> QED
  BY <1>4, <1>6, <1>7, <1>8 DEF ThreadsInv

(* A tick takes the queue with the period just over in hand.               *)
LEMMA TickStartStep == ASSUME ThreadsInv, TickStart PROVE ThreadsInv'
<1> DEFINE q == Enqueue(store, now).pending
<1>1. TypeOK /\ QueueSound /\ now # -1 /\ now \in Periods /\ now \in Int
  BY PeriodsInt DEF ThreadsInv, TypeOK, TickStart
<1>2. /\ q \in Seq(Entry) /\ Len(q) <= MaxPending
      /\ Spaced(q) /\ Tried(q, tries) /\ UpTo(q, now)
  BY <1>1, EnqueueKeeps
<1> HIDE DEF q
<1>3. /\ tick' = [pc |-> "run", latest |-> now, queue |-> q, remaining |-> <<>>,
                  todo |-> {}, failed |-> {}]
      /\ UNCHANGED <<now, frozen, money, store, owed, tries>>
      /\ forsaken' = IF now = store.latest THEN forsaken ELSE forsaken \cup Dropped(store, now)
  BY DEF TickStart, NoTick, q
<1>4. forsaken' \subseteq Characters \X Periods /\ GivenUpLate'
  BY <1>1, <1>3, DropsLate
<1>5. tick' \in Tick
  <2>1. <<>> \in Seq(Entry)
    OBVIOUS
  <2> QED
    BY <1>1, <1>2, <1>3, <2>1 DEF Tick
<1>6. TypeOK'
  BY <1>1, <1>3, <1>4, <1>5 DEF TypeOK, money
<1>7. TickSound'
  <2>1. /\ tick'.remaining = <<>> /\ tick'.queue = q /\ tick'.latest = now /\ tick'.pc = "run"
        /\ Len(<<>>) = 0 /\ Len(q) \in Nat
    BY <1>2, <1>3
  <2> QED
    BY <1>1, <1>2, <1>3, <2>1 DEF TickSound, Spaced, Before, Tried, UpTo
<1>8. QueueSound' /\ PaidOnce'
  BY <1>3 DEF ThreadsInv, QueueSound, PaidOnce, money
<1> QED
  BY <1>4, <1>6, <1>7, <1>8 DEF ThreadsInv

(* An entry whose backoff has not elapsed is kept as it is.                *)
LEMMA NotDueStep == ASSUME ThreadsInv, NotDue PROVE ThreadsInv'
<1> DEFINE r == tick.remaining  q == tick.queue  h == Head1  u == Append(r, h)  t == Tail(q)
<1>1. TypeOK /\ TickSound /\ q # <<>> /\ tick.pc = "run"
  BY DEF ThreadsInv, NotDue
<1>2. /\ r \in Seq(Entry) /\ q \in Seq(Entry) /\ h \in Entry /\ h = q[1] /\ 1 \in 1..Len(q)
  BY <1>1, TickTyped, HeadTyped
<1>3. /\ u \in Seq(Entry) /\ t \in Seq(Entry)
      /\ Len(u) + Len(t) = Len(r) + Len(q)
  <2>1. u \in Seq(Entry) /\ Len(u) = Len(r) + 1 /\ Len(r) \in Nat
    BY <1>2
  <2>2. t \in Seq(Entry) /\ Len(q) = Len(t) + 1 /\ Len(t) \in Nat
    BY <1>1, <1>2
  <2> HIDE DEF u, t, r, q
  <2> QED
    BY <2>1, <2>2
<1>4. tick' = [tick EXCEPT !.queue = t, !.remaining = u]
  BY DEF NotDue
<1>5. tick' = [pc |-> "run", latest |-> tick.latest, queue |-> t, remaining |-> u,
               todo |-> tick.todo, failed |-> tick.failed]
  <2> HIDE DEF t, u
  <2> QED
    BY <1>1, <1>4, TickTyped
<1>6. Spaced(u) /\ Before(u, t)
  BY <1>1, <1>2, HeadMoves DEF TickSound
<1>7. \A c \in h.ids : tries[c][h.period] >= h.attempt
  BY <1>1, <1>2 DEF TickSound, Tried
<1>8. h.period <= tick.latest
  BY <1>1, <1>2 DEF TickSound, UpTo
<1>9. Tried(u, tries) /\ UpTo(u, tick.latest)
  BY <1>1, <1>2, <1>7, <1>8, AppendKeeps DEF TickSound
<1>10. Spaced(t) /\ Tried(t, tries) /\ UpTo(t, tick.latest)
  BY <1>1, <1>2, SpacedTail, TailKeeps DEF TickSound
<1>11. UNCHANGED <<now, frozen, money, store, history>> /\ tries' = tries
  BY DEF NotDue, history
<1>12. Len(u) + Len(t) <= MaxPending /\ tick.latest <= now
  BY <1>1, <1>3 DEF TickSound
<1> HIDE DEF u, t, r, q, h
<1>13. tick' \in Tick
  BY <1>1, <1>3, <1>5, TickTyped DEF Tick
<1>14. TickSound'
  BY <1>5, <1>6, <1>9, <1>10, <1>11, <1>12 DEF TickSound
<1> QED
  BY <1>11, <1>13, <1>14, TickStep

(* A period is about to be paid to all who are due it.                     *)
LEMMA RunPeriodStep == ASSUME ThreadsInv, RunPeriod PROVE ThreadsInv'
<1>1. TypeOK /\ TickSound /\ tick.queue # <<>>
  BY DEF ThreadsInv, RunPeriod
<1>2. Head1.ids \subseteq Characters
  BY <1>1, HeadTyped, EntryTyped
<1>3. tick' = [pc |-> "pay", latest |-> tick.latest, queue |-> tick.queue,
               remaining |-> tick.remaining, todo |-> Head1.ids, failed |-> {}]
  BY <1>1, TickTyped DEF RunPeriod
<1>4. UNCHANGED <<now, frozen, money, store, history>> /\ tries' = tries /\ now' = now
  BY DEF RunPeriod, history
<1>5. tick' \in Tick
  BY <1>1, <1>2, <1>3, TickTyped DEF Tick
<1>6. TickSound'
  BY <1>1, <1>3, <1>4 DEF TickSound, Head1
<1> QED
  BY <1>4, <1>5, <1>6, TickStep

(* A freeze found by the batch itself drops the entry and pays nobody.     *)
LEMMA RunFrozenStep == ASSUME ThreadsInv, RunFrozen PROVE ThreadsInv'
<1> DEFINE t == Tail(tick.queue)
<1>1. TypeOK /\ TickSound /\ tick.queue # <<>> /\ tick.pc = "run"
  BY DEF ThreadsInv, RunFrozen
<1>2. /\ t \in Seq(Entry) /\ Len(tick.queue) = Len(t) + 1 /\ Len(t) \in Nat
      /\ tick.remaining \in Seq(Entry) /\ tick.queue \in Seq(Entry)
      /\ Len(tick.remaining) \in Nat
  BY <1>1, TickTyped
<1>3. tick' = [pc |-> "run", latest |-> tick.latest, queue |-> t,
               remaining |-> tick.remaining, todo |-> tick.todo, failed |-> tick.failed]
  BY <1>1, TickTyped DEF RunFrozen
<1>4. UNCHANGED <<now, frozen, money, store, history>> /\ tries' = tries /\ now' = now
  BY DEF RunFrozen, history
<1>5. Spaced(t) /\ Tried(t, tries) /\ UpTo(t, tick.latest) /\ Before(tick.remaining, t)
  BY <1>1, <1>2, SpacedTail, TailKeeps, BeforeTail DEF TickSound
<1>6. Len(tick.remaining) + Len(t) <= MaxPending
  <2> DEFINE k == Len(tick.remaining)  m == Len(tick.queue)  n == Len(t)
  <2>1. k + m <= MaxPending /\ m = n + 1 /\ k \in Nat /\ n \in Nat
    BY <1>1, <1>2 DEF TickSound
  <2>2. k + n <= MaxPending
    <3> HIDE DEF k, m, n
    <3> QED
      BY <2>1, PeriodicAssumption
  <2> QED
    BY <2>2
<1> HIDE DEF t
<1>7. tick' \in Tick
  BY <1>1, <1>2, <1>3, TickTyped DEF Tick
<1>8. TickSound'
  BY <1>1, <1>3, <1>4, <1>5, <1>6 DEF TickSound
<1> QED
  BY <1>4, <1>7, <1>8, TickStep

(* The attempts that failed are counted against every queue and claim.     *)
LEMMA TriesStep ==
    ASSUME ThreadsInv, TriesGrow, UNCHANGED <<now, frozen, money, store, owed>>,
           tick' \in Tick, TickSound', forsaken' \subseteq Characters \X Periods,
           \A c \in Characters, p \in Periods :
              <<c, p>> \in forsaken' => <<c, p>> \in forsaken \/ tries'[c][p] >= MaxAttempts
    PROVE  ThreadsInv'
<1>1. TypeOK'
  BY DEF ThreadsInv, TypeOK, money, TriesGrow, Failures
<1>2. PaidOnce'
  BY DEF ThreadsInv, PaidOnce, money
<1>3. Tried(store.pending, tries')
  <2>1. store.pending \in Seq(Entry) /\ Tried(store.pending, tries)
    BY DEF ThreadsInv, TypeOK, State, QueueSound
  <2> QED
    BY <2>1, TriedGrows DEF TriesGrow
<1>4. QueueSound'
  BY <1>3 DEF ThreadsInv, QueueSound
<1>5. GivenUpLate'
  <2> SUFFICES ASSUME NEW c \in Characters, NEW p \in Periods, <<c, p>> \in forsaken'
               PROVE  tries'[c][p] >= MaxAttempts \/ p + MaxPending <= now'
    BY DEF GivenUpLate
  <2>1. CASE tries'[c][p] >= MaxAttempts
    BY <2>1
  <2>2. CASE <<c, p>> \in forsaken
    <3>1. tries[c][p] >= MaxAttempts \/ p + MaxPending <= now'
      BY <2>2 DEF ThreadsInv, GivenUpLate
    <3>2. tries[c][p] \in Int /\ tries'[c][p] \in Int /\ tries[c][p] <= tries'[c][p]
      BY FailuresCount DEF TriesGrow
    <3> QED
      BY <3>1, <3>2, PeriodicAssumption
  <2> QED
    BY <2>1, <2>2
<1> QED
  BY <1>1, <1>2, <1>4, <1>5 DEF ThreadsInv

(* A failed attempt takes its count past the entry's.                      *)
LEMMA FailurePasses ==
    ASSUME TypeOK, TickSound, tick.queue # <<>>, NEW who \in SUBSET Head1.ids,
           Failed(who, Head1.period)
    PROVE  TriesGrow /\ \A c \in who : tries'[c][Head1.period] > Head1.attempt
<1> DEFINE h == Head1
<1>1. h \in Entry /\ 1 \in 1..Len(tick.queue) /\ h = tick.queue[1]
  BY HeadTyped
<1>2. /\ h.ids \subseteq Characters /\ h.period \in Periods
      /\ h.attempt \in 0..(MaxAttempts - 1)
  BY <1>1, EntryTyped
<1>3. TriesGrow /\ \A c \in who : tries'[c][h.period] = Least(tries[c][h.period] + 1, MaxAttempts)
  BY <1>2, FailedGrows
<1>4. ASSUME NEW c \in who PROVE tries'[c][h.period] > h.attempt
  <2>1. tries[c][h.period] >= h.attempt
    BY <1>1 DEF TickSound, Tried
  <2>2. tries[c][h.period] \in Int
    BY <1>2, <1>3, FailuresCount DEF TriesGrow
  <2> HIDE DEF h
  <2> QED
    BY <1>2, <1>3, <2>1, <2>2, PeriodicAssumption DEF Least
<1> QED
  BY <1>3, <1>4

(* A period that raised as a whole has failed for all it was due.          *)
LEMMA RunRaisesStep == ASSUME ThreadsInv, RunRaises PROVE ThreadsInv'
<1>1. /\ TypeOK /\ TickSound /\ tick.queue # <<>> /\ tick.pc \in {"run", "pay"}
      /\ Failed(Head1.ids, Head1.period) /\ Settle(Head1, Head1.ids)
      /\ UNCHANGED <<now, frozen, money, store, owed>>
  BY DEF ThreadsInv, RunRaises
<1>2. TriesGrow /\ \A c \in Head1.ids : tries'[c][Head1.period] > Head1.attempt
  BY <1>1, FailurePasses
<1>3. /\ tick' \in Tick /\ TickSound' /\ forsaken' \subseteq Characters \X Periods
      /\ \A c \in Characters, p \in Periods :
            <<c, p>> \in forsaken' => <<c, p>> \in forsaken \/ tries'[c][p] >= MaxAttempts
  BY <1>1, <1>2, SettleKeeps
<1> QED
  BY <1>1, <1>2, <1>3, TriesStep

(* One character of the running period is paid.                            *)
LEMMA PayStep == ASSUME ThreadsInv, NEW c \in Characters, Pay(c) PROVE ThreadsInv'
<1>1. /\ TypeOK /\ TickSound /\ tick.pc = "pay" /\ tick.queue # <<>>
      /\ PaidOnce /\ PayOnce(c, Head1.period)
  BY DEF ThreadsInv, TickSound, Pay
<1>2. Head1.period \in Periods
  BY <1>1, HeadTyped, EntryTyped
<1>3. /\ rows' \subseteq Characters \X Periods /\ purse' \in [Characters -> Nat]
      /\ paid' \subseteq rows' /\ ubi' \in [Characters -> [Periods -> Nat]] /\ PaidOnce'
  BY <1>1, <1>2, PayOnceKeeps
<1>4. tick' = [pc |-> "pay", latest |-> tick.latest, queue |-> tick.queue,
               remaining |-> tick.remaining, todo |-> tick.todo \ {c}, failed |-> tick.failed]
  BY <1>1, TickTyped DEF Pay
<1>5. UNCHANGED <<now, frozen, store>> /\ owed' = owed /\ tries' = tries /\ forsaken' = forsaken
  BY DEF Pay, history
<1>6. tick' \in Tick
  BY <1>1, <1>4, TickTyped DEF Tick
<1>7. TickSound'
  BY <1>1, <1>4, <1>5 DEF TickSound, Head1
<1>8. TypeOK'
  BY <1>1, <1>3, <1>5, <1>6 DEF TypeOK
<1>9. QueueSound' /\ GivenUpLate'
  BY <1>5 DEF ThreadsInv, QueueSound, GivenUpLate
<1> QED
  BY <1>3, <1>7, <1>8, <1>9 DEF ThreadsInv

(* One character's payment fails.                                          *)
LEMMA PayRaisesStep == ASSUME ThreadsInv, NEW c \in Characters, PayRaises(c) PROVE ThreadsInv'
<1>1. /\ TypeOK /\ TickSound /\ tick.pc = "pay" /\ tick.queue # <<>>
      /\ c \in tick.todo /\ tick.todo \subseteq Head1.ids
      /\ Failed({c}, Head1.period)
      /\ UNCHANGED <<now, frozen, money, store, owed>> /\ forsaken' = forsaken
  BY DEF ThreadsInv, TickSound, PayRaises
<1>2. TriesGrow /\ tries'[c][Head1.period] > Head1.attempt
  BY <1>1, FailurePasses
<1>3. tick' = [pc |-> "pay", latest |-> tick.latest, queue |-> tick.queue,
               remaining |-> tick.remaining, todo |-> tick.todo \ {c},
               failed |-> tick.failed \cup {c}]
  BY <1>1, TickTyped DEF PayRaises
<1>4. tick' \in Tick
  BY <1>1, <1>3, TickTyped DEF Tick
<1>5. /\ Tried(tick.remaining, tries') /\ Tried(tick.queue, tries')
  BY <1>1, <1>2, TriedGrows, TickTyped DEF TriesGrow, TickSound
<1>9. tick.failed \subseteq Head1.ids
  BY DEF ThreadsInv, TickSound, PayRaises
<1>6. ASSUME NEW d \in tick.failed \cup {c} PROVE tries'[d][Head1.period] > Head1.attempt
  <2>1. CASE d = c
    BY <1>2, <2>1
  <2>2. CASE d \in tick.failed
    <3>1. tries[d][Head1.period] > Head1.attempt
      BY <1>1, <2>2 DEF TickSound
    <3>2. /\ d \in Characters /\ Head1.period \in Periods /\ Head1.attempt \in Int
      BY <1>1, <2>2, TickTyped, HeadTyped, EntryTyped
    <3>3. /\ tries[d][Head1.period] \in Int /\ tries'[d][Head1.period] \in Int
          /\ tries[d][Head1.period] <= tries'[d][Head1.period]
      BY <1>2, <3>2, FailuresCount DEF TriesGrow
    <3> QED
      BY <3>1, <3>2, <3>3
  <2> QED
    BY <2>1, <2>2
<1>7. TickSound'
  <2>1. Head1' = Head1
    BY <1>3 DEF Head1
  <2>2. tick.todo \ {c} \subseteq Head1.ids /\ tick.failed \cup {c} \subseteq Head1.ids
    BY <1>1, <1>9
  <2> QED
    BY <1>1, <1>3, <1>5, <1>6, <2>1, <2>2 DEF TickSound
<1>8. /\ forsaken' \subseteq Characters \X Periods
      /\ \A d \in Characters, p \in Periods :
            <<d, p>> \in forsaken' => <<d, p>> \in forsaken \/ tries'[d][p] >= MaxAttempts
  BY <1>1 DEF TypeOK
<1> QED
  BY <1>1, <1>2, <1>4, <1>7, <1>8, TriesStep

(* A period is over: whoever failed is retried or given up.                *)
LEMMA PeriodDoneStep == ASSUME ThreadsInv, PeriodDone PROVE ThreadsInv'
<1>1. /\ TypeOK /\ TickSound /\ tick.queue # <<>> /\ tick.pc \in {"run", "pay"}
      /\ Settle(Head1, tick.failed)
      /\ UNCHANGED <<now, frozen, money, store, owed>> /\ tries' = tries
      /\ \A c \in tick.failed : tries[c][Head1.period] > Head1.attempt
  BY DEF ThreadsInv, TickSound, PeriodDone
<1>2. TriesGrow
  <2>1. tries \in Failures
    BY <1>1 DEF TypeOK, Failures
  <2>2. \A c \in Characters, p \in Periods : tries[c][p] <= tries[c][p]
    BY <2>1, FailuresCount
  <2> QED
    BY <1>1, <2>1, <2>2 DEF TriesGrow
<1>3. tick.failed \in SUBSET Head1.ids
  BY DEF ThreadsInv, TickSound, PeriodDone
<1>4. /\ tick' \in Tick /\ TickSound' /\ forsaken' \subseteq Characters \X Periods
      /\ \A c \in Characters, p \in Periods :
            <<c, p>> \in forsaken' => <<c, p>> \in forsaken \/ tries'[c][p] >= MaxAttempts
  BY <1>1, <1>2, <1>3, SettleKeeps
<1> QED
  BY <1>1, <1>2, <1>4, TriesStep

(* The tick writes the queue back.                                         *)
LEMMA TickEndStep == ASSUME ThreadsInv, TickEnd PROVE ThreadsInv'
<1> DEFINE r == tick.remaining
<1>1. /\ TypeOK /\ TickSound /\ tick' = NoTick /\ tick.queue = <<>>
      /\ store' = [latest |-> tick.latest, pending |-> r] /\ owed' = owed \cup Claims(r)
      /\ UNCHANGED <<now, frozen, money, tries, forsaken>>
  BY DEF ThreadsInv, TickEnd, Persist, Written
<1>2. tick' \in Tick /\ TickSound'
  BY <1>1, NoTickSound DEF TypeOK
<1>3. r \in Seq(Entry) /\ tick.latest \in Periods \cup {-1} /\ Len(r) \in Nat
  BY <1>1, TickTyped
<1>4. owed' \subseteq Characters \X Periods
  BY <1>1, <1>3, ClaimsMean DEF TypeOK
<1>5. /\ Len(r) <= MaxPending /\ Spaced(r) /\ Tried(r, tries) /\ UpTo(r, tick.latest)
      /\ tick.latest <= now
  BY <1>1, <1>3, PeriodicAssumption DEF TickSound
<1> HIDE DEF r
<1>6. TypeOK'
  BY <1>1, <1>2, <1>3, <1>4 DEF TypeOK, State, money
<1>7. QueueSound'
  BY <1>1, <1>5 DEF QueueSound
<1>8. PaidOnce' /\ GivenUpLate'
  BY <1>1 DEF ThreadsInv, PaidOnce, GivenUpLate, money
<1> QED
  BY <1>2, <1>6, <1>7, <1>8 DEF ThreadsInv

(* Time passes over the stored queue and changes none of its claims.       *)
LEMMA WaitKeeps ==
    ASSUME TypeOK, Wait
    PROVE  /\ store' \in State /\ store'.latest = store.latest
           /\ Len(store'.pending) = Len(store.pending)
           /\ \A k \in 1..Len(store.pending) :
                 /\ store'.pending[k].period = store.pending[k].period
                 /\ store'.pending[k].ids = store.pending[k].ids
                 /\ store'.pending[k].attempt = store.pending[k].attempt
           /\ Claims(store'.pending) = Claims(store.pending)
<1> DEFINE s == store.pending
           aged == [k \in DOMAIN s |-> [s[k] EXCEPT !.due = TRUE]]
<1>1. s \in Seq(Entry) /\ store.latest \in Periods \cup {-1}
      /\ store = [latest |-> store.latest, pending |-> s]
  BY DEF TypeOK, State
<1>2. store' = [store EXCEPT !.pending = aged]
  BY DEF Wait
<1>3. DOMAIN s = 1..Len(s) /\ Len(s) \in Nat
  BY <1>1
<1>4. ASSUME NEW k \in 1..Len(s)
      PROVE  /\ [s[k] EXCEPT !.due = TRUE] \in Entry
             /\ aged[k] = [s[k] EXCEPT !.due = TRUE]
             /\ aged[k].period = s[k].period /\ aged[k].ids = s[k].ids
             /\ aged[k].attempt = s[k].attempt
  <2>1. s[k] \in Entry
    BY <1>1
  <2>2. aged[k] = [s[k] EXCEPT !.due = TRUE]
    BY <1>3
  <2> QED
    BY <2>1, <2>2 DEF Entry
<1>5. aged \in Seq(Entry) /\ Len(aged) = Len(s)
  <2>1. DOMAIN aged = 1..Len(s) /\ \A k \in 1..Len(s) : aged[k] \in Entry
    BY <1>3, <1>4
  <2>2. aged \in [1..Len(s) -> Entry]
    BY <1>3, <2>1
  <2>3. aged \in Seq(Entry)
    BY <1>3, <2>2, SeqDef
  <2> HIDE DEF aged
  <2> QED
    BY <1>3, <2>1, <2>3, LenProperties
<1> HIDE DEF aged
<1>6. store' = [latest |-> store.latest, pending |-> aged]
  BY <1>1, <1>2
<1>7. store' \in State
  BY <1>1, <1>5, <1>6 DEF State
<1>8. Claims(aged) = Claims(s)
  <2>1. \A x : x \in Claims(aged) <=> \E k \in 1..Len(s) : x \in aged[k].ids \X {aged[k].period}
    BY <1>5, ClaimsMean
  <2>2. \A x : x \in Claims(s) <=> \E k \in 1..Len(s) : x \in s[k].ids \X {s[k].period}
    BY <1>1, ClaimsMean
  <2>3. ASSUME NEW x PROVE x \in Claims(aged) <=> x \in Claims(s)
    <3>1. ASSUME NEW k \in 1..Len(s)
          PROVE  x \in aged[k].ids \X {aged[k].period} <=> x \in s[k].ids \X {s[k].period}
      BY <1>4, Zenon
    <3> QED
      BY <2>1, <2>2, <3>1, Zenon
  <2> QED
    BY <2>3, Zenon
<1> QED
  BY <1>4, <1>5, <1>6, <1>7, <1>8

(* Entries that become due stay in order.                                  *)
LEMMA WaitStep == ASSUME ThreadsInv, Wait PROVE ThreadsInv'
<1> DEFINE s == store.pending  w == store'.pending
<1>1. /\ TypeOK /\ QueueSound
      /\ UNCHANGED <<now, frozen, money, tick, history>> /\ tries' = tries
  BY DEF ThreadsInv, Wait, history
<1>2. /\ store' \in State /\ store'.latest = store.latest /\ Len(w) = Len(s)
      /\ \A k \in 1..Len(s) : w[k].period = s[k].period /\ w[k].ids = s[k].ids
                                /\ w[k].attempt = s[k].attempt
  BY <1>1, WaitKeeps
<1> HIDE DEF w
<1>3. Spaced(w) /\ Tried(w, tries) /\ UpTo(w, store.latest)
  BY <1>1, <1>2 DEF QueueSound, Spaced, Tried, UpTo
<1>4. QueueSound'
  <2>1. Len(w) <= MaxPending /\ store.latest <= now
    BY <1>1, <1>2 DEF QueueSound
  <2> QED
    BY <1>1, <1>2, <1>3, <2>1 DEF QueueSound, w
<1>5. TypeOK'
  BY <1>1, <1>2 DEF TypeOK, history, money
<1>6. TickSound' /\ PaidOnce' /\ GivenUpLate'
  BY <1>1 DEF ThreadsInv, TickSound, PaidOnce, GivenUpLate, Head1, history, money
<1> QED
  BY <1>4, <1>5, <1>6 DEF ThreadsInv

(* A crash loses the tick only.                                            *)
LEMMA CrashStep == ASSUME ThreadsInv, Crash PROVE ThreadsInv'
<1>1. tick' = NoTick /\ UNCHANGED <<now, frozen, money, store, history>>
  BY DEF Crash
<1>2. tick' \in Tick /\ TickSound'
  BY <1>1, NoTickSound DEF ThreadsInv, TypeOK
<1> QED
  BY <1>1, <1>2, TickStep

(* Initially there is nothing that could be wrong.                         *)
LEMMA InitSound == ASSUME Init PROVE Inv
<1>1. /\ now = -1 /\ rows = {} /\ tick = NoTick /\ store = NoState /\ owed = {} /\ forsaken = {}
      /\ paid = {} /\ ubi = [c \in Characters |-> [p \in Periods |-> 0]]
      /\ tries = [c \in Characters |-> [p \in Periods |-> 0]]
      /\ purse = [c \in Characters |-> 0] /\ frozen = FALSE
  BY DEF Init
<1>2. <<>> \in Seq(Entry) /\ Len(<<>>) = 0
  OBVIOUS
<1>3. tick \in Tick
  BY <1>1, <1>2 DEF NoTick, Tick
<1>4. /\ store.latest = -1 /\ store.pending = <<>>
      /\ tick.pc = "idle" /\ tick.latest = -1 /\ tick.queue = <<>> /\ tick.remaining = <<>>
  BY <1>1 DEF NoState, NoTick
<1>5. TypeOK
  <2>1. store \in State
    BY <1>1, <1>2 DEF NoState, State
  <2>2. tries \in [Characters -> [Periods -> 0..MaxAttempts]] /\ ubi \in [Characters -> [Periods -> Nat]]
    BY <1>1, PeriodicAssumption
  <2> QED
    BY <1>1, <1>3, <2>1, <2>2 DEF TypeOK
<1>6. PaidOnce
  BY <1>1 DEF PaidOnce
<1>7. QueueSound /\ TickSound
  BY <1>1, <1>2, <1>4, PeriodicAssumption DEF QueueSound, TickSound, Spaced, Before, Tried, UpTo
<1>8. GivenUpLate /\ HandSound /\ NoneForgotten
  BY <1>1, <1>4 DEF GivenUpLate, HandSound, Idle, NoneForgotten
<1> QED
  BY <1>5, <1>6, <1>7, <1>8 DEF Inv, ThreadsInv

(* Every step there is, under either specification, keeps ThreadsInv.      *)
LEMMA ThreadsStep ==
    ASSUME ThreadsInv, [Script \/ RunFrozen \/ World \/ SetFrozen \/ Crash]_vars
    PROVE  ThreadsInv'
<1>1. CASE Script
  BY <1>1, TickPausedStep, TickStartStep, NotDueStep, RunPeriodStep, RunRaisesStep,
     PeriodDoneStep, TickEndStep, PayStep, PayRaisesStep DEF Script
<1>2. CASE World
  BY <1>2, NewPeriodStep, WaitStep, PayByHandStep, SpendStep DEF World
<1>3. CASE SetFrozen \/ RunFrozen
  BY <1>3, SetFrozenStep, RunFrozenStep
<1>4. CASE Crash
  BY <1>4, CrashStep
<1>5. CASE UNCHANGED vars
  BY <1>5 DEF vars, money, history, ThreadsInv, TypeOK, PaidOnce, QueueSound, TickSound,
     GivenUpLate, Head1
<1> QED
  BY <1>1, <1>2, <1>3, <1>4, <1>5
-----------------------------------------------------------------------------
(* No claim is forgotten, as long as the freeze is not set in mid-tick.    *)

(* A step of a running tick that loses nobody it has in hand keeps both.   *)
LEMMA HandKept ==
    ASSUME HandSound, NoneForgotten, ~Idle,
           UNCHANGED <<frozen, store, owed>>, rows \subseteq rows', forsaken \subseteq forsaken',
           InHand \subseteq rows' \cup InHand' \cup forsaken'
    PROVE  HandSound' /\ NoneForgotten'
BY DEF HandSound, NoneForgotten

(* So does a step that leaves the tick alone.                              *)
LEMMA TickKept ==
    ASSUME HandSound, NoneForgotten, UNCHANGED <<tick, store, owed>>,
           Idle \/ frozen' = frozen, rows \subseteq rows', forsaken \subseteq forsaken'
    PROVE  HandSound' /\ NoneForgotten'
<1>1. InHand' = InHand /\ (Idle' <=> Idle)
  BY DEF InHand, Head1, Idle
<1> QED
  BY <1>1 DEF HandSound, NoneForgotten

(* What the tick has in hand, once its queue's head is told from the rest. *)
LEMMA HandHeads ==
    ASSUME TypeOK, tick.queue # <<>>, tick.pc = "run"
    PROVE  InHand = Claims(tick.remaining) \cup Claims(Tail(tick.queue))
                      \cup (Head1.ids \X {Head1.period})
<1>1. tick.queue \in Seq(Entry) /\ Head1 = tick.queue[1]
  BY TickTyped, HeadTyped
<1>2. Claims(tick.queue) = (Head1.ids \X {Head1.period}) \cup Claims(Tail(tick.queue))
  BY <1>1, ClaimsTail
<1> QED
  BY <1>2 DEF InHand

(* An entry that has been run leaves nobody behind.                        *)
LEMMA SettleHand ==
    ASSUME Inv, tick.pc \in {"run", "pay"}, tick.queue # <<>>, TriesGrow,
           NEW ids \in SUBSET Head1.ids, Settle(Head1, ids),
           \A c \in ids : tries'[c][Head1.period] > Head1.attempt,
           UNCHANGED <<now, frozen, money, store, owed>>,
           InHand = Claims(tick.remaining) \cup Claims(Tail(tick.queue))
                      \cup (ids \X {Head1.period})
    PROVE  HandSound' /\ NoneForgotten'
<1>1. TypeOK /\ TickSound /\ HandSound /\ NoneForgotten /\ ~Idle
  BY DEF Inv, ThreadsInv, Idle
<1>2. /\ tick'.pc = "run" /\ tick'.queue = Tail(tick.queue) /\ forsaken \subseteq forsaken'
      /\ Claims(tick.remaining) \cup (ids \X {Head1.period})
            \subseteq Claims(tick'.remaining) \cup forsaken'
  BY <1>1, SettleKeeps
<1>3. InHand' = Claims(tick'.remaining) \cup Claims(Tail(tick.queue))
  BY <1>2 DEF InHand
<1>4. InHand \subseteq rows' \cup InHand' \cup forsaken'
  BY <1>2, <1>3
<1> QED
  BY <1>1, <1>2, <1>4, HandKept DEF money

(* A frozen tick keeps every claim, or drops it from a full queue.         *)
LEMMA TickPausedHand == ASSUME Inv, TickPaused PROVE HandSound' /\ NoneForgotten'
<1> DEFINE q == Enqueue(store, now).pending
<1>1. TypeOK /\ QueueSound /\ now # -1 /\ NoneForgotten /\ Idle
  BY DEF Inv, ThreadsInv, TickPaused
<1>2. /\ now = store.latest => q = store.pending
      /\ now # store.latest => Claims(store.pending) \subseteq Claims(q) \cup Dropped(store, now)
  BY <1>1, EnqueueKeeps
<1>3. /\ store'.pending = q /\ owed' = owed \cup Claims(q) /\ rows' = rows /\ tick' = tick
      /\ forsaken' = IF now = store.latest THEN forsaken ELSE forsaken \cup Dropped(store, now)
  BY DEF TickPaused, Persist, money
<1> HIDE DEF q
<1>4. Claims(store.pending) \subseteq Claims(q) \cup forsaken' /\ forsaken \subseteq forsaken'
  BY <1>2, <1>3
<1>5. NoneForgotten'
  BY <1>1, <1>3, <1>4 DEF NoneForgotten
<1> QED
  BY <1>1, <1>3, <1>5 DEF HandSound, Idle

(* What the stored queue owes is in hand when a tick starts.               *)
LEMMA TickStartHand == ASSUME Inv, TickStart PROVE HandSound' /\ NoneForgotten'
<1> DEFINE q == Enqueue(store, now).pending
<1>1. TypeOK /\ QueueSound /\ now # -1 /\ NoneForgotten /\ ~frozen
  BY DEF Inv, ThreadsInv, TickStart
<1>2. /\ now = store.latest => q = store.pending
      /\ now # store.latest => Claims(store.pending) \subseteq Claims(q) \cup Dropped(store, now)
  BY <1>1, EnqueueKeeps
<1>3. /\ tick'.pc = "run" /\ tick'.queue = q
      /\ UNCHANGED <<now, frozen, money, store, owed, tries>>
      /\ forsaken' = IF now = store.latest THEN forsaken ELSE forsaken \cup Dropped(store, now)
  BY DEF TickStart, NoTick
<1> HIDE DEF q
<1>4. Claims(store.pending) \subseteq Claims(q) \cup forsaken' /\ forsaken \subseteq forsaken'
  BY <1>2, <1>3
<1>5. Claims(q) \subseteq InHand'
  BY <1>3 DEF InHand
<1> QED
  BY <1>1, <1>3, <1>4, <1>5 DEF HandSound, NoneForgotten, Idle, money

(* An entry not due stays in hand.                                         *)
LEMMA NotDueHand == ASSUME Inv, NotDue PROVE HandSound' /\ NoneForgotten'
<1> DEFINE r == tick.remaining
<1>1. /\ TypeOK /\ HandSound /\ NoneForgotten /\ ~Idle /\ tick.pc = "run" /\ tick.queue # <<>>
      /\ UNCHANGED <<frozen, store, owed>> /\ rows' = rows /\ forsaken' = forsaken
  BY DEF Inv, ThreadsInv, NotDue, Idle, history, money
<1>2. r \in Seq(Entry) /\ Head1 \in Entry
  BY <1>1, TickTyped, HeadTyped
<1>3. tick'.pc = "run" /\ tick'.queue = Tail(tick.queue) /\ tick'.remaining = Append(r, Head1)
  BY <1>1, TickTyped DEF NotDue
<1>4. Claims(Append(r, Head1)) = Claims(r) \cup (Head1.ids \X {Head1.period})
  BY <1>2, ClaimsAppend
<1>5. InHand \subseteq InHand'
  BY <1>1, <1>3, <1>4, HandHeads DEF InHand
<1> QED
  BY <1>1, <1>5, HandKept

(* A period about to be paid stays in hand.                                *)
LEMMA RunPeriodHand == ASSUME Inv, RunPeriod PROVE HandSound' /\ NoneForgotten'
<1>1. /\ TypeOK /\ HandSound /\ NoneForgotten /\ ~Idle /\ tick.pc = "run" /\ tick.queue # <<>>
      /\ UNCHANGED <<frozen, store, owed>> /\ rows' = rows /\ forsaken' = forsaken
  BY DEF Inv, ThreadsInv, RunPeriod, Idle, history, money
<1>2. /\ tick'.pc = "pay" /\ tick'.queue = tick.queue /\ tick'.remaining = tick.remaining
      /\ tick'.todo = Head1.ids /\ tick'.failed = {}
  BY <1>1, TickTyped DEF RunPeriod
<1>3. InHand \subseteq InHand'
  BY <1>1, <1>2, HandHeads DEF InHand, Head1
<1> QED
  BY <1>1, <1>3, HandKept

(* A period that raised as a whole is retried, or given up.                *)
LEMMA RunRaisesHand == ASSUME Inv, RunRaises PROVE HandSound' /\ NoneForgotten'
<1>1. /\ TypeOK /\ TickSound /\ tick.queue # <<>> /\ tick.pc = "run"
      /\ Failed(Head1.ids, Head1.period) /\ Settle(Head1, Head1.ids)
      /\ UNCHANGED <<now, frozen, money, store, owed>>
  BY DEF Inv, ThreadsInv, RunRaises
<1>2. TriesGrow /\ \A c \in Head1.ids : tries'[c][Head1.period] > Head1.attempt
  BY <1>1, FailurePasses
<1> QED
  BY <1>1, <1>2, HandHeads, SettleHand

(* Whoever leaves the list of those to pay has been paid.                  *)
LEMMA PayHand == ASSUME Inv, NEW c \in Characters, Pay(c) PROVE HandSound' /\ NoneForgotten'
<1>1. /\ TypeOK /\ HandSound /\ NoneForgotten /\ ~Idle /\ PaidOnce
      /\ tick.pc = "pay" /\ tick.queue # <<>> /\ PayOnce(c, Head1.period)
      /\ UNCHANGED <<frozen, store, owed>> /\ forsaken' = forsaken
  BY DEF Inv, ThreadsInv, TickSound, Pay, Idle, history
<1>2. Head1.period \in Periods
  BY <1>1, HeadTyped, EntryTyped
<1>3. rows' = rows \cup {<<c, Head1.period>>}
  BY <1>1, <1>2, PayOnceKeeps
<1>4. /\ tick'.pc = "pay" /\ tick'.queue = tick.queue /\ tick'.remaining = tick.remaining
      /\ tick'.todo = tick.todo \ {c} /\ tick'.failed = tick.failed
  BY <1>1, TickTyped DEF Pay
<1>5. InHand \subseteq rows' \cup InHand'
  BY <1>1, <1>3, <1>4 DEF InHand, Head1
<1> QED
  BY <1>1, <1>3, <1>5, HandKept

(* Or has failed, and is in hand still.                                    *)
LEMMA PayRaisesHand ==
    ASSUME Inv, NEW c \in Characters, PayRaises(c)
    PROVE  HandSound' /\ NoneForgotten'
<1>1. /\ TypeOK /\ HandSound /\ NoneForgotten /\ ~Idle /\ tick.pc = "pay"
      /\ UNCHANGED <<frozen, store, owed>> /\ rows' = rows /\ forsaken' = forsaken
  BY DEF Inv, ThreadsInv, PayRaises, Idle, money
<1>2. /\ tick'.pc = "pay" /\ tick'.queue = tick.queue /\ tick'.remaining = tick.remaining
      /\ tick'.todo = tick.todo \ {c} /\ tick'.failed = tick.failed \cup {c}
  BY <1>1, TickTyped DEF PayRaises
<1>3. InHand \subseteq InHand'
  BY <1>1, <1>2 DEF InHand, Head1
<1> QED
  BY <1>1, <1>3, HandKept

(* Those who failed are retried, or given up.                              *)
LEMMA PeriodDoneHand == ASSUME Inv, PeriodDone PROVE HandSound' /\ NoneForgotten'
<1>1. /\ TypeOK /\ TickSound /\ tick.queue # <<>> /\ tick.pc = "pay" /\ tick.todo = {}
      /\ Settle(Head1, tick.failed) /\ tick.failed \in SUBSET Head1.ids
      /\ UNCHANGED <<now, frozen, money, store, owed>> /\ tries' = tries
      /\ \A c \in tick.failed : tries[c][Head1.period] > Head1.attempt
  BY DEF Inv, ThreadsInv, TickSound, PeriodDone
<1>2. TriesGrow
  <2>1. tries \in Failures
    BY <1>1 DEF TypeOK, Failures
  <2>2. \A c \in Characters, p \in Periods : tries[c][p] <= tries[c][p]
    BY <2>1, FailuresCount
  <2> QED
    BY <1>1, <2>1, <2>2 DEF TriesGrow
<1>3. InHand = Claims(tick.remaining) \cup Claims(Tail(tick.queue))
                 \cup (tick.failed \X {Head1.period})
  BY <1>1 DEF InHand
<1> QED
  BY <1>1, <1>2, <1>3, SettleHand

(* What is written back is what was in hand.                               *)
LEMMA TickEndHand == ASSUME Inv, TickEnd PROVE HandSound' /\ NoneForgotten'
<1>1. /\ HandSound /\ NoneForgotten /\ ~Idle /\ tick.pc = "run" /\ tick.queue = <<>>
      /\ store'.pending = tick.remaining /\ owed' = owed \cup Claims(tick.remaining)
      /\ rows' = rows /\ forsaken' = forsaken /\ tick'.pc = "idle"
  BY DEF Inv, TickEnd, Persist, Written, NoTick, Idle, money
<1>2. InHand = Claims(tick.remaining)
  BY <1>1, ClaimsEmpty DEF InHand
<1>3. NoneForgotten'
  BY <1>1, <1>2 DEF HandSound, NoneForgotten
<1> QED
  BY <1>1, <1>3 DEF HandSound, Idle

(* Every step of Spec keeps Inv.                                           *)
LEMMA InvStep == ASSUME Inv, [Next]_vars PROVE Inv'
<1>1. TypeOK /\ HandSound /\ NoneForgotten
  BY DEF Inv, ThreadsInv
<1>2. ThreadsInv'
  BY ThreadsStep DEF Inv, Next
<1>3. ASSUME TickPaused \/ TickStart \/ NotDue \/ RunPeriod \/ RunRaises \/ PeriodDone \/ TickEnd
      PROVE  HandSound' /\ NoneForgotten'
  BY <1>3, TickPausedHand, TickStartHand, NotDueHand, RunPeriodHand, RunRaisesHand,
     PeriodDoneHand, TickEndHand
<1>4. ASSUME NEW c \in Characters, Pay(c) \/ PayRaises(c)
      PROVE  HandSound' /\ NoneForgotten'
  BY <1>4, PayHand, PayRaisesHand
<1>5. ASSUME NewPeriod \/ (Idle /\ SetFrozen) \/ UNCHANGED vars
      PROVE  HandSound' /\ NoneForgotten'
  BY <1>1, <1>5, TickKept DEF NewPeriod, SetFrozen, vars, money, history
<1>6. ASSUME Wait PROVE HandSound' /\ NoneForgotten'
  <2>1. Claims(store'.pending) = Claims(store.pending)
    BY <1>1, <1>6, WaitKeeps
  <2>2. /\ Idle /\ tick' = tick /\ rows' = rows /\ owed' = owed /\ forsaken' = forsaken
    BY <1>6 DEF Wait, money, history
  <2> QED
    BY <1>1, <2>1, <2>2 DEF HandSound, NoneForgotten, Idle
<1>7. ASSUME NEW c \in Characters, NEW p \in Periods, PayByHand(c, p)
      PROVE  HandSound' /\ NoneForgotten'
  <2>1. rows \subseteq rows'
    BY <1>7 DEF PayByHand, PayOnce, Payment, money
  <2> QED
    BY <1>1, <1>7, <2>1, TickKept DEF PayByHand, history
<1>8. ASSUME NEW c \in Characters, NEW d \in Trades, Spend(c, d)
      PROVE  HandSound' /\ NoneForgotten'
  BY <1>1, <1>8, TickKept DEF Spend, history
<1>9. ASSUME Crash PROVE HandSound' /\ NoneForgotten'
  <2>1. tick'.pc = "idle" /\ UNCHANGED <<store, owed, rows, forsaken>>
    BY <1>9 DEF Crash, NoTick, money, history
  <2> QED
    BY <1>1, <2>1 DEF HandSound, NoneForgotten, Idle
<1>10. HandSound' /\ NoneForgotten'
  BY <1>3, <1>4, <1>5, <1>6, <1>7, <1>8, <1>9 DEF Next, Script, World
<1> QED
  BY <1>2, <1>10 DEF Inv
-----------------------------------------------------------------------------
(* Inv is an invariant: nobody is paid twice, given up early or forgotten, *)
(* whatever fails, crashes or is rerun, if staff freeze between two ticks. *)
THEOREM InvAlways == Spec => []Inv
<1>1. Init => Inv
  BY InitSound
<1>2. Inv /\ [Next]_vars => Inv'
  BY InvStep
<1> QED
  BY <1>1, <1>2, PTL DEF Spec

(* ThreadsInv is one even if another thread freezes in mid-tick.           *)
THEOREM ThreadsAlways == ThreadsSpec => []ThreadsInv
<1>1. Init => ThreadsInv
  BY InitSound DEF Inv
<1>2. ThreadsInv /\ [ThreadsNext]_vars => ThreadsInv'
  BY ThreadsStep DEF ThreadsNext
<1> QED
  BY <1>1, <1>2, PTL DEF ThreadsSpec

(* Income is paid once: a period's ledger rows are one if its UBIPayment is *)
(* of a positive amount, and none otherwise.                               *)
THEOREM PaidOnceAlways == ThreadsSpec => []PaidOnce
<1>1. ThreadsInv => PaidOnce
  BY DEF ThreadsInv
<1> QED
  BY <1>1, ThreadsAlways, PTL

(* Whoever is given up had their attempts, or their period was crowded out.*)
THEOREM GivenUpLateAlways == ThreadsSpec => []GivenUpLate
<1>1. ThreadsInv => GivenUpLate
  BY DEF ThreadsInv
<1> QED
  BY <1>1, ThreadsAlways, PTL

(* The queue stays in order and within its bound.                          *)
THEOREM QueueInOrderAlways == ThreadsSpec => []QueueInOrder
<1>1. ASSUME ThreadsInv PROVE QueueInOrder
  <2> DEFINE s == store.pending
  <2>1. s \in Seq(Entry) /\ Spaced(s) /\ Len(s) <= MaxPending
    BY <1>1 DEF ThreadsInv, TypeOK, State, QueueSound
  <2>2. ASSUME NEW j \in 1..Len(s), NEW k \in 1..Len(s), j < k
        PROVE  s[j].period < s[k].period
    <3>1. s[j].period + (k - j) <= s[k].period
      BY <2>1, <2>2 DEF Spaced
    <3>2. s[j].period \in Int /\ s[k].period \in Int
      BY <2>1, EntriesTyped
    <3> QED
      BY <2>2, <3>1, <3>2
  <2>3. DOMAIN s = 1..Len(s)
    BY <2>1
  <2> QED
    BY <2>1, <2>2, <2>3 DEF QueueInOrder
<1> QED
  BY <1>1, ThreadsAlways, PTL

(* Whatever was ever queued is paid, still queued, or was given up.        *)
THEOREM NoneForgottenAlways == Spec => []NoneForgotten
<1>1. Inv => NoneForgotten
  BY DEF Inv
<1> QED
  BY <1>1, InvAlways, PTL

(* Income never takes a purse over the cap, however it is run.             *)
THEOREM IncomeWithinCapAlways == Spec => IncomeWithinCap
<1> DEFINE Within == \A c \in Characters :
             rows' # rows => purse'[c] <= Most(purse[c], Cap) /\ purse'[c] >= purse[c]
<1>1. ASSUME Inv, [Next]_vars PROVE [Within]_vars
  <2>1. TypeOK /\ PaidOnce /\ TickSound
    BY <1>1 DEF Inv, ThreadsInv
  <2>2. ASSUME NEW c \in Characters, NEW p \in Periods, PayOnce(c, p) PROVE Within
    <3>1. \A d \in Characters : purse[d] <= purse'[d] /\ purse'[d] <= Most(purse[d], Cap)
      BY <2>1, <2>2, PayOnceKeeps
    <3>2. \A d \in Characters : purse[d] \in Int /\ purse'[d] \in Int
      <4>1. purse \in [Characters -> Nat] /\ purse' \in [Characters -> Nat]
        BY <2>1, <2>2, PayOnceKeeps DEF TypeOK
      <4> QED
        BY <4>1
    <3> QED
      BY <3>1, <3>2
  <2>3. ASSUME NEW c \in Characters, Pay(c) PROVE Within
    <3>1. Head1.period \in Periods
      BY <2>1, <2>3, HeadTyped, EntryTyped DEF Pay, TickSound
    <3> QED
      BY <2>2, <2>3, <3>1 DEF Pay
  <2>4. ASSUME NEW c \in Characters, NEW p \in Periods, PayByHand(c, p) PROVE Within
    BY <2>2, <2>4 DEF PayByHand
  <2>5. rows' = rows => Within
    OBVIOUS
  <2>6. CASE Script
    BY <2>3, <2>5, <2>6 DEF Script, TickPaused, TickStart, NotDue, RunPeriod, RunRaises,
       PeriodDone, TickEnd, PayRaises, money
  <2>7. CASE World
    BY <2>4, <2>5, <2>7 DEF World, NewPeriod, Wait, Spend, money
  <2>8. CASE SetFrozen \/ Crash \/ UNCHANGED vars
    BY <2>5, <2>8 DEF SetFrozen, Crash, vars, money
  <2> QED
    BY <1>1, <2>6, <2>7, <2>8 DEF Next
<1> QED
  BY <1>1, InvAlways, PTL DEF Spec, IncomeWithinCap

=============================================================================
