--------------------------- MODULE EconomyProofs ---------------------------
(***************************************************************************)
(* Lemmas about the bank's operators, for any characters, fees and         *)
(* amounts.                                                                *)
(*                                                                         *)
(* The operators chain like the statements of a transaction: each takes    *)
(* the bank its predecessor left.  Sound(b) and Drift(b, c) say what every *)
(* link of the chain preserves, so a transaction of any shape does.        *)
(***************************************************************************)
EXTENDS Economy, SumProofs, TLAPS

(* A bank value inside a transaction: unless an UPDATE has failed, every   *)
(* purse is in range.                                                      *)
Sound(b) ==
    /\ b \in Bank
    /\ Committable(b) => \A c \in Characters : b.purse[c] \in 0..MaxBalance

(* How far c's purse is from what the ledger says of it. *)
Drift(b, c) == b.purse[c] - b.received[c] + b.given[c]

-----------------------------------------------------------------------------
(* A conditional UPDATE keeps a bank sound, and moves one purse only. *)
LEMMA AdjustSound ==
    ASSUME NEW b, Sound(b), NEW c \in Characters, NEW delta \in Int
    PROVE  /\ Sound(Adjust(b, c, delta))
           /\ \A d \in Characters :
                Drift(Adjust(b, c, delta), d) = Drift(b, d) + IF d = c THEN delta ELSE 0
<1>. DEFINE a == Adjust(b, c, delta)
<1>1. b \in Bank
  BY DEF Sound
<1>2. /\ a.received = b.received /\ a.given = b.given
      /\ \A d \in Characters : a.purse[d] = b.purse[d] + IF d = c THEN delta ELSE 0
      /\ a.missed = b.missed + IF b.purse[c] + delta \in 0..MaxBalance THEN 0 ELSE 1
  BY <1>1 DEF Adjust, Bank
<1>3. a \in Bank
  <2>. DEFINE p == [b.purse EXCEPT ![c] = @ + delta]
              n == b.missed + IF b.purse[c] + delta \in 0..MaxBalance THEN 0 ELSE 1
  <2>1. p \in [Characters -> Int] /\ n \in Nat
    BY <1>1 DEF Bank
  <2>2. a = [b EXCEPT !.purse = p, !.missed = n]
    BY <1>1 DEF Adjust, Bank
  <2>. HIDE DEF p, n
  <2>. QED BY <1>1, <2>1, <2>2 DEF Bank
<1>4. Sound(a)
  <2>. SUFFICES ASSUME Committable(a), NEW d \in Characters
                PROVE  a.purse[d] \in 0..MaxBalance
    BY <1>3 DEF Sound
  <2>1. b.missed = 0 /\ b.purse[c] + delta \in 0..MaxBalance
    BY <1>1, <1>2 DEF Committable, Bank
  <2>2. b.purse[d] \in 0..MaxBalance
    BY <2>1 DEF Sound, Committable
  <2>. QED BY <1>2, <2>1, <2>2
<1>5. ASSUME NEW d \in Characters
      PROVE  Drift(a, d) = Drift(b, d) + IF d = c THEN delta ELSE 0
  BY <1>1, <1>2 DEF Drift, Bank
<1>. HIDE DEF a
<1>6. /\ Sound(a)
      /\ \A d \in Characters : Drift(a, d) = Drift(b, d) + IF d = c THEN delta ELSE 0
  BY <1>4, <1>5
<1>. QED BY <1>6 DEF a

(* A ledger row keeps a bank sound and touches no purse. *)
LEMMA JournalSound ==
    ASSUME NEW b, Sound(b), NEW from, NEW to, NEW amount \in Nat
    PROVE  /\ Sound(Journal(b, from, to, amount))
           /\ \A d \in Characters :
                Drift(Journal(b, from, to, amount), d)
                  = Drift(b, d) + (IF d = from THEN amount ELSE 0) - (IF d = to THEN amount ELSE 0)
<1>. DEFINE j == Journal(b, from, to, amount)
<1>1. b \in Bank
  BY DEF Sound
<1>2. /\ j.purse = b.purse
      /\ j.missed = b.missed
      /\ \A d \in Characters : /\ j.given[d] = b.given[d] + IF d = from THEN amount ELSE 0
                               /\ j.received[d] = b.received[d] + IF d = to THEN amount ELSE 0
  BY <1>1 DEF Journal, Bank
<1>3. j \in Bank
  <2>. DEFINE g == [d \in Characters |-> b.given[d] + IF d = from THEN amount ELSE 0]
              r == [d \in Characters |-> b.received[d] + IF d = to THEN amount ELSE 0]
              m == b.minted + IF from = Nobody THEN amount ELSE 0
              n == b.burned + IF to = Nobody THEN amount ELSE 0
  <2>1. g \in [Characters -> Nat] /\ r \in [Characters -> Nat]
    BY <1>1 DEF Bank
  <2>2. m \in Nat /\ n \in Nat
    BY <1>1 DEF Bank
  <2>3. j = [b EXCEPT !.given = g, !.received = r, !.minted = m, !.burned = n]
    BY <1>1 DEF Journal, Bank
  <2>. HIDE DEF g, r, m, n
  <2>. QED BY <1>1, <2>1, <2>2, <2>3 DEF Bank
<1>4. Sound(j)
  BY <1>2, <1>3 DEF Sound, Committable
<1>5. ASSUME NEW d \in Characters
      PROVE  Drift(j, d) = Drift(b, d) + (IF d = from THEN amount ELSE 0) - (IF d = to THEN amount ELSE 0)
  BY <1>1, <1>2 DEF Drift, Bank
<1>. HIDE DEF j
<1>6. /\ Sound(j)
      /\ \A d \in Characters :
           Drift(j, d) = Drift(b, d) + (IF d = from THEN amount ELSE 0) - (IF d = to THEN amount ELSE 0)
  BY <1>4, <1>5
<1>. QED BY <1>6 DEF j
-----------------------------------------------------------------------------
(* Each service's money operator, from the two above. *)

LEMMA MintSound ==
    ASSUME NEW b, Sound(b), NEW c \in Characters, NEW amount \in Nat
    PROVE  /\ Sound(Mint(b, c, amount))
           /\ \A d \in Characters : Drift(Mint(b, c, amount), d) = Drift(b, d)
<1>. DEFINE a == Adjust(b, c, amount)
<1>1. Sound(a) /\ \A d \in Characters : Drift(a, d) = Drift(b, d) + IF d = c THEN amount ELSE 0
  BY AdjustSound
<1>. HIDE DEF a
<1>2. /\ Sound(Journal(a, Nobody, c, amount))
      /\ \A d \in Characters :
           Drift(Journal(a, Nobody, c, amount), d)
             = Drift(a, d) + (IF d = Nobody THEN amount ELSE 0) - (IF d = c THEN amount ELSE 0)
  BY <1>1, JournalSound
<1>3. \A d \in Characters : Drift(b, d) \in Int /\ d # Nobody
  BY EconomyAssumption DEF Drift, Sound, Bank
<1>4. /\ Sound(Journal(a, Nobody, c, amount))
      /\ \A d \in Characters : Drift(Journal(a, Nobody, c, amount), d) = Drift(b, d)
  BY <1>1, <1>2, <1>3
<1>. QED BY <1>4 DEF Mint, a

LEMMA BurnSound ==
    ASSUME NEW b, Sound(b), NEW c \in Characters, NEW amount \in Nat
    PROVE  /\ Sound(Burn(b, c, amount))
           /\ \A d \in Characters : Drift(Burn(b, c, amount), d) = Drift(b, d)
<1>. DEFINE a == Adjust(b, c, -amount)
<1>1. Sound(a) /\ \A d \in Characters : Drift(a, d) = Drift(b, d) + IF d = c THEN -amount ELSE 0
  BY AdjustSound
<1>. HIDE DEF a
<1>2. /\ Sound(Journal(a, c, Nobody, amount))
      /\ \A d \in Characters :
           Drift(Journal(a, c, Nobody, amount), d)
             = Drift(a, d) + (IF d = c THEN amount ELSE 0) - (IF d = Nobody THEN amount ELSE 0)
  BY <1>1, JournalSound
<1>3. \A d \in Characters : Drift(b, d) \in Int /\ d # Nobody
  BY EconomyAssumption DEF Drift, Sound, Bank
<1>4. /\ Sound(Journal(a, c, Nobody, amount))
      /\ \A d \in Characters : Drift(Journal(a, c, Nobody, amount), d) = Drift(b, d)
  BY <1>1, <1>2, <1>3
<1>. QED BY <1>4 DEF Burn, a

LEMMA ChargeFeeSound ==
    ASSUME NEW b, Sound(b), NEW c \in Characters, NEW kind \in FeeKinds
    PROVE  /\ Sound(ChargeFee(b, kind, c))
           /\ \A d \in Characters : Drift(ChargeFee(b, kind, c), d) = Drift(b, d)
<1>1. Fee[kind] \in Nat
  BY EconomyAssumption
<1>2. CASE Fee[kind] = 0
  BY <1>2 DEF ChargeFee
<1>3. CASE Fee[kind] # 0
  BY <1>1, <1>3, BurnSound DEF ChargeFee
<1>. QED BY <1>2, <1>3

(* A transfer carries its amount from one purse's drift to the other's; its *)
(* ledger row takes it back.                                                *)
LEMMA MoveMoneySound ==
    ASSUME NEW b, Sound(b), NEW g \in Characters, NEW r \in Characters, NEW amount \in Nat
    PROVE  /\ Sound(MoveMoney(b, g, r, amount))
           /\ \A d \in Characters :
                Drift(MoveMoney(b, g, r, amount), d)
                  = Drift(b, d) - (IF d = g THEN amount ELSE 0) + (IF d = r THEN amount ELSE 0)
<1>. DEFINE a == Adjust(b, g, -amount)
<1>1. Sound(a) /\ \A d \in Characters : Drift(a, d) = Drift(b, d) + IF d = g THEN -amount ELSE 0
  BY AdjustSound
<1>2. \A d \in Characters : Drift(b, d) \in Int
  BY DEF Drift, Sound, Bank
<1>. HIDE DEF a
<1>3. /\ Sound(Adjust(a, r, amount))
      /\ \A d \in Characters :
           Drift(Adjust(a, r, amount), d) = Drift(a, d) + IF d = r THEN amount ELSE 0
  BY <1>1, AdjustSound
<1>4. CASE amount = 0
  BY <1>2, <1>4 DEF MoveMoney
<1>5. CASE amount # 0
  <2>1. MoveMoney(b, g, r, amount) = Adjust(a, r, amount)
    BY <1>5 DEF MoveMoney, a
  <2>. QED BY <1>1, <1>2, <1>3, <2>1
<1>. QED BY <1>4, <1>5

(* A deletion that burns what the purse really held. *)
LEMMA BurnDeletedSound ==
    ASSUME NEW b, Sound(b), NEW c \in Characters, b.purse[c] \in Nat
    PROVE  /\ Sound(BurnDeleted(b, c, b.purse[c]))
           /\ BurnDeleted(b, c, b.purse[c]).missed = b.missed
           /\ \A d \in Characters : Drift(BurnDeleted(b, c, b.purse[c]), d) = Drift(b, d)
<1>. DEFINE n == b.purse[c]
            j == IF n = 0 THEN b ELSE Journal(b, c, Nobody, n)
            e == BurnDeleted(b, c, n)
<1>1. \A d \in Characters : Drift(b, d) \in Int /\ d # Nobody
  BY EconomyAssumption DEF Drift, Sound, Bank
<1>2. /\ Sound(j) /\ j.purse = b.purse /\ j.missed = b.missed
      /\ \A d \in Characters : Drift(j, d) = Drift(b, d) + IF d = c THEN n ELSE 0
  <2>1. CASE n = 0
    BY <1>1, <2>1
  <2>2. CASE n # 0
    <3>1. Journal(b, c, Nobody, n).purse = b.purse /\ Journal(b, c, Nobody, n).missed = b.missed
      BY DEF Journal, Sound, Bank
    <3>2. /\ Sound(Journal(b, c, Nobody, n))
          /\ \A d \in Characters :
               Drift(Journal(b, c, Nobody, n), d)
                 = Drift(b, d) + (IF d = c THEN n ELSE 0) - (IF d = Nobody THEN n ELSE 0)
      BY JournalSound
    <3>3. \A d \in Characters : Drift(Journal(b, c, Nobody, n), d) = Drift(b, d) + IF d = c THEN n ELSE 0
      BY <1>1, <3>2
    <3>4. j = Journal(b, c, Nobody, n)
      BY <2>2
    <3>. HIDE DEF j
    <3>. QED BY <3>1, <3>2, <3>3, <3>4
  <2>. QED BY <2>1, <2>2
<1>3. e = [j EXCEPT !.purse[c] = 0]
  BY DEF BurnDeleted
<1>. HIDE DEF j
<1>4. /\ e \in Bank /\ e.missed = j.missed /\ e.given = j.given /\ e.received = j.received
      /\ \A d \in Characters : e.purse[d] = IF d = c THEN 0 ELSE j.purse[d]
  BY <1>2, <1>3 DEF Sound, Bank
<1>. HIDE DEF e
<1>5. Sound(e)
  BY <1>2, <1>4, EconomyAssumption DEF Sound, Committable
<1>6. ASSUME NEW d \in Characters PROVE Drift(e, d) = Drift(b, d)
  <2>1. Drift(e, d) = e.purse[d] - j.received[d] + j.given[d]
    BY <1>4 DEF Drift
  <2>2. Drift(j, d) = j.purse[d] - j.received[d] + j.given[d]
    BY DEF Drift
  <2>3. j.received[d] \in Nat /\ j.given[d] \in Nat /\ j.purse[d] \in Int
    BY <1>2 DEF Sound, Bank
  <2>. QED BY <1>1, <1>2, <1>4, <2>1, <2>2, <2>3
<1>. QED BY <1>2, <1>4, <1>5, <1>6 DEF e

-----------------------------------------------------------------------------
(* The part of the invariant that is about money alone. *)
GoodBank(b) == Sound(b) /\ Committable(b) /\ \A d \in Characters : Drift(b, d) = 0

LEMMA GoodBankMeans ==
    ASSUME NEW b
    PROVE  GoodBank(b) <=> /\ b \in Bank /\ Committable(b)
                           /\ \A c \in Characters : b.purse[c] \in 0..MaxBalance
                           /\ \A c \in Characters : b.purse[c] = b.received[c] - b.given[c]
<1>1. ASSUME b \in Bank, NEW c \in Characters
      PROVE  Drift(b, c) = 0 <=> b.purse[c] = b.received[c] - b.given[c]
  BY <1>1 DEF Drift, Bank
<1>. QED BY <1>1 DEF GoodBank, Sound

(* The money parts of the invariant, from a step's new bank. *)
LEMMA BankStep ==
    ASSUME GoodBank(bank')
    PROVE  /\ bank' \in Bank /\ Committable(bank')
           /\ \A c \in Characters : bank'.purse[c] \in 0..MaxBalance
           /\ BooksAgree'
<1>1. GoodBank(bank') <=> /\ bank' \in Bank /\ Committable(bank')
                          /\ \A c \in Characters : bank'.purse[c] \in 0..MaxBalance
                          /\ \A c \in Characters : bank'.purse[c] = bank'.received[c] - bank'.given[c]
  BY GoodBankMeans
<1>. QED BY <1>1 DEF BooksAgree

(* ... and from the invariant of the step's state. *)
LEMMA BankGood == EconomyTypeOK /\ BooksAgree => GoodBank(bank)
<1>1. GoodBank(bank) <=> /\ bank \in Bank /\ Committable(bank)
                         /\ \A c \in Characters : bank.purse[c] \in 0..MaxBalance
                         /\ \A c \in Characters : bank.purse[c] = bank.received[c] - bank.given[c]
  BY GoodBankMeans
<1>. QED BY <1>1 DEF EconomyTypeOK, BooksAgree

-----------------------------------------------------------------------------
(***************************************************************************)
(* reports.reconciliation, the sum of all purses beside the totals of the  *)
(* ledger: each operator moves them together, or two of them do.           *)
(***************************************************************************)
Gap(b) == b.minted - b.burned - Total(b.purse, Characters)

(* Reconciled says that there is none. *)
LEMMA ReconciledMeans == bank \in Bank => (Reconciled <=> Gap(bank) = 0)
<1>1. MapThenSumSet(LAMBDA c : bank.purse[c], Characters) = Total(bank.purse, Characters)
  BY Zenon DEF Total
<1>2. ASSUME bank \in Bank
      PROVE  /\ bank.minted \in Int /\ bank.burned \in Int
             /\ Total(bank.purse, Characters) \in Int
  BY <1>2, TotalInt, EconomyAssumption DEF Bank
<1>. HIDE DEF Bank
<1>3. Reconciled <=> bank.minted - bank.burned = Total(bank.purse, Characters)
  BY <1>1, Zenon DEF Reconciled
<1>. QED BY <1>2, <1>3 DEF Gap

LEMMA GapInt == ASSUME NEW b \in Bank PROVE Gap(b) \in Int
<1>1. Total(b.purse, Characters) \in Int
  BY TotalInt, EconomyAssumption DEF Bank
<1>. QED BY <1>1 DEF Gap, Bank

(* Money that a purse gains or loses is missing from the totals, ... *)
LEMMA AdjustGap ==
    ASSUME NEW b \in Bank, NEW c \in Characters, NEW delta \in Int
    PROVE  Gap(Adjust(b, c, delta)) = Gap(b) - delta
<1>. DEFINE p == b.purse
            q == [b.purse EXCEPT ![c] = @ + delta]
<1>1. p \in [Characters -> Int] /\ q \in [Characters -> Int]
  BY DEF Bank
<1>2. q[c] = p[c] + delta /\ \A d \in Characters \ {c} : q[d] = p[d]
  BY <1>1
<1>3. /\ Adjust(b, c, delta).purse = q
      /\ Adjust(b, c, delta).minted = b.minted
      /\ Adjust(b, c, delta).burned = b.burned
  BY DEF Adjust, Bank
<1>. HIDE DEF q
<1>4. Total(q, Characters) = Total(p, Characters) + q[c] - p[c]
  BY <1>1, <1>2, TotalChange, EconomyAssumption
<1>5. Total(p, Characters) \in Int
  BY <1>1, TotalInt, EconomyAssumption
<1>6. p[c] \in Int /\ b.minted \in Int /\ b.burned \in Int
  BY <1>1 DEF Bank
<1>. HIDE DEF p
<1>7. Gap(b) = b.minted - b.burned - Total(p, Characters)
  BY DEF Gap, p
<1>8. Gap(Adjust(b, c, delta)) = b.minted - b.burned - Total(q, Characters)
  BY <1>3 DEF Gap
<1>. QED BY <1>2, <1>4, <1>5, <1>6, <1>7, <1>8

(* ... until a row from or to nobody says so. *)
LEMMA JournalGap ==
    ASSUME NEW b \in Bank, NEW from, NEW to, NEW amount \in Nat
    PROVE  Gap(Journal(b, from, to, amount))
             = Gap(b) + (IF from = Nobody THEN amount ELSE 0) - (IF to = Nobody THEN amount ELSE 0)
<1>. DEFINE j == Journal(b, from, to, amount)
            t == Total(b.purse, Characters)
<1>1. /\ j.purse = b.purse
      /\ j.minted = b.minted + IF from = Nobody THEN amount ELSE 0
      /\ j.burned = b.burned + IF to = Nobody THEN amount ELSE 0
  BY DEF Journal, Bank
<1>2. t \in Int /\ b.minted \in Int /\ b.burned \in Int
  BY TotalInt, EconomyAssumption DEF Bank
<1>. HIDE DEF j, t
<1>3. Gap(b) = b.minted - b.burned - t
  BY DEF Gap, t
<1>4. Gap(j) = j.minted - j.burned - t
  BY <1>1 DEF Gap, t
<1>5. Gap(j) = Gap(b) + (IF from = Nobody THEN amount ELSE 0) - (IF to = Nobody THEN amount ELSE 0)
  BY <1>1, <1>2, <1>3, <1>4
<1>. QED BY <1>5 DEF j

LEMMA MintGap ==
    ASSUME NEW b, Sound(b), NEW c \in Characters, NEW amount \in Nat
    PROVE  Gap(Mint(b, c, amount)) = Gap(b)
<1>. DEFINE a == Adjust(b, c, amount)
<1>1. b \in Bank /\ a \in Bank
  BY AdjustSound DEF Sound
<1>2. Gap(a) = Gap(b) - amount
  BY <1>1, AdjustGap
<1>. HIDE DEF a
<1>3. Gap(Journal(a, Nobody, c, amount)) = Gap(a) + amount
  <2>1. c # Nobody /\ Gap(a) \in Int
    BY <1>1, GapInt, EconomyAssumption
  <2>2. Gap(Journal(a, Nobody, c, amount))
          = Gap(a) + (IF Nobody = Nobody THEN amount ELSE 0) - (IF c = Nobody THEN amount ELSE 0)
    BY <1>1, JournalGap
  <2>. QED BY <2>1, <2>2
<1>4. Gap(b) \in Int
  BY <1>1, GapInt
<1>. QED BY <1>2, <1>3, <1>4 DEF Mint, a

LEMMA BurnGap ==
    ASSUME NEW b, Sound(b), NEW c \in Characters, NEW amount \in Nat
    PROVE  Gap(Burn(b, c, amount)) = Gap(b)
<1>. DEFINE a == Adjust(b, c, -amount)
<1>1. b \in Bank /\ a \in Bank
  BY AdjustSound DEF Sound
<1>2. Gap(a) = Gap(b) - (-amount)
  BY <1>1, AdjustGap
<1>. HIDE DEF a
<1>3. Gap(Journal(a, c, Nobody, amount)) = Gap(a) - amount
  <2>1. c # Nobody /\ Gap(a) \in Int
    BY <1>1, GapInt, EconomyAssumption
  <2>2. Gap(Journal(a, c, Nobody, amount))
          = Gap(a) + (IF c = Nobody THEN amount ELSE 0) - (IF Nobody = Nobody THEN amount ELSE 0)
    BY <1>1, JournalGap
  <2>. QED BY <2>1, <2>2
<1>4. Gap(b) \in Int
  BY <1>1, GapInt
<1>. QED BY <1>2, <1>3, <1>4 DEF Burn, a

LEMMA ChargeFeeGap ==
    ASSUME NEW b, Sound(b), NEW c \in Characters, NEW kind \in FeeKinds
    PROVE  Gap(ChargeFee(b, kind, c)) = Gap(b)
<1>1. Fee[kind] \in Nat
  BY EconomyAssumption
<1>. QED BY <1>1, BurnGap DEF ChargeFee

LEMMA MoveMoneyGap ==
    ASSUME NEW b, Sound(b), NEW g \in Characters, NEW r \in Characters, NEW amount \in Nat
    PROVE  Gap(MoveMoney(b, g, r, amount)) = Gap(b)
<1>. DEFINE a == Adjust(b, g, -amount)
<1>1. b \in Bank /\ a \in Bank
  BY AdjustSound DEF Sound
<1>2. Gap(a) = Gap(b) - (-amount)
  BY <1>1, AdjustGap
<1>. HIDE DEF a
<1>3. Gap(Adjust(a, r, amount)) = Gap(a) - amount
  BY <1>1, AdjustGap
<1>4. Gap(b) \in Int
  BY <1>1, GapInt
<1>5. Gap(Adjust(a, r, amount)) = Gap(b)
  BY <1>2, <1>3, <1>4
<1>. QED BY <1>5 DEF MoveMoney, a

(* A deletion burns all that it takes out of the purses. *)
LEMMA BurnDeletedGap ==
    ASSUME NEW b, Sound(b), NEW c \in Characters, b.purse[c] \in Nat
    PROVE  Gap(BurnDeleted(b, c, b.purse[c])) = Gap(b)
<1>. DEFINE n == b.purse[c]
            j == IF n = 0 THEN b ELSE Journal(b, c, Nobody, n)
            q == [j.purse EXCEPT ![c] = 0]
<1>1. b \in Bank /\ c # Nobody
  BY EconomyAssumption DEF Sound
<1>2. j \in Bank /\ j.purse = b.purse /\ Gap(j) = Gap(b) - n
  <2>1. CASE n = 0
    <3>1. Gap(b) \in Int
      BY <1>1, GapInt
    <3>. QED BY <1>1, <2>1, <3>1
  <2>2. CASE n # 0
    <3>1. Journal(b, c, Nobody, n) \in Bank
      BY JournalSound DEF Sound
    <3>2. Journal(b, c, Nobody, n).purse = b.purse
      BY <1>1 DEF Journal, Bank
    <3>3. Gap(Journal(b, c, Nobody, n)) = Gap(b) + 0 - n
      BY <1>1, JournalGap
    <3>4. Gap(b) \in Int
      BY <1>1, GapInt
    <3>5. j = Journal(b, c, Nobody, n)
      BY <2>2
    <3>. HIDE DEF j
    <3>. QED BY <3>1, <3>2, <3>3, <3>4, <3>5
  <2>. QED BY <2>1, <2>2
<1>3. BurnDeleted(b, c, n) = [j EXCEPT !.purse[c] = 0]
  BY DEF BurnDeleted
<1>. HIDE DEF j
<1>4. /\ [j EXCEPT !.purse[c] = 0].purse = q
      /\ [j EXCEPT !.purse[c] = 0].minted = j.minted
      /\ [j EXCEPT !.purse[c] = 0].burned = j.burned
  BY <1>2 DEF Bank
<1>5. /\ b.purse \in [Characters -> Int] /\ q \in [Characters -> Int]
      /\ q[c] = 0 /\ \A d \in Characters \ {c} : q[d] = b.purse[d]
  BY <1>1, <1>2 DEF Bank
<1>. HIDE DEF q
<1>6. Total(q, Characters) = Total(b.purse, Characters) + q[c] - b.purse[c]
  BY <1>5, TotalChange, EconomyAssumption
<1>7. Total(b.purse, Characters) \in Int
  BY <1>5, TotalInt, EconomyAssumption
<1>8. Gap(BurnDeleted(b, c, n)) = j.minted - j.burned - Total(q, Characters)
  BY <1>3, <1>4 DEF Gap
<1>9. Gap(j) = j.minted - j.burned - Total(b.purse, Characters)
  BY <1>2 DEF Gap
<1>10. j.minted \in Int /\ j.burned \in Int /\ Gap(b) \in Int
  BY <1>1, <1>2, GapInt DEF Bank
<1>. QED BY <1>2, <1>5, <1>6, <1>7, <1>8, <1>9, <1>10

-----------------------------------------------------------------------------
(* What each operator does to a purse. *)

LEMMA AdjustPurse ==
    ASSUME NEW b \in Bank, NEW c \in Characters, NEW delta \in Int, NEW d \in Characters
    PROVE  Adjust(b, c, delta).purse[d] = b.purse[d] + IF d = c THEN delta ELSE 0
BY DEF Adjust, Bank

LEMMA JournalPurse ==
    ASSUME NEW b \in Bank, NEW from, NEW to, NEW amount
    PROVE  Journal(b, from, to, amount).purse = b.purse
BY DEF Journal, Bank

LEMMA ChargeFeePurse ==
    ASSUME NEW b, Sound(b), NEW c \in Characters, NEW kind \in FeeKinds, NEW d \in Characters
    PROVE  ChargeFee(b, kind, c).purse[d] = b.purse[d] - IF d = c THEN Fee[kind] ELSE 0
<1>1. Fee[kind] \in Nat /\ b \in Bank /\ b.purse[d] \in Int
  BY EconomyAssumption DEF Sound, Bank
<1>2. CASE Fee[kind] = 0
  BY <1>1, <1>2 DEF ChargeFee
<1>3. CASE Fee[kind] # 0
  <2>. DEFINE a == Adjust(b, c, -Fee[kind])
  <2>1. a \in Bank
    BY <1>1, AdjustSound DEF Sound
  <2>2. a.purse[d] = b.purse[d] + IF d = c THEN -Fee[kind] ELSE 0
    BY <1>1, AdjustPurse
  <2>3. ChargeFee(b, kind, c) = Journal(a, c, Nobody, Fee[kind])
    BY <1>3 DEF ChargeFee, Burn
  <2>. HIDE DEF a
  <2>. QED BY <1>1, <2>1, <2>2, <2>3, JournalPurse
<1>. QED BY <1>2, <1>3

LEMMA MoveMoneyPurse ==
    ASSUME NEW b, Sound(b), NEW g \in Characters, NEW r \in Characters, NEW amount \in Nat,
           NEW d \in Characters
    PROVE  MoveMoney(b, g, r, amount).purse[d]
             = b.purse[d] - (IF d = g THEN amount ELSE 0) + (IF d = r THEN amount ELSE 0)
<1>. DEFINE a == Adjust(b, g, -amount)
<1>1. b \in Bank /\ a \in Bank /\ b.purse[d] \in Int
  <2>1. b \in Bank /\ a \in Bank
    BY AdjustSound DEF Sound
  <2>. QED BY <2>1 DEF Bank
<1>2. a.purse[d] = b.purse[d] + IF d = g THEN -amount ELSE 0
  BY <1>1, AdjustPurse
<1>. HIDE DEF a
<1>3. Adjust(a, r, amount).purse[d] = a.purse[d] + IF d = r THEN amount ELSE 0
  BY <1>1, AdjustPurse
<1>4. MoveMoney(b, g, r, amount) = IF amount = 0 THEN b ELSE Adjust(a, r, amount)
  BY DEF MoveMoney, a
<1>. QED BY <1>1, <1>2, <1>3, <1>4
=============================================================================
