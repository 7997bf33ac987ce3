------------------------------- MODULE Income -------------------------------
(***************************************************************************)
(* Weekly income (evennia_economy/batch.py) and the script that schedules  *)
(* it (scripts.py), tick by tick: the queue is read from an Attribute,     *)
(* worked through in memory with one transaction per character, and        *)
(* written back at the end.  Meanwhile staff freeze the economy, pay a     *)
(* period by hand, and servers die.                                        *)
(***************************************************************************)
EXTENDS Periodic

CONSTANTS
    Weekly,                \* RP_ECONOMY_WEEKLY_AMOUNT
    Cap,                   \* money_cap, the same for all
    TaperNum, TaperDen,    \* RP_ECONOMY_TAPER_FRACTION
    Trades,                \* bound: what else changes a purse
    MaxPurse               \* bound: purses other services fill

ASSUME IncomeAssumption ==
    /\ Weekly \in Nat /\ Cap \in Nat /\ MaxPurse \in Nat
    /\ TaperDen \in Nat \ {0} /\ TaperNum \in 0..(TaperDen - 1)
    /\ Trades \subseteq Int

VARIABLES
    now,      \* the period most recently completed, -1 before the first
    frozen,   \* RP_ECONOMY_FROZEN
    purse,
    rows,     \* UBIPayment rows: which characters are paid for which period
    paid,     \* those of them whose UBIPayment.amount is positive
    ubi,      \* ledger rows of kind "ubi", counted by character and period
    store,    \* script.db.batch_state
    tick,     \* at_repeat, in memory
    owed,     \* history: claims ever written to the queue
    tries,    \* history: attempts that failed, up to MaxAttempts
    forsaken  \* history: claims given up, or dropped from a full queue

vars == <<now, frozen, purse, rows, paid, ubi, store, tick, owed, tries, forsaken>>
money == <<purse, rows, paid, ubi>>
history == <<owed, tries, forsaken>>

Tick == [pc : {"idle", "run", "pay"}, latest : Periods \cup {-1},
         queue : Seq(Entry), remaining : Seq(Entry),
         todo : SUBSET Characters, failed : SUBSET Characters]

NoTick == [pc |-> "idle", latest |-> -1, queue |-> <<>>, remaining |-> <<>>,
           todo |-> {}, failed |-> {}]

Least(m, n) == IF m < n THEN m ELSE n
Most(m, n) == IF m > n THEN m ELSE n
CeilDiv(m, n) == (m + n - 1) \div n

(* Mutant of IncomeAmount: no taper and no cap. *)
IncomeUntapered(held) == Weekly

(* income_amount: full below the taper's threshold, then in proportion. *)
IncomeAmount(held) ==
    LET room == Most(0, Cap - held)
        taper == Cap * (TaperDen - TaperNum)    \* (cap - threshold) * TaperDen
    IN  IF Cap = 0 THEN 0
        ELSE Least(room, Least(Weekly, CeilDiv(Weekly * room * TaperDen, taper)))

(* The payment itself: a UBIPayment row always, a ledger row (credit) only *)
(* of a positive amount.                                                   *)
Payment(c, p, amount) ==
    /\ rows' = rows \cup {<<c, p>>}
    /\ purse' = [purse EXCEPT ![c] = @ + amount]
    /\ IF amount > 0
       THEN /\ paid' = paid \cup {<<c, p>>}
            /\ ubi' = [ubi EXCEPT ![c][p] = @ + 1]
       ELSE UNCHANGED <<paid, ubi>>

(* Mutant of PayOnce: the period's row is not looked for. *)
PayAgain(c, p) == Payment(c, p, IncomeAmount(purse[c]))

(* One character's transaction in run_weekly_batch. *)
PayOnce(c, p) ==
    IF <<c, p>> \in rows THEN UNCHANGED money ELSE Payment(c, p, IncomeAmount(purse[c]))
-----------------------------------------------------------------------------

Init ==
    /\ now = -1
    /\ frozen = FALSE
    /\ purse = [c \in Characters |-> 0]
    /\ rows = {}
    /\ paid = {}
    /\ ubi = [c \in Characters |-> [p \in Periods |-> 0]]
    /\ store = NoState
    /\ tick = NoTick
    /\ owed = {}
    /\ tries = [c \in Characters |-> [p \in Periods |-> 0]]
    /\ forsaken = {}

Idle == tick.pc = "idle"
Head1 == tick.queue[1]

NewPeriod ==
    /\ now + 1 \in Periods
    /\ now' = now + 1
    /\ UNCHANGED <<frozen, money, store, tick, history>>

SetFrozen ==
    /\ frozen' = ~frozen
    /\ UNCHANGED <<now, money, store, tick, history>>

(* Any other service moves money. *)
Spend(c, amount) ==
    /\ ~frozen
    /\ purse[c] + amount \in 0..MaxPurse
    /\ purse' = [purse EXCEPT ![c] = @ + amount]
    /\ UNCHANGED <<now, frozen, rows, paid, ubi, store, tick, history>>

(* +economy/run: staff run a completed period for everyone, one by one. *)
PayByHand(c, p) ==
    /\ ~frozen
    /\ p <= now
    /\ PayOnce(c, p)
    /\ UNCHANGED <<now, frozen, store, tick, history>>

Persist(state) ==
    /\ store' = state
    /\ owed' = owed \cup Claims(state.pending)

(* A full queue drops its oldest periods. *)
Dropped(before, current) ==
    (Claims(before.pending) \cup Claims(Queued(before.pending, current)))
        \ Claims(Enqueue(before, current).pending)

(* A tick that finds the economy frozen only queues. *)
TickPaused ==
    /\ Idle /\ now # -1
    /\ frozen
    /\ Persist(Enqueue(store, now))
    /\ forsaken' = IF now = store.latest THEN forsaken ELSE forsaken \cup Dropped(store, now)
    /\ UNCHANGED <<now, frozen, money, tick, tries>>

TickStart ==
    /\ Idle /\ now # -1
    /\ ~frozen
    /\ Enqueue(store, now).pending # <<>>
    /\ tick' = [NoTick EXCEPT !.pc = "run", !.latest = now, !.queue = Enqueue(store, now).pending]
    /\ forsaken' = IF now = store.latest THEN forsaken ELSE forsaken \cup Dropped(store, now)
    /\ UNCHANGED <<now, frozen, money, store, owed, tries>>

NotDue ==
    /\ tick.pc = "run" /\ tick.queue # <<>> /\ ~Head1.due
    /\ tick' = [tick EXCEPT !.queue = Tail(@), !.remaining = Append(@, Head1)]
    /\ UNCHANGED <<now, frozen, money, store, history>>

RunPeriod ==
    /\ tick.pc = "run" /\ tick.queue # <<>> /\ Head1.due
    /\ ~frozen
    /\ tick' = [tick EXCEPT !.pc = "pay", !.todo = Head1.ids, !.failed = {}]
    /\ UNCHANGED <<now, frozen, money, store, history>>

(* run_weekly_batch finds the economy frozen: nobody is paid, none failed. *)
RunFrozen ==
    /\ tick.pc = "run" /\ tick.queue # <<>> /\ Head1.due
    /\ frozen
    /\ tick' = [tick EXCEPT !.queue = Tail(@)]
    /\ UNCHANGED <<now, frozen, money, store, history>>

Failed(who, p) ==
    tries' = [c \in Characters |->
                 [tries[c] EXCEPT ![p] = IF c \in who THEN Least(@ + 1, MaxAttempts) ELSE @]]

(* What advance() does with the entry once `failed` is known. *)
Settle(entry, ids) ==
    /\ tick' = [tick EXCEPT !.pc = "run", !.queue = Tail(@), !.remaining = @ \o Retry(entry, ids),
                            !.todo = {}, !.failed = {}]
    /\ forsaken' = forsaken \cup
          IF GivesUp(entry) THEN ids \X {entry.period} ELSE {}

(* run() raised as a whole: everyone is retried. *)
RunRaises ==
    /\ tick.pc = "run" /\ tick.queue # <<>> /\ Head1.due
    /\ Failed(Head1.ids, Head1.period)
    /\ Settle(Head1, Head1.ids)
    /\ UNCHANGED <<now, frozen, money, store, owed>>

Pay(c) ==
    /\ tick.pc = "pay" /\ c \in tick.todo
    /\ ~frozen
    /\ PayOnce(c, Head1.period)
    /\ tick' = [tick EXCEPT !.todo = @ \ {c}]
    /\ UNCHANGED <<now, frozen, store, history>>

(* The character's transaction raised: frozen since, or any other error. *)
PayRaises(c) ==
    /\ tick.pc = "pay" /\ c \in tick.todo
    /\ tick' = [tick EXCEPT !.todo = @ \ {c}, !.failed = @ \cup {c}]
    /\ Failed({c}, Head1.period)
    /\ UNCHANGED <<now, frozen, money, store, owed, forsaken>>

PeriodDone ==
    /\ tick.pc = "pay" /\ tick.todo = {}
    /\ Settle(Head1, tick.failed)
    /\ UNCHANGED <<now, frozen, money, store, owed, tries>>

(* Mutant of Written: what is left to retry is not saved. *)
WrittenEmpty == [latest |-> tick.latest, pending |-> <<>>]

Written == [latest |-> tick.latest, pending |-> tick.remaining]

TickEnd ==
    /\ tick.pc = "run" /\ tick.queue = <<>>
    /\ Persist(Written)
    /\ tick' = NoTick
    /\ UNCHANGED <<now, frozen, money, tries, forsaken>>

(* Backoffs elapse, between two ticks: advance() reads the clock once. *)
Wait ==
    /\ Idle
    /\ \E k \in DOMAIN store.pending : ~store.pending[k].due
    /\ store' = [store EXCEPT !.pending = [k \in DOMAIN @ |-> [@[k] EXCEPT !.due = TRUE]]]
    /\ UNCHANGED <<now, frozen, money, tick, history>>

(* The server dies: what the tick held is lost, what it committed is not. *)
Crash ==
    /\ ~Idle
    /\ tick' = NoTick
    /\ UNCHANGED <<now, frozen, money, store, history>>

Script ==
    \/ TickPaused \/ TickStart \/ NotDue \/ RunPeriod \/ RunRaises
    \/ PeriodDone \/ TickEnd
    \/ \E c \in Characters : Pay(c) \/ PayRaises(c)

World ==
    \/ NewPeriod
    \/ Wait
    \/ \E c \in Characters : (\E p \in Periods : PayByHand(c, p)) \/ \E d \in Trades : Spend(c, d)

(* Staff freeze between ticks: the reactor runs one thing at a time, and   *)
(* a tick that began unfrozen (HandSound) never meets RunFrozen.           *)
Next == Script \/ World \/ (Idle /\ SetFrozen) \/ Crash

Spec == Init /\ [][Next]_vars

(* The freeze is set from another thread or process, at any time. *)
ThreadsNext == Script \/ RunFrozen \/ World \/ SetFrozen \/ Crash

ThreadsSpec == Init /\ [][ThreadsNext]_vars
-----------------------------------------------------------------------------
(* Properties.                                                             *)

TypeOK ==
    /\ now \in Periods \cup {-1}
    /\ frozen \in BOOLEAN
    /\ purse \in [Characters -> Nat]
    /\ rows \subseteq Characters \X Periods
    /\ paid \subseteq rows
    /\ ubi \in [Characters -> [Periods -> Nat]]
    /\ store \in State
    /\ tick \in Tick
    /\ owed \subseteq Characters \X Periods
    /\ tries \in [Characters -> [Periods -> 0..MaxAttempts]]
    /\ forsaken \subseteq Characters \X Periods

(* "Batches are idempotent": through retries, crashes in mid-batch and     *)
(* reruns by hand, no character has two ledger rows of income for one      *)
(* period.  There is just one for each UBIPayment of a positive amount,    *)
(* and none for a UBIPayment of 0, written for a purse found at its cap.   *)
PaidOnce ==
    \A c \in Characters, p \in Periods :
        ubi[c][p] = IF <<c, p>> \in paid THEN 1 ELSE 0

(* "Periods that complete while frozen queue up and are paid": whatever    *)
(* was once written to the queue is paid, still in it, or was given up.    *)
NoneForgotten == owed \subseteq rows \cup Claims(store.pending) \cup forsaken

(* Nobody is given up before MaxAttempts attempts have failed for them,    *)
(* unless MaxPending newer periods have crowded the period out.            *)
GivenUpLate ==
    \A c \in Characters, p \in Periods :
        <<c, p>> \in forsaken => tries[c][p] >= MaxAttempts \/ p + MaxPending <= now

(* The queue stays in order, oldest first, each period once, within bound. *)
QueueInOrder ==
    /\ Len(store.pending) <= MaxPending
    /\ \A j, k \in DOMAIN store.pending :
          j < k => store.pending[j].period < store.pending[k].period

(* The strengthening from which the invariants above are proved.           *)

(* Periods in a queue are at least as far apart as their places.           *)
Spaced(queue) ==
    \A j, k \in 1..Len(queue) : j < k => queue[j].period + (k - j) <= queue[k].period

(* The same between two queues, of which one follows the other.            *)
Before(early, late) ==
    \A j \in 1..Len(early), k \in 1..Len(late) :
        early[j].period + (Len(early) - j) + k <= late[k].period

UpTo(queue, last) == \A k \in 1..Len(queue) : queue[k].period <= last

(* An entry's attempts have failed for everyone it is still for.           *)
Tried(queue, failures) ==
    \A k \in 1..Len(queue) : \A c \in queue[k].ids : failures[c][queue[k].period] >= queue[k].attempt

QueueSound ==
    /\ Len(store.pending) <= MaxPending
    /\ Spaced(store.pending)
    /\ Tried(store.pending, tries)
    /\ UpTo(store.pending, store.latest)
    /\ store.latest <= now

(* The retries so far all come before what the tick has still to run.      *)
TickSound ==
    /\ Len(tick.remaining) + Len(tick.queue) <= MaxPending
    /\ Spaced(tick.remaining) /\ Spaced(tick.queue)
    /\ Before(tick.remaining, tick.queue)
    /\ Tried(tick.remaining, tries) /\ Tried(tick.queue, tries)
    /\ UpTo(tick.remaining, tick.latest) /\ UpTo(tick.queue, tick.latest)
    /\ tick.latest <= now
    /\ tick.pc = "pay" =>
          /\ tick.queue # <<>>
          /\ tick.todo \cup tick.failed \subseteq Head1.ids
          /\ \A c \in tick.failed : tries[c][Head1.period] > Head1.attempt

(* Whom the tick in memory still has to pay or to retry.                   *)
InHand ==
    Claims(tick.remaining) \cup
    IF tick.pc = "pay"
    THEN Claims(Tail(tick.queue)) \cup ((tick.todo \cup tick.failed) \X {Head1.period})
    ELSE Claims(tick.queue)

HandSound ==
    ~Idle => ~frozen /\ Claims(store.pending) \subseteq rows \cup InHand \cup forsaken

(* What holds whatever thread sets the freeze, and what holds besides when *)
(* none does in mid-tick.                                                  *)
ThreadsInv == TypeOK /\ PaidOnce /\ QueueSound /\ TickSound /\ GivenUpLate
Inv == ThreadsInv /\ HandSound /\ NoneForgotten

(* Income never lifts a purse above the cap, however much was earned since *)
(* the tick began, and leaves one above it alone.                          *)
IncomeWithinCap ==
    [][\A c \in Characters :
         rows' # rows => purse'[c] <= Most(purse[c], Cap) /\ purse'[c] >= purse[c]]_vars

(* The script ticks every minute and works each tick off; between ticks,   *)
(* again and again, backoffs elapse.                                       *)
FairSpec == Spec /\ WF_vars(Script) /\ SF_vars(Wait)

(* Once the economy stays unfrozen and the server up, all that was queued  *)
(* is paid or given up: no claim waits for ever.                           *)
QueueDrains ==
    <>[]~frozen /\ <>[][~Crash]_vars => []<>(owed \subseteq rows \cup forsaken)
=============================================================================
