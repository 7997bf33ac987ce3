# Verification of evennia-contribs-staging

TLA+ models, TLC checks and TLAPS proofs for the packages under `src/contribs/`,
a family of contribs for Evennia (a Twisted/Django MUD server). One part of the
family holds what players cannot get back if it goes wrong, and has several
actors meeting in orders nobody scripted: the **economy**. It is the core of the
project. Two more parts are modelled for their protocols: the queued reactions
of **combat**, where one answer sets off a cascade of others, and the seats of
the **calendar**, which a script and players give out without transactions.
Paths below are relative to `src/contribs/`.

## 1. The system

### The economy (`game_systems/evennia_economy`)

| Part | State | Operations |
| --- | --- | --- |
| Purses and ledger (`services.py`, `models.py`, `reports.py`) | `Purse.balance`, `LedgerEntry` rows | `credit`, `debit`, `charge_fee`, `journal`, `on_purse_deleted`, `reconciliation` |
| Freeze (`conf.py`, links `runtime.py`) | `RP_ECONOMY_FROZEN` | `+economy/freeze`; read by `require_open` and the batch script |
| Exchanges (`exchange.py`, `assets.py`) | `Offer` rows | `create_offer`, `accept_offer`, `give`, `cancel_offer`, `expire_offers`, `on_location_saved` |
| Stalls (`stalls.py`) | `Storefront`, `Listing`, `DroppedItem` rows, stock containers | `claim`, `edit`, `list_stock`, `buy`, `unlist`, `close`, `recover`, `note_login`, `run_upkeep` |
| Shops (`shops.py`) | `Storefront` rows on properties | `create_for_property`, `on_promoted`, `reconcile`, `on_transferring`, `reopen` |
| Movement guards (`movement.py`) | none | `before_location_save`, `after_location_save`, `guard_stock_deletion` |
| Income (`batch.py`, `scripts.py`) | `UBIPayment`, `StipendPayment`, the script's queue | `run_weekly_batch`, `run_due_period`, `run_stipends`, `EconomyBatchScript.at_repeat` |
| Review (`review.py`) | `ReviewFlag` rows | `flag_quiet_stalls`, `flag_round_trips` |
| System seller (`seller.py`) | none | `sell` |

The parts share the purses, the freeze, and the database: every service is one
Django transaction that locks the character rows it touches. They call each
other directly (an acceptance charges a fee and journals both legs) and through
signals of Evennia and Django: a saved location expires offers and guards
stock, a deleted purse journals its balance, a property's promotion or transfer
opens or closes a shop. The income script takes its schedule from links'
`periodic.advance`, which `rp_resources` and `xp` use too.

What is hard here:

- Several threads run transactions: the Twisted reactor runs commands and
  scripts, and Evennia's web server runs requests in a thread pool of the same
  process. Many services read a row **before** they lock it, and read it again.
- Nothing is reserved by an offer, while everything is by a listing.
- A location is saved in its own transaction; what follows from it (offers
  expiring, stock found elsewhere) runs afterwards, in `post_save`.
- Weekly income must be paid once per character and period through failures,
  freezes, restarts and gaps, and must give up rather than block the queue.
- Roster changes, deletions and property transfers change who owns what under
  a service's feet.

### Combat (`rpg/evennia_rp_combat`)

| Part | State | Operations |
| --- | --- | --- |
| Engine (`engine.py`, `arithmetic.py`) | a fight's `state`: a row per participant (Vitality, turns and actions left, incoming queue, outgoing exchange), the open exchanges | `declaration`, `reaction`, `cancel`, `settle`, `resolve_exchange`, `press`, `support_exchange`, `redirect`, `retract`, `pass_action`, `fade` |
| Services (`services.py`) | `Fight` and `JournalEntry` rows, each sheet's `build_lock` | `execute`, `join`, `control`, `storyteller`, `end_fight`, `shelve`, `unshelve`, `rollback` |
| Maintenance (`maintenance.py`) | marks on the rows of those absent | `maintain`, by the script |

Every operation is one transaction on the locked fight, so nothing interleaves
inside one. What is hard is how far one reaches: an answer completes an exchange
of several targets, which may fell somebody, which voids (`settle`) the packets
that one had not answered, which completes other exchanges. Operations take
packets by name, and a rollback brings back states in which the names mean
something else. `evennia_rp_party` adds covers, bosses and synergies on top.

### Calendar (`game_systems/evennia_calendar`)

| Part | State | Operations |
| --- | --- | --- |
| RSVPs (`models.py`, `commands.py`, `views.py`) | `RSVP` rows with a status and a place in the waitlist | `+rsvp`, `/cancel`, `/confirm`, `/invite`, `/ping`, the web form's invitation |
| Lotteries (`scheduler.py`) | `lottery_drawn_at`, `PriorityToken` rows | `run_lottery`, `expire_unconfirmed`, `issue_post_event_tokens`, `+rsvp/redeem` |
| Clusters (`commands.py`, `scheduler.py`) | `ClusterRSVP` tickets with ranked choices | `+cluster/rank`, `/withdraw`, `run_cluster_lottery`, and the expiry's backfill |

Here nothing is a transaction: each save commits by itself, and the sweep catches
what an event raises and goes on to the next. So what is hard is a draw, an
expiry or a cancellation that stops half way, and sweeps that come late. A cluster adds
that one player's ticket and their rows in several events have to agree.

### Shared infrastructure (`base_systems/evennia_links`)

`periodic.advance` (the catch-up queue), `runtime` (controls staff change at
run time), `characters.same_account`, `transactions.atomic_objects` (restores
in-memory objects when a transaction rolls back), and read-only helpers.

### The rest of the family

`rp_resources` keeps a second ledger, gathering leans and plot payouts; `xp` an
award ledger and a weekly batch; `rp_crafting` workshops, proposals and item
modifiers; `moderation` bans, mutes and guest admissions with caps; `jobs` tickets; `building` reviewed properties,
their transfer and the frontier; `rp_party` layers over combat. `rp_rules`, `rp_contest`, `rp_chargen` and
`rp_equipment` are resolution and sheets. `boards`, `lore`, `maps`, `plots`,
`regions`, `scenes`, `npcs`, `posing`, `rptracker`, `social`, `accessibility`
and `guides` are content, presentation and tracking. Every one of them is
listed in `PROJECT.json` with the reason it is modelled or not.


## 2. The modules

| Module | Models | Uses |
| --- | --- | --- |
| `Economy` | `services.py`: purses, the ledger's totals, fees, the freeze; and what every service reads: who is alive, where, on which accounts, and who carries what | |
| `Exchange` | `exchange.py`, `assets.py`: offers, gifts, acceptance, expiry, deletion | `Economy` |
| `Stalls` | `stalls.py`, `shops.py`, `movement.py`: storefronts, listings, the guard on stock | `Economy`, `Escrow` |
| `Escrow` | what a storefront promises of an item, containers left out | |
| `Periodic` | links' `periodic.py`: the queue a batch script keeps | |
| `Income` | `batch.py`, `scripts.py`: the weekly batch, tick by tick | `Periodic` |
| `Combat` | `rp_combat`: one fight, its queues, cascades, maintenance, shelving and rollback | |
| `Calendar` | `calendar`: RSVPs, waitlists, lotteries, ranked draws of clusters, and tokens, of capped events | |
| `SumProofs` | lemmas about sums over finite sets | `Economy`'s folds |
| `EconomyProofs`, `ExchangeProofs`, `StallsProofs`, `IncomeProofs`, `CalendarProofs`, `CombatProofs` | lemmas and theorems | the module named |
| `CalendarStepProofs` | what a step of `Calendar` may never do | `CalendarProofs` |
| `MCExchange`, `MCStalls`, `MCIncome`, `MCCombat`, `MCCalendar` | small instances for TLC | the module named |

### How state and steps correspond to the code

**A transaction is one step.** Every service of the economy runs in `atomic_objects`, locks the
characters and rows it touches in a fixed order, and only then reads what it
decides by; if anything raises, database and in-memory objects are restored.
So an action's conjuncts are the checks of the transaction, and an action that
is not enabled is a transaction that raised. What a handler does *before* its
transaction is a step of its own, with what it has read kept in a variable:
`Exchange!reading` (`accept_offer` reads the offer), `Stalls!buying` (`buy`
reads the listing and its store's owner), `Exchange!moving` (a saved location
whose `post_save` is still to run), `Exchange!collected` (what Django's deletion
collector has read), `Stalls!saving` (a move that has passed `pre_save` but has
not been written), `Income!tick` (the locals of `periodic.advance`).

**Who interleaves.** Commands and scripts share the reactor thread; web
requests run in a thread pool, and `runtime.py` allows for several server
processes. `Spec` is the system in which only the steps above interleave. Each
module has a second specification for what more threads or processes add:
`Exchange!ConcurrentSpec` (deletion split in two, and a process may die at any
point), `Stalls!ConcurrentSpec` (the movement guard's read apart from its
write), `Income!ThreadsSpec` (a freeze set in mid-tick).

**Data.** `bank` is one record: a purse per character and, of the ledger, the sums
`reports.reconciliation` takes. An UPDATE that matches no row adds to `missed`,
and only a bank without misses is committed, as `_adjust` raises. An offer's
side is an amount and a set of items. A resource counter on sale is a `Lot`; its
ledger is `rp_resources`' own and not modelled yet, so lots are only counted.
Periods are numbers. A backoff is a flag, `due`, that time sets between ticks.
Labels, names, descriptions, messages and hooks are left out: no property is
about them.

Variables called "history" (`left`, `owed`, `tries`, `forsaken`, and
`Calendar!crashes`) are read by properties and never by a guard, except where they
bound what the environment does.

### Income, in more detail

A tick (`at_repeat`) reads the queue from an Attribute, adds the period just over,
works through the entries that are due with one transaction per character, and
writes the queue back at the end. `TickStart` takes the queue; `NotDue`, `RunPeriod`,
`RunFrozen`, `RunRaises` look at its head; `Pay` and `PayRaises` take a character each;
`PeriodDone` retries those who failed or gives them up; `TickEnd` writes the queue.
`TickPaused` is the tick that finds the economy frozen. The code makes three
reads of the freeze at different times: `paused` in `at_repeat`, once more at the
top of `run_weekly_batch`, and in each character's transaction.
`RunFrozen`, the second of them, belongs to `ThreadsSpec` alone: when freezes come only
between ticks, as under `Spec`, a tick that began unfrozen stays so (`HandSound`).

`rows` are the `UBIPayment` rows, written before the purse in the same transaction;
their uniqueness is what makes a rerun harmless. `paid` is those of a positive amount, and
`ubi` counts ledger rows, which are written for a positive amount only: a purse at its cap is
paid 0, has a `UBIPayment` and no ledger row (`Payment`). `PaidOnce` compares the two: one ledger row
where `paid` has the payment, none elsewhere. In the run others fill purses to the cap, so both happen.

### Combat, in more detail

The engine's functions change a Python dict in place; in `Combat` each is an
operator from a state to the state it leaves, applied in the order of the code's calls:
`Canceled` completes an exchange through `Completed`, which resolves it through
`Resolved`. There the code calls `settle`, which cancels, which may resolve, and so on until nobody at 0
Vitality holds a packet they had not answered. These calls come last wherever they are nested,
so in the model `Settled` is one loop, of one voided packet a round (`Voided`), applied once
the first cancel or answer has done its own part. An action is a command: its guards, one
such operator, and `Done`, which is what `execute` does after the call (markers,
the journal's entry, the fight's end once turns are exhausted).

What a build, a roll or a condition decides of a packet is `luck`: whether its
reaction succeeds and whether it wounds, chosen by `\E` for all packets that may
resolve in the step; an evaded packet that succeeds wounds nobody, as in
`arithmetic.py`. `luck` also says which of those whose exchange the step may finish are harmed by
Poison, which at the end of an own act may fell the actor (engine.py:1573); an act that
finishes in its own command (a pass, a revival, a Burst that stops) chooses that from `Losses`. Whether somebody
is poisoned is not kept: the condition comes and goes with moves' effects, so each act of one of
`Poisoned` may end with the loss or without it. A packet is named by its exchange, which carries the epoch that rollback
raises, and by the hit of a Burst. Covers stand for `evennia_rp_party`'s, the only
caller of `redirect`. Requests and votes are modelled as accepted: what they change
is there, the waiting for consent is not.

### Calendar, in more detail

`rows` keeps an event's RSVPs in the order of `created_at`, the order in which querysets of the
sweep go through them; `tickets` keeps a cluster's applications likewise, `wishes` being
the events ranked. What a sweep does to an event or a cluster is computed from what it
reads at its start and written down as a *sequence of saves*: `Lotteries` (one sequence for
each outcome of the draw), `ClusterDraw` (for each order of the shuffle), `Expiry`,
`PostEventTokens`. `Trail` is the states that saves lead through, up to the first that the
table's unique constraint refuses. `Sweep` and `SweepCluster` go to the last of them
(`Whole`), their interrupted twins to any of them (`Partly`); a cluster's draw that
is refused a row is among the latter, because that is what the sweep's `except` leaves behind.

`Assigned` is steps 1 and 2 of `run_cluster_lottery`, which write no rows: they take
one ticket after the other, those with a token first, and count down the seats, starting
from `seats_remaining`, which looks at who is confirmed and not at who is selected. The interrupted actions
count themselves in `crashes`, so the properties can say what an
interruption may cost and that nothing else does. `phase` moves with time: before
the draw, from 72 hours before, from 48, past, and more than a day past. `Time` is not
tied to the sweep, so a sweep may find the draw and the expiry due together. The events of
a cluster move together, as they have the same `scheduled_time`.

Two actions stand for more than one piece of code or more than one save. `Rank` is `_rank` and the web form
that does the same (views.py:302-309 after forms.py:109-125): it makes the same checks and the same saves, in
a web thread, and the interrupted `RankInterrupted` is the twin of both. `Redeem` is two saves, or three if the player's row
was released: first the token's earmark, then the row. No draw reads the earmark, so the player is
entered or not, and an interruption between the saves is, for all that is modelled, a redemption that has
not happened.

## 3. The runs

| Run | Shows | Bounds |
| --- | --- | --- |
| `exchange` | `Inv`, `BooksAgree`, `Reconciled`, `OpenOffersTogether`, `NoneAcceptedAfterLeaving`, `NoSelfDealing` | two characters, two rooms, one item, one offer, accounts apart or shared; 1.1 million states |
| `contention` | `SettlesInFull`, `ItemsPassByConsent`, `AnsweredOnce`, `OffersEnd` | two offers or gifts over one room, one item and purses of at most 3; a cap of one open offer |
| `stalls` | `StockBacked`, `StaffCanClose`, `ListingEndsOnce`, `LotsConserved`, `ImplementsEscrow` | one storefront, two listings, an item and a lot, two rooms |
| `shops` | `Inv`, `SlotsDistinct`, `ShopFollowsProperty`, `SaleSettles`, `NoSelfDealing` | two storefronts in one market room, one property, one listing, two periods |
| `income` | `Inv`, `PaidOnce`, `NoneForgotten`, `QueueInOrder`, `GivenUpLate`, `IncomeWithinCap`, `QueueDrains` | two characters, two periods, a queue of two, two attempts; purses that others fill; crashes; 1.7 million states |
| `combat` | `TypeOK`, `QueuesAgree`, `NoneCornered`, `CommitmentsStand`, `TokensFresh`, `LossStands`, `ExchangesEnd` | one fighter with two actions a turn against two, one turn each, one of the two may be poisoned, two exchanges an epoch, Bursts of two hits, one rollback; 263,882 states |
| `calendar` | `Inv`, `LotteryWithinCap`, `NoneWaitsByAFreeSeat`, `OneSeatPerCluster`, `TokensBuySeats`, `NoBetterSeatFree` | two lotteries of two characters, one of three, one capped event of three, or a cluster of two events, three characters in one of them and one who may rank both and has a token; one seat each, two tokens, one interruption; 1,303,748 states |

The interesting cases all happen in these bounds: two characters are the two
sides of everything, and a shared account needs no third; one item is enough to
be sold, listed, taken and conveyed by turns, and two listings to have one
returnable while the other is not; two offers compete for a purse, and two
storefronts for a slot; with two periods one is retried behind another, and with
two attempts it is given up. (A queue of two is not crowded out by two periods: of
`GivenUpLate` the run shows the attempts, the proof the rest.) `MaxBalance` is 3 instead
of 2^63-1 so that both ends of the range are met. `MintLimit`, `Amounts`, `Sides`, `Prices`,
`Rosters`, `Goods`, `LastPeriod` and `Trades` only bound what the environment does.

Combat: with one against two, an exchange of both waits for two answers, one may answer
while the other cancels, is covered, revived or gone; the one with two actions a turn can
have a Burst open on one side while the other attacks. `MaxHp` is 1, so that any wound
downs and any heal revives: the depth of the cascades does not depend on how many
wounds it takes. `Gone` (who a sweep may find gone together) and `Restless` (who leaves and
comes back by choice) keep the sweeps and departures to those that differ by more than
a name; `MaxEpoch`, `Depth` and `Retained` allow one rollback, over one exchange, to the
last state; `MaxExchange` is the exchanges declared in an epoch, and `MaxExposure`
bounds what repeated returns add up. `Poisoned` is one of the two: of those who
are felled by their own act one is enough, and the other shows the same cascade without. The findings need other instances: two against
two for `combat_shelving`, a character who may be in another fight for `combat_rollback`.

Calendar: the cap is 1, so that every second entrant competes; two lotteries share
tokens issued by the first; three characters wait in line for a seat; in the cluster one may
lose their first choice to another, be seated by rank or by backfill in either event, and
enter one of them by a token. `Schedules` is the four calendars, one of which is what a
behaviour has; `Interest` who takes part in what, `Veterans` who has tokens from earlier
events. `MaxTokens` bounds the tokens issued, `MaxCrashes` the interruptions, refused draws
included.

For larger instances, the theorems of section 5 speak for all five. For `Combat` that matters
most: in the run an answer can set off a cascade of one or two more, in the theorems a cascade
of any depth.

`OneSeatPerCluster` is stated for clusters all of whose events staff host: elsewhere a
host may invite somebody who is seated in another event of the cluster.

`StockBacked` deserves a note: a storefront's container holds exactly its stock on
sale. That is what `_return` relies on when it recalls stock, `buy` when it delivers,
and `on_transferring` when it conveys; and `Escrow` is what a player sees of it.

### Fairness

- `OffersEnd` assumes that time passes for each offer (`WF` on `Lapse`) and that
  the script's sweep runs again (`WF` on `ExpireOffers`): it repeats every minute.
- `QueueDrains` assumes that a tick goes on (`WF` on `Script`: it is a plain loop,
  which ends) and that backoffs elapse between two ticks (`SF` on `Wait`, which
  is not enabled in mid-tick). That the economy stays unfrozen and the server
  stops crashing is a premise of the property and not assumed of the system: a
  server that dies in every tick settles nothing.
- `ExchangesEnd` assumes that nobody leaves others waiting for ever: who owes
  answers, or has a Burst open, gives one in the end or is found gone by
  maintenance. The commands that do so are always there (`CancelIncoming`, `Stop`;
  `Maintain` for the idle), so this is weak fairness of responding; it is stated
  over the state a response changes (`Owed`), one formula per fighter, because the
  response is a different action each time. Nothing is assumed of the actor whose
  exchange it is. With the four fighters of `combat_shelving` maintenance can fail
  as `CanShelve` shows; `ExchangesEnd` then rests on the players' answers alone.

### Where the code does other than it says

| Run | Finding |
| --- | --- |
| `deletion_race` | `on_purse_deleted` journals the balance of the instance it is given, which Django read before. What is credited between that read and the deletion goes with the purse and is never burned (the trace the run finds: credit 1, read, credit 1, delete); what is debited in between has been paid out and is burned all the same. |
| `guard_race` | `before_location_save` looks in `pre_save`, without a lock, whether an item is listed. A move that was checked before the listing and written after takes listed stock out of its stall; then `buy`, `unlist` and `close` all fail on it. |
| `freeze_race` | A freeze set between `at_repeat`'s read and `run_weekly_batch`'s makes the batch return with nobody paid and nobody failed; `advance` takes the period as done, and it is lost for everyone. |
| `combat_shelving` | `release_pending` walks a copy of a participant's queue. Cancelling one packet may resolve an exchange, fell somebody and so resolve another whose packet is later in the copy; `get_exchange` then raises, and `shelve`, or maintenance, fails each time it meets that state. |
| `combat_rollback` | A rollback makes a character active again who has since joined another fight: `active_elsewhere` is not asked, and they are active in both. |

The first three need a second thread or process. The first two only need one web
request beside the game, for instance a deletion or a move from Evennia's admin;
the third, staff changing the control from outside the reactor. The combat two
need nothing but commands in the right order.

Others were met and are not run. In the calendar (paths in `evennia_calendar`):

- `issue_post_event_tokens` (scheduler.py:481) gives everyone still in the pool a new token at
  every sweep for a day, where scheduler.py:6-7 and :467 say that running it again does nothing.
- A draw that is made within 48 hours of its event is followed, in the same sweep, by the
  expiry of those it has just selected, whose tokens are spent; README.md:129 says
  they have 24 hours to confirm. Whoever is backfilled is released by the next sweep.
- An interrupted draw starts over without counting those it had seated
  (`LotteryWithinCap` says how far that goes).
- The cap of an event with invitations is not a bound on who is confirmed: the invited take no seat until
  they confirm, `_confirm` does not look at the cap, nor does the web form.
- Who cancelled cannot RSVP again: `_rsvp` lets them pass, and creating a second row
  for the same event and character violates the table's constraint.
- `expire_unconfirmed` never promotes from a waitlist, though `promote_waitlist`'s docstring
  says it does. No seat goes to waste by it: the invited never held one.
- The event a token is earmarked for (`+rsvp/redeem`) is not looked at by any draw.
- `_token_use` (commands.py:1256) does not ask whether the event is of a cluster, and enters the
  holder there. If the cluster's draw seats them in that event, the second row is refused,
  the draw ends (scheduler.py:573 logs it) with some already seated and none of the events marked
  as drawn, and each later sweep draws again among those still pending, with as many seats
  as at first. So an event may get more players than its cap, where README.md:139 says "each
  player is seated in their highest-ranked event with remaining capacity". A draw
  interrupted between a row and its ticket's mark may do the same, and may seat one
  player in two events.
- The backfill of a cluster's event takes the unseated in the order of their tickets, in
  whichever event has room (scheduler.py:432), also one they left out of their ranking, by
  which they said "I would rather be unseated than attend this one" (models.py:476).
- A `CLUSTER_RANK1` token is redeemed only in a later draw of the cluster it came from
  (scheduler.py:223), and a cluster draws once: unless a draw was interrupted, none ever is,
  though README.md:161 says that the draw redeems them.

In the economy: `on_location_saved` runs after the location has
committed, so a process that dies in between leaves an offer open whose party
has left. If they come back, `accept_offer` accepts it, comparing rooms and not
visits, where the package's README (61-62) says that leaving expires an offer,
"including leave-and-return teleports".

## 4. What the properties are for

`PROJECT.json` lists the hazards, each with its line and its properties. In short:

- *Money.* `BooksAgree`: each purse is the sum of its ledger rows. `Reconciled`: minted
  less burned is what purses hold, deletions included. `SettlesInFull` and
  `SaleSettles`: an acceptance or a sale moves exactly its terms. `PaidOnce`,
  `IncomeWithinCap`: income comes once, and stops at the cap.
- *Custody.* `ItemsPassByConsent`: no item changes hands but by an offer of the one
  who carried it, accepted by the other. `StockBacked`, `ListingEndsOnce`, `LotsConserved`,
  `StaffCanClose`, `ImplementsEscrow`.
- *Who may.* `NoSelfDealing` under roster changes, `ShopFollowsProperty`,
  `OpenOffersTogether`, `NoneAcceptedAfterLeaving`.
- *Rounds.* `QueuesAgree`: queues and exchanges say the same after any cascade. `NoneCornered`: nobody
  down is left to answer. `CommitmentsStand`: an accepted reaction is resolved or waits, whatever others
  do. `TokensFresh`: no name of a packet is used twice. `LossStands`: losses are not erased by
  leaving and returning. `ExchangesEnd`.
- *Seats.* `LotteryWithinCap`, `NoneWaitsByAFreeSeat`, `OneSeatPerCluster`, `TokensBuySeats`, each with what an
  interruption may cost and no more. `NoBetterSeatFree`: a ranked draw passes nobody over for
  an event that ends with a free seat.
- *Bounds and time.* `SlotsDistinct`,
  `QueueInOrder`, `GivenUpLate`, `NoneForgotten`, `OffersEnd`, `QueueDrains`.

## 5. What is proved

For every value of the constants that satisfies `PeriodicAssumption`, `EconomyAssumption`,
`ExchangeAssumption`, `StallsAssumption`, `IncomeAssumption`, `CalendarAssumption` and
`CombatAssumption`. They say
of which type each constant is, that characters, stores, listings, events and applicants are
finitely many, that a cap is positive, that no event is in two clusters (a cluster is a
foreign key of `CalendarEvent`), and that `Order`, in which participants joined a fight, names
each of them once. All invariants below follow from one inductive
invariant per module, called `Inv`, which a run checks too (the one of `Combat`, which needs a
state of the fight as a parameter, is in `CombatProofs`; the run checks the three invariants
that follow from it).

**`EconomyProofs`** (lemmas). A bank inside a transaction is `Sound`, and `Drift(b, c)` is how
far c's purse is from its ledger rows. Each operator of `services.py` keeps the one
and changes the other by a known amount, so a transaction of any shape does.

**`SumProofs`** (lemmas). The community modules sum over a set by a recursive function of
sets. That such a function exists, and what its value becomes when one summand is changed,
removed or added, is shown without an induction principle: among the subsets of a finite set
for which a fact fails there would be a minimal one (`MinimalSubset`, from the
well-foundedness of strict inclusion).

**`ExchangeProofs`**: `Spec => []Inv`, and from it

- `TypeOK` (in particular no purse below zero or above `MaxBalance`), `BooksAgree`,
  `OpenOffersTogether` and `NoneAcceptedAfterLeaving`. `TypeOK` is not inductive alone: settling
  an offer is only sound if its parties are characters (`MadeByCharacters`) and whoever has read
  it is its recipient (`ReadByRecipient`). `NoneAcceptedAfterLeaving` is about history; it
  follows from `LeftIsDoomed`: an open offer that was left has a party whose move's signal is
  still pending, and who is in another room (`MovingIsThere`), so that `Accept`, which
  compares rooms, refuses.
- `Reconciled`: `Gap(bank)`, minted less burned less the sum of purses, is the same after
  every step as before it; a swap moves it by nothing, and a deletion burns what it removes.
- the action properties `SettlesInFull`, `ItemsPassByConsent`, `AnsweredOnce` and `NoSelfDealing`.
  Steps that settle nothing are dealt with once (`QuietStep`); the rest are `Accept` and `Give`,
  whose purses are computed through all of the postings of a transaction (`SettlePurse`).

**`StallsProofs`**: `Spec => []Inv`, the conjunction of `TypeOK`, `BooksAgree`, `SlotsDistinct`,
`ShopFollowsProperty` and

- `StoresSound` and `EstateSound`: an open storefront has an owner who is not deleted, and a shop is
  the only one of its property, which was promoted; without them a transfer could leave a
  second shop with the owner before;
- `StockReserved`: what is on sale has a price and an open storefront, an item is on sale once, in its
  storefront's container, and nothing else is in containers. From it comes `StockBacked`;
- `ReadsMade`: whoever is between `buy`'s two reads is not deleted and has read a listing that was made.

From it `StockBacked`, `SlotsDistinct`, `ShopFollowsProperty`; the action properties
`ListingEndsOnce`, `SaleSettles`, `NoSelfDealing`; and `LotsConserved`, by what each step adds to
counters and takes off sale. `EscrowImplemented` is the refinement: every step of `Stalls` is,
for the storefronts and carriers that `Escrow` sees, one of its steps or none
(`HandleStep`, `ReserveStep`, `ReleaseStep`, `SellStep`, `ConveyStep`). All of it is about `Spec`:
`guard_race` shows that `StockBacked` fails under `ConcurrentSpec`.

**`IncomeProofs`**: `Spec => []Inv` and `ThreadsSpec => []ThreadsInv`, and from them `PaidOnce`,
`GivenUpLate`, `QueueInOrder` (whenever the freeze is set), `NoneForgotten` (if it is
set between ticks; `freeze_race` shows why) and the action property `IncomeWithinCap`.
The argument needs three things that are not in the properties:

- `Spaced` and `Before`: queue entries are at least as many periods apart as places,
  within the retries, within what is left to run, and between the two. It is
  what makes the entry dropped from a full queue at least `MaxPending` periods old.
- `Tried`: an entry's attempts have failed for everyone it is still for. Whoever is
  given up with the entry has therefore had `MaxAttempts`.
- `HandSound`: during a tick every claim of the stored queue is paid, given up, or in
  the tick's hands (`InHand`), so writing the queue back over it loses nothing. This
  is where a freeze in mid-tick breaks it.

`IncomeWithinCap` rests on `AmountBounds`, integer arithmetic on the rounded-up
taper.

**`CalendarProofs`**: `Spec => []Inv`, and from it `TypeOK`, `NoneWaitsByAFreeSeat`,
`LotteryWithinCap` and `OneSeatPerCluster`. The last two are not inductive: that an event is
within its cap after a draw says nothing of the draw if seats could have been given before it.

- `SeatsGiven` says that an event which has not drawn has given out seats by interrupted
  draws only, and one that has, by those and its one draw.
- `SeatsMarked` says that somebody seated in an event of a cluster either has a ticket marked
  "seated" or was seated by an interruption; the backfill goes by the marks.
- `Together`: the events of a cluster are equally near; `Time`, which moves all of
  them by the nearness of one, relies on it to keep `phase` in its range.

How the proof goes. A sweep is described by how far it got and not by its recursion: `Climb` (what
holds at 0 and climbs by one holds up to n) shows that `Trail`, `FlattenSeq` and `Assigned` have
the values their recursions say. `Grown(b)` is what any saves leave of a database b: rows only
added, their characters kept, statuses only moved on. `Reached(b, saves, n)` says of a state after
n saves that each of these has been made (`Made`) and that nothing else moved (`Moved`),
whatever their order, as no two of one sweep undo each other (`Orderly`); where the order
matters, of a row and the mark that follows it, `Chained` says so. From there the draw, the
lottery, the expiry and the tokens are each counted once (`LotteryDrew`, `ExpiryLapsed`,
`DrawRanked`, `DrawEnds`), and a sweep put together from them (`ScriptSweeps`, `DrawSweeps`). A command
writes one event's rows or one cluster's tickets, and `Commanded` and `Submitted` say what of them.

**`CalendarStepProofs`**: the action properties `TokensBuySeats` and `NoBetterSeatFree`. For the
first, a token is redeemed by the save before the one that seats its holder, so that of an
interrupted draw only the last save can be a token spent in vain (`SpentBySave`). For the
second, a cluster's first mark as drawn can only be its own draw's (`RunsByDraw`), which by then
has made all its seats; whoever was not given an event found no seat left in it, none is
given back (`LeftStays`), and so as many rows are there as it had free seats (`SeatsAdded`).

**`CombatProofs`**: `Spec => []Inv`, and from it `TypeOK`, `QueuesAgree` and `NoneCornered` (these
three under `TwoFightsSpec` too, which violates `ActiveOnce`), and the action properties
`CommitmentsStand`, `TokensFresh` and `LossStands`. An operation of the engine goes through many
states before the one it commits, so the lemmas are about states f and g of a fight and not about
the variable.

- `Sound(f)`: rows, queues and exchanges are each well formed (`RowSound`, `QueueSound`, `BookSound`)
  and tied to one another (`Tied`). Beyond what `QueuesAgree` says, the actor of an
  exchange has an action left for each of its targets, a target has not both reacted and
  canceled, and only a Burst goes on after it was resolved: without these the actions left
  in a turn could go below zero when the exchange ends.
- `Calm(f)`: `NoneCornered` of f. It is what an operation starts from and ends with; between, `Sound`
  is all there is, and every operator of the engine is shown to keep it.
- What the journal holds is sound, calm and no younger than the fight's epoch: a rollback
  restores it (`RenamedSound`), and its tokens get the names of an epoch not used before.

`Unfolds(f, g)` says how far a cascade may go: nothing is declared, no queue grows, nobody is healed,
and an exchange that was open is still, with the reactions it had, or its actor has
paid for them (`Honours`). It is transitive (`UnfoldsTwice`), so each operator is looked at
once: an exchange that goes on or ends (`KeptOn`, `Over`), the last answer to one
(`CompletedSound`), a cancel and an accepted reaction (`CanceledSound`, `ReactedSound`).

`SettledSound` is the heart of it. Each packet voided takes one pair or more out of `Waits`, those who still
owe an answer and to whom, whatever it resolves on the way (`WaitsShrink`, `VoidedSound`), and there
are no more pairs than the square of the number of participants, the rounds `Settled` has. So the
`while` of `settle` ends, and ends with nobody cornered. The loops of `release_pending`,
`shelve_state` and `maintain` are recursive functions too; `Recursion` shows that a function so
defined exists if its steps stay in given sets, and `ClimbAll` what is true of each of its values
(`ReleasedFrees`, `ShelvedFrees`, `SweptFrees`).

`Moves(f, g)` is what an operation may do beyond that: a new packet has a new name, and nobody
stands higher by leaving or returning. Every action is shown to take a sound and calm
state to another by `Moves`, or to a later epoch (`Advances`; one lemma per action, named after it with
`Keeps`), and the three action properties follow from that. The release that raises
(`combat_shelving`) leaves the state as it was, as the transaction is rolled back: it is an action that is not
enabled, and none of the above depends on its being so.

**Only model-checked**: `StaffCanClose` of `Stalls`, which is an ENABLED;
the liveness properties `OffersEnd`, `QueueDrains` and `ExchangesEnd`, which are beyond the prover;
and the properties that `ConcurrentSpec` and `TwoFightsSpec` violate, which the runs of section 3
refute. `InOrder` in `Calendar` puts positions in order by a CHOOSE, as the provers know nothing
of `SelectSeq` with a condition; `OrderExists` shows that there is always something to choose.

## 6. What is left out

Of the economy: guests and `RP_ECONOMY_REVEALED` (who may use it at all), asset
providers other than a resource counter, stall names, descriptions and `edit`, the
activity clock behind the quiet-stall flag, `DroppedItem` and the review flags,
stipends and the reveal sweep, the system seller, deletion of rooms, items and
containers. Who is eligible for income is constant. The taper fraction is a rational,
not a float, so rounding of floats is not covered. An exception in an earlier step of
`at_repeat` that skips the steps after it is not modelled.
Building archives and restores properties under conditions of its own (agreements, passages, who
anchors whom); `Suspend` leaves them out and so does more than building may.

Of combat: what only scales or refuses (Spirit, Transcendence, Pressure, conditions other than Poison, Reserves,
builds and their correction), so that any move may be affordable and any answer may
succeed; strain and drain; poses; requests and votes while they wait for consent; the first join
(all participants are in at the start); automatic play of NPCs. One fight is
modelled, and of another only who is active there. Refunds of Reserves are left out with them:
`CommitmentsStand` speaks of actions.

Of the calendar: how a cluster is put together and locked, uncapped events (an RSVP is
confirmed at once), exclusions, changes of an event's cap or mode, its cancellation,
notices, and characters deleted while they hold an RSVP. The time of an event does not change.

The rest of the family is not modelled; `PROJECT.json` gives the reason, component by
component. It is large (about 115,000 lines, of which commands, forms, views, text and
rendering are the most), and a definition is mapped only to the lines it translates,
so the share of the lines that is mapped stays small.

## 7. The plan

What the project would gain most from, in this order:

1. Not modelled so far and of the same kind: `rp_resources`' ledger and payouts and the weekly
   batch of `xp`, which schedule with `Periodic` too; stipends and the reveal sweep; `moderation`'s
   guest caps and queue; `rp_crafting`'s proposals, which both sides settle; the review and
   transfer of `building`, which `Stalls` has as its environment.
