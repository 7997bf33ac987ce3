---- MODULE Combat ----
(***************************************************************************)
(* One fight of evennia_rp_combat: engine.py's state machine as the        *)
(* operations of services.py and the sweep of maintenance.py change it.    *)
(* Every operation is one transaction on the fight's locked row, so each   *)
(* is an action; what makes it hard is that one call cascades: canceling   *)
(* a packet may resolve its exchange, which may fell somebody, which voids *)
(* the packets that one had not answered, which may resolve others.        *)
(*                                                                         *)
(* A packet (token) names an exchange and a hit of it.  It waits in its    *)
(* target's incoming queue until all of the exchange's targets have        *)
(* reacted or canceled; then all who reacted are resolved together.        *)
(*                                                                         *)
(* Left out: what only scales or refuses (Spirit, Transcendence, Pressure, *)
(* conditions but for Poison, builds and their correction, Reserves: any   *)
(* move may be affordable), poses, requests and votes waiting for an       *)
(* answer (an accepted one is what is modelled), partners' layers and      *)
(* tactics.                                                                *)
(***************************************************************************)
EXTENDS Integers, Sequences, FiniteSets, SequencesExt, Functions

CONSTANTS
    Order,          \* the participants, in the order in which they joined
    Side,           \* the side of each
    Allowance,      \* the actions each has in a turn: their Boss multiplier
    TurnLimit,      \* turns each may take
    MaxHp,          \* Vitality each joined with
    Damage,         \* what a wound takes, a Heal restores
    MaxHit,         \* hits of a Burst (3 in the code)
    Reactions,      \* those players choose from: "evade", "resist", "overpower"
    StoryValues,    \* Vitality a storyteller asks for
    Elsewhere,      \* characters who may also join another fight
    Poisoned,       \* bound: whom Poison may cost Vitality after an own act
    Gone,           \* those a sweep of maintenance may find gone together
    Restless,       \* who may leave of their own accord, or be asked to return
    MaxExposure,    \* bound: exposure that returning may add up to
    MaxExchange,    \* bound: exchanges declared in an epoch
    MaxEpoch,       \* bound: one more than the rollbacks
    Depth,          \* bound: journal entries a rollback may choose from
    Retained,       \* bound: exchanges that may be declared before a rollback
    None

Fighters == ToSet(Order)
Kinds == {"evade", "resist", "overpower"}

ASSUME CombatAssumption ==
    /\ Order \in Seq(Fighters) /\ Len(Order) = Cardinality(Fighters)
    /\ DOMAIN Side = Fighters /\ Allowance \in [Fighters -> 1..10]
    /\ {TurnLimit, MaxHp, Damage, MaxHit, MaxExchange, MaxEpoch, Depth, Retained} \subseteq Nat \ {0}
    /\ MaxExposure \in Nat /\ StoryValues \subseteq 0..MaxHp
    /\ Gone \subseteq SUBSET Fighters /\ Restless \subseteq Fighters
    /\ Reactions \subseteq Kinds /\ Elsewhere \subseteq Fighters
    /\ None \notin 0..MaxHp /\ None \notin (1..MaxEpoch) \X (1..MaxExchange)

VARIABLES
    fight,      \* Fight.state
    status,     \* Fight.status
    journal,    \* the state before each of the last unsuperseded entries
    marker,     \* each character's build_lock: the fight it names
    there       \* who is active in another open fight
vars == <<fight, status, journal, marker, there>>

(***************************************************************************)
(* The fight's state, and what its guards read.                            *)
(***************************************************************************)
NewRow(i) ==
    [status |-> "active", hp |-> MaxHp, downed |-> FALSE, recovering |-> FALSE,
     turns |-> 0, left |-> Allowance[i], incoming |-> <<>>, outgoing |-> None,
     absent |-> FALSE, fadedHp |-> None, exposure |-> MaxHp]

NewFight ==
    [rows |-> [i \in Fighters |-> NewRow(i)], exchanges |-> <<>>, epoch |-> 1,
     next |-> 1, started |-> FALSE, paused |-> FALSE, ended |-> FALSE]

Progress(f) == status = "open" /\ ~f.ended /\ ~f.paused

Active(r) ==
    r.status = "active" /\ r.hp > 0 /\ ~r.downed /\ ~r.recovering /\ ~r.absent

Revivable(r) == r.status = "active" /\ r.hp = 0 /\ ~r.absent

Clear(r) == r.incoming = <<>> /\ r.outgoing = None

Idle(f) == \A i \in Fighters : Clear(f.rows[i])

\* get_exchange: the packet's exchange waits for answers to this very hit.
Live(f, t) ==
    /\ t.id \in DOMAIN f.exchanges /\ t.id[1] = f.epoch
    /\ f.exchanges[t.id].phase = "waiting" /\ f.exchanges[t.id].hit = t.hit

Answered(f, i, t) == i \in DOMAIN f.exchanges[t.id].reactions
Token(e) == [id |-> e.id, hit |-> e.hit]
Owing(e) == e.targets \ (DOMAIN e.reactions \cup e.canceled)

\* What row i may still cancel.
Unanswered(f, i) ==
    {t \in ToSet(f.rows[i].incoming) : Live(f, t) /\ ~Answered(f, i, t)}

(***************************************************************************)
(* The engine: each operator is a state changed by a call.  Luck is what   *)
(* the draws, builds and conditions decide in a step: of each packet that  *)
(* may resolve, whether its reaction succeeds ("held") and whether it      *)
(* wounds, and which of those whose exchange may finish Poison harms.      *)
(***************************************************************************)
Packets(f) ==
    UNION {{<<x, i>> : i \in DOMAIN f.exchanges[x].reactions} : x \in DOMAIN f.exchanges}
Evaded(f, p) == f.exchanges[p[1]].reactions[p[2]] = "evade"
Hits(f) == {hits \in [Packets(f) -> SUBSET {"held", "wounds"}] :
              \A p \in Packets(f) : Evaded(f, p) => hits[p] # {"held", "wounds"}}
Draws(f) == [hits : Hits(f), poison : SUBSET {i \in Poisoned : f.rows[i].outgoing # None}]

\* A dict with v at x, the first element of a list that is in S, and a list
\* without the first e, if there is one.
Entered(d, x, v) == [y \in DOMAIN d \cup {x} |-> IF y = x THEN v ELSE d[y]]
First(s, S) == s[CHOOSE k \in DOMAIN s : s[k] \in S /\ \A l \in 1..(k - 1) : s[l] \notin S]
Removed(s, e) ==
    LET at == CHOOSE k \in DOMAIN s : s[k] = e /\ \A l \in 1..(k - 1) : s[l] # e
    IN  IF e \in ToSet(s) THEN RemoveAt(s, at) ELSE s

Least(S) == CHOOSE x \in S : \A y \in S : x <= y
Most(S) == CHOOSE x \in S : \A y \in S : x >= y

Harmed(r, n) ==
    LET h == Most({0, r.hp - n})
    IN  [r EXCEPT !.hp = h, !.downed = @ \/ h = 0]

Healed(r, n) == [r EXCEPT !.hp = Least({MaxHp, @ + n})]

\* (bug: the next turn's actions are not dealt)
SpendingUnreset(i, r, n) ==
    IF r.left > n THEN [r EXCEPT !.left = @ - n] ELSE [r EXCEPT !.left = 0, !.turns = @ + 1]

\* A turn is over when its actions are spent.
Spending(i, r, n) ==
    IF r.left > n THEN [r EXCEPT !.left = @ - n]
    ELSE [r EXCEPT !.left = Allowance[i], !.turns = @ + 1]

Without(f, e) ==
    [f EXCEPT !.exchanges = Restrict(@, DOMAIN @ \ {e.id}),
              !.rows[e.actor].outgoing = None]

\* Poison at the end of an own act may fell whoever acted: what it takes is
\* chosen by the action, or drawn if somebody else's answer ends the act.
Ending(i, r, n, loss) == Harmed(Spending(i, r, n), loss)
Losses(i) == {0} \cup IF i \in Poisoned THEN {Damage} ELSE {}
Loss(i, luck) == IF i \in luck.poison THEN Damage ELSE 0

\* finish_exchange
Finished(f, e, loss) ==
    LET spent == IF e.burst THEN 1 ELSE Cardinality(e.targets \ e.canceled)
    IN  [Without(f, e) EXCEPT !.rows[e.actor] = Ending(e.actor, @, spent, loss)]

\* resolve_exchange: everyone who reacted is resolved, then the actor may go
\* on with a Burst that nothing broke.
Resolved(f, e, luck) ==
    LET hit == DOMAIN e.reactions
        Held(i) == "held" \in luck.hits[<<e.id, i>>]
        Wound(i) == IF "wounds" \in luck.hits[<<e.id, i>>] THEN Damage ELSE 0
        counters == {i \in hit : Held(i) /\ e.reactions[i] = "overpower"}
        broken == \E i \in hit : Held(i) /\ e.reactions[i] # "resist"
        rows == [i \in Fighters |->
                   IF i \in hit
                   THEN [Harmed(f.rows[i], Wound(i)) EXCEPT !.incoming = Removed(@, Token(e))]
                   ELSE IF i = e.actor THEN Harmed(f.rows[i], Damage * Cardinality(counters))
                   ELSE f.rows[i]]
        goesOn == /\ e.burst /\ ~broken /\ e.hit < MaxHit
                  /\ \A i \in hit \cup {e.actor} : rows[i].hp > 0
        g == [f EXCEPT !.rows = rows]
    IN  IF goesOn THEN [g EXCEPT !.exchanges[e.id] = [@ EXCEPT !.phase = "press", !.resolved = TRUE]]
        ELSE Finished(g, e, Loss(e.actor, luck))

\* (bug: the last answer cancels what others had accepted)
CompletedAsCanceled(f, e, luck) ==
    LET g == [f EXCEPT !.exchanges[e.id] = e]
    IN  IF Owing(e) # {} THEN g
        ELSE IF DOMAIN e.reactions = e.targets THEN Resolved(g, e, luck)
        ELSE IF e.resolved THEN Finished(g, e, Loss(e.actor, luck))
        ELSE Without(g, e)

\* (bug: who cancels is still waited for)
CompletedByReactions(f, e, luck) ==
    LET g == [f EXCEPT !.exchanges[e.id] = e]
    IN  IF DOMAIN e.reactions = e.targets THEN Resolved(g, e, luck)
        ELSE IF e.canceled # e.targets THEN g
        ELSE IF e.resolved THEN Finished(g, e, Loss(e.actor, luck))
        ELSE Without(g, e)

\* What answering i's packet of e completes: e is e with that answer in it.
Completed(f, e, luck) ==
    LET g == [f EXCEPT !.exchanges[e.id] = e]
    IN  IF Owing(e) # {} THEN g
        ELSE IF e.reactions # <<>> THEN Resolved(g, e, luck)
        ELSE IF e.resolved THEN Finished(g, e, Loss(e.actor, luck))
        ELSE Without(g, e)

\* cancel: i's answer to e, if all the others have answered, completes it.
Canceled(f, i, t, luck) ==
    LET e == f.exchanges[t.id]
        g == [f EXCEPT !.rows[i].incoming = Removed(@, t)]
    IN  Completed(g, [e EXCEPT !.canceled = @ \cup {i}], luck)

\* (bug: an exchange others have answered is not voided)
VoidableUntouched(f, i) ==
    {t \in Unanswered(f, i) : /\ f.rows[i].hp = 0 /\ ~f.exchanges[t.id].revival
                              /\ f.exchanges[t.id].reactions = <<>>}

\* settle: void, one after the other, what those at 0 had not answered.
Voidable(f, i) == {t \in Unanswered(f, i) : f.rows[i].hp = 0 /\ ~f.exchanges[t.id].revival}
Cornered(f) == {i \in Fighters : Voidable(f, i) # {}}

Voided(f, luck) ==
    LET i == First(Order, Cornered(f))
    IN  IF Cornered(f) = {} THEN f
        ELSE Canceled(f, i, First(f.rows[i].incoming, Voidable(f, i)), luck)

\* There are fewer packets than these rounds.
Settled(f, luck) ==
    LET rounds == Len(Order) * Len(Order)
        after[n \in 0..rounds] == IF n = 0 THEN f ELSE Voided(after[n - 1], luck)
    IN  IF Cornered(f) = {} THEN f ELSE after[rounds]

\* fade: a fight with nobody left standing pauses.
Left(f, i, row) ==
    LET g == [f EXCEPT !.rows[i] = row]
    IN  [g EXCEPT !.paused = @ \/ ~\E j \in Fighters :
                                     g.rows[j].status = "active" /\ g.rows[j].hp > 0]

Faded(f, i) == Left(f, i, [f.rows[i] EXCEPT !.status = "faded", !.fadedHp = f.rows[i].hp])

(***************************************************************************)
(* release_pending, as maintenance and shelving use it: cancel what row i  *)
(* has not answered and what has not answered it.  It goes through a copy  *)
(* of the queue made before; get_exchange and cancel raise for a packet    *)
(* that is gone by then, which undoes the whole call (ok = FALSE).         *)
(***************************************************************************)
ReleaseOne(try, i, t, luck) ==
    IF ~try.ok THEN try
    ELSE IF ~Live(try.f, t) THEN [try EXCEPT !.ok = FALSE]
    ELSE IF Answered(try.f, i, t) THEN try
    ELSE IF ~Contains(try.f.rows[i].incoming, t) THEN [try EXCEPT !.ok = FALSE]
    ELSE [try EXCEPT !.f = Settled(Canceled(@, i, t, luck), luck)]

ReleaseOutgoing(f, i, luck) ==
    LET x == f.rows[i].outgoing
        e == f.exchanges[x]
        freed[n \in 0..Len(Order)] ==
            IF n = 0 THEN f
            ELSE IF Order[n] \in Owing(e) THEN Canceled(freed[n - 1], Order[n], Token(e), luck)
            ELSE freed[n - 1]
    IN  IF x = None THEN f
        ELSE Settled(IF e.phase = "press" THEN Finished(f, e, Loss(i, luck)) ELSE freed[Len(Order)], luck)

Released(try, i, luck) ==
    LET queue == try.f.rows[i].incoming
        done[n \in 0..Len(queue)] ==
            IF n = 0 THEN try ELSE ReleaseOne(done[n - 1], i, queue[n], luck)
        last == done[Len(queue)]
    IN  IF last.ok THEN [last EXCEPT !.f = ReleaseOutgoing(@, i, luck)] ELSE last

Ready(f) == [f |-> f, ok |-> TRUE]

\* shelve_state, one participant after the other in the order they joined.
SetAside(f, i) ==
    IF f.rows[i].status # "active" THEN f ELSE [Faded(f, i) EXCEPT !.rows[i].absent = FALSE]

Shelved(f, luck) ==
    LET freed[n \in 0..Len(Order)] ==
            IF n = 0 THEN Ready(f) ELSE Released(freed[n - 1], Order[n], luck)
        free == freed[Len(Order)]
        aside[n \in 0..Len(Order)] == IF n = 0 THEN free.f ELSE SetAside(aside[n - 1], Order[n])
    IN  IF free.ok THEN Ready([aside[Len(Order)] EXCEPT !.paused = TRUE]) ELSE free

\* maintain: release those found gone, and fade whom nothing holds any more.
Dismissed(try, i) ==
    IF ~try.ok THEN try
    ELSE IF Clear(try.f.rows[i])
    THEN [try EXCEPT !.f = [Faded(@, i) EXCEPT !.rows[i].absent = FALSE]]
    ELSE [try EXCEPT !.f.rows[i].absent = TRUE]

Sweep(try, i, gone, luck) ==
    IF try.f.rows[i].status # "active" THEN try
    ELSE IF i \notin gone THEN [try EXCEPT !.f.rows[i].absent = FALSE]
    ELSE Dismissed(Released(try, i, luck), i)

Swept(f, gone, luck) ==
    LET after[n \in 0..Len(Order)] ==
            IF n = 0 THEN Ready(f) ELSE Sweep(after[n - 1], Order[n], gone, luck)
    IN  after[Len(Order)]

(***************************************************************************)
(* services.py: what every operation does before and after the engine.     *)
(***************************************************************************)
\* synchronize_locks
Synchronized(f, open) ==
    [i \in Fighters |->
        IF open /\ ~f.ended /\ f.rows[i].status = "active" THEN "here"
        ELSE IF marker[i] = "here" THEN None ELSE marker[i]]

\* commit
Commit(f, close) ==
    /\ fight' = f
    /\ status' = IF f.ended THEN "ended" ELSE close
    /\ marker' = Synchronized(f, status' = "open")
    /\ UNCHANGED there

\* The entries a rollback may choose from; none once no more are counted on.
Journal(entries) ==
    journal' = IF fight'.epoch = MaxEpoch \/ fight'.next > Retained + 1 THEN <<>>
               ELSE SubSeq(entries, Most({1, Len(entries) - Depth + 1}), Len(entries))

\* Once all who stand have used their turns, the next operation ends the fight.
Concluded(f) ==
    LET standing == {i \in Fighters : f.rows[i].status = "active" /\ f.rows[i].hp > 0}
        over == /\ f.started /\ Idle(f) /\ standing # {}
                /\ \A i \in standing : f.rows[i].turns >= TurnLimit
    IN  [f EXCEPT !.ended = @ \/ over]

\* execute: whoever acts is there; f is what the operation left.
Seen(i) == [fight EXCEPT !.rows[i].absent = FALSE]

Executed(f, luck) ==
    /\ status = "open"
    /\ Commit(Concluded(Settled(f, luck)), "open")
    /\ Journal(Append(journal, fight))

Done(f) == \E luck \in Draws(f) : Executed(f, luck)

\* active_elsewhere
ActiveElsewhere(i) == marker[i] = "there" /\ i \in there

(***************************************************************************)
(* Declaring.                                                              *)
(***************************************************************************)
\* opening: the first act needs two sides.
Opens(f) ==
    f.started \/ Cardinality({Side[i] : i \in {j \in Fighters : f.rows[j].status = "active"}}) > 1

\* declaration's own guards, for one who acts on targets.
MayDeclare(f, i, targets) ==
    /\ Progress(f) /\ Active(f.rows[i]) /\ Clear(f.rows[i])
    /\ f.rows[i].turns < TurnLimit
    /\ targets # {} /\ Cardinality(targets) <= f.rows[i].left
    /\ i \notin targets /\ Opens(f) /\ f.next <= MaxExchange

NewExchange(f, i, targets, burst, revival) ==
    [id |-> <<f.epoch, f.next>>, actor |-> i, targets |-> targets, burst |-> burst,
     revival |-> revival, hit |-> 1, reactions |-> <<>>, canceled |-> {},
     covered |-> FALSE, redirected |-> FALSE, resolved |-> FALSE, phase |-> "waiting"]

\* The exchange reserved and in its targets' queues.
Declared(f, e) ==
    LET row(i) == IF i = e.actor THEN [f.rows[i] EXCEPT !.outgoing = e.id]
                  ELSE IF i \in e.targets
                  THEN [f.rows[i] EXCEPT !.incoming = Append(@, Token(e))]
                  ELSE f.rows[i]
    IN  [f EXCEPT !.exchanges = Entered(@, e.id, e), !.next = @ + 1, !.started = TRUE,
                  !.rows = [i \in Fighters |-> row(i)]]

Attack(i, targets, burst) ==
    LET f == Seen(i)
    IN  /\ MayDeclare(f, i, targets)
        /\ \A j \in targets : Active(f.rows[j]) /\ Side[j] # Side[i]
        /\ burst => Cardinality(targets) = 1
        /\ Done(Declared(f, NewExchange(f, i, targets, burst, FALSE)))

\* support_exchange on allies (with a Heal or without) or on the other side:
\* it resolves at once.
Support(i, targets, healed) ==
    LET f == Seen(i)
        row(j) == IF j \in healed THEN Healed(f.rows[j], Damage) ELSE f.rows[j]
    IN  /\ MayDeclare(f, i, targets)
        /\ \A j \in targets : Active(f.rows[j])
        /\ \/ \A j \in targets : Side[j] = Side[i]
           \/ healed = {} /\ \A j \in targets : Side[j] # Side[i]
        /\ \E loss \in Losses(i) :
              Done([f EXCEPT !.next = @ + 1, !.started = TRUE,
                             !.rows = [j \in Fighters |->
                                 IF j = i THEN Ending(i, @[i], Cardinality(targets), loss)
                                 ELSE row(j)]])

\* support_exchange on a revival its target accepts: a Heal that restores
\* nothing leaves them down, and Treat waives the recovery.
Revived(f, e, restores, waives, loss) ==
    LET j == CHOOSE t \in e.targets : TRUE
        g == [f EXCEPT !.rows[j].incoming = Removed(@, Token(e))]
    IN  Finished(IF restores
                 THEN [g EXCEPT !.rows[j] = [Healed(@, Damage) EXCEPT
                                               !.downed = FALSE, !.recovering = ~waives]]
                 ELSE g, e, loss)

\* A Heal for an ally who is down is an offer, unless they accept any ally's.
OfferRevival(i, j) ==
    LET f == Seen(i)
        e == NewExchange(f, i, {j}, FALSE, TRUE)
    IN  /\ MayDeclare(f, i, {j}) /\ Revivable(f.rows[j]) /\ Side[j] = Side[i]
        /\ \/ Done(Declared(f, e))
           \/ \E restores, waives \in BOOLEAN, loss \in Losses(i) :
                 Done(Revived(Declared(f, e), e, restores, waives, loss))

AcceptRevival(i, t) ==
    LET f == Seen(i)
    IN  /\ Progress(f) /\ Contains(f.rows[i].incoming, t) /\ Live(f, t)
        /\ f.exchanges[t.id].revival /\ Revivable(f.rows[i])
        /\ \E restores, waives \in BOOLEAN, loss \in Losses(f.exchanges[t.id].actor) :
              Done(Revived(f, f.exchanges[t.id], restores, waives, loss))

Retract(i) ==
    LET f == Seen(i)
        x == f.rows[i].outgoing
    IN  /\ x # None /\ f.exchanges[x].revival
        /\ \E luck \in Draws(f) : \E j \in f.exchanges[x].targets :
              Executed(Canceled(f, j, Token(f.exchanges[x]), luck), luck)

(***************************************************************************)
(* Answering.                                                              *)
(***************************************************************************)
\* The exchange with i's reaction accepted.
With(e, i, kind) == [e EXCEPT !.reactions = Entered(@, i, kind)]

\* reaction, after its guards.
Accepted(f, e, i, kind) ==
    LET g == [f EXCEPT !.exchanges[e.id] = With(e, i, kind)]
    IN  \E luck \in Draws(g) : Executed(Completed(f, With(e, i, kind), luck), luck)

React(i, t, kind) ==
    LET f == Seen(i)
        e == f.exchanges[t.id]
    IN  /\ Progress(f) /\ Active(f.rows[i])
        /\ Contains(f.rows[i].incoming, t) /\ Live(f, t) /\ ~Answered(f, i, t)
        /\ ~e.revival /\ kind \in Reactions
        /\ Accepted(f, e, i, kind)

\* redirect: j takes the packet of an ally who has not answered it, and reacts
\* to it in the same step; what is intercepted cannot be evaded.
Cover(j, i, t, kind) ==
    LET f == Seen(j)
        e == f.exchanges[t.id]
        turned == [e EXCEPT !.targets = (@ \ {i}) \cup {j}, !.covered = TRUE, !.redirected = TRUE]
        g == [f EXCEPT !.rows[i].incoming = Removed(@, t), !.rows[j].incoming = Append(@, t),
                       !.exchanges[t.id] = turned]
    IN  /\ Progress(f) /\ Active(f.rows[j]) /\ Clear(f.rows[j]) /\ Side[j] = Side[i]
        /\ Contains(f.rows[i].incoming, t) /\ Live(f, t)
        /\ j \notin e.targets /\ e.reactions = <<>> /\ ~e.revival /\ ~e.covered
        /\ ~(e.burst /\ e.redirected)
        /\ kind \in Reactions \ {"evade"}
        /\ Accepted(g, turned, j, kind)

\* cancel, and the declining of a revival.
CancelIncoming(i, t) ==
    LET f == Seen(i)
    IN  /\ Contains(f.rows[i].incoming, t) /\ Live(f, t) /\ ~Answered(f, i, t)
        /\ \E luck \in Draws(f) : Executed(Canceled(f, i, t, luck), luck)

(***************************************************************************)
(* Going on with a Burst, and passing.                                     *)
(***************************************************************************)
Bursting(f, i) == f.exchanges[f.rows[i].outgoing].phase = "press"
Pressing(f, i) == Progress(f) /\ f.rows[i].outgoing # None /\ Bursting(f, i)

Press(i) ==
    LET f == Seen(i)
        e == f.exchanges[f.rows[i].outgoing]
        again == [e EXCEPT !.hit = @ + 1, !.phase = "waiting", !.reactions = <<>>,
                           !.canceled = {}, !.covered = FALSE]
        row(j) == IF j \in e.targets
                  THEN [f.rows[j] EXCEPT !.incoming = Append(@, Token(again))] ELSE f.rows[j]
    IN  /\ Pressing(f, i) /\ Active(f.rows[i]) /\ f.rows[i].incoming = <<>>
        /\ \A j \in e.targets : Active(f.rows[j])
        /\ Done([f EXCEPT !.exchanges[e.id] = again, !.rows = [j \in Fighters |-> row(j)]])

\* Also what a press that cannot be afforded comes to.
Stop(i) ==
    LET f == Seen(i)
    IN  /\ Pressing(f, i)
        /\ \E loss \in Losses(i) : Done(Finished(f, f.exchanges[f.rows[i].outgoing], loss))

\* pass_action: the one act of a participant who is recovering.
Pass(i) ==
    LET f == Seen(i)
        r == f.rows[i]
    IN  /\ Progress(f) /\ r.status = "active" /\ r.hp > 0 /\ ~r.downed /\ Clear(r)
        /\ r.turns < TurnLimit /\ Opens(f)
        /\ \E loss \in Losses(i) :
              Done([f EXCEPT !.started = TRUE,
                             !.rows[i] = Ending(i, [@ EXCEPT !.recovering = FALSE], 1, loss)])

(***************************************************************************)
(* Leaving, returning, and what the table agrees on.                       *)
(***************************************************************************)
Fade(i) ==
    LET f == Seen(i)
    IN  Clear(f.rows[i]) /\ f.rows[i].status # "withdrawn" /\ Done(Faded(f, i))

Withdraw(i) ==
    LET f == Seen(i)
    IN  /\ Clear(f.rows[i]) /\ f.rows[i].status # "withdrawn"
        /\ Done(Left(f, i, [f.rows[i] EXCEPT !.status = "withdrawn", !.hp = 0,
                                              !.downed = TRUE, !.fadedHp = None]))

\* join, for who has Faded: what was gained meanwhile is new exposure.
Rejoin(i) ==
    LET f == Seen(i)
        r == f.rows[i]
    IN  /\ r.status = "faded" /\ ~ActiveElsewhere(i)
        /\ Done([f EXCEPT !.rows[i] = [r EXCEPT !.status = "active", !.fadedHp = None,
                                               !.exposure = @ + r.hp - r.fadedHp]])

\* apply_request: vitality.
Vitality(i, v) ==
    LET f == Seen(i)
        r == f.rows[i]
    IN  /\ v # r.hp
        /\ v > 0 => r.hp > 0 /\ ~r.downed /\ r.status # "withdrawn"
        /\ Done([f EXCEPT !.rows[i].hp = v, !.rows[i].downed = @ \/ v = 0])

\* (bug: the Vitality restored is no exposure)
ReturnUnexposed(i, v) ==
    LET f == Seen(i)
        r == f.rows[i]
    IN  /\ v > 0 /\ (r.hp = 0 \/ r.downed \/ r.status = "withdrawn")
        /\ Clear(r) /\ ~ActiveElsewhere(i)
        /\ Done([f EXCEPT !.rows[i] = [r EXCEPT !.status = "active", !.hp = v, !.downed = FALSE,
                                               !.recovering = FALSE, !.fadedHp = None]])

\* apply_request: return.
Return(i, v) ==
    LET f == Seen(i)
        r == f.rows[i]
        prior == IF r.fadedHp = None THEN r.hp ELSE r.fadedHp
    IN  /\ v > 0 /\ (r.hp = 0 \/ r.downed \/ r.status = "withdrawn")
        /\ Clear(r) /\ ~ActiveElsewhere(i) /\ r.exposure + v - prior <= MaxExposure
        /\ Done([f EXCEPT !.rows[i] = [r EXCEPT !.status = "active", !.hp = v, !.downed = FALSE,
                                               !.recovering = FALSE, !.fadedHp = None,
                                               !.exposure = @ + v - prior]])

Pause == ~fight.paused /\ Done([fight EXCEPT !.paused = TRUE])
Resume == fight.paused /\ Done([fight EXCEPT !.paused = FALSE])

\* end_fight, once everyone asked has agreed.
End == Idle(fight) /\ Done([fight EXCEPT !.ended = TRUE])

Shelve ==
    \E luck \in Draws(fight) :
        LET shelved == Shelved(fight, luck)
        IN  /\ status = "open" /\ shelved.ok
            /\ Commit(shelved.f, "shelved") /\ Journal(Append(journal, fight))

Unshelve ==
    /\ status = "shelved" /\ status' = "open" /\ marker' = Synchronized(fight, TRUE)
    /\ UNCHANGED <<fight, there>> /\ Journal(Append(journal, fight))

(***************************************************************************)
(* What nobody in the fight does: maintenance, and a staff rollback.       *)
(***************************************************************************)
Maintain(gone) ==
    \E luck \in Draws(fight) :
        LET swept == Swept(fight, gone, luck)
        IN  /\ status = "open" /\ swept.ok /\ swept.f # fight
            /\ Commit(swept.f, "open") /\ Journal(Append(journal, fight))

\* (bug: the queues keep the old names)
RenamedExchanges(f, epoch) ==
    LET now(x) == IF x = None THEN None ELSE <<epoch, x[2]>>
        was == [x \in {now(y) : y \in DOMAIN f.exchanges} |->
                  CHOOSE y \in DOMAIN f.exchanges : now(y) = x]
    IN  [f EXCEPT !.epoch = epoch,
                  !.exchanges = [x \in DOMAIN was |-> [f.exchanges[was[x]] EXCEPT !.id = x]],
                  !.rows = [i \in Fighters |-> [@[i] EXCEPT !.outgoing = now(@)]]]

\* Every packet of the restored state gets a name of the new epoch.
Renamed(f, epoch) ==
    LET now(x) == IF x = None THEN None ELSE <<epoch, x[2]>>
        was == [x \in {now(y) : y \in DOMAIN f.exchanges} |->
                  CHOOSE y \in DOMAIN f.exchanges : now(y) = x]
        queue(s) == [k \in DOMAIN s |-> [id |-> now(s[k].id), hit |-> s[k].hit]]
        row(r) == [r EXCEPT !.outgoing = now(r.outgoing), !.incoming = queue(r.incoming)]
    IN  [f EXCEPT !.epoch = epoch,
                  !.exchanges = [x \in DOMAIN was |-> [f.exchanges[was[x]] EXCEPT !.id = x]],
                  !.rows = [i \in Fighters |-> row(f.rows[i])]]

\* (bug: the restored state keeps its epoch)
RollbackSameEpoch(k, reconciles) ==
    /\ status \in {"open", "ended"} /\ fight.epoch < MaxEpoch
    /\ Commit([journal[k] EXCEPT !.paused = @ \/ reconciles], "open")
    /\ Journal(Append(SubSeq(journal, 1, k - 1), fight))

\* reconciles: some active character's sheet is no longer the one in its row.
Rollback(k, reconciles) ==
    /\ status \in {"open", "ended"} /\ fight.epoch < MaxEpoch
    /\ Commit([Renamed(journal[k], fight.epoch + 1) EXCEPT !.paused = @ \/ reconciles], "open")
    /\ Journal(Append(SubSeq(journal, 1, k - 1), fight))

\* The same characters in another fight, whose rows lock their sheets alike.
JoinElsewhere(i) ==
    /\ ~(marker[i] = "here" /\ status = "open" /\ fight.rows[i].status = "active")
    /\ there' = there \cup {i} /\ marker' = [marker EXCEPT ![i] = "there"]
    /\ i \notin there /\ UNCHANGED <<fight, status, journal>>

FadeElsewhere(i) ==
    /\ i \in there /\ there' = there \ {i}
    /\ marker' = [marker EXCEPT ![i] = IF @ = "there" THEN None ELSE @]
    /\ UNCHANGED <<fight, status, journal>>

(***************************************************************************)
(* Specifications.                                                         *)
(***************************************************************************)
Init ==
    /\ fight = NewFight /\ status = "open" /\ journal = <<>>
    /\ marker = [i \in Fighters |-> "here"] /\ there = {}

Queue(i) == ToSet(fight.rows[i].incoming)
Targets(i) == SUBSET (Fighters \ {i})

Declares(i) ==
    \/ \E targets \in Targets(i), burst \in BOOLEAN : Attack(i, targets, burst)
    \/ \E targets \in Targets(i) : \E healed \in SUBSET targets : Support(i, targets, healed)
    \/ \E j \in Fighters : OfferRevival(i, j)

Answers(i) ==
    \E t \in Queue(i) :
        \/ \E kind \in Kinds : React(i, t, kind)
        \/ CancelIncoming(i, t)
        \/ AcceptRevival(i, t)

Covers(j) ==
    \E i \in Fighters, kind \in Kinds : i # j /\ \E t \in Queue(i) : Cover(j, i, t, kind)

GoesOn(i) == Press(i) \/ Stop(i) \/ Pass(i) \/ Retract(i)

Leaves(i) == i \in Restless /\ (Fade(i) \/ Withdraw(i))

Returns(i) ==
    \/ Rejoin(i)
    \/ i \in Restless /\ \E v \in StoryValues : Vitality(i, v) \/ Return(i, v)

Table == Pause \/ Resume \/ End \/ Shelve \/ Unshelve

Staff ==
    \/ \E gone \in Gone : Maintain(gone)
    \/ \E k \in DOMAIN journal, reconciles \in BOOLEAN : Rollback(k, reconciles)

Next ==
    \/ \E i \in Fighters :
          Declares(i) \/ Answers(i) \/ Covers(i) \/ GoesOn(i) \/ Leaves(i) \/ Returns(i)
    \/ Table \/ Staff

Spec == Init /\ [][Next]_vars

\* Nobody leaves others waiting for ever: who owes answers, or has a Burst
\* open, in the end gives one or is found gone by maintenance.  This is weak
\* fairness of responding, which the guards of CancelIncoming, Stop and
\* Maintain always allow, said of the state that a response changes.
Owed(i) ==
    <<Unanswered(fight, i), fight.rows[i].outgoing # None /\ Bursting(fight, i)>>
Owes(i) == Owed(i) # <<{}, FALSE>>

FairSpec == Spec /\ \A i \in Fighters : []<>~Owes(i) \/ []<><<Owed(i)' # Owed(i)>>_vars

TwoFightsNext == Next \/ \E i \in Elsewhere : JoinElsewhere(i) \/ FadeElsewhere(i)
TwoFightsSpec == Init /\ [][TwoFightsNext]_vars

(***************************************************************************)
(* Properties.                                                             *)
(***************************************************************************)
Ids == (1..MaxEpoch) \X (1..MaxExchange)
Tokens == [id : Ids, hit : 1..MaxHit]

Rows ==
    [status : {"active", "faded", "withdrawn"}, hp : 0..MaxHp, downed : BOOLEAN,
     recovering : BOOLEAN, turns : 0..TurnLimit, left : 1..10, incoming : Seq(Tokens),
     outgoing : Ids \cup {None}, absent : BOOLEAN, fadedHp : (0..MaxHp) \cup {None},
     exposure : Int]

Exchanges ==
    [id : Ids, actor : Fighters, targets : SUBSET Fighters, burst : BOOLEAN,
     revival : BOOLEAN, hit : 1..MaxHit, reactions : UNION {[S -> Kinds] : S \in SUBSET Fighters},
     canceled : SUBSET Fighters, covered : BOOLEAN, redirected : BOOLEAN, resolved : BOOLEAN,
     phase : {"waiting", "press"}]

\* The state is well formed: nobody takes more actions than a turn has or
\* more turns than their limit, and a Faded row alone keeps a Vitality apart.
TypeOK ==
    /\ fight.rows \in [Fighters -> Rows]
    /\ \A x \in DOMAIN fight.exchanges : fight.exchanges[x] \in Exchanges
    /\ fight.epoch \in 1..MaxEpoch /\ fight.next \in 1..(MaxExchange + 1)
    /\ {fight.started, fight.paused, fight.ended} \subseteq BOOLEAN
    /\ status \in {"open", "shelved", "ended"} /\ Len(journal) <= Depth
    /\ marker \in [Fighters -> {"here", "there", None}] /\ there \subseteq Fighters
    /\ \A i \in Fighters :
          /\ fight.rows[i].left <= Allowance[i]
          /\ (fight.rows[i].status = "faded") <=> (fight.rows[i].fadedHp # None)

\* The queues and the exchanges say the same: a packet is queued, once, for
\* exactly those its waiting exchange still counts on, somebody owes it an
\* answer, and an exchange is open exactly while it is its actor's outgoing
\* one.  A missing packet could never be answered; an extra one would block
\* its holder for good.
QueuesAgree ==
    LET open == Range(fight.exchanges)
    IN  /\ \A x \in DOMAIN fight.exchanges :
              /\ fight.exchanges[x].id = x /\ fight.rows[fight.exchanges[x].actor].outgoing = x
              /\ x[1] = fight.epoch /\ x[2] < fight.next
        /\ \A i \in Fighters :
              /\ fight.rows[i].outgoing \in DOMAIN fight.exchanges \cup {None}
              /\ IsInjective(fight.rows[i].incoming)
              /\ Queue(i) = {Token(e) : e \in {o \in open : /\ o.phase = "waiting"
                                                           /\ i \in o.targets \ o.canceled}}
        /\ \A e \in open : e.phase = "waiting" => Owing(e) # {}

\* At 0 Vitality nobody holds a packet they had yet to answer (README: "every
\* attack they hadn't answered is voided"), whichever way they got there and
\* however far the voiding of one packet resolves others.
NoneCornered ==
    \A i \in Fighters : fight.rows[i].hp = 0 =>
        \A t \in Queue(i) : t.id \in DOMAIN fight.exchanges =>
            Answered(fight, i, t) \/ fight.exchanges[t.id].revival

\* An accepted reaction stands until a rollback: cancels by others, voids,
\* sweeps and shelving leave it waiting or resolve it at its actor's expense.
Spent(f, i) == f.rows[i].turns * Allowance[i] + Allowance[i] - f.rows[i].left
CommitmentsStand ==
    [][\A x \in DOMAIN fight.exchanges :
         LET e == fight.exchanges[x]
             later == fight'.exchanges[x]
         IN  e.phase = "press" \/ fight'.epoch # fight.epoch
             \/ IF x \in DOMAIN fight'.exchanges
                THEN later.phase = "press" \/ \A i \in DOMAIN e.reactions :
                       i \in DOMAIN later.reactions /\ later.reactions[i] = e.reactions[i]
                ELSE Spent(fight', e.actor) >= Spent(fight, e.actor) + Cardinality(DOMAIN e.reactions)]_vars

\* No packet ever has a name that was in use before: a command typed for one
\* that a rollback took back cannot act on its successor.
Queued(f) == UNION {ToSet(f.rows[i].incoming) : i \in Fighters}
TokensFresh ==
    [][/\ fight'.epoch >= fight.epoch
       /\ fight'.epoch = fight.epoch => fight'.next >= fight.next
       /\ \A t \in Queued(fight') \ Queued(fight) :
             \/ t.id[1] > fight.epoch
             \/ t.id[1] = fight.epoch /\ t.id[2] >= fight.next
             \/ t.id \in DOMAIN fight.exchanges /\ t.hit > fight.exchanges[t.id].hit]_vars

\* What the assessment counts as lost stays lost: leaving and returning, by
\* rejoining or at a storyteller's request, never raises anybody's standing.
Standing(r) == (IF r.status = "faded" THEN r.fadedHp ELSE r.hp) - r.exposure
LossStands ==
    [][fight'.epoch = fight.epoch =>
         \A i \in Fighters :
           LET row == fight.rows[i]
               later == fight'.rows[i]
           IN  later.status # row.status \/ later.exposure # row.exposure
                 => Standing(later) <= Standing(row)]_vars

\* Every exchange ends, if nobody leaves others waiting for ever.
ExchangesEnd ==
    \A i \in Fighters : fight.rows[i].outgoing # None ~> fight.rows[i].outgoing = None

\* A fight that is open can always be set aside (README: shelving "sets a
\* whole fight aside: unaccepted packets are canceled with refunds, everyone
\* Fades with their place retained"), and maintenance can always sweep.
CanShelve ==
    status = "open" => \A luck \in Draws(fight) : Shelved(fight, luck).ok

\* A character is active in at most one open fight (README: "A character is
\* active in at most one fight at a time").
ActiveOnce ==
    \A i \in there : ~(status = "open" /\ fight.rows[i].status = "active")

====
