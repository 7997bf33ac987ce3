---- MODULE Calendar ----
(***************************************************************************)
(* evennia_calendar: RSVPs to events that have a cap, their waitlists,     *)
(* the lotteries of staff events, the ranked draws of clusters of them,    *)
(* and the priority tokens that both give out.                             *)
(*                                                                         *)
(* Commands and the maintenance script run one after another in the        *)
(* server's main thread.  Nothing is a transaction: each save commits by   *)
(* itself.  So what a sweep does is a sequence of saves, of which a sweep  *)
(* that dies, or one whose save is refused, has made the first ones only,  *)
(* and the next sweep starts over.                                         *)
(*                                                                         *)
(* Left out: events without a cap (an RSVP is confirmed at once), how a    *)
(* cluster is put together and locked, exclusions, changes of an event's   *)
(* cap or mode, its cancellation, notices, and the deletion of characters. *)
(***************************************************************************)
EXTENDS Integers, Sequences, FiniteSets, SequencesExt, FiniteSetsExt

CONSTANTS
    Interest,       \* the characters who may take part in each event
    Schedules,      \* sets of events, one of which is what is scheduled
    Cap,            \* participant_cap of each event
    Staff,          \* the staff events (lottery mode)
    StaffHosted,    \* the events whose owner is staff
    Members,        \* the events of each (locked) cluster
    Veterans,       \* who has a token from earlier events, in each schedule
    MaxTokens,      \* bound: tokens ever issued
    MaxCrashes,     \* bound: interruptions in all
    None

ASSUME CalendarAssumption ==
    /\ IsFiniteSet(UNION Schedules) /\ IsFiniteSet(DOMAIN Members)
    /\ (UNION Schedules) \cap (DOMAIN Members) = {} /\ None \notin UNION Schedules
    /\ \A e \in UNION Schedules : Cap[e] \in Nat \ {0} /\ IsFiniteSet(Interest[e])
    /\ \A scheduled \in Schedules :
          Veterans[scheduled] \in Seq(UNION {Interest[e] : e \in scheduled})
    /\ Staff \subseteq UNION Schedules /\ StaffHosted \subseteq UNION Schedules
    /\ \A k \in DOMAIN Members : Members[k] # {} /\ Members[k] \subseteq Staff
    /\ \A k, l \in DOMAIN Members : k # l => Members[k] \cap Members[l] = {}
    /\ MaxTokens \in Nat /\ MaxCrashes \in Nat

VARIABLES
    rows,       \* each event's RSVPs, in the order in which they were made
    tickets,    \* each cluster's applications, in the order in which they were made
    drawn,      \* events whose lottery_drawn_at is set
    phase,      \* how near each event is
    tokens,     \* the priority tokens, in the order in which they were issued
    crashes     \* history: interruptions of each event's and cluster's operations
vars == <<rows, tickets, drawn, phase, tokens, crashes>>

Events == DOMAIN rows
Clusters == DOMAIN tickets
Everyone == UNION {Interest[e] : e \in Events}
Jobs == Events \cup Clusters
Clustered(e) == \E x \in Clusters : e \in Members[x]

\* From 72 hours before an event on its lottery is due, from 48 on what is
\* not confirmed expires, and a day after it no sweep looks at it any more.
Phases == 0..4
DrawTime == 1
Deadline == 2
Past == 3
Gone == 4

(***************************************************************************)
(* RSVPs: a row per character, kept when it is released.  A ticket ranks   *)
(* events of a cluster.                                                    *)
(***************************************************************************)
Row(c, status, place) == [who |-> c, status |-> status, place |-> place]
Ticket(c, wishes) == [who |-> c, status |-> "pending", wishes |-> wishes]

\* The positions in r of the rows (or tickets) with a status, and in order.
At(r, status) == {k \in DOMAIN r : r[k].status = status}
Count(r, status) == Cardinality(At(r, status))
InOrder(S) ==
    CHOOSE s \in [1..Cardinality(S) -> S] : \A m, n \in DOMAIN s : m < n => s[m] < s[n]
With(r, status) == InOrder(At(r, status))

RowOf(r, c) == SelectInSeq(r, LAMBDA row : row.who = c)
Is(r, c, statuses) == RowOf(r, c) # 0 /\ r[RowOf(r, c)].status \in statuses
Set(r, c, status) == [r EXCEPT ![RowOf(r, c)] = Row(c, status, 0)]

Places(r) == {r[k].place : k \in At(r, "waitlisted")}
NextUp(r) == CHOOSE c \in {row.who : row \in ToSet(r)} :
    Is(r, c, {"waitlisted"}) /\ r[RowOf(r, c)].place = Min(Places(r))

\* (bug: off by one)
LastPlace(r) == Max(Places(r) \cup {0})

NewPlace(r) == Max(Places(r) \cup {0}) + 1

\* (bug: the place is only offered, as by a ping)
PromotedByOffer(r) == IF Places(r) = {} THEN r ELSE Set(r, NextUp(r), "invited")

\* promote_waitlist
Promoted(r) == IF Places(r) = {} THEN r ELSE Set(r, NextUp(r), "confirmed")

(***************************************************************************)
(* The saves of a sweep, applied to a state of the database.               *)
(***************************************************************************)
State == [rows |-> rows, tickets |-> tickets, tokens |-> tokens, drawn |-> drawn]

Becomes(e, k, status) == [save |-> "row", event |-> e, at |-> k, to |-> status]
Seats(e, c) == [save |-> "seat", event |-> e, who |-> c]
Marks(x, k, status) == [save |-> "ticket", cluster |-> x, at |-> k, to |-> status]
Redeems(t, use) == [save |-> "token", at |-> t, use |-> use]
Issues(c, source) == [save |-> "issue", who |-> c, source |-> source]
Draws(e) == [save |-> "drawn", event |-> e]

NewToken(c, source) == [holder |-> c, source |-> source, use |-> None, redeemed |-> FALSE]

Saved(s, w) ==
    CASE w.save = "row" -> [s EXCEPT !.rows[w.event][w.at].status = w.to]
      [] w.save = "seat" -> [s EXCEPT !.rows[w.event] = Append(@, Row(w.who, "selected", 0))]
      [] w.save = "ticket" -> [s EXCEPT !.tickets[w.cluster][w.at].status = w.to]
      [] w.save = "token" -> [s EXCEPT !.tokens[w.at].use = w.use, !.tokens[w.at].redeemed = TRUE]
      [] w.save = "issue" -> [s EXCEPT !.tokens = Append(@, NewToken(w.who, w.source))]
      [] w.save = "drawn" -> [s EXCEPT !.drawn = @ \cup {w.event}]

\* A second row for a character in an event is refused.
Refused(s, w) == w.save = "seat" /\ RowOf(s.rows[w.event], w.who) # 0

\* The states saves go through, up to the first that is refused.
Trail(s, saves) ==
    LET after[n \in 0..Len(saves)] ==
            IF n = 0 THEN <<s>>
            ELSE LET trail == after[n - 1]
                 IN  IF Len(trail) < n \/ Refused(Last(trail), saves[n]) THEN trail
                     ELSE Append(trail, Saved(Last(trail), saves[n]))
    IN  after[Len(saves)]

Whole(s, saves) == Last(Trail(s, saves))
Partly(s, saves) == ToSet(Trail(s, saves))
Stopped(s, saves) == Len(Trail(s, saves)) <= Len(saves)

(***************************************************************************)
(* What a sweep does to one event or cluster, as sequences of saves.       *)
(***************************************************************************)
Usable(token, c, source) == token.holder = c /\ token.source = source /\ ~token.redeemed
TokenOf(ts, c, source) == SelectInSeq(ts, LAMBDA token : Usable(token, c, source))

\* Who is seated before the random draw.
Holding(e, s) ==
    LET holders == InOrder({k \in At(s.rows[e], "entered") :
                               TokenOf(s.tokens, s.rows[e][k].who, None) # 0})
    IN  SubSeq(holders, 1, Min({Len(holders), Cap[e]}))

\* (bug: those seated by a token take none of the seats)
SampledBesides(e, s) ==
    LET others == At(s.rows[e], "entered") \ ToSet(Holding(e, s))
    IN  kSubset(Min({Cap[e], Cardinality(others)}), others)

\* The random draw for the seats that are left.
Sampled(e, s) ==
    LET others == At(s.rows[e], "entered") \ ToSet(Holding(e, s))
    IN  kSubset(Min({Cap[e] - Len(Holding(e, s)), Cardinality(others)}), others)

\* (bug: the row is not saved)
SeatedUnsaved(e, s, k) == <<Redeems(TokenOf(s.tokens, s.rows[e][k].who, None), e)>>

SeatedByToken(e, s, k) ==
    <<Redeems(TokenOf(s.tokens, s.rows[e][k].who, None), e), Becomes(e, k, "selected")>>

Selected(e, places) == [n \in DOMAIN places |-> Becomes(e, places[n], "selected")]

\* run_lottery
Lotteries(e, s) ==
    LET held == Holding(e, s)
        pre == FlattenSeq([n \in DOMAIN held |-> SeatedByToken(e, s, held[n])])
    IN  {pre \o Selected(e, others) \o <<Draws(e)>> : others \in UNION {SetToSeqs(W) : W \in Sampled(e, s)}}

\* run_cluster_lottery: who holds a token comes first, the others in a
\* random order, and each takes the best of their wishes with a seat left.
Orders(x, s) ==
    LET pending == At(s.tickets[x], "pending")
        holders == {k \in pending : TokenOf(s.tokens, s.tickets[x][k].who, x) # 0}
    IN  {InOrder(holders) \o others : others \in SetToSeqs(pending \ holders)}

\* (bug: the wishes are a set, not a ranking)
AnyWish(wishes, left) ==
    LET n == SelectLastInSeq(wishes, LAMBDA e : left[e] > 0)
    IN  IF n = 0 THEN None ELSE wishes[n]

BestWish(wishes, left) ==
    LET n == SelectInSeq(wishes, LAMBDA e : left[e] > 0)
    IN  IF n = 0 THEN None ELSE wishes[n]

Assigned(x, s, order) ==
    LET free == [e \in Members[x] |-> Max({0, Cap[e] - Count(s.rows[e], "confirmed")})]
        after[n \in 0..Len(order)] ==
            IF n = 0 THEN [left |-> free, to |-> <<>>]
            ELSE LET before == after[n - 1]
                     seat == BestWish(s.tickets[x][order[n]].wishes, before.left)
                 IN  [left |-> [e \in Members[x] |-> before.left[e] - IF e = seat THEN 1 ELSE 0],
                      to |-> Append(before.to, seat)]
    IN  after[Len(order)].to

ClusterDraw(x, s, order) ==
    LET to == Assigned(x, s, order)
        ticket(n) == s.tickets[x][order[n]]
        who(n) == ticket(n).who
        token(n) == TokenOf(s.tokens, who(n), x)
        content(n) == to[n] # None /\ to[n] = Head(ticket(n).wishes)
        consoled(n) == IF content(n) THEN <<>> ELSE <<Issues(who(n), x)>>
        redeeming(n) == IF token(n) = 0 THEN <<>> ELSE <<Redeems(token(n), x)>> \o consoled(n)
        issuing(n) == IF token(n) = 0 THEN consoled(n) ELSE <<>>
        seating(n) == IF to[n] = None THEN <<>>
                      ELSE <<Seats(to[n], who(n)), Marks(x, order[n], "seated")>> \o issuing(n)
        leaving(n) == IF to[n] # None THEN <<>>
                      ELSE <<Marks(x, order[n], "unseated")>> \o issuing(n)
        all(Op(_)) == FlattenSeq([n \in DOMAIN order |-> Op(n)])
        events == SetToSeq(Members[x])
    IN  all(redeeming) \o all(seating) \o all(leaving) \o [n \in DOMAIN events |-> Draws(events[n])]

\* expire_unconfirmed: as many of those left in the pool are selected as
\* were released; a cluster's are its unseated, whatever they wished for.
Expirable(e, s) == At(s.rows[e], "selected") \cup At(s.rows[e], "invited")
ClusterOf(e) == CHOOSE x \in Clusters : e \in Members[x]

\* (bug: the ticket stays unseated)
BackfilledAgain(e, s, k) == <<Seats(e, s.tickets[ClusterOf(e)][k].who)>>

Backfilled(e, s, k) ==
    <<Seats(e, s.tickets[ClusterOf(e)][k].who), Marks(ClusterOf(e), k, "seated")>>

Backfill(e, s) ==
    LET first(pool) == SubSeq(pool, 1, Min({Len(pool), Cardinality(Expirable(e, s))}))
    IN  IF Clustered(e)
        THEN LET next == first(With(s.tickets[ClusterOf(e)], "unseated"))
             IN  FlattenSeq([n \in DOMAIN next |-> Backfilled(e, s, next[n])])
        ELSE IF e \in Staff THEN Selected(e, first(With(s.rows[e], "entered"))) ELSE <<>>

Expiry(e, s) ==
    LET gone == InOrder(Expirable(e, s))
    IN  [n \in DOMAIN gone |-> Becomes(e, gone[n], "released")] \o Backfill(e, s)

\* issue_post_event_tokens
PostEventTokens(e, s) ==
    LET pool == With(s.rows[e], "entered")
    IN  [n \in DOMAIN pool |-> Issues(s.rows[e][pool[n]].who, None)]

(***************************************************************************)
(* The maintenance script.                                                 *)
(***************************************************************************)
Leaves(s) ==
    /\ Len(s.tokens) <= MaxTokens
    /\ rows' = s.rows /\ tickets' = s.tickets /\ tokens' = s.tokens /\ drawn' = s.drawn
    /\ UNCHANGED phase

LotteryDue(e) == e \in Staff /\ ~Clustered(e) /\ e \notin drawn /\ phase[e] >= DrawTime
TokensDue(e) == phase[e] = Past /\ e \in Staff /\ ~Clustered(e)

Drawings(e) == IF LotteryDue(e) THEN Lotteries(e, State) ELSE {<<>>}
Expiring(e, s) == IF phase[e] >= Deadline THEN Expiry(e, s) ELSE <<>>
Issuing(e, s) == IF TokensDue(e) THEN PostEventTokens(e, s) ELSE <<>>

\* _sweep_events, for one event: what is due, in this order.  An expiry that
\* is refused ends it; it is a cluster's, whose events are issued no tokens.
Sweep(e) ==
    /\ phase[e] < Gone
    /\ \E saves \in Drawings(e) :
          LET s == Whole(State, saves)
              x == Whole(s, Expiring(e, s))
          IN  Leaves(Whole(x, Issuing(e, x)))
    /\ UNCHANGED crashes

Crashed(jobs) == MapThenSumSet(LAMBDA job : crashes[job], jobs)
Interrupted(job) == Crashed(Jobs) < MaxCrashes /\ crashes' = [crashes EXCEPT ![job] = @ + 1]

SweepInterrupted(e) ==
    /\ phase[e] < Gone /\ Interrupted(e)
    /\ \E saves \in Drawings(e) :
          LET s == Whole(State, saves)
              x == Whole(s, Expiring(e, s))
          IN  \E part \in Partly(State, saves) \cup Partly(s, Expiring(e, s)) \cup Partly(x, Issuing(e, x)) :
                 part # State /\ Leaves(part)

HasRun(x) == Members[x] \cap drawn # {}
ClusterDue(x) == ~HasRun(x) /\ \E e \in Members[x] : phase[e] >= DrawTime

\* _sweep_events, for one cluster.
SweepCluster(x) ==
    /\ ClusterDue(x)
    /\ \E order \in Orders(x, State) :
          LET saves == ClusterDraw(x, State, order)
          IN  ~Stopped(State, saves) /\ Leaves(Whole(State, saves))
    /\ UNCHANGED crashes

\* A draw that is refused a row is an interruption too: it is left as it is,
\* to be run again.
SweepClusterInterrupted(x) ==
    /\ ClusterDue(x) /\ Interrupted(x)
    /\ \E order \in Orders(x, State) :
          \E part \in Partly(State, ClusterDraw(x, State, order)) : part # State /\ Leaves(part)

\* The events of a cluster are at the same time.
Time(e) ==
    LET together == IF Clustered(e) THEN Members[ClusterOf(e)] ELSE {e}
    IN  /\ phase[e] < Gone
        /\ phase' = [d \in Events |-> IF d \in together THEN phase[d] + 1 ELSE phase[d]]
        /\ UNCHANGED <<rows, tickets, drawn, tokens, crashes>>

(***************************************************************************)
(* The commands.                                                           *)
(***************************************************************************)
Writes(e, r) == rows' = [rows EXCEPT ![e] = r] /\ UNCHANGED <<tickets, drawn, phase, tokens>>

Full(e) == Count(rows[e], "confirmed") >= Cap[e]

\* _rsvp.  Who was released passes its checks, but the second row they would
\* get is refused by the database.
Rsvp(e, c) ==
    /\ phase[e] < Past /\ ~Clustered(e) /\ RowOf(rows[e], c) = 0
    /\ Writes(e, Append(rows[e],
           IF e \in Staff THEN Row(c, "entered", 0)
           ELSE IF Full(e) THEN Row(c, "waitlisted", NewPlace(rows[e]))
           ELSE Row(c, "confirmed", 0)))
    /\ UNCHANGED crashes

HasRsvp(e, c) == RowOf(rows[e], c) # 0 /\ ~Is(rows[e], c, {"released"})

\* release keeps the place in the waitlist.
Release(r, c) == [r EXCEPT ![RowOf(r, c)].status = "released"]

Cancel(e, c) ==
    LET r == Release(rows[e], c)
    IN  /\ HasRsvp(e, c)
        /\ Writes(e, IF Is(rows[e], c, {"confirmed"}) /\ e \notin Staff THEN Promoted(r) ELSE r)
        /\ UNCHANGED crashes

CancelInterrupted(e, c) ==
    /\ Is(rows[e], c, {"confirmed"}) /\ e \notin Staff
    /\ Writes(e, Release(rows[e], c)) /\ Interrupted(e)

Confirm(e, c) ==
    /\ Is(rows[e], c, {"selected", "invited"})
    /\ Writes(e, Set(rows[e], c, "confirmed")) /\ UNCHANGED crashes

\* _invite; staff do not invite to a staff event.
Invite(e, c) ==
    LET r == rows[e]
    IN  /\ ~(e \in Staff /\ e \in StaffHosted)
        /\ Count(r, "confirmed") + Count(r, "invited") < Cap[e]
        /\ ~HasRsvp(e, c) \/ Is(r, c, {"waitlisted"})
        /\ Writes(e, IF RowOf(r, c) = 0 THEN Append(r, Row(c, "invited", 0)) ELSE Set(r, c, "invited"))
        /\ UNCHANGED crashes

\* The web form, which looks at no cap.
InviteFromWeb(e, c) ==
    /\ e \notin Staff /\ RowOf(rows[e], c) = 0
    /\ Writes(e, Append(rows[e], Row(c, "invited", 0))) /\ UNCHANGED crashes

Ping(e) ==
    /\ Places(rows[e]) # {}
    /\ Writes(e, Set(rows[e], NextUp(rows[e]), "invited")) /\ UNCHANGED crashes

\* _token_use: it earmarks a token (which the draw does not look at) and
\* enters its holder, who may even come back from being released; nor does it
\* ask whether the event is of a cluster, which has no lottery of its own.
Redeem(e, c) ==
    LET r == rows[e]
        t == TokenOf(tokens, c, None)
    IN  /\ e \in Staff /\ e \notin drawn /\ t # 0
        /\ tokens' = [tokens EXCEPT ![t].use = e]
        /\ rows' = [rows EXCEPT ![e] =
               IF RowOf(r, c) = 0 THEN Append(r, Row(c, "entered", 0))
               ELSE IF Is(r, c, {"released"})
               THEN [r EXCEPT ![RowOf(r, c)].status = "entered"] ELSE r]
        /\ UNCHANGED <<tickets, drawn, phase, crashes>>

\* +cluster/rank, which may replace what was ranked before.
Submits(x, c, wishes) ==
    LET at == RowOf(tickets[x], c)
    IN  /\ ~HasRun(x)
        /\ at # 0 => Is(tickets[x], c, {"pending"})
        /\ tickets' = [tickets EXCEPT ![x] =
               IF at = 0 THEN Append(@, Ticket(c, wishes)) ELSE [@ EXCEPT ![at].wishes = wishes]]
        /\ UNCHANGED <<rows, drawn, phase, tokens>>

Rankings(x, c) ==
    {wishes \in SetToAllKPermutations({e \in Members[x] : c \in Interest[e]}) : wishes # <<>>}

Rank(x, c) == \E wishes \in Rankings(x, c) : Submits(x, c, wishes) /\ UNCHANGED crashes

\* The old wishes are deleted before the new ones are saved one by one.
RankInterrupted(x, c) ==
    \E wishes \in Rankings(x, c) : Submits(x, c, Front(wishes)) /\ Interrupted(x)

Withdraw(x, c) ==
    /\ ~HasRun(x) /\ Is(tickets[x], c, {"pending"})
    /\ tickets' = [tickets EXCEPT ![x] = RemoveAt(@, RowOf(@, c))]
    /\ UNCHANGED <<rows, drawn, phase, tokens, crashes>>

Init ==
    /\ \E scheduled \in Schedules :
          LET clusters == {x \in DOMAIN Members : Members[x] \subseteq scheduled}
          IN  /\ rows = [e \in scheduled |-> <<>>] /\ tickets = [x \in clusters |-> <<>>]
              /\ phase = [e \in scheduled |-> 0]
              /\ tokens = [n \in DOMAIN Veterans[scheduled] |-> NewToken(Veterans[scheduled][n], None)]
              /\ crashes = [job \in scheduled \cup clusters |-> 0]
    /\ drawn = {}

Player(e, c) ==
    \/ c \in Interest[e] /\ (Rsvp(e, c) \/ Redeem(e, c))
    \/ Cancel(e, c) \/ Confirm(e, c) \/ CancelInterrupted(e, c)
Host(e) == Ping(e) \/ \E c \in Interest[e] : Invite(e, c) \/ InviteFromWeb(e, c)
Script(e) == Sweep(e) \/ SweepInterrupted(e)
Applicant(x, c) == Rank(x, c) \/ RankInterrupted(x, c) \/ Withdraw(x, c)
Draw(x) == SweepCluster(x) \/ SweepClusterInterrupted(x)

Next ==
    \/ \E e \in Events : Time(e) \/ Script(e) \/ Host(e) \/ \E c \in Everyone : Player(e, c)
    \/ \E x \in Clusters : Draw(x) \/ \E c \in Everyone : Applicant(x, c)

Spec == Init /\ [][Next]_vars

(***************************************************************************)
(* Properties.                                                             *)
(***************************************************************************)
Statuses == {"confirmed", "waitlisted", "invited", "entered", "selected", "released"}
Rows == [who : Everyone, status : Statuses, place : Nat]
Tokens == [holder : Everyone, source : Clusters \cup {None}, use : Jobs \cup {None}, redeemed : BOOLEAN]
Applications(x) ==
    [who : Everyone, status : {"pending", "seated", "unseated"}, wishes : SetToAllKPermutations(Members[x])]

\* An event's rows: one per character; a lottery's for staff events only, a
\* waitlist's for others, whose places follow the order they came in.
RowsSound(e, r) ==
    /\ \A k \in DOMAIN r :
          /\ ~Clustered(e) => r[k].who \in Interest[e]
          /\ r[k].status \in {"entered", "selected"} => e \in Staff
          /\ r[k].status = "waitlisted" => e \notin Staff
          /\ r[k].status = "invited" => ~(e \in Staff /\ e \in StaffHosted)
    /\ \A k, l \in DOMAIN r : k < l =>
          /\ r[k].who # r[l].who
          /\ {r[k].status, r[l].status} = {"waitlisted"} => r[k].place < r[l].place

TicketsSound(x, q) ==
    q \in Seq(Applications(x)) /\ \A k, l \in DOMAIN q : k # l => q[k].who # q[l].who

Databases ==
    [rows : [Events -> Seq(Rows)], tickets : [Clusters -> Seq(UNION {Applications(x) : x \in Clusters})],
     tokens : Seq(Tokens), drawn : SUBSET Staff]
Sound(s) ==
    /\ s \in Databases
    /\ \A e \in Events : RowsSound(e, s.rows[e])
    /\ \A x \in Clusters : TicketsSound(x, s.tickets[x])

\* The state is well formed.
TypeOK ==
    /\ Events \in Schedules /\ Clusters = {x \in DOMAIN Members : Members[x] \subseteq Events}
    /\ phase \in [Events -> Phases] /\ crashes \in [Jobs -> 0..MaxCrashes]
    /\ Sound(State)

Taken(r) == Count(r, "confirmed") + Count(r, "selected")

\* A draw never gives out more seats than the cap, by tokens, by lot, by rank
\* or by backfill, confirmed or not; each time it is interrupted, or refused a
\* row, it may give out as many again, since it counts only whom it has seated
\* itself and who has confirmed.
LotteryWithinCap ==
    \A e \in Events \cap Staff \cap StaffHosted :
        Taken(rows[e]) <= Cap[e] * (1 + Crashed({e} \cup {x \in Clusters : e \in Members[x]}))

\* A cluster of events that staff host gives nobody a seat in two of them, by
\* the draw or by backfill, but for an interruption between a row and its
\* ticket's mark.
SeatedIn(x, c) == {e \in Members[x] : Is(rows[e], c, {"selected", "confirmed"})}
OneSeatPerCluster ==
    \A x \in Clusters : Members[x] \subseteq StaffHosted =>
        \A c \in Everyone : Cardinality(SeatedIn(x, c)) <= 1 + Crashed({x} \cup Members[x])

\* When a cluster's draw is through, whoever is not seated, or seated in
\* another event than the one they ranked first, would find every event they
\* ranked higher full.
NoBetterSeatFree ==
    [][\A x \in Clusters : ~HasRun(x) /\ HasRun(x)' =>
         \A ticket \in {tickets[x][k] : k \in At(tickets[x], "pending")} :
           LET seats == {n \in DOMAIN ticket.wishes :
                            Is(rows'[ticket.wishes[n]], ticket.who, {"selected"})}
           IN  \A n \in DOMAIN ticket.wishes :
                  (\A m \in seats : n < m) => Taken(rows'[ticket.wishes[n]]) >= Cap[ticket.wishes[n]]]_vars

\* Nobody waits for a seat that is free: not after any cancellation, promotion,
\* invitation or expiry, except for one seat each time a cancellation died
\* before the promotion.
NoneWaitsByAFreeSeat ==
    \A e \in Events : Places(rows[e]) # {} =>
        Count(rows[e], "confirmed") + crashes[e] >= Cap[e]

\* The inductive invariant, proved in CalendarProofs: as above, but until its
\* draw is through an event has given out seats by interrupted ones alone, and
\* whoever has no ticket marked "seated" was given theirs by one.
HasDrawn(e) == IF Clustered(e) THEN HasRun(ClusterOf(e)) ELSE e \in drawn
SeatsGiven ==
    \A e \in Events \cap Staff \cap StaffHosted :
        Taken(rows[e]) <= Cap[e] * (Crashed({e} \cup {x \in Clusters : e \in Members[x]})
                                    + IF HasDrawn(e) THEN 1 ELSE 0)

SeatsMarked ==
    \A x \in Clusters : Members[x] \subseteq StaffHosted =>
        \A c \in Everyone : Cardinality(SeatedIn(x, c)) <=
            Crashed({x} \cup Members[x]) + IF Is(tickets[x], c, {"seated"}) THEN 1 ELSE 0

\* The events of a cluster stay together.
Together == \A x \in Clusters : \A d, e \in Members[x] : phase[d] = phase[e]

Inv == TypeOK /\ Together /\ NoneWaitsByAFreeSeat /\ SeatsGiven /\ SeatsMarked

\* No token is spent without its holder being seated by that draw, except for
\* one token when it is interrupted between the two saves; and none is ever
\* spent twice or taken back.
TokensBuySeats ==
    [][/\ \A t \in DOMAIN tokens :
             /\ tokens'[t].holder = tokens[t].holder
             /\ tokens[t].redeemed => tokens'[t] = tokens[t]
       /\ \A e \in Events :
             Cardinality({t \in DOMAIN tokens :
                 /\ tokens'[t].redeemed /\ ~tokens[t].redeemed /\ tokens'[t].use = e
                 /\ ~(/\ Is(rows[e], tokens[t].holder, {"entered"})
                      /\ Is(rows'[e], tokens[t].holder, {"selected", "released"}))})
             <= crashes'[e] - crashes[e]]_vars
====
