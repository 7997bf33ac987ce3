------------------------------ MODULE Periodic ------------------------------
(***************************************************************************)
(* evennia_links/periodic.py: the bookkeeping of a batch script, as the    *)
(* operators advance() is made of.  A period's label is its number, and a  *)
(* backoff is only that an entry is not due until some time has passed.    *)
(***************************************************************************)
EXTENDS Integers, Sequences

CONSTANTS
    Characters,    \* the eligible ones, who stay so
    Periods,       \* completed periods, in order
    MaxAttempts,   \* MAX_ATTEMPTS
    MaxPending     \* MAX_PENDING

ASSUME PeriodicAssumption ==
    /\ Periods \subseteq Nat
    /\ MaxAttempts \in Nat \ {0}
    /\ MaxPending \in Nat \ {0}

(* `ids` is None at first: all who are eligible. *)
Entry == [period  : Periods,
          ids     : SUBSET Characters,
          attempt : 0..(MaxAttempts - 1),
          due     : BOOLEAN]

(* What the script keeps in an Attribute; -1 is no period yet. *)
State == [latest : Periods \cup {-1}, pending : Seq(Entry)]

NoState == [latest |-> -1, pending |-> <<>>]

(* Who an entry is for, with its period. *)
Claims(pending) ==
    UNION {pending[k].ids \X {pending[k].period} : k \in DOMAIN pending}

(* Mutant of Queued: the newest period goes first. *)
QueuedFirst(pending, current) ==
    <<[period |-> current, ids |-> Characters, attempt |-> 0, due |-> TRUE]>> \o pending

Queued(pending, current) ==
    Append(pending, [period |-> current, ids |-> Characters, attempt |-> 0, due |-> TRUE])

(* state["pending"][-MAX_PENDING:] *)
Newest(pending) ==
    IF Len(pending) > MaxPending
    THEN SubSeq(pending, Len(pending) - MaxPending + 1, Len(pending)) ELSE pending

(* advance() up to the pause: `current` is queued if it is new. *)
Enqueue(state, current) ==
    IF current = state.latest THEN state
    ELSE [latest |-> current, pending |-> Newest(Queued(state.pending, current))]

(* Mutant of GivesUp: one attempt too few. *)
GivesUpEarly(entry) == entry.attempt + 2 >= MaxAttempts

GivesUp(entry) == entry.attempt + 1 >= MaxAttempts

(* Mutant of Retry: the failures are forgotten. *)
RetryNone(entry, failed) == <<>>

(* Mutant of Retry: the attempt is not counted. *)
RetryUncounted(entry, failed) ==
    IF failed = {} \/ GivesUp(entry) THEN <<>>
    ELSE <<[period |-> entry.period, ids |-> failed, attempt |-> entry.attempt, due |-> FALSE]>>

(* What is left of an entry that failed for `failed`. *)
Retry(entry, failed) ==
    IF failed = {} \/ GivesUp(entry) THEN <<>>
    ELSE <<[period |-> entry.period, ids |-> failed, attempt |-> entry.attempt + 1,
            due |-> FALSE]>>
=============================================================================
