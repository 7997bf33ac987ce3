---- MODULE MCCalendar ----
(* Two lotteries in a row, one larger lottery, one capped event, or a       *)
(* cluster of two events.                                                  *)
EXTENDS Calendar, TLC
CONSTANTS ann, bob, cat

Festival == ("festival" :> {"matinee", "gala"})
Calendars == {{"trial", "final"}, {"lottery"}, {"dance"}, {"matinee", "gala"}}
Interested == [e \in UNION Calendars |->
    CASE e = "matinee" -> {ann} [] e \in {"trial", "final"} -> {ann, bob} [] OTHER -> {ann, bob, cat}]
Tokened == [schedule \in Calendars |-> IF "matinee" \in schedule THEN <<ann>> ELSE <<>>]
Caps == [e \in UNION Calendars |-> 1]
====
