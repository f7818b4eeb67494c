-------------------------------- MODULE Dates --------------------------------
(***************************************************************************)
(* Dates as hosts write them, the instants they stand for, and how a date  *)
(* is shown.  A text is the sequence of the parts it states: a year, a     *)
(* month, a day, a time; each has Parts values.  Instants are positive.    *)
(***************************************************************************)
EXTENDS Integers, Sequences

CONSTANT Parts      \* how many months a year has here, days a month, times a day

ASSUME DatesAssumption == Parts \in Nat \ {0}

NoDate  == <<>>     \* an endpoint nobody stated
NoSense == <<0>>    \* anything that is not a date

Start(text, i) == IF i <= Len(text) THEN text[i] - 1 ELSE 0

\* parse_valid_time_date: the start of the period, of which the parts left out are the first.
InstantOf(text) ==
  1 + ((Start(text, 1) * Parts + Start(text, 2)) * Parts + Start(text, 3)) * Parts + Start(text, 4)

Granularity(text) == <<"Year", "Month", "Day", "Instant">>[Len(text)]

\* The formats that are accepted; a month or a day that does not exist is not.
Parsable(text) == Len(text) \in 1..4 /\ text[1] > 0 /\ \A i \in 2..Len(text) : text[i] \in 1..Parts

\* The day an instant falls on.
Day(n) ==
  LET days == (n - 1) \div Parts
      months == days \div Parts
  IN  <<1 + (months \div Parts), 1 + (months % Parts), 1 + (days % Parts)>>

\* Mutant: every endpoint is shown to the day.
Shown_ToTheDay(n, granularity) ==
  Day(n)

\* format_valid_time_endpoint: no finer than the granularity, and never finer than a day.
Shown(n, granularity) ==
  SubSeq(Day(n), 1, CASE granularity = "Year"  -> 1
                      [] granularity = "Month" -> 2
                      [] OTHER                 -> 3)
=============================================================================
