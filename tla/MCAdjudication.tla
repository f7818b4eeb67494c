--------------------------- MODULE MCAdjudication ---------------------------
(* Small instances of Adjudication for TLC. *)
EXTENDS Adjudication, TLC

CONSTANTS a1, i1, c1, c2

\* One agent, one line: an incumbent and two challengers.
OneLineAgent == [c \in Claim |-> a1]
OneLine      == [c \in Claim |-> "line1"]

Lines == {"line1"}
Tasks == Permutations(Proc)
TasksAndChallengers == Permutations(Proc) \cup Permutations({c1, c2})
=============================================================================
