---------------------------- MODULE MCSubjectLine ----------------------------
(* Small instances of SubjectLine for TLC. *)
EXTENDS SubjectLine

Offered(value, start, end) ==
  [value |-> value, start |-> start, end |-> end, timed |-> TRUE, origin |-> "external"]

\* A dated claim, one without a date, one that a model derived, and one that the gate
\* quarantines while its start lies ahead.
Mixed == {Offered("a", 1, Never), [Offered("b", NoStart, Never) EXCEPT !.timed = FALSE],
          [Offered("c", 2, Never) EXCEPT !.origin = "derived"], Offered("b", 4, Never)}
=============================================================================
