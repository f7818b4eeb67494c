------------------------------ MODULE MCFacade ------------------------------
(* Small instances of Facade for TLC. *)
EXTENDS Facade

Offered(value, start, end) ==
  [value |-> value, start |-> start, end |-> end, timed |-> TRUE, origin |-> "external"]

\* Two open-ended claims and a closed one, all dated before the engine was opened.
Dated == {Offered("a", 1, Never), Offered("b", 2, Never), Offered("b", 1, 2)}
=============================================================================
