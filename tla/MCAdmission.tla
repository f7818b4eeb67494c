---------------------------- MODULE MCAdmission ----------------------------
(* Two lines of one subject; a year of two months of two days of two times. *)
EXTENDS Trail

CONSTANTS p, q

Of(value, from, until, hint, sure, origin, cardinality, binding) ==
  [value |-> value, from |-> from, until |-> until, hint |-> hint, sure |-> sure, origin |-> origin,
   cardinality |-> cardinality, binding |-> binding]

MCOffer ==
  {Of("x", <<1>>, <<1, 2>>, "text", TRUE, "external", "Functional", "rust"),
   Of("y", <<1, 2, 1>>, NoDate, "text", TRUE, "external", "Functional", "rust"),
   Of("z", <<1, 1, 2, 2>>, <<2>>, "text", TRUE, "external", "SetValued", "python"),
   Of("y", NoDate, NoDate, "text", TRUE, "external", "Functional", "python"),
   Of("x", <<2>>, NoDate, "text", FALSE, "external", "Unknown", "rust"),
   Of("y", <<2, 1>>, <<2, 1>>, "text", TRUE, "external", "Functional", "python"),
   Of("x", <<3, 2, 1, 1>>, NoDate, "Month", TRUE, "external", "Functional", "mcp"),
   Of("z", <<1, 2, 1, 1>>, NoDate, NoPrecision, TRUE, "derived", "Functional", "mcp"),
   Of("x", <<2, 3>>, NoDate, "text", TRUE, "external", "Functional", "python"),
   Of("x", NoDate, NoDate, "text", TRUE, "recall", "Functional", "mcp"),
   Of("x", NoDate, NoDate, "text", TRUE, "hearsay", "Functional", "mcp"),
   Of("x", <<2, 1>>, NoDate, "Month", TRUE, "external", "Functional", "mcp"),
   Of("x", <<2>>, <<1>>, "text", TRUE, "external", "Functional", "rust"),
   Of("z", NoSense, NoDate, "text", TRUE, "external", "Functional", "python")}
MCEndText == {<<2>>, <<1, 2>>}
MCAsked   == {4, 8, 12}
Twins     == Permutations({p, q})
MCLineage == {<<17>>, <<18>>, <<17, 17>>}
=============================================================================
