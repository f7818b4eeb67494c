\* Two lines, four calls, no oracle. Deadlock: the calls are bounded.
CONSTANTS
  p = p
  q = q
  Predicate = {p, q}
  Offer <- MCOffer
  Asked <- MCAsked
  Lineage <- MCLineage
  Oracle = FALSE
  Epoch = 16
  MaxCalls = 4
  Never = 100
  MaxDepth = 2
  EndText <- MCEndText
  AgingAfter = 1
  DecayedAfter = 2
  Parts = 2
SPECIFICATION TimelineSpec
SYMMETRY Twins
INVARIANTS HistoryAgreesWithRecall ArrivalIndependent DerivedNeverDisplaces ReceiptTellsRead DatesShownAsWritten
PROPERTY WhatWasReadStays
CHECK_DEADLOCK FALSE
