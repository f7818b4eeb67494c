\* The same offers: a value told twice.
CONSTANTS
  p = p
  q = q
  Predicate = {p, q}
  Offer <- MCOffer
  Asked <- MCAsked
  Lineage <- MCLineage
  Oracle = FALSE
  Epoch = 16
  MaxCalls = 2
  Never = 100
  MaxDepth = 2
  EndText <- MCEndText
  AgingAfter = 1
  DecayedAfter = 2
  Parts = 2
SPECIFICATION Spec
INVARIANT RestatedIsNotContested
CHECK_DEADLOCK FALSE
