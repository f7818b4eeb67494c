\* Two processes, two attempts, one failure, one crash. Deadlock: attempts and rows are bounded.
CONSTANTS
  p = p
  q = q
  Process = {p, q}
  Offer <- MCOffer
  Legacy <- MCLegacy
  Cutoff <- MCCutoff
  Nobody = Nobody
  Null = Null
  MaxAttempts = 2
  MaxRows = 2
  MaxFault = 1
  MaxCrash = 1
SPECIFICATION Spec
INVARIANTS OpenedIsCurrent ReadsBack
CHECK_DEADLOCK FALSE
