\* Dated claims, an oracle, and hosts that end facts in the past. Deadlock: the clock is bounded.
SPECIFICATION FacadeSpec
CONSTANTS
  Never = 10
  Offer <- Dated
  BoundAt = {1, 2}
  Oracle = TRUE
  Epoch = 2
  MaxClock = 8
  MaxClaims = 3
  MaxWaiting = 0
  Host = {h1, h2}
CHECK_DEADLOCK FALSE
INVARIANTS
  FacadeTypeOK
  EndedStaysEnded
  OneCloses
  NoneHidden
  HistoryTellsThePast
  DeniedLeavesNoTrace
  NothingCommittedSilently
  AffirmedHandsOver
PROPERTY
  ReconcileIdempotent
