\* No oracle; calls that wait for their locks with an instant already read. Deadlock: the clock is bounded.
SPECIFICATION Spec
CONSTANTS
  Never = 10
  Offer <- Mixed
  BoundAt = {2, 8}
  Oracle = FALSE
  Epoch = 2
  MaxClock = 7
  MaxClaims = 3
  MaxWaiting = 2
CHECK_DEADLOCK FALSE
PROPERTY
  PastIsImmutable
