\* Postgres, no store-wide lock: one challenger, two tasks, one failing call and one crash.
SPECIFICATION Spec
CONSTANTS
  a1 = a1  i1 = i1  c1 = c1  c2 = c2
  Proc = {p1, p2}
  Claim = {i1, c1}
  Agent = {a1}
  Line <- Lines
  AgentOf <- OneLineAgent
  LineOf <- OneLine
  Seed = {i1}
  GlobalLock = FALSE
  TTL = 1
  Cancellable = FALSE
  Nobody = Nobody
  NoClaim = NoClaim
  MaxTime = 2
  MaxFault = 1
  MaxCrash = 1
SYMMETRY Tasks
INVARIANTS MutualExclusion ExpiryExcludesVerdict RowTellsOutcome
PROPERTY VerdictTakesEffect
