\* SQLite: two challengers of one incumbent, two tasks, nothing fails.
SPECIFICATION Spec
CONSTANTS
  a1 = a1  i1 = i1  c1 = c1  c2 = c2
  Proc = {p1, p2}
  Claim = {i1, c1, c2}
  Agent = {a1}
  Line <- Lines
  AgentOf <- OneLineAgent
  LineOf <- OneLine
  Seed = {i1}
  GlobalLock = TRUE
  TTL = 1
  Cancellable = FALSE
  Nobody = Nobody
  NoClaim = NoClaim
  MaxTime = 1
  MaxFault = 0
  MaxCrash = 0
SYMMETRY TasksAndChallengers
INVARIANTS TypeOK VerdictOnce AffirmDisplaces
PROPERTY Outcomes
