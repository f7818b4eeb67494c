\* A caller drops the future of a running call.
SPECIFICATION Spec
CONSTANTS
  a1 = a1  i1 = i1  c1 = c1  c2 = c2
  Proc = {p1, p2}
  Claim = {i1, c1}
  Agent = {a1}
  Line <- Lines
  AgentOf <- OneLineAgent
  LineOf <- OneLine
  Seed = {i1}
  GlobalLock = TRUE
  TTL = 1
  Cancellable = TRUE
  Nobody = Nobody
  NoClaim = NoClaim
  MaxTime = 1
  MaxFault = 1
  MaxCrash = 0
INVARIANT VerdictOnce
