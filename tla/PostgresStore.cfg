\* Two processes, three calls, a failing statement and a crash. Deadlock: the clock is bounded.
SPECIFICATION Spec
CONSTANTS
  p1 = p1  p2 = p2  p3 = p3  e1 = e1  e2 = e2  k1 = k1  k2 = k2
  Task = {p1, p2, p3}
  Engine = {e1, e2}
  EngineOf <- Engines
  Agent = {a1}
  Hash = {h1}
  HashOf <- Collide
  Conn = {k1, k2}
  PoolOf <- Pools
  Nobody = Nobody
  NoConn = NoConn
  MaxClock = 3
  MaxFault = 1
  MaxCrash = 1
  MaxEntries = 2
SYMMETRY Tasks
CHECK_DEADLOCK FALSE
INVARIANTS Numbered DecidesOnCurrent AnswersWhole SomeoneGoesOn
PROPERTY KeepsPort
