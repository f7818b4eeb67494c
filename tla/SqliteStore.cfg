\* Two write calls and a query at a time, four calls in all, a failing statement and a crash.
\* Deadlock: the clock is bounded.
SPECIFICATION Spec
CONSTANTS
  Task = {p1, p2, p3}
  Nobody = Nobody
  MaxClock = 4
  MaxFault = 1
  MaxCrash = 1
SYMMETRY Tasks
CHECK_DEADLOCK FALSE
INVARIANTS TypeOK WriterNeverRefused DecidesOnCurrent AnswersWhole
PROPERTY KeepsPort
