SPECIFICATION ClocksSpec
CONSTANTS
  Plans <- ShortPlans
  Callers = {c1, c2}
  MaxTime = 4
  Logins = {l1, l2, l3, l4}
  MaxActive = 2
  MaxQueued = 2
  FreeAttempts = 1
  Cap = 2
  MaxFailures = 4
  MaxArrivals = 7
  N = 2
  Programs <- AnyProgram
  MaxMishaps = 2
CHECK_DEADLOCK FALSE
INVARIANTS GuessingSlowsDown VerdictsAreEarned DeathCostsNoTest
PROPERTIES ClockIsNeverEarly CutoffStands OverdueContestEnds EveryWaiterIsServed JudgeEnds
