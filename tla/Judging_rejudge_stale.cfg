SPECIFICATION Spec
CONSTANTS
  Submissions = {s1}
  JudgeVerdicts = {"AC", "WA"}
  Requests = {r1, r2}
  Concurrency = 1
  MaxJobAttempts = 2
  MaxStalls = 1
  Budget <- OneRejudge
CHECK_DEADLOCK FALSE
INVARIANT RejudgeIsNotDiscarded
