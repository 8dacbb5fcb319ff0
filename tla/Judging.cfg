SPECIFICATION FairSpec
CONSTANTS
  Submissions = {s1}
  JudgeVerdicts = {"AC"}
  Requests = {r1, r2}
  Concurrency = 1
  MaxJobAttempts = 2
  MaxStalls = 1
  Budget <- RareEvents
CHECK_DEADLOCK FALSE
INVARIANTS JoblessRowIsExplained LogEndsWithRow
PROPERTIES VerdictIsWriteOnce NeverGivesUpOnLiveJob NoAnswerLost ImplementsLedger EverySubmissionIsAnswered
