SPECIFICATION RunnerSpec
CONSTANTS
  N = 2
  Programs <- AnyProgram
  MaxMishaps = 1
CHECK_DEADLOCK FALSE
INVARIANT JudgeFailuresAreIE
