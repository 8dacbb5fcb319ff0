SPECIFICATION RunnerSpec
CONSTANTS
  N = 2
  Programs <- AnyProgram
  MaxMishaps = 0
CHECK_DEADLOCK FALSE
INVARIANT OnlyHogsAreMLE
