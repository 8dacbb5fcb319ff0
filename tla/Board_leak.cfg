SPECIFICATION Spec
CONSTANTS
  Plans <- OpenPlan
  Callers = {c1}
  MaxTime = 2
  Players = {p1}
  Scores = {full}
  Nothing = nothing
  Names = {ann, bea}
  Readers = {r1}
  Loads = {l1}
  TTL = 2
  MaxRevisions = 1
  MaxPending = 2
CHECK_DEADLOCK FALSE
INVARIANT PublicSeesFreezePoint
