SPECIFICATION NightSpec
CONSTANTS
  Plans <- FreezingPlan
  Callers = {c1}
  MaxTime = 3
  Players = {player}
  Scores = {half, full}
  Nothing = nothing
  Names = {ann, bea}
  Readers = {r1, r2}
  Loads = {l1, l2}
  TTL = 1
  MaxRevisions = 2
  MaxPending = 2
  People = {"ann", "bob", "eve"}
  ScoredTeams = {"duo", "solo"}
  TeamOf <- TwoAndOne
  Problems = {"own", "shared"}
  Group = {"shared"}
  Base <- Worths
  Points <- TestPoints
  Runs <- SomeRuns
  Overrides <- ByHand
  Awards <- Corrections
  Rules <- NightRules
  MaxSubmissions = 2
  MaxScoreRevisions = 2
  MaxAwards = 1
  Horizon = 1
  Keys = {k1, k2}
  Limit = 2
  WindowMs = 3
  Crowd = 2
  Lag = 1
  Until = 5
  Handlers = {h1, h2}
  Identities <- SharedAddress
  Emails = {"e1"}
  NoEmail = "none"
  HasArena = TRUE
  MaxSignIns = 2
  MaxRemovals = 1
SYMMETRY ReaderSymmetry
CHECK_DEADLOCK FALSE
INVARIANTS CacheIsFresh PastBoardsStand BurstIsBounded SignedInAsOneself SessionsCompete
PROPERTIES FrozenBoardStands SecondSolveChangesNothing
