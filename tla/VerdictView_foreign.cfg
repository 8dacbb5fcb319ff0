SPECIFICATION Spec
CONSTANTS
  Connections = {c1}
  MaxStreams = 1
  Most = 2
  Newest = 2
  Lifetime = 1
  Answers = {ac}
  Unjudged = unjudged
  MaxTrouble = 0
  Polls = {q1}
CHECK_DEADLOCK FALSE
INVARIANTS ShowsItsOwnVerdict
