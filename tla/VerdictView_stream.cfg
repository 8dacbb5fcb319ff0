SPECIFICATION FairSpec
CONSTANTS
  Connections = {c1, c2}
  MaxStreams = 1
  Most = 2
  Newest = 2
  Lifetime = 0
  Answers = {ac}
  Unjudged = unjudged
  MaxTrouble = 1
  Polls = {q1}
CHECK_DEADLOCK FALSE
PROPERTIES StreamsArePooled PlacesAreReturned EveryWatchEnds
