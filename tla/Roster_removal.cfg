SPECIFICATION RosterSpec
CONSTANTS
  d1 = d1
  A = A
  B = B
  Participants = {p1}
  Teams = {t1}
  Divisions = {d1}
  Labels = {A, B}
  LineUps <- MixedLineUps
  Organizers = {o1}
  MaxWork = 1
  None = None
CHECK_DEADLOCK FALSE
PROPERTY RemovalIsConfirmed
