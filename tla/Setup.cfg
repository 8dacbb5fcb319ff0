SPECIFICATION SetupSpec
CONSTANTS
  d1 = d1
  A = A
  B = B
  Participants = {p1, p2}
  Teams = {t1}
  Divisions = {d1}
  Labels = {A, B}
  LineUps <- MixedLineUps
  Organizers = {organizer}
  MaxWork = 1
  None = None
  d2 = d2
  first = first
  second = second
  one = one
  two = two
  three = three
  four = four
  Questions = {one, two, three, four}
  Practice = {four}
  Levels = {"E", "M"}
  PlanDivisions = {d1, d2}
  Recipes <- TwoRecipes
  Seeds = {first, second}
  Shuffle <- TwoSeeds
  HandRows <- HandPlaced
  Imported <- SmallBank
  Planners = {o1, o2}
  Team = team
  Nil = nil
  MaxTeamSize = 2
  MaxChanges = 2
  Contents = {c1, c2}
  Authors = {a1, a2}
  NoContent = nocontent
  NoQuestion = noquestion
  MaxVersions = 3
  MaxMishaps = 1
SYMMETRY RosterSymmetry
CHECK_DEADLOCK FALSE
INVARIANTS TeammatesDiffer NobodySeesAQuestionTwice RowsHaveFiles
PROPERTIES DealMakesReady SetsChangeFairly BuiltAsPreviewed BuildMeetsRecipe LiveQuestionStands
