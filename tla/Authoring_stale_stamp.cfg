SPECIFICATION AuthoringSpec
CONSTANTS
  Contents = {c1, c2}
  Authors = {a1, a2}
  NoContent = nocontent
  NoQuestion = noquestion
  MaxVersions = 3
  MaxMishaps = 0
CHECK_DEADLOCK FALSE
INVARIANT StampDescribesContent
