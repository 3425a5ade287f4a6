CONSTANTS
  q1 = q1
  q2 = q2
  bg = bg
  Callers = {q1, q2}
  Requests = {q1, q2}
  Logins = {}
  NoCaller = NoCaller
  Absent = Absent
  MaxIssued = 3
  Answers <- Keeping
  Kinds <- ChatOnly
  Seeded = TRUE
SYMMETRY Symmetry
CHECK_DEADLOCK FALSE
SPECIFICATION SpecFlow
INVARIANTS
  TypeOK
  No401OfAnOldToken
PROPERTIES
  OnlyNewerTokens
