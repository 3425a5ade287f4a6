CONSTANTS
  c1 = c1
  c2 = c2
  p1 = p1
  Callers = {c1, c2}
  Logins = {p1}
  NoCaller = NoCaller
  Absent = Absent
  MaxIssued = 3
  Answers <- RotateOrKeep
  Seeded = FALSE

CHECK_DEADLOCK FALSE
SPECIFICATION Spec
PROPERTIES
  OnlyNewerTokens
