CONSTANTS
  c1 = c1
  c2 = c2
  p1 = p1
  Callers = {c1, c2}
  Logins = {p1}
  NoCaller = NoCaller
  Absent = Absent
  MaxIssued = 3
  Answers <- AllAnswers
  Seeded = FALSE
SYMMETRY Symmetry
CHECK_DEADLOCK FALSE
SPECIFICATION Spec
INVARIANTS
  OneAtATime
  NoReplay
  
  NeverExpiredOnArrival
  ForcedIsNew
  ReplayInv
  
