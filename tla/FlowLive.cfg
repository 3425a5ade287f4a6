CONSTANTS
  q1 = q1
  q2 = q2
  bg = bg
  Callers = {q1, bg}
  Requests = {q1}
  Logins = {}
  NoCaller = NoCaller
  Absent = Absent
  MaxIssued = 2
  Answers <- Rotating
  Kinds <- AllKinds
  Seeded = FALSE

CHECK_DEADLOCK FALSE
SPECIFICATION FairSpecFlow
PROPERTIES
  EveryRequestAnswered
  EveryCallReturns
  Renewal
