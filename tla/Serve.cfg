CONSTANTS
  Requests = {1, 2}
  Blank = Blank
  Text = Text
  Truthy = Truthy
  Malformed = Malformed
  Word = 4096
  Kilo = 4
  Code = "Code"
  State = "State"
  NoApp = NoApp
  Invocations <- SomeInvocations
  Lines <- SomeLines
CHECK_DEADLOCK FALSE
SPECIFICATION FairSpec
INVARIANTS
  TypeOK
  ServesAuthenticated
  AcceptedSettingsWork
  PastedCodeArrives
PROPERTIES
  SignalEnds
