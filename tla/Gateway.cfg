CONSTANTS
  r1 = r1
  r2 = r2
  r3 = r3
  Lookups = {r1, r2, r3}
  NoLookup = NoLookup
  Max = 2
  Model <- SentModel
  Catalogue <- OpenRouter
  Tracking = TRUE
  CORS = TRUE
  Inputs <- SomeInputs
CHECK_DEADLOCK FALSE
SPECIFICATION FairSpecGateway
INVARIANTS
  GatewayTypeOK
  FetchedOnce
  PriceOfTheModel
  KeyGuardsUpstream
  LogTellsTheStatus
  CostIsBestEffort
PROPERTIES
  OnlyAnthropicHoldsUp
