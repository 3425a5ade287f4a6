CONSTANTS
  ToolLists <- LongTools
  MaxMessages = 3
  MaxTurns = 3
  Texts <- BlankOrNot
  Efforts <- SomeEfforts
  Limits <- SomeLimits
CHECK_DEADLOCK FALSE
SPECIFICATION Spec
INVARIANTS
  AtMostFourBreakpoints
  ToolsAreRead
  
  ThinkingFits
