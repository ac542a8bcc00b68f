SPECIFICATION Spec
CONSTANTS
  a = a
  b = b
  f = f
  g = g
  NoID = NoID
  NoName = NoName
  RealIDs <- RealPair
  ToolNames <- Tools
  Available <- OnlyF
  Messages <- MCMessages
  MaxCalls = 2
  MaxMessages = 4
INVARIANTS TypeOK ResultsHaveTheirCalls CallsHaveTheirResults
CHECK_DEADLOCK FALSE
