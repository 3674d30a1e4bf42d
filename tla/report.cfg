\* Reports that are whole, broken off, repeated, too deep, too large or no reports at
\* all, with any bytes behind them.
CONSTANTS
  IntWord = 4
  LargeWord = 20
  PortWord = 4
  StackLimit = 3
  MaxVaried = 5
  MaxTokens = 9
  MaxSkipped = 2
  Bad = Bad
  Plain = Plain
  Name <- MCName
  AtolOf <- MCAtolOf
  Port <- MCPort
  ScalarToken <- MCScalarToken
  NameToken <- MCNameToken
  UsualToken <- MCUsualToken
  OtherString <- MCOtherString
  OtherNumber <- MCOtherNumber
SPECIFICATION Spec
INVARIANTS TypeOK ParsedAsJson OnlyDeepTextsThrow
INVARIANTS KilledOnlyByBadReports BilledAsReported EndedBillsNothing
PROPERTIES DoneInTheEnd
CHECK_DEADLOCK FALSE
