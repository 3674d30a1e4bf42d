\* Every command with every number of arguments, sizes at the boundaries of their
\* width, files written by hand and by export, reports in between.
SPECIFICATION Spec
CONSTANTS
  Word = 16384
  PortWord = 4
  Kilo = 10
  Port = {1, 3}
  PortArg = {1, 3, 5}
  Size <- Sizes
  Given <- Files
  Config = {"default", "other"}
  SS_CONFIG = "default"
  Delta = {6, 995}
  NoUser = NoUser
  Blank = Blank
  MaxCommands = 3
  MaxReports = 1
INVARIANTS TypeOK CapAsTyped ExportReadsBack StatIsExact
PROPERTIES UsageFallsOnlyWhenTold LoadAppliesDefault  
CHECK_DEADLOCK FALSE
