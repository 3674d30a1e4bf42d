\* Every form that the usage message lists.
SPECIFICATION Spec
CONSTANTS
  Word = 16384
  PortWord = 4
  Kilo = 10
  Port = {1, 3}
  PortArg = {1, 3, 5}
  Size <- FewSizes
  Given <- Files
  Config = {"default", "other"}
  SS_CONFIG = "default"
  Delta = {6, 995}
  NoUser = NoUser
  Blank = Blank
  MaxCommands = 2
  MaxReports = 1
INVARIANTS ListedFormsCarriedOut
CHECK_DEADLOCK FALSE
