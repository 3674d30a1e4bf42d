\* The daemon finds its way back to the reports, under fair scheduling.
SPECIFICATION FairSpec
CONSTANTS
  Port = {1}
  Placeholder = 9
  Password = {pw}
  DefaultCap = 0
  NoUser = NoUser
  NoLine = NoLine
  Blank = Blank
  Cli = {c1}
  Daemon = daemon
  NotServed = NotServed
  Commands = {"start", "stop", "add", "limit"}
  Caps = {0, 1}
  Inputs <- NoInputs
  Serial = FALSE
  InitialUp = {TRUE}
  InboxCap = 2
  MaxTraffic = 1
  MaxCommands = 2
  Mortal = {"ssserver"}
  MaxCrashes = 1
PROPERTIES LinkRestored 
CHECK_DEADLOCK FALSE
