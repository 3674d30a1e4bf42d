\* ssserver does not run.
SPECIFICATION Spec
CONSTANTS
  Port = {1}
  Placeholder = 9
  Password = {pw}
  DefaultCap = 0
  NoUser = NoUser
  NoLine = NoLine
  Blank = Blank
  Cli = {c1}
  Daemon = daemon
  NotServed = NotServed
  Commands = {"add", "remove", "limit"}
  Caps = {0, 1}
  Inputs <- NoInputs
  Serial = FALSE
  InitialUp = {FALSE}
  InboxCap = 2
  MaxTraffic = 1
  MaxCommands = 2
  Mortal = {}
  MaxCrashes = 0
PROPERTIES EditsAreWritten
CHECK_DEADLOCK FALSE
