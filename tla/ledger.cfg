\* One operation after the other, across stops, starts and a death of ssserver: the
\* whole system seen as one table.
SPECIFICATION Spec
CONSTANTS
  Port = {1, 2}
  Placeholder = 9
  Password = {pw}
  DefaultCap = 0
  NoUser = NoUser
  NoLine = NoLine
  Blank = Blank
  Cli = {c1}
  Daemon = daemon
  NotServed = NotServed
  Commands = {"add", "remove", "limit", "reset", "reset_all", "load", "start", "stop"}
  Caps = {0, 1}
  Inputs <- UserInputs
  Serial = TRUE
  InitialUp = {TRUE}
  InboxCap = 2
  MaxTraffic = 1
  MaxCommands = 3
  Mortal = {"ssserver"}
  MaxCrashes = 1
PROPERTIES ImplementsLedger
CHECK_DEADLOCK FALSE
