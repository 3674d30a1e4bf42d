\* One command after the other: users come, go, change caps and passwords, and are
\* loaded from files that list them all, with and without caps and usages; ssserver
\* and the daemon are stopped and started; traffic is reported throughout.
SPECIFICATION Spec
CONSTANTS
  Port = {1, 2}
  Placeholder = 9
  Password = {pw, pv}
  DefaultCap = 0
  NoUser = NoUser
  NoLine = NoLine
  Blank = Blank
  Cli = {c1}
  Daemon = daemon
  NotServed = NotServed
  Commands = {"add", "remove", "limit", "load", "start", "stop"}
  Caps = {0, 1}
  Inputs <- FullInputs
  Serial = TRUE
  InitialUp = {TRUE}
  InboxCap = 2
  MaxTraffic = 1
  MaxCommands = 3
  Mortal = {}
  MaxCrashes = 0
INVARIANTS OverCapCutOff ServedAsConfigured ServedOnlyConfigured
PROPERTIES DaemonKeepsUsers
CHECK_DEADLOCK FALSE
