\* The tool and the daemon read and rewrite the file without a lock.
SPECIFICATION Spec
CONSTANTS
  Port = {1, 2}
  Placeholder = 9
  Password = {pw}
  DefaultCap = 0
  NoUser = NoUser
  NoLine = NoLine
  Blank = Blank
  Cli = {c1}
  Daemon = daemon
  NotServed = NotServed
  Commands = {"add"}
  Caps = {0, 1}
  Inputs <- NoInputs
  Serial = FALSE
  InitialUp = {TRUE}
  InboxCap = 2
  MaxTraffic = 1
  MaxCommands = 2
  Mortal = {}
  MaxCrashes = 0
PROPERTIES DaemonKeepsUsers
