\* Two tools start, stop, edit and load side by side, and ssserver or the daemon
\* dies once.  Over two ports the lines of two writers of the file overlap.
SPECIFICATION Spec
CONSTANTS
  Port = {1, 2}
  Placeholder = 9
  Password = {pw}
  DefaultCap = 0
  NoUser = NoUser
  NoLine = NoLine
  Blank = Blank
  Cli = {c1, c2}
  Daemon = daemon
  NotServed = NotServed
  Commands = {"start", "stop", "add", "load"}
  Caps = {0}
  Inputs <- OneInput
  Serial = FALSE
  InitialUp = {FALSE}
  InboxCap = 1
  MaxTraffic = 1
  MaxCommands = 3
  Mortal = {"ssserver", "sswatcherd"}
  MaxCrashes = 1
INVARIANTS TypeOK  
CHECK_DEADLOCK FALSE
