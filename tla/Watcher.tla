------------------------------ MODULE Watcher ------------------------------
(***************************************************************************)
(* sswatcher at work: invocations of the command line tool                 *)
(* (watcher/main.cpp), the daemon sswatcherd (daemon/main.cpp), the file   *)
(* sswatcher.conf that both read and rewrite without a lock, and ssserver, *)
(* which keeps one control client and answers whoever spoke to it last.    *)
(*                                                                         *)
(* Both programs run the methods of ConfigMgr, so a process x is either a  *)
(* member of Cli or the Daemon, and the steps of write_conf and of the     *)
(* senders of requests are actions with the process as parameter.          *)
(*                                                                         *)
(* ssserver is not part of this repository.  It is modelled from how the   *)
(* code uses it: requests add, remove and ping; its periodic "stat:"       *)
(* message goes to the address of the last request (which is why the tool  *)
(* signals the daemon and why the daemon pings); a port must be removed    *)
(* before it can be added again (operation.cpp:288).  It is one thread     *)
(* with one FIFO socket, so a request takes effect when it is sent.        *)
(***************************************************************************)
EXTENDS UserTable, Sequences

CONSTANTS
  Cli,          \* invocations of sswatcher that may run side by side
  Daemon,       \* the process sswatcherd
  NotServed,    \* ssserver does not serve the port
  Commands,     \* the kinds of command the tool is given
  Caps,         \* the caps the tool is given
  Inputs,       \* the files the tool is told to load
  Serial,       \* TRUE: no operation starts before the last is absorbed
  InitialUp,    \* the initial states of ssserver and sswatcherd
  InboxCap,     \* messages the daemon's datagram socket holds
  MaxTraffic,   \* bound on the units of traffic of one port
  MaxCommands,  \* bound on the commands given
  Mortal,       \* which of "ssserver" and "sswatcherd" may die
  MaxCrashes    \* bound on their deaths

ASSUME CliAssumption == Daemon \notin Cli
ASSUME NotServedAssumption == NotServed \notin Password
ASSUME InputAssumption ==
  /\ Inputs \subseteq [Slot -> Line \cup {NoLine}]
  /\ Caps \subseteq Nat
ASSUME InitialUpAssumption == InitialUp \subseteq BOOLEAN

VARIABLES
  conf,         \* the contents of sswatcher.conf
  pc,           \* where each process is
  users,        \* ConfigMgr::users of each process
  out,          \* the requests a method has yet to send
  left,         \* the ports whose lines write_conf has yet to write
  job,          \* the kind of command a cli process runs
  comm,         \* ConfigMgr::comm: "none", or connected "live" or "stale"
  msg,          \* the response the daemon is handling
  inbox,        \* the messages in the daemon's socket
  flag,         \* should_connect
  constructed,  \* the daemon's ConfigMgr exists
  link,         \* the daemon's own Communicator: "none", "live", "stale"
  up,           \* ssserver runs
  served,       \* the ports ssserver serves, with their passwords
  stats,        \* the traffic ssserver has counted and not reported
  ctl,          \* the control client: "none", "watcher" or "watcherd"
  traffic,      \* history: all traffic of each port
  credit,       \* history: the usage that loaded files claimed for each port
  commands,     \* history: commands given so far
  crashes       \* history: deaths so far

cliVars    == <<job, commands>>
daemonVars == <<msg, inbox, flag, constructed, link>>
serverVars == <<up, served, stats, ctl>>
ghostVars  == <<traffic, credit, crashes>>
vars == <<conf, pc, users, out, left, comm, cliVars, daemonVars, serverVars,
          ghostVars>>

Proc == Cli \cup {Daemon}
ServerPort == Port \cup {Placeholder}

(***************************************************************************)
(* What Communicator::receive returns.  A stat message also carries, as    *)
(* history, the traffic ssserver had counted when it sent it.              *)
(***************************************************************************)
Nothing   == [kind |-> "nothing"]
Timeout   == [kind |-> "timeout"]
Interrupt == [kind |-> "interrupt"]
Pong      == [kind |-> "pong"]
Stat(d, total) == [kind |-> "stat", delta |-> d, upto |-> total]

Message == [kind : {"nothing", "timeout", "interrupt", "pong"}]
             \cup [kind : {"stat"}, delta : [Port -> Nat], upto : [Port -> Nat]]

NoTraffic == [p \in Port |-> 0]

DaemonPc == {"dead", "boot", "arm", "receive", "construct", "load", "request",
             "open", "write", "refresh", "flag", "clear"}
CliPc == {"idle", "request", "open", "write", "refresh", "init", "spawn",
          "stopping"}
Job == {"none", "edit", "quiet", "load", "start"}

TypeOK ==
  /\ conf \in File
  /\ pc \in [Proc -> DaemonPc \cup CliPc]
  /\ pc[Daemon] \in DaemonPc /\ \A c \in Cli : pc[c] \in CliPc
  /\ users \in [Proc -> Table]
  /\ out \in [Proc -> SUBSET Request]
  /\ left \in [Proc -> SUBSET Port]
  /\ job \in [Cli -> Job]
  /\ comm \in [Proc -> {"none", "live", "stale"}]
  /\ msg \in Message /\ inbox \in Seq(Message)
  /\ flag \in BOOLEAN /\ constructed \in BOOLEAN
  /\ link \in {"none", "live", "stale"}
  /\ up \in BOOLEAN
  /\ served \in [ServerPort -> Password \cup {NotServed}]
  /\ stats \in [Port -> Nat]
  /\ ctl \in {"none", "watcher", "watcherd"}
  /\ traffic \in [Port -> Nat] /\ credit \in [Port -> Nat]
  /\ commands \in Nat /\ crashes \in Nat

-----------------------------------------------------------------------------
Current == LoadTable(conf, EmptyTable)

\* The daemon's process has a bound socket and waits or works in its loop.
DaemonListens == pc[Daemon] \notin {"dead", "boot"}

FreshServer == [p \in ServerPort |-> NotServed]

Init ==
  /\ conf = EmptyFile
  /\ up \in InitialUp
  /\ pc = [x \in Proc |-> IF x # Daemon THEN "idle"
                          ELSE IF up THEN "receive" ELSE "dead"]
  /\ users = [x \in Proc |-> EmptyTable]
  /\ out = [x \in Proc |-> {}]
  /\ left = [x \in Proc |-> {}]
  /\ job = [c \in Cli |-> "none"]
  /\ comm = [x \in Proc |-> "none"]
  /\ msg = Nothing /\ inbox = <<>> /\ flag = FALSE
  /\ constructed = up
  /\ link = IF up THEN "live" ELSE "none"
  /\ served = FreshServer
  /\ stats = NoTraffic
  /\ ctl = IF up THEN "watcherd" ELSE "none"
  /\ traffic = NoTraffic /\ credit = NoTraffic
  /\ commands = 0 /\ crashes = 0

-----------------------------------------------------------------------------
(* ssserver *)

\* What a request does to the ports served; to add a served port is an error.
Obey(s, r) ==
  IF r.kind = "remove" THEN [s EXCEPT ![r.port] = NotServed]
  ELSE [s EXCEPT ![r.port] = IF @ = NotServed THEN r.pw ELSE @]

\* A datagram to the daemon is dropped when its socket is full.
Deliver(m) == IF Len(inbox) < InboxCap THEN Append(inbox, m) ELSE inbox

\* A client moves one unit of data through a served port.
Traffic(p) ==
  /\ up /\ served[p] # NotServed
  /\ traffic[p] < MaxTraffic
  /\ stats' = [stats EXCEPT ![p] = @ + 1]
  /\ traffic' = [traffic EXCEPT ![p] = @ + 1]
  /\ UNCHANGED <<conf, pc, users, out, left, comm, cliVars, daemonVars,
                 up, served, ctl, credit, crashes>>

\* Mutant of SendStat: what was reported is reported again.
SendStatAgain ==
  /\ up
  /\ \E p \in Port : served[p] # NotServed \/ stats[p] > 0
  /\ inbox' = IF ctl = "watcherd" /\ DaemonListens
              THEN Deliver(Stat(stats, traffic)) ELSE inbox
  /\ UNCHANGED <<conf, pc, users, out, left, comm, cliVars, msg, flag,
                 constructed, link, serverVars, ghostVars>>

\* The periodic report: sent to the control client, then forgotten.  Ports
\* in use by less than a unit make a report whose deltas are all zero.
SendStat ==
  /\ up
  /\ \E p \in Port : served[p] # NotServed \/ stats[p] > 0
  /\ inbox' = IF ctl = "watcherd" /\ DaemonListens
              THEN Deliver(Stat(stats, traffic)) ELSE inbox
  /\ stats' = NoTraffic
  /\ UNCHANGED <<conf, pc, users, out, left, comm, cliVars, msg, flag,
                 constructed, link, up, served, ctl, ghostVars>>

\* ssserver is gone: connected sockets now refer to a dead peer.
ServerGone ==
  /\ up' = FALSE
  /\ served' = FreshServer
  /\ stats' = NoTraffic
  /\ ctl' = "none"

Stale(s) == IF s = "live" THEN "stale" ELSE s

ServerCrash ==
  /\ up /\ "ssserver" \in Mortal /\ crashes < MaxCrashes
  /\ crashes' = crashes + 1
  /\ ServerGone
  /\ comm' = [x \in Proc |-> Stale(comm[x])]
  /\ link' = Stale(link)
  /\ UNCHANGED <<conf, pc, users, out, left, cliVars, msg, inbox, flag,
                 constructed, traffic, credit>>

-----------------------------------------------------------------------------
(* Steps of both programs *)

\* The memory of process x when it ends.
Forget(x) ==
  /\ users' = [users EXCEPT ![x] = EmptyTable]
  /\ out' = [out EXCEPT ![x] = {}]
  /\ left' = [left EXCEPT ![x] = {}]
  /\ comm' = [comm EXCEPT ![x] = "none"]

CliExits(c) ==
  /\ pc' = [pc EXCEPT ![c] = "idle"]
  /\ job' = [job EXCEPT ![c] = "none"]
  /\ Forget(c)

\* What is lost with the daemon: its socket, and all it held in memory.
DaemonForgets ==
  /\ msg' = Nothing /\ inbox' = <<>> /\ flag' = FALSE
  /\ constructed' = FALSE /\ link' = "none"

DaemonExits ==
  /\ pc' = [pc EXCEPT ![Daemon] = "dead"]
  /\ Forget(Daemon)
  /\ DaemonForgets

Sending == {"request", "refresh", "init"}

\* send_add_request and send_remove_request: the next request of process x,
\* over a connection that is made on first use.
SendRequest(x) ==
  /\ pc[x] \in Sending
  /\ up /\ comm[x] # "stale"
  /\ \E r \in out[x] :
       /\ \A s \in out[x] : r.ord <= s.ord
       /\ out' = [out EXCEPT ![x] = @ \ {r}]
       /\ served' = Obey(served, r)
  /\ comm' = [comm EXCEPT ![x] = "live"]
  /\ ctl' = "watcher"
  /\ UNCHANGED <<conf, pc, users, left, cliVars, daemonVars, up, stats,
                 ghostVars>>

\* Communicator exits the process when it cannot connect or send.
SendFails(x) ==
  /\ pc[x] \in Sending /\ out[x] # {}
  /\ ~up \/ comm[x] = "stale"
  /\ IF x = Daemon
     THEN DaemonExits /\ UNCHANGED job
     ELSE CliExits(x) /\ UNCHANGED daemonVars
  /\ UNCHANGED <<conf, commands, serverVars, ghostVars>>

\* write_conf opens the file, which truncates it.
Truncate(x) ==
  /\ pc[x] = "open" \/ (x \in Cli /\ pc[x] = "request" /\ out[x] = {})
  /\ conf' = EmptyFile
  /\ left' = [left EXCEPT ![x] = Managed(users[x])]
  /\ pc' = [pc EXCEPT ![x] = "write"]
  /\ UNCHANGED <<users, out, comm, cliVars, daemonVars, serverVars, ghostVars>>

\* export_to: each line is flushed by its endl.
WriteLine(x) ==
  /\ pc[x] = "write"
  /\ \E p \in left[x] :
       /\ \A q \in left[x] : p <= q
       /\ conf' = [conf EXCEPT ![SlotOf(users[x], p)] = LineOf(users[x], p)]
       /\ left' = [left EXCEPT ![x] = @ \ {p}]
  /\ UNCHANGED <<pc, users, out, comm, cliVars, daemonVars, serverVars,
                 ghostVars>>

\* The file is closed and refresh_all_users begins.
CloseConf(x) ==
  /\ pc[x] = "write" /\ left[x] = {}
  /\ out' = [out EXCEPT ![x] = RefreshRequests(users[x])]
  /\ pc' = [pc EXCEPT ![x] = "refresh"]
  /\ UNCHANGED <<conf, users, left, comm, cliVars, daemonVars, serverVars,
                 ghostVars>>

-----------------------------------------------------------------------------
(* The command line tool *)

\* Nothing is under way and the daemon's memory is what the file says.
Quiescent ==
  /\ \A c \in Cli : pc[c] = "idle"
  /\ pc[Daemon] = "dead"
       \/ (pc[Daemon] = "receive" /\ constructed /\ users[Daemon] = Current)

\* A new process: ConfigMgr's constructor loads the file, handle_input calls
\* the method, which leaves table t in memory and requests o to be sent.
Begin(c, command, kind, t, o, p) ==
  /\ command \in Commands /\ commands < MaxCommands
  /\ pc[c] = "idle"
  /\ Serial => Quiescent
  /\ commands' = commands + 1
  /\ job' = [job EXCEPT ![c] = kind]
  /\ users' = [users EXCEPT ![c] = t]
  /\ out' = [out EXCEPT ![c] = o]
  /\ pc' = [pc EXCEPT ![c] = p]
  /\ UNCHANGED <<conf, left, comm, daemonVars>>

\* add, update: an existing port is removed first and keeps its usage.
AddPort(c) ==
  \E p \in Port, w \in Password, k \in Caps :
    LET known == p \in Managed(Current)
        u == [pw |-> w, cap |-> k,
              usage |-> IF known THEN Current[p].usage ELSE 0]
        o == (IF known THEN {RemoveRequest(0, p)} ELSE {})
               \cup {AddRequest(1, p, w)}
    IN  /\ Begin(c, "add", "edit", [Current EXCEPT ![p] = u], o, "request")
        /\ UNCHANGED <<serverVars, ghostVars>>

\* Mutant of RemovePort: ssserver is not told.
RemovePortQuietly(c) ==
  \E p \in Managed(Current) :
    /\ Begin(c, "remove", "edit", [Current EXCEPT ![p] = NoUser], {}, "request")
    /\ UNCHANGED <<serverVars, ghostVars>>

\* remove: an unknown port is an error and changes nothing.
RemovePort(c) ==
  \E p \in Managed(Current) :
    /\ Begin(c, "remove", "edit", [Current EXCEPT ![p] = NoUser],
             {RemoveRequest(0, p)}, "request")
    /\ UNCHANGED <<serverVars, ghostVars>>

\* limit
UpdateDatacap(c) ==
  \E p \in Managed(Current), k \in Caps :
    /\ Begin(c, "limit", "edit", [Current EXCEPT ![p].cap = k], {}, "open")
    /\ UNCHANGED <<serverVars, ghostVars>>

\* reset
ResetUsage(c) ==
  \E p \in Managed(Current) :
    /\ Begin(c, "reset", "edit", [Current EXCEPT ![p].usage = 0], {}, "open")
    /\ UNCHANGED <<serverVars, ghostVars>>

\* reset_all does not signal the daemon.
ResetAllUsage(c) ==
  /\ Begin(c, "reset_all", "quiet",
           [p \in Port |-> IF Current[p] = NoUser THEN NoUser
                           ELSE [Current[p] EXCEPT !.usage = 0]],
           {}, "open")
  /\ UNCHANGED <<serverVars, ghostVars>>

\* The usage a loaded file claims for a port, whatever was measured.
Claimed(f, p) ==
  IF LoadTable(f, EmptyTable)[p] = NoUser THEN 0
  ELSE LoadTable(f, EmptyTable)[p].usage

\* load: the tables are merged, and known users whose cap changed are added.
ImportFrom(c) ==
  \E f \in Inputs :
    /\ Begin(c, "load", "load", LoadTable(f, Current),
             ReloadRequests(f, Current), "request")
    /\ credit' = [p \in Port |-> credit[p] + Claimed(f, p)]
    /\ UNCHANGED <<serverVars, traffic, crashes>>

\* After the file is written, load tells a running ssserver about every user.
InitAfterImport(c) ==
  /\ pc[c] = "refresh" /\ out[c] = {} /\ job[c] = "load"
  /\ out' = [out EXCEPT ![c] = IF up THEN InitRequests(users[c]) ELSE {}]
  /\ pc' = [pc EXCEPT ![c] = "init"]
  /\ UNCHANGED <<conf, users, left, comm, cliVars, daemonVars, serverVars,
                 ghostVars>>

\* start: ssserver is started unless it runs, and told about every user.
StartServer(c) ==
  /\ ~up
  /\ Begin(c, "start", "start", Current, InitRequests(Current), "init")
  /\ up' = TRUE
  /\ \E w \in Password : served' = [FreshServer EXCEPT ![Placeholder] = w]
  /\ UNCHANGED <<stats, ctl, ghostVars>>

StartFoundServer(c) ==
  /\ up
  /\ Begin(c, "start", "start", Current, {}, "spawn")
  /\ UNCHANGED <<serverVars, ghostVars>>

\* ... and so is the daemon, which requires ssserver.
SpawnDaemon(c) ==
  /\ pc[c] = "spawn" \/ (pc[c] = "init" /\ out[c] = {} /\ job[c] = "start")
  /\ pc' = [pc EXCEPT ![c] = "idle",
                      ![Daemon] = IF @ = "dead" /\ up THEN "boot" ELSE @]
  /\ job' = [job EXCEPT ![c] = "none"]
  /\ Forget(c)
  /\ UNCHANGED <<conf, commands, daemonVars, serverVars, ghostVars>>

\* stop: SIGTERM ends the daemon wherever it is, then ssserver is stopped.
StopDaemon(c) ==
  /\ "stop" \in Commands /\ commands < MaxCommands
  /\ pc[c] = "idle"
  /\ Serial => Quiescent
  /\ commands' = commands + 1
  /\ pc' = [pc EXCEPT ![c] = "stopping", ![Daemon] = "dead"]
  /\ Forget(Daemon) /\ DaemonForgets
  /\ UNCHANGED <<conf, job, serverVars, ghostVars>>

StopServer(c) ==
  /\ pc[c] = "stopping"
  /\ pc' = [pc EXCEPT ![c] = "idle"]
  /\ ServerGone
  /\ comm' = [x \in Proc |-> Stale(comm[x])]
  /\ link' = Stale(link)
  /\ UNCHANGED <<conf, users, out, left, cliVars, msg, inbox, flag,
                 constructed, ghostVars>>

\* The command has done its work.
Finished(c) ==
  /\ out[c] = {}
  /\ (pc[c] = "refresh" /\ job[c] \in {"edit", "quiet"})
       \/ (pc[c] = "init" /\ job[c] = "load")

\* send_connect_signal: SIGUSR1 ends a select that is waiting, and is only
\* noted otherwise.  Until the daemon has installed connect_handler, the
\* handler it inherited from its parent ends it.
SignalDaemon(c) ==
  /\ Finished(c) /\ job[c] # "quiet"
  /\ job' = [job EXCEPT ![c] = "none"]
  /\ \/ /\ pc[Daemon] = "receive"
        /\ pc' = [pc EXCEPT ![c] = "idle",
                            ![Daemon] = IF constructed THEN "load"
                                        ELSE "construct"]
        /\ msg' = Interrupt /\ flag' = TRUE
        /\ Forget(c)
        /\ UNCHANGED <<inbox, constructed, link>>
     \/ /\ pc[Daemon] \notin {"dead", "boot", "arm"}
        /\ pc' = [pc EXCEPT ![c] = "idle"]
        /\ flag' = TRUE
        /\ Forget(c)
        /\ UNCHANGED <<msg, inbox, constructed, link>>
     \/ /\ pc[Daemon] \in {"boot", "arm"}
        /\ pc' = [pc EXCEPT ![c] = "idle", ![Daemon] = "dead"]
        /\ users' = [users EXCEPT ![c] = EmptyTable]
        /\ comm' = [comm EXCEPT ![c] = "none"]
        /\ DaemonForgets
        /\ UNCHANGED <<out, left>>
     \/ /\ pc[Daemon] = "dead"
        /\ pc' = [pc EXCEPT ![c] = "idle"]
        /\ Forget(c)
        /\ UNCHANGED daemonVars
  /\ UNCHANGED <<conf, commands, serverVars, ghostVars>>

ExitQuietly(c) ==
  /\ Finished(c) /\ job[c] = "quiet"
  /\ CliExits(c)
  /\ UNCHANGED <<conf, commands, daemonVars, serverVars, ghostVars>>

-----------------------------------------------------------------------------
(* The daemon *)

\* Communicator::send_request("ping") on the daemon's own socket.
Ping ==
  /\ link = "live"
  /\ ctl' = "watcherd"
  /\ inbox' = Deliver(Pong)
  /\ UNCHANGED <<up, served, stats, link>>

\* Started: bind, connect, and the first ping.
DaemonBoot ==
  /\ pc[Daemon] = "boot"
  /\ IF up
     THEN /\ pc' = [pc EXCEPT ![Daemon] = "arm"]
          /\ link' = "live" /\ ctl' = "watcherd" /\ inbox' = Deliver(Pong)
          /\ UNCHANGED <<msg, flag, constructed, users, out, left, comm>>
     ELSE DaemonExits /\ UNCHANGED ctl
  /\ UNCHANGED <<conf, cliVars, up, served, stats, ghostVars>>

\* connect_handler is installed and the loop begins.
DaemonArm ==
  /\ pc[Daemon] = "arm"
  /\ pc' = [pc EXCEPT ![Daemon] = "receive"]
  /\ UNCHANGED <<conf, users, out, left, comm, cliVars, daemonVars,
                 serverVars, ghostVars>>

\* receive: a message, or after 60 seconds without one, a timeout.
Receive ==
  /\ pc[Daemon] = "receive"
  /\ Serial => \A c \in Cli : pc[c] = "idle"
  /\ IF inbox = <<>>
     THEN msg' = Timeout /\ UNCHANGED inbox
     ELSE msg' = Head(inbox) /\ inbox' = Tail(inbox)
  /\ pc' = [pc EXCEPT ![Daemon] = IF constructed THEN "load" ELSE "construct"]
  /\ UNCHANGED <<conf, users, out, left, comm, cliVars, flag, constructed,
                 link, serverVars, ghostVars>>

\* The first use of ConfigMgr::instance constructs it, which loads the file.
Construct ==
  /\ pc[Daemon] = "construct"
  /\ users' = [users EXCEPT ![Daemon] = Current]
  /\ constructed' = TRUE
  /\ pc' = [pc EXCEPT ![Daemon] = "load"]
  /\ UNCHANGED <<conf, out, left, comm, cliVars, msg, inbox, flag, link,
                 serverVars, ghostVars>>

\* Mutant of Load: the daemon relies on what it has in memory.
LoadCached ==
  /\ pc[Daemon] = "load"
  /\ pc' = [pc EXCEPT ![Daemon] = "request"]
  /\ UNCHANGED <<conf, users, out, left, comm, cliVars, daemonVars, serverVars,
                 ghostVars>>

\* load_default_conf
Load ==
  /\ pc[Daemon] = "load"
  /\ users' = [users EXCEPT ![Daemon] = LoadTable(conf, users[Daemon])]
  /\ out' = [out EXCEPT ![Daemon] = ReloadRequests(conf, users[Daemon])]
  /\ pc' = [pc EXCEPT ![Daemon] = "request"]
  /\ UNCHANGED <<conf, left, comm, cliVars, daemonVars, serverVars, ghostVars>>

Loaded == pc[Daemon] = "request" /\ out[Daemon] = {}

\* handle_response: the usage is added, and write_conf begins.
HandleStat ==
  /\ Loaded /\ msg.kind = "stat"
  /\ users' = [users EXCEPT ![Daemon] = AddData(@, msg.delta)]
  /\ msg' = Nothing
  /\ pc' = [pc EXCEPT ![Daemon] = "open"]
  /\ UNCHANGED <<conf, out, left, comm, cliVars, inbox, flag, constructed,
                 link, serverVars, ghostVars>>

\* Mutant of HandleTimeout: a timeout is taken for a quiet minute.
HandleTimeoutQuietly ==
  /\ Loaded /\ msg.kind = "timeout"
  /\ msg' = Nothing
  /\ pc' = [pc EXCEPT ![Daemon] = "flag"]
  /\ UNCHANGED <<conf, users, out, left, comm, cliVars, inbox, flag,
                 constructed, link, serverVars, ghostVars>>

\* A timeout or failure makes the daemon ping again.
HandleTimeout ==
  /\ Loaded /\ msg.kind = "timeout"
  /\ \/ /\ Ping
        /\ pc' = [pc EXCEPT ![Daemon] = "flag"]
        /\ msg' = Nothing
        /\ UNCHANGED <<flag, constructed, users, out, left, comm>>
     \/ /\ link = "stale"
        /\ DaemonExits
        /\ UNCHANGED serverVars
  /\ UNCHANGED <<conf, cliVars, ghostVars>>

\* A pong, or the word "interrupt": nothing to do.
HandleOther ==
  /\ Loaded /\ msg.kind \in {"pong", "interrupt"}
  /\ msg' = Nothing
  /\ pc' = [pc EXCEPT ![Daemon] = "flag"]
  /\ UNCHANGED <<conf, users, out, left, comm, cliVars, inbox, flag,
                 constructed, link, serverVars, ghostVars>>

AtFlag ==
  \/ pc[Daemon] = "flag"
  \/ pc[Daemon] = "refresh" /\ out[Daemon] = {}

\* if (should_connect): ping ...
PingIfAsked ==
  /\ AtFlag
  /\ \/ /\ ~flag
        /\ pc' = [pc EXCEPT ![Daemon] = "receive"]
        /\ UNCHANGED <<daemonVars, serverVars, users, out, left, comm>>
     \/ /\ flag /\ Ping
        /\ pc' = [pc EXCEPT ![Daemon] = "clear"]
        /\ UNCHANGED <<msg, flag, constructed, users, out, left, comm>>
     \/ /\ flag /\ link = "stale"
        /\ DaemonExits
        /\ UNCHANGED serverVars
  /\ UNCHANGED <<conf, cliVars, ghostVars>>

\* ... and then forget the wish, also one that has come since.
ClearFlag ==
  /\ pc[Daemon] = "clear"
  /\ flag' = FALSE
  /\ pc' = [pc EXCEPT ![Daemon] = "receive"]
  /\ UNCHANGED <<conf, users, out, left, comm, cliVars, msg, inbox,
                 constructed, link, serverVars, ghostVars>>

\* SIGTERM, from anyone, ends the daemon at any point: exit_handler.
DaemonKilled ==
  /\ pc[Daemon] # "dead" /\ "sswatcherd" \in Mortal /\ crashes < MaxCrashes
  /\ crashes' = crashes + 1
  /\ DaemonExits
  /\ UNCHANGED <<conf, cliVars, serverVars, traffic, credit>>

-----------------------------------------------------------------------------
ServerStep == SendStat \/ ServerCrash \/ \E p \in Port : Traffic(p)

\* The steps of a ConfigMgr method that process x is inside of.
MethodStep(x) ==
  \/ SendRequest(x) \/ SendFails(x)
  \/ Truncate(x) \/ WriteLine(x) \/ CloseConf(x)

Command(c) ==
  \/ AddPort(c) \/ RemovePort(c) \/ UpdateDatacap(c)
  \/ ResetUsage(c) \/ ResetAllUsage(c) \/ ImportFrom(c)
  \/ StartServer(c) \/ StartFoundServer(c) \/ StopDaemon(c)

\* A command that has begun goes on.
CliStep(c) ==
  \/ MethodStep(c) \/ InitAfterImport(c)
  \/ SpawnDaemon(c) \/ StopServer(c)
  \/ SignalDaemon(c) \/ ExitQuietly(c)

DaemonStep ==
  \/ MethodStep(Daemon) \/ DaemonBoot \/ DaemonArm
  \/ Receive \/ Construct \/ Load
  \/ HandleStat \/ HandleTimeout \/ HandleOther
  \/ PingIfAsked \/ ClearFlag

Next ==
  \/ ServerStep
  \/ \E c \in Cli : Command(c) \/ CliStep(c)
  \/ DaemonStep \/ DaemonKilled

Spec == Init /\ [][Next]_vars

\* Processes that run are scheduled, ssserver's report timer keeps firing.
\* Nothing makes a user give commands, a client move data or a process die.
FairSpec ==
  /\ Spec
  /\ WF_vars(DaemonStep)
  /\ \A c \in Cli : WF_vars(CliStep(c))
  /\ WF_vars(SendStat)

-----------------------------------------------------------------------------
(***************************************************************************)
(* The table the file stands for: what the file holds, or, while a process *)
(* rewrites it, what that process is writing.                              *)
(***************************************************************************)
Writers == {x \in Proc : pc[x] = "write"}

Book == IF Writers = {} THEN Current ELSE users[CHOOSE x \in Writers : TRUE]

(***************************************************************************)
(* No user is billed for data that was not moved: under every interleaving *)
(* of tool and daemon, with lost updates, truncated reads and overlapping  *)
(* writers, a recorded usage is at most the port's traffic plus what       *)
(* loaded files claimed.  About the path of a report from ssserver through *)
(* the daemon's socket and add_data_to_conf (operation.cpp:301) into the   *)
(* file, back by load_conf and into the next report.                       *)
(***************************************************************************)
Billable(p) == traffic[p] + credit[p]

NoOverbilling ==
  /\ \A i \in Slot : conf[i] # NoLine => conf[i].usage <= Billable(conf[i].port)
  /\ \A x \in Proc : \A p \in Managed(users[x]) :
       users[x][p].usage <= Billable(p)

(***************************************************************************)
(* Why it holds.  Every recorded usage v of a port leaves room for what    *)
(* ssserver has counted and not reported, and for every report on its way  *)
(* (v and the report together stay below the traffic up to that report);   *)
(* reports follow one another and never overlap.                           *)
(***************************************************************************)
IsStat(m) == m.kind = "stat"

RoomFor(v, p) ==
  /\ v + stats[p] <= Billable(p)
  /\ IsStat(msg) => v + msg.delta[p] <= msg.upto[p] + credit[p]
  /\ \A i \in 1 .. Len(inbox) :
       IsStat(inbox[i]) => v + inbox[i].delta[p] <= inbox[i].upto[p] + credit[p]

FileHasRoom ==
  \A i \in Slot :
    conf[i] # NoLine => conf[i].usage \in Nat /\ RoomFor(conf[i].usage, conf[i].port)

MemoryHasRoom ==
  \A x \in Proc : \A p \in Port :
    users[x][p] # NoUser => RoomFor(users[x][p].usage, p)

ZeroHasRoom == \A p \in Port : RoomFor(0, p)

ReportsCounted ==
  /\ IsStat(msg) => \A p \in Port : msg.upto[p] + stats[p] <= traffic[p]
  /\ \A i \in 1 .. Len(inbox) : IsStat(inbox[i]) =>
       \A p \in Port : inbox[i].upto[p] + stats[p] <= traffic[p]

ReportsInOrder ==
  /\ IsStat(msg) => \A i \in 1 .. Len(inbox) : IsStat(inbox[i]) =>
       \A p \in Port : msg.upto[p] + inbox[i].delta[p] <= inbox[i].upto[p]
  /\ \A i, j \in 1 .. Len(inbox) : i < j /\ IsStat(inbox[i]) /\ IsStat(inbox[j]) =>
       \A p \in Port : inbox[i].upto[p] + inbox[j].delta[p] <= inbox[j].upto[p]

BillingInv ==
  FileHasRoom /\ MemoryHasRoom /\ ZeroHasRoom /\ ReportsCounted /\ ReportsInOrder

\* write_conf writes lines only of users the process has, while in "write".
WritesItsUsers ==
  \A x \in Proc : /\ left[x] \subseteq Managed(users[x])
                  /\ left[x] # {} => pc[x] = "write"

(***************************************************************************)
(* The placeholder port of the default Shadowsocks configuration is served *)
(* only while the start that brought ssserver up still has its removal to  *)
(* send (README.md:135, init_ss operation.cpp:159), even if ssserver dies  *)
(* and is started again meanwhile.                                         *)
(***************************************************************************)
PlaceholderRemoved ==
  served[Placeholder] # NotServed =>
    \E c \in Cli : /\ pc[c] = "init" /\ job[c] = "start"
                   /\ RemoveRequest(0, Placeholder) \in out[c]

(***************************************************************************)
(* At rest no user over the cap is served, whatever sequence of commands   *)
(* and reports led there: "remove user if exceeds limit"                   *)
(* (operation.cpp:325), together with the paths that add users back        *)
(* (load_conf, add_port, init_ss).                                         *)
(***************************************************************************)
OverCapCutOff ==
  Quiescent => \A p \in Port :
                 IsOverDatacap(Current[p]) => served[p] = NotServed

(***************************************************************************)
(* At rest, with ssserver and the daemon running, a user below the cap is  *)
(* served with the configured password: also one who was cut off and got a *)
(* higher cap, whom the daemon adds when it next loads the file            *)
(* (operation.cpp:138).                                                    *)
(***************************************************************************)
ServedAsConfigured ==
  Quiescent /\ up /\ pc[Daemon] # "dead" =>
    \A p \in Managed(Current) :
      IsOverDatacap(Current[p]) \/ served[p] = Current[p].pw

(***************************************************************************)
(* At rest ssserver serves no port that the file does not list: a port     *)
(* that is removed from the file is removed from ssserver, and no late     *)
(* request of the daemon adds it again (operation.cpp:256, :141).          *)
(***************************************************************************)
ServedOnlyConfigured ==
  Quiescent => \A p \in Port :
                 served[p] # NotServed => p \in Managed(Current)

(***************************************************************************)
(* When the daemon rewrites the file to record usage, every user the file  *)
(* lists stays listed (add_data_to_conf operation.cpp:301-311).            *)
(***************************************************************************)
DaemonKeepsUsers ==
  [][pc[Daemon] = "open" /\ pc'[Daemon] = "write" /\ Writers = {}
       => Managed(Current) \subseteq Managed(users[Daemon])]_vars

(***************************************************************************)
(* The daemon wins its reports back: when another socket has become the    *)
(* control client of ssserver, be it a cli's or the daemon's own second    *)
(* one, a signal or a timeout makes the daemon ping (daemon/main.cpp:95,   *)
(* :101), also when a signal was lost between the ping and the clearing of *)
(* should_connect.                                                         *)
(***************************************************************************)
Linked == ctl = "watcherd"

LinkRestored ==
  (up /\ pc[Daemon] = "receive" /\ link = "live")
    ~> (Linked \/ ~up \/ ~DaemonListens)

(***************************************************************************)
(* A user who is over the cap and served is cut off in the end, also when  *)
(* a raised and a lowered cap, a late add of the daemon or a lost report   *)
(* let the user in: the next report reaches the daemon, which loads the    *)
(* file and removes the user (operation.cpp:326).                          *)
(***************************************************************************)
OverCapEventuallyCutOff ==
  \A p \in Port :
    (up /\ DaemonListens /\ link = "live" /\ served[p] # NotServed
        /\ IsOverDatacap(Book[p]))
      ~> (served[p] = NotServed \/ ~IsOverDatacap(Book[p])
            \/ ~up \/ ~DaemonListens)
=============================================================================
