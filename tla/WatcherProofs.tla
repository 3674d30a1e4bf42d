--------------------------- MODULE WatcherProofs ---------------------------
(***************************************************************************)
(* Theorems about Watcher, for every set of ports, passwords, tools, caps  *)
(* and files, and without any of the bounds of the runs.                   *)
(***************************************************************************)
EXTENDS Watcher, TLAPS, SequenceTheorems

-----------------------------------------------------------------------------
(* The operators on tables stay within their types. *)

(***************************************************************************)
(* An empty table and an empty file are a table and a file.                *)
(***************************************************************************)
LEMMA EmptyType == EmptyTable \in Table /\ EmptyFile \in File
BY DEF EmptyTable, EmptyFile, Table, File

(***************************************************************************)
(* load_conf turns the lines of a file into a table.                       *)
(***************************************************************************)
LEMMA LoadTableType ==
  ASSUME NEW f \in File, NEW prev \in Table
  PROVE  LoadTable(f, prev) \in Table
<1>1. ASSUME NEW l \in Line, NEW u \in User \cup {NoUser}
      PROVE  UserOf(l, u) \in User
  BY <1>1, CapAssumption, BlankAssumption DEF UserOf, Line, User
<1>2. ASSUME NEW p \in Port, \E i \in Slot : IsLastLine(f, p, i)
      PROVE  UserOf(f[CHOOSE i \in Slot : IsLastLine(f, p, i)], prev[p]) \in User
  <2> DEFINE k == CHOOSE i \in Slot : IsLastLine(f, p, i)
  <2>1. k \in Slot /\ IsLastLine(f, p, k)
    BY <1>2
  <2>2. f[k] \in Line
    BY <2>1 DEF IsLastLine, File
  <2>3. prev[p] \in User \cup {NoUser}
    BY DEF Table
  <2> QED BY <1>1, <2>2, <2>3
<1> QED BY <1>2 DEF LoadTable, Table

(***************************************************************************)
(* add_data_to_conf leaves a table.                                        *)
(***************************************************************************)
LEMMA AddDataType ==
  ASSUME NEW t \in Table, NEW d \in [Port -> Nat]
  PROVE  AddData(t, d) \in Table
BY DEF AddData, Table, User

(***************************************************************************)
(* A line written for a user has all its columns.                          *)
(***************************************************************************)
LEMMA LineOfType ==
  ASSUME NEW t \in Table, NEW p \in Port, t[p] # NoUser
  PROVE  /\ LineOf(t, p) \in Line
         /\ LineOf(t, p).port = p
         /\ LineOf(t, p).usage = t[p].usage
         /\ t[p].usage \in Nat
BY DEF LineOf, Line, Table, User

(***************************************************************************)
(* What the methods of ConfigMgr put into out are requests.                *)
(***************************************************************************)
LEMMA RequestType ==
  ASSUME NEW o \in Nat, NEW p \in Port, NEW w \in Password
  PROVE  /\ AddRequest(o, p, w) \in Request
         /\ RemoveRequest(o, p) \in Request
         /\ RemoveRequest(o, Placeholder) \in Request
BY DEF AddRequest, RemoveRequest, Request

(***************************************************************************)
(* The adds load_conf sends for changed caps are requests.                 *)
(***************************************************************************)
LEMMA ReloadRequestsType ==
  ASSUME NEW f \in File, NEW t \in Table
  PROVE  ReloadRequests(f, t) \in SUBSET Request
<1>1. ASSUME NEW i \in Slot, f[i] # NoLine
      PROVE  AddRequest(i, f[i].port, f[i].pw) \in Request
  <2>1. f[i] \in Line /\ i \in Nat
    BY <1>1 DEF File, Slot
  <2> QED BY <2>1, RequestType DEF Line
<1> QED BY <1>1 DEF ReloadRequests

(***************************************************************************)
(* The removals refresh_all_users sends are requests.                      *)
(***************************************************************************)
LEMMA RefreshRequestsType ==
  ASSUME NEW t \in Table
  PROVE  RefreshRequests(t) \in SUBSET Request
BY PortAssumption, PlaceholderAssumption
   DEF RefreshRequests, RemoveRequest, Request

(***************************************************************************)
(* The removals and adds init_ss sends are requests.                       *)
(***************************************************************************)
LEMMA InitRequestsType ==
  ASSUME NEW t \in Table
  PROVE  InitRequests(t) \in SUBSET Request
<1>1. RemoveRequest(0, Placeholder) \in Request
  BY DEF RemoveRequest, Request
<1>2. ASSUME NEW p \in Managed(t)
      PROVE  /\ RemoveRequest(2 * p + 1, p) \in Request
             /\ AddRequest(2 * p + 2, p, t[p].pw) \in Request
  <2>1. p \in Port /\ p \in Nat /\ t[p].pw \in Password
    BY <1>2, PortAssumption DEF Managed, Table, User
  <2>2. 2 * p + 1 \in Nat /\ 2 * p + 2 \in Nat
    BY <2>1
  <2> QED BY <2>1, <2>2 DEF AddRequest, RemoveRequest, Request
<1> QED BY <1>1, <1>2 DEF InitRequests

-----------------------------------------------------------------------------
(* Type correctness. *)

(***************************************************************************)
(* The types of what handle_input's new process and its end leave behind.  *)
(***************************************************************************)
LEMMA ProcessTypes == Daemon \in Proc /\ Cli \subseteq Proc
BY DEF Proc

(***************************************************************************)
(* What load_conf reads from sswatcher.conf is a table.                    *)
(***************************************************************************)
LEMMA CurrentType == ASSUME TypeOK PROVE Current \in Table
BY LoadTableType, EmptyType DEF Current, TypeOK

(***************************************************************************)
(* A process that ends leaves empty, well-typed memory.                    *)
(***************************************************************************)
LEMMA ForgetType ==
  ASSUME TypeOK, NEW x \in Proc, Forget(x)
  PROVE  /\ users' \in [Proc -> Table]
         /\ out' \in [Proc -> SUBSET Request]
         /\ left' \in [Proc -> SUBSET Port]
         /\ comm' \in [Proc -> {"none", "live", "stale"}]
BY EmptyType DEF Forget, TypeOK

(***************************************************************************)
(* A program counter moved within its own program keeps its type.          *)
(***************************************************************************)
LEMMA PcType ==
  ASSUME TypeOK, NEW x \in Proc, NEW v,
         IF x = Daemon THEN v \in DaemonPc ELSE v \in CliPc,
         pc' = [pc EXCEPT ![x] = v]
  PROVE  /\ pc' \in [Proc -> DaemonPc \cup CliPc]
         /\ pc'[Daemon] \in DaemonPc
         /\ \A c \in Cli : pc'[c] \in CliPc
BY CliAssumption DEF TypeOK, Proc

(***************************************************************************)
(* So does one step that moves a tool and the daemon together.             *)
(***************************************************************************)
LEMMA CliPcType ==
  ASSUME TypeOK, NEW c \in Cli, NEW v \in CliPc, NEW d \in DaemonPc,
         pc' = [pc EXCEPT ![c] = v, ![Daemon] = d]
  PROVE  /\ pc' \in [Proc -> DaemonPc \cup CliPc]
         /\ pc'[Daemon] \in DaemonPc
         /\ \A k \in Cli : pc'[k] \in CliPc
BY CliAssumption DEF TypeOK, Proc

(***************************************************************************)
(* Every result of Communicator::receive is a message.                     *)
(***************************************************************************)
LEMMA MessageType ==
  /\ Nothing \in Message /\ Timeout \in Message
  /\ Interrupt \in Message /\ Pong \in Message
  /\ \A d, u \in [Port -> Nat] : Stat(d, u) \in Message
BY DEF Nothing, Timeout, Interrupt, Pong, Stat, Message

(***************************************************************************)
(* The daemon's socket holds messages, delivered or dropped.               *)
(***************************************************************************)
LEMMA DeliverType ==
  ASSUME TypeOK, NEW m \in Message
  PROVE  Deliver(m) \in Seq(Message)
BY DEF TypeOK, Deliver

(***************************************************************************)
(* A request leaves ssserver with a map of ports to passwords.             *)
(***************************************************************************)
LEMMA ObeyType ==
  ASSUME NEW s \in [ServerPort -> Password \cup {NotServed}], NEW r \in Request
  PROVE  Obey(s, r) \in [ServerPort -> Password \cup {NotServed}]
BY DEF Obey, Request, ServerPort

(***************************************************************************)
(* The end of ssserver leaves its state and all connections well typed.    *)
(***************************************************************************)
LEMMA ServerGoneType ==
  ASSUME TypeOK, ServerGone, comm' = [x \in Proc |-> Stale(comm[x])],
         link' = Stale(link)
  PROVE  /\ up' \in BOOLEAN
         /\ served' \in [ServerPort -> Password \cup {NotServed}]
         /\ stats' \in [Port -> Nat]
         /\ ctl' \in {"none", "watcher", "watcherd"}
         /\ comm' \in [Proc -> {"none", "live", "stale"}]
         /\ link' \in {"none", "live", "stale"}
BY DEF TypeOK, ServerGone, Stale, FreshServer, NoTraffic

(***************************************************************************)
(* The exit of the daemon keeps the types.                                 *)
(***************************************************************************)
LEMMA DaemonExitsType ==
  ASSUME TypeOK, DaemonExits,
         UNCHANGED <<conf, job, commands, serverVars, ghostVars>>
  PROVE  TypeOK'
<1> USE DEF DaemonExits, DaemonForgets
<1>1. Daemon \in Proc /\ Forget(Daemon)
  BY ProcessTypes
<1>2. "dead" \in DaemonPc
  BY DEF DaemonPc
<1>3. /\ pc' \in [Proc -> DaemonPc \cup CliPc]
      /\ pc'[Daemon] \in DaemonPc /\ \A c \in Cli : pc'[c] \in CliPc
  BY <1>1, <1>2, PcType
<1>4. inbox' \in Seq(Message)
  OBVIOUS
<1> QED BY <1>1, <1>3, <1>4, ForgetType, MessageType
        DEF TypeOK, serverVars, ghostVars

(***************************************************************************)
(* The exit of a tool keeps the types.                                     *)
(***************************************************************************)
LEMMA CliExitsType ==
  ASSUME TypeOK, NEW c \in Cli, CliExits(c),
         UNCHANGED <<conf, commands, daemonVars, serverVars, ghostVars>>
  PROVE  TypeOK'
<1>1. c \in Proc /\ c # Daemon /\ Forget(c)
  BY CliAssumption DEF CliExits, Proc
<1>2. "idle" \in CliPc
  BY DEF CliPc
<1>3. /\ pc' \in [Proc -> DaemonPc \cup CliPc]
      /\ pc'[Daemon] \in DaemonPc /\ \A k \in Cli : pc'[k] \in CliPc
  BY <1>1, <1>2, PcType DEF CliExits
<1>4. job' \in [Cli -> Job]
  BY DEF TypeOK, CliExits, Job
<1> QED BY <1>1, <1>3, <1>4, ForgetType
        DEF TypeOK, daemonVars, serverVars, ghostVars

(***************************************************************************)
(* The start of a command leaves a well-typed new process.                 *)
(***************************************************************************)
LEMMA BeginType ==
  ASSUME TypeOK, NEW c \in Cli, NEW command, NEW kind \in Job,
         NEW t \in Table, NEW o \in SUBSET Request, NEW p \in CliPc,
         Begin(c, command, kind, t, o, p)
  PROVE  /\ conf' \in File
         /\ pc' \in [Proc -> DaemonPc \cup CliPc]
         /\ pc'[Daemon] \in DaemonPc /\ \A k \in Cli : pc'[k] \in CliPc
         /\ users' \in [Proc -> Table]
         /\ out' \in [Proc -> SUBSET Request]
         /\ left' \in [Proc -> SUBSET Port]
         /\ job' \in [Cli -> Job]
         /\ comm' \in [Proc -> {"none", "live", "stale"}]
         /\ msg' \in Message /\ inbox' \in Seq(Message)
         /\ flag' \in BOOLEAN /\ constructed' \in BOOLEAN
         /\ link' \in {"none", "live", "stale"}
         /\ commands' \in Nat
<1>1. c \in Proc /\ c # Daemon
  BY CliAssumption DEF Proc
<1>2. /\ pc' \in [Proc -> DaemonPc \cup CliPc]
      /\ pc'[Daemon] \in DaemonPc /\ \A k \in Cli : pc'[k] \in CliPc
  BY <1>1, PcType DEF Begin
<1> QED BY <1>1, <1>2 DEF Begin, TypeOK, daemonVars

(***************************************************************************)
(* Every start of the system is well typed.                                *)
(***************************************************************************)
LEMMA TypeInit == ASSUME Init PROVE TypeOK
<1>1. /\ pc \in [Proc -> DaemonPc \cup CliPc]
      /\ pc[Daemon] \in DaemonPc /\ \A c \in Cli : pc[c] \in CliPc
  BY CliAssumption DEF Init, Proc, DaemonPc, CliPc
<1>2. inbox \in Seq(Message)
  BY DEF Init
<1> QED BY <1>1, <1>2, EmptyType, MessageType, InitialUpAssumption
        DEF TypeOK, Init, FreshServer, NoTraffic, Job

(***************************************************************************)
(* The steps of ssserver keep the types.                                   *)
(***************************************************************************)
LEMMA TypeServerStep == ASSUME TypeOK, ServerStep PROVE TypeOK'
<1>1. ASSUME NEW p \in Port, Traffic(p) PROVE TypeOK'
  BY <1>1 DEF Traffic, TypeOK, cliVars, daemonVars
<1>2. CASE SendStat
  <2>1. NoTraffic \in [Port -> Nat]
    BY DEF NoTraffic
  <2>2. Stat(stats, traffic) \in Message
    BY MessageType DEF TypeOK
  <2>3. inbox' \in Seq(Message)
    BY <1>2, <2>2, DeliverType DEF SendStat, TypeOK
  <2> QED BY <1>2, <2>1, <2>3 DEF SendStat, TypeOK, cliVars, ghostVars
<1>3. CASE ServerCrash
  BY <1>3, ServerGoneType DEF ServerCrash, TypeOK, cliVars
<1> QED BY <1>1, <1>2, <1>3 DEF ServerStep

(***************************************************************************)
(* The steps of a method of ConfigMgr keep the types.                      *)
(***************************************************************************)
LEMMA TypeMethodStep ==
  ASSUME TypeOK, WritesItsUsers, NEW x \in Proc, MethodStep(x) PROVE TypeOK'
<1>1. CASE SendRequest(x)
  <2>1. PICK r \in out[x] : /\ out' = [out EXCEPT ![x] = @ \ {r}]
                            /\ served' = Obey(served, r)
    BY <1>1 DEF SendRequest
  <2>2. out[x] \subseteq Request
    BY DEF TypeOK
  <2>3. served' \in [ServerPort -> Password \cup {NotServed}]
    BY <2>1, <2>2, ObeyType DEF TypeOK
  <2>4. out' \in [Proc -> SUBSET Request]
    BY <2>1 DEF TypeOK
  <2> QED BY <1>1, <2>3, <2>4
          DEF SendRequest, TypeOK, cliVars, daemonVars, ghostVars
<1>2. CASE SendFails(x)
  <2>1. CASE x = Daemon
    BY <1>2, <2>1, DaemonExitsType DEF SendFails
  <2>2. CASE x # Daemon
    BY <1>2, <2>2, CliExitsType DEF SendFails, Proc
  <2> QED BY <2>1, <2>2
<1>3. CASE Truncate(x)
  <2>1. /\ pc' \in [Proc -> DaemonPc \cup CliPc]
        /\ pc'[Daemon] \in DaemonPc /\ \A c \in Cli : pc'[c] \in CliPc
    <3>1. pc' = [pc EXCEPT ![x] = "write"] /\ "write" \in DaemonPc \cap CliPc
      BY <1>3 DEF Truncate, DaemonPc, CliPc
    <3> QED BY <3>1, PcType
  <2>2. Managed(users[x]) \in SUBSET Port
    BY DEF Managed
  <2> QED BY <1>3, <2>1, <2>2, EmptyType
          DEF Truncate, TypeOK, cliVars, daemonVars, serverVars, ghostVars
<1>4. CASE WriteLine(x)
  <2>1. PICK p \in left[x] :
          /\ conf' = [conf EXCEPT ![SlotOf(users[x], p)] = LineOf(users[x], p)]
          /\ left' = [left EXCEPT ![x] = @ \ {p}]
    BY <1>4 DEF WriteLine
  <2>2. users[x] \in Table /\ p \in Port /\ left' \in [Proc -> SUBSET Port]
    BY <2>1 DEF TypeOK
  <2>3. LineOf(users[x], p) \in Line
    BY <2>1, <2>2, LineOfType DEF WritesItsUsers, Managed
  <2>4. conf' \in File
    BY <2>1, <2>3 DEF TypeOK, File
  <2> QED BY <1>4, <2>2, <2>4
          DEF WriteLine, TypeOK, cliVars, daemonVars, serverVars, ghostVars
<1>5. CASE CloseConf(x)
  <2>1. /\ pc' \in [Proc -> DaemonPc \cup CliPc]
        /\ pc'[Daemon] \in DaemonPc /\ \A c \in Cli : pc'[c] \in CliPc
    <3>1. pc' = [pc EXCEPT ![x] = "refresh"] /\ "refresh" \in DaemonPc \cap CliPc
      BY <1>5 DEF CloseConf, DaemonPc, CliPc
    <3> QED BY <3>1, PcType
  <2>2. RefreshRequests(users[x]) \in SUBSET Request
    BY RefreshRequestsType DEF TypeOK
  <2> QED BY <1>5, <2>1, <2>2
          DEF CloseConf, TypeOK, cliVars, daemonVars, serverVars, ghostVars
<1> QED BY <1>1, <1>2, <1>3, <1>4, <1>5 DEF MethodStep

(***************************************************************************)
(* A command that touches only its own process keeps the types.            *)
(***************************************************************************)
LEMMA EditType ==
  ASSUME TypeOK, NEW c \in Cli, NEW command, NEW kind \in Job,
         NEW t \in Table, NEW o \in SUBSET Request, NEW p \in CliPc,
         Begin(c, command, kind, t, o, p), UNCHANGED <<serverVars, ghostVars>>
  PROVE  TypeOK'
BY BeginType DEF TypeOK, serverVars, ghostVars

(***************************************************************************)
(* The commands of the tool keep the types.                                *)
(***************************************************************************)
LEMMA TypeCommand ==
  ASSUME TypeOK, NEW c \in Cli, Command(c) PROVE TypeOK'
<1> Current \in Table
  BY CurrentType
<1>0. /\ {"edit", "quiet", "load", "start"} \subseteq Job
      /\ {"request", "open", "init", "spawn", "stopping"} \subseteq CliPc
  BY DEF Job, CliPc
<1>1. CASE AddPort(c)
  <2>1. PICK p \in Port, w \in Password, k \in Caps :
          LET known == p \in Managed(Current)
              u == [pw |-> w, cap |-> k,
                    usage |-> IF known THEN Current[p].usage ELSE 0]
              o == (IF known THEN {RemoveRequest(0, p)} ELSE {})
                     \cup {AddRequest(1, p, w)}
          IN  /\ Begin(c, "add", "edit", [Current EXCEPT ![p] = u], o, "request")
              /\ UNCHANGED <<serverVars, ghostVars>>
    BY <1>1 DEF AddPort
  <2> DEFINE known == p \in Managed(Current)
             u == [pw |-> w, cap |-> k,
                   usage |-> IF known THEN Current[p].usage ELSE 0]
             o == (IF known THEN {RemoveRequest(0, p)} ELSE {})
                    \cup {AddRequest(1, p, w)}
  <2>2. u \in User
    <3>1. k \in Nat
      BY InputAssumption
    <3>2. known => Current[p].usage \in Nat
      BY DEF Managed, Table, User
    <3> QED BY <3>1, <3>2 DEF User
  <2>3. [Current EXCEPT ![p] = u] \in Table
    BY <2>2 DEF Table
  <2>4. o \in SUBSET Request
    BY RequestType
  <2> HIDE DEF u, o
  <2> QED BY <2>1, <2>3, <2>4, <1>0, EditType DEF u, o
<1>2. CASE RemovePort(c)
  <2>1. PICK p \in Managed(Current) :
          /\ Begin(c, "remove", "edit", [Current EXCEPT ![p] = NoUser],
                   {RemoveRequest(0, p)}, "request")
          /\ UNCHANGED <<serverVars, ghostVars>>
    BY <1>2 DEF RemovePort
  <2>2. p \in Port
    BY DEF Managed
  <2>3. [Current EXCEPT ![p] = NoUser] \in Table
    BY DEF Table
  <2>4. {RemoveRequest(0, p)} \in SUBSET Request
    BY <2>2 DEF RemoveRequest, Request
  <2> QED BY <2>1, <2>3, <2>4, <1>0, EditType
<1>3. CASE UpdateDatacap(c)
  <2>1. PICK p \in Managed(Current), k \in Caps :
          /\ Begin(c, "limit", "edit", [Current EXCEPT ![p].cap = k], {}, "open")
          /\ UNCHANGED <<serverVars, ghostVars>>
    BY <1>3 DEF UpdateDatacap
  <2>2. p \in Port /\ Current[p] \in User /\ k \in Nat
    BY InputAssumption DEF Managed, Table
  <2>3. [Current[p] EXCEPT !.cap = k] \in User
    BY <2>2 DEF User
  <2>4. [Current EXCEPT ![p].cap = k] \in Table
    BY <2>2, <2>3 DEF Table
  <2> QED BY <2>1, <2>4, <1>0, EditType
<1>4. CASE ResetUsage(c)
  <2>1. PICK p \in Managed(Current) :
          /\ Begin(c, "reset", "edit", [Current EXCEPT ![p].usage = 0], {}, "open")
          /\ UNCHANGED <<serverVars, ghostVars>>
    BY <1>4 DEF ResetUsage
  <2>2. p \in Port /\ Current[p] \in User
    BY DEF Managed, Table
  <2>3. [Current[p] EXCEPT !.usage = 0] \in User
    BY <2>2 DEF User
  <2>4. [Current EXCEPT ![p].usage = 0] \in Table
    BY <2>2, <2>3 DEF Table
  <2> QED BY <2>1, <2>4, <1>0, EditType
<1>5. CASE ResetAllUsage(c)
  <2> DEFINE t == [p \in Port |-> IF Current[p] = NoUser THEN NoUser
                                  ELSE [Current[p] EXCEPT !.usage = 0]]
  <2>1. t \in Table
    BY DEF Table, User
  <2>2. /\ Begin(c, "reset_all", "quiet", t, {}, "open")
        /\ UNCHANGED <<serverVars, ghostVars>>
    BY <1>5 DEF ResetAllUsage
  <2> QED BY <2>1, <2>2, <1>0, EditType
<1>6. CASE ImportFrom(c)
  <2>1. PICK f \in Inputs :
          /\ Begin(c, "load", "load", LoadTable(f, Current),
                   ReloadRequests(f, Current), "request")
          /\ credit' = [p \in Port |-> credit[p] + Claimed(f, p)]
          /\ UNCHANGED <<serverVars, traffic, crashes>>
    BY <1>6 DEF ImportFrom
  <2>2. f \in File
    BY InputAssumption DEF File
  <2>3. LoadTable(f, Current) \in Table /\ LoadTable(f, EmptyTable) \in Table
    BY <2>2, LoadTableType, EmptyType
  <2>4. \A p \in Port : Claimed(f, p) \in Nat
    BY <2>3 DEF Claimed, Table, User
  <2>5. credit' \in [Port -> Nat]
    BY <2>1, <2>4 DEF TypeOK
  <2>6. ReloadRequests(f, Current) \in SUBSET Request
    BY <2>2, ReloadRequestsType
  <2> QED BY <2>1, <2>3, <2>5, <2>6, <1>0, BeginType DEF TypeOK, serverVars
<1>7. CASE StartServer(c)
  <2>1. PICK w \in Password : served' = [FreshServer EXCEPT ![Placeholder] = w]
    BY <1>7 DEF StartServer
  <2>2. served' \in [ServerPort -> Password \cup {NotServed}]
    BY <2>1 DEF FreshServer
  <2>3. InitRequests(Current) \in SUBSET Request
    BY InitRequestsType
  <2> QED BY <1>7, <2>2, <2>3, <1>0, BeginType
          DEF StartServer, TypeOK, ghostVars
<1>8. CASE StartFoundServer(c)
  BY <1>8, <1>0, EditType DEF StartFoundServer
<1>9. CASE StopDaemon(c)
  <2>1. /\ pc' \in [Proc -> DaemonPc \cup CliPc]
        /\ pc'[Daemon] \in DaemonPc /\ \A k \in Cli : pc'[k] \in CliPc
    <3>1. "stopping" \in CliPc /\ "dead" \in DaemonPc
      BY DEF CliPc, DaemonPc
    <3> QED BY <1>9, <3>1, CliPcType DEF StopDaemon
  <2>2. Forget(Daemon) /\ Daemon \in Proc /\ inbox' \in Seq(Message)
    BY <1>9, ProcessTypes DEF StopDaemon, DaemonForgets
  <2>3. /\ users' \in [Proc -> Table]
        /\ out' \in [Proc -> SUBSET Request]
        /\ left' \in [Proc -> SUBSET Port]
        /\ comm' \in [Proc -> {"none", "live", "stale"}]
    BY <2>2, ForgetType
  <2>4. /\ msg' \in Message /\ flag' \in BOOLEAN /\ constructed' \in BOOLEAN
        /\ link' \in {"none", "live", "stale"}
    BY <1>9, MessageType DEF StopDaemon, DaemonForgets
  <2>5. commands' = commands + 1 /\ UNCHANGED <<conf, job, serverVars, ghostVars>>
    BY <1>9 DEF StopDaemon
  <2> QED BY <2>1, <2>2, <2>3, <2>4, <2>5 DEF TypeOK, serverVars, ghostVars
<1> QED BY <1>1, <1>2, <1>3, <1>4, <1>5, <1>6, <1>7, <1>8, <1>9 DEF Command

(***************************************************************************)
(* The steps of a command that has begun keep the types.                   *)
(***************************************************************************)
LEMMA TypeCliStep ==
  ASSUME TypeOK, WritesItsUsers, NEW c \in Cli, CliStep(c) PROVE TypeOK'
<1>0. c \in Proc /\ c # Daemon /\ Daemon \in Proc
  BY CliAssumption DEF Proc
<1>1. CASE MethodStep(c)
  BY <1>0, <1>1, TypeMethodStep
<1>2. CASE InitAfterImport(c)
  <2>1. pc' = [pc EXCEPT ![c] = "init"] /\ "init" \in CliPc
    BY <1>2 DEF InitAfterImport, CliPc
  <2>2. /\ pc' \in [Proc -> DaemonPc \cup CliPc]
        /\ pc'[Daemon] \in DaemonPc /\ \A k \in Cli : pc'[k] \in CliPc
    BY <2>1, <1>0, PcType
  <2>3. InitRequests(users[c]) \in SUBSET Request
    BY <1>0, InitRequestsType DEF TypeOK
  <2>4. out' \in [Proc -> SUBSET Request]
    BY <1>2, <2>3 DEF InitAfterImport, TypeOK
  <2> QED BY <1>2, <2>2, <2>4
          DEF InitAfterImport, TypeOK, cliVars, daemonVars, serverVars, ghostVars
<1>3. CASE SpawnDaemon(c)
  <2> DEFINE d == IF pc[Daemon] = "dead" /\ up THEN "boot" ELSE pc[Daemon]
  <2>1. pc' = [pc EXCEPT ![c] = "idle", ![Daemon] = d]
    BY <1>3, <1>0 DEF SpawnDaemon, TypeOK
  <2>2. d \in DaemonPc /\ "idle" \in CliPc
    BY DEF TypeOK, DaemonPc, CliPc
  <2>3. /\ pc' \in [Proc -> DaemonPc \cup CliPc]
        /\ pc'[Daemon] \in DaemonPc /\ \A k \in Cli : pc'[k] \in CliPc
    BY <2>1, <2>2, CliPcType
  <2>4. job' \in [Cli -> Job] /\ Forget(c)
    BY <1>3 DEF SpawnDaemon, TypeOK, Job
  <2>5. UNCHANGED <<conf, commands, daemonVars, serverVars, ghostVars>>
    BY <1>3 DEF SpawnDaemon
  <2> QED BY <1>0, <2>3, <2>4, <2>5, ForgetType
          DEF TypeOK, daemonVars, serverVars, ghostVars
<1>4. CASE StopServer(c)
  <2>1. pc' = [pc EXCEPT ![c] = "idle"] /\ "idle" \in CliPc
    BY <1>4 DEF StopServer, CliPc
  <2>2. /\ pc' \in [Proc -> DaemonPc \cup CliPc]
        /\ pc'[Daemon] \in DaemonPc /\ \A k \in Cli : pc'[k] \in CliPc
    BY <2>1, <1>0, PcType
  <2> QED BY <1>4, <2>2, ServerGoneType DEF StopServer, TypeOK, cliVars, ghostVars
<1>5. CASE SignalDaemon(c)
  <2>1. /\ job' \in [Cli -> Job]
        /\ UNCHANGED <<conf, commands, serverVars, ghostVars>>
    BY <1>5 DEF SignalDaemon, TypeOK, Job
  <2>2. /\ pc' \in [Proc -> DaemonPc \cup CliPc]
        /\ pc'[Daemon] \in DaemonPc /\ \A k \in Cli : pc'[k] \in CliPc
    <3>1. "idle" \in CliPc /\ {"load", "construct", "dead"} \subseteq DaemonPc
      BY DEF CliPc, DaemonPc
    <3>2. \/ pc' = [pc EXCEPT ![c] = "idle", ![Daemon] = "load"]
          \/ pc' = [pc EXCEPT ![c] = "idle", ![Daemon] = "construct"]
          \/ pc' = [pc EXCEPT ![c] = "idle"]
          \/ pc' = [pc EXCEPT ![c] = "idle", ![Daemon] = "dead"]
      BY <1>5 DEF SignalDaemon
    <3>3. CASE pc' = [pc EXCEPT ![c] = "idle"]
      BY <3>1, <3>3, <1>0, PcType
    <3>4. CASE pc' # [pc EXCEPT ![c] = "idle"]
      <4>1. PICK d \in DaemonPc : pc' = [pc EXCEPT ![c] = "idle", ![Daemon] = d]
        BY <3>1, <3>2, <3>4
      <4> QED BY <3>1, <4>1, CliPcType
    <3> QED BY <3>3, <3>4
  <2>3. /\ users' \in [Proc -> Table]
        /\ out' \in [Proc -> SUBSET Request]
        /\ left' \in [Proc -> SUBSET Port]
        /\ comm' \in [Proc -> {"none", "live", "stale"}]
    <3>1. CASE Forget(c)
      BY <1>0, <3>1, ForgetType
    <3>2. CASE ~Forget(c)
      <4>1. /\ users' = [users EXCEPT ![c] = EmptyTable]
            /\ comm' = [comm EXCEPT ![c] = "none"]
            /\ UNCHANGED <<out, left>>
        BY <1>5, <3>2 DEF SignalDaemon
      <4> QED BY <4>1, EmptyType DEF TypeOK
    <3> QED BY <3>1, <3>2
  <2>4. /\ msg' \in Message /\ inbox' \in Seq(Message)
        /\ flag' \in BOOLEAN /\ constructed' \in BOOLEAN
        /\ link' \in {"none", "live", "stale"}
    <3>1. CASE DaemonForgets
      <4>1. Nothing \in Message /\ <<>> \in Seq(Message)
        BY MessageType
      <4> QED BY <3>1, <4>1 DEF DaemonForgets
    <3>2. CASE ~DaemonForgets
      <4>1. /\ msg' \in {msg, Interrupt} /\ inbox' = inbox
            /\ flag' \in {TRUE, flag} /\ constructed' = constructed /\ link' = link
        BY <1>5, <3>2 DEF SignalDaemon, daemonVars
      <4> QED BY <4>1, MessageType DEF TypeOK
    <3> QED BY <3>1, <3>2
  <2> QED BY <2>1, <2>2, <2>3, <2>4 DEF TypeOK, serverVars, ghostVars
<1>6. CASE ExitQuietly(c)
  <2>1. /\ CliExits(c)
        /\ UNCHANGED <<conf, commands, daemonVars, serverVars, ghostVars>>
    BY <1>6 DEF ExitQuietly
  <2> QED BY <2>1, CliExitsType
<1> QED BY <1>1, <1>2, <1>3, <1>4, <1>5, <1>6 DEF CliStep

(***************************************************************************)
(* A step of the daemon's program counter keeps its type.                  *)
(***************************************************************************)
LEMMA DaemonPcType ==
  ASSUME TypeOK, NEW v \in DaemonPc, pc' = [pc EXCEPT ![Daemon] = v]
  PROVE  /\ pc' \in [Proc -> DaemonPc \cup CliPc]
         /\ pc'[Daemon] \in DaemonPc
         /\ \A c \in Cli : pc'[c] \in CliPc
BY PcType, ProcessTypes

(***************************************************************************)
(* A ping makes the daemon the control client and delivers a pong.         *)
(***************************************************************************)
LEMMA PingType ==
  ASSUME TypeOK, Ping
  PROVE  /\ ctl' \in {"none", "watcher", "watcherd"}
         /\ inbox' \in Seq(Message)
         /\ UNCHANGED <<up, served, stats, link>>
BY DeliverType, MessageType DEF Ping

(***************************************************************************)
(* The steps of the daemon keep the types.                                 *)
(***************************************************************************)
LEMMA TypeDaemonStep ==
  ASSUME TypeOK, WritesItsUsers, DaemonStep PROVE TypeOK'
<1>0. /\ Daemon \in Proc
      /\ {"arm", "receive", "construct", "load", "request", "open", "flag",
          "clear"} \subseteq DaemonPc
  BY ProcessTypes DEF DaemonPc
<1> USE DEF cliVars, daemonVars, serverVars, ghostVars
<1>1. CASE MethodStep(Daemon)
  BY <1>0, <1>1, TypeMethodStep
<1>2. CASE DaemonBoot
  <2>1. CASE up
    <3>1. inbox' \in Seq(Message)
      BY <1>2, <2>1, DeliverType, MessageType DEF DaemonBoot
    <3>2. /\ pc' = [pc EXCEPT ![Daemon] = "arm"]
          /\ link' = "live" /\ ctl' = "watcherd"
          /\ UNCHANGED <<msg, flag, constructed, users, out, left, comm, conf,
                         cliVars, up, served, stats, ghostVars>>
      BY <1>2, <2>1 DEF DaemonBoot
    <3> QED BY <1>0, <3>1, <3>2, DaemonPcType DEF TypeOK
  <2>2. CASE ~up
    BY <1>2, <2>2, DaemonExitsType DEF DaemonBoot
  <2> QED BY <2>1, <2>2
<1>3. CASE DaemonArm
  BY <1>0, <1>3, DaemonPcType DEF DaemonArm, TypeOK
<1>4. CASE Receive
  <2>1. msg' \in Message /\ inbox' \in Seq(Message)
    <3>1. CASE inbox = <<>>
      BY <1>4, <3>1, MessageType DEF Receive, TypeOK
    <3>2. CASE inbox # <<>>
      <4>1. Head(inbox) \in Message /\ Tail(inbox) \in Seq(Message)
        BY <3>2 DEF TypeOK
      <4> QED BY <1>4, <3>2, <4>1 DEF Receive
    <3> QED BY <3>1, <3>2
  <2>2. \E v \in {"load", "construct"} : pc' = [pc EXCEPT ![Daemon] = v]
    BY <1>4 DEF Receive
  <2> QED BY <1>0, <1>4, <2>1, <2>2, DaemonPcType DEF Receive, TypeOK
<1>5. CASE Construct
  BY <1>0, <1>5, DaemonPcType, CurrentType DEF Construct, TypeOK
<1>6. CASE Load
  <2>1. /\ LoadTable(conf, users[Daemon]) \in Table
        /\ ReloadRequests(conf, users[Daemon]) \in SUBSET Request
    BY <1>0, LoadTableType, ReloadRequestsType DEF TypeOK
  <2> QED BY <1>0, <1>6, <2>1, DaemonPcType DEF Load, TypeOK
<1>7. CASE HandleStat
  <2>1. msg.delta \in [Port -> Nat]
    BY <1>7 DEF HandleStat, TypeOK, Message
  <2>2. AddData(users[Daemon], msg.delta) \in Table
    BY <1>0, <2>1, AddDataType DEF TypeOK
  <2>3. users' \in [Proc -> Table]
    BY <1>0, <1>7, <2>2 DEF HandleStat, TypeOK
  <2>4. Nothing \in Message
    BY MessageType
  <2> QED BY <1>0, <1>7, <2>3, <2>4, DaemonPcType DEF HandleStat, TypeOK
<1>8. CASE HandleTimeout
  <2>1. CASE Ping /\ pc' = [pc EXCEPT ![Daemon] = "flag"] /\ msg' = Nothing
             /\ UNCHANGED <<flag, constructed, users, out, left, comm>>
    <3>1. Nothing \in Message /\ UNCHANGED <<conf, cliVars, ghostVars>>
      BY <1>8, MessageType DEF HandleTimeout
    <3> QED BY <1>0, <2>1, <3>1, PingType, DaemonPcType DEF TypeOK
  <2>2. CASE DaemonExits /\ UNCHANGED serverVars
    BY <1>8, <2>2, DaemonExitsType DEF HandleTimeout
  <2> QED BY <1>8, <2>1, <2>2 DEF HandleTimeout
<1>9. CASE HandleOther
  <2>1. Nothing \in Message
    BY MessageType
  <2> QED BY <1>0, <1>9, <2>1, DaemonPcType DEF HandleOther, TypeOK
<1>10. CASE PingIfAsked
  <2>1. CASE pc' = [pc EXCEPT ![Daemon] = "receive"]
             /\ UNCHANGED <<daemonVars, serverVars, users, out, left, comm>>
    BY <1>0, <1>10, <2>1, DaemonPcType DEF PingIfAsked, TypeOK
  <2>2. CASE Ping /\ pc' = [pc EXCEPT ![Daemon] = "clear"]
             /\ UNCHANGED <<msg, flag, constructed, users, out, left, comm>>
    BY <1>0, <1>10, <2>2, PingType, DaemonPcType DEF PingIfAsked, TypeOK
  <2>3. CASE DaemonExits /\ UNCHANGED serverVars
    BY <1>10, <2>3, DaemonExitsType DEF PingIfAsked
  <2> QED BY <1>10, <2>1, <2>2, <2>3 DEF PingIfAsked
<1>11. CASE ClearFlag
  BY <1>0, <1>11, DaemonPcType DEF ClearFlag, TypeOK
<1> QED BY <1>1, <1>2, <1>3, <1>4, <1>5, <1>6, <1>7, <1>8, <1>9, <1>10, <1>11
        DEF DaemonStep

(***************************************************************************)
(* A process that is writing the file keeps its table until it is done.    *)
(***************************************************************************)
LEMMA WritersKept ==
  ASSUME WritesItsUsers,
         \A x \in Proc : \/ left'[x] = {}
                         \/ /\ left'[x] \subseteq left[x]
                            /\ left[x] # {} => /\ users'[x] = users[x]
                                               /\ pc'[x] = pc[x]
  PROVE  WritesItsUsers'
BY DEF WritesItsUsers

(***************************************************************************)
(* write_conf keeps the list of lines to write within its table.           *)
(***************************************************************************)
LEMMA WritersMethodStep ==
  ASSUME TypeOK, WritesItsUsers, NEW x \in Proc, MethodStep(x)
  PROVE  WritesItsUsers'
<1> USE DEF TypeOK
<1>1. CASE SendRequest(x)
  BY <1>1, WritersKept DEF SendRequest
<1>2. CASE SendFails(x)
  <2>1. Forget(x) /\ pc' \in {[pc EXCEPT ![x] = "dead"], [pc EXCEPT ![x] = "idle"]}
    BY <1>2 DEF SendFails, DaemonExits, CliExits
  <2> QED BY <2>1, WritersKept DEF Forget
<1>3. CASE Truncate(x)
  BY <1>3 DEF Truncate, WritesItsUsers
<1>4. CASE WriteLine(x)
  BY <1>4, WritersKept DEF WriteLine
<1>5. CASE CloseConf(x)
  BY <1>5, WritersKept DEF CloseConf
<1> QED BY <1>1, <1>2, <1>3, <1>4, <1>5 DEF MethodStep

(***************************************************************************)
(* ssserver does not interfere with writers of the file.                   *)
(***************************************************************************)
LEMMA WritersServerStep ==
  ASSUME WritesItsUsers, ServerStep PROVE WritesItsUsers'
BY WritersKept DEF ServerStep, SendStat, ServerCrash, Traffic

(***************************************************************************)
(* A command starts with no line to write.                                 *)
(***************************************************************************)
LEMMA WritersBegin ==
  ASSUME TypeOK, WritesItsUsers, NEW c \in Cli, NEW command, NEW kind, NEW t,
         NEW o, NEW p, Begin(c, command, kind, t, o, p)
  PROVE  WritesItsUsers'
<1>1. c \in Proc /\ left[c] = {}
  BY DEF Begin, WritesItsUsers, Proc
<1> QED BY <1>1, WritersKept DEF Begin, TypeOK

(***************************************************************************)
(* No command makes a process a writer out of turn.                        *)
(***************************************************************************)
LEMMA WritersCommand ==
  ASSUME TypeOK, WritesItsUsers, NEW c \in Cli, Command(c)
  PROVE  WritesItsUsers'
<1>1. CASE StopDaemon(c)
  <2>1. c \in Proc /\ c # Daemon /\ left[c] = {} /\ Daemon \in Proc
    BY <1>1, CliAssumption DEF StopDaemon, WritesItsUsers, Proc
  <2> QED BY <1>1, <2>1, WritersKept DEF StopDaemon, Forget, TypeOK
<1>2. CASE AddPort(c)
  BY <1>2, WritersBegin DEF AddPort
<1>3. CASE RemovePort(c)
  BY <1>3, WritersBegin DEF RemovePort
<1>4. CASE UpdateDatacap(c)
  BY <1>4, WritersBegin DEF UpdateDatacap
<1>5. CASE ResetUsage(c)
  BY <1>5, WritersBegin DEF ResetUsage
<1>6. CASE ResetAllUsage(c)
  BY <1>6, WritersBegin DEF ResetAllUsage
<1>7. CASE ImportFrom(c)
  BY <1>7, WritersBegin DEF ImportFrom
<1>8. CASE StartServer(c)
  BY <1>8, WritersBegin DEF StartServer
<1>9. CASE StartFoundServer(c)
  BY <1>9, WritersBegin DEF StartFoundServer
<1> QED BY <1>1, <1>2, <1>3, <1>4, <1>5, <1>6, <1>7, <1>8, <1>9 DEF Command

(***************************************************************************)
(* Nor does a later step of a command.                                     *)
(***************************************************************************)
LEMMA WritersCliStep ==
  ASSUME TypeOK, WritesItsUsers, NEW c \in Cli, CliStep(c)
  PROVE  WritesItsUsers'
<1>0. c \in Proc /\ c # Daemon /\ Daemon \in Proc
  BY CliAssumption DEF Proc
<1>1. CASE MethodStep(c)
  BY <1>0, <1>1, WritersMethodStep
<1>2. CASE InitAfterImport(c)
  BY <1>0, <1>2, WritersKept DEF InitAfterImport, WritesItsUsers, TypeOK
<1>3. CASE SpawnDaemon(c)
  <2>1. left[c] = {}
    BY <1>0, <1>3 DEF SpawnDaemon, WritesItsUsers
  <2>2. left[Daemon] # {} => pc'[Daemon] = pc[Daemon]
    BY <1>0, <1>3 DEF SpawnDaemon, WritesItsUsers, TypeOK
  <2>3. \A x \in Proc \ {c, Daemon} : pc'[x] = pc[x]
    BY <1>0, <1>3 DEF SpawnDaemon, TypeOK
  <2>4. left' = left /\ \A x \in Proc \ {c} : users'[x] = users[x]
    BY <1>0, <1>3, <2>1 DEF SpawnDaemon, Forget, TypeOK
  <2> QED BY <2>1, <2>2, <2>3, <2>4, WritersKept
<1>4. CASE StopServer(c)
  <2>1. left[c] = {}
    BY <1>0, <1>4 DEF StopServer, WritesItsUsers
  <2>2. left' = left /\ users' = users /\ \A x \in Proc \ {c} : pc'[x] = pc[x]
    BY <1>0, <1>4 DEF StopServer, TypeOK
  <2> QED BY <2>1, <2>2, WritersKept
<1>5. CASE SignalDaemon(c)
  <2>1. left[c] = {}
    BY <1>0, <1>5 DEF SignalDaemon, Finished, WritesItsUsers
  <2>2. left' = left /\ \A x \in Proc \ {c} : users'[x] = users[x]
    <3>1. /\ users' = [users EXCEPT ![c] = EmptyTable]
          /\ left' = left \/ left' = [left EXCEPT ![c] = {}]
      BY <1>5 DEF SignalDaemon, Forget
    <3> QED BY <1>0, <2>1, <3>1 DEF TypeOK
  <2>3. pc'[Daemon] # pc[Daemon] => pc[Daemon] # "write"
    BY <1>0, <1>5 DEF SignalDaemon, TypeOK
  <2>4. \A x \in Proc \ {c, Daemon} : pc'[x] = pc[x]
    BY <1>0, <1>5 DEF SignalDaemon, TypeOK
  <2>5. left[Daemon] # {} => pc[Daemon] = "write"
    BY <1>0 DEF WritesItsUsers
  <2> QED BY <2>1, <2>2, <2>3, <2>4, <2>5, WritersKept
<1>6. CASE ExitQuietly(c)
  BY <1>0, <1>6, WritersKept DEF ExitQuietly, CliExits, Forget, TypeOK
<1> QED BY <1>1, <1>2, <1>3, <1>4, <1>5, <1>6 DEF CliStep

(***************************************************************************)
(* Nor does a step of the daemon.                                          *)
(***************************************************************************)
LEMMA WritersDaemonStep ==
  ASSUME TypeOK, WritesItsUsers, DaemonStep
  PROVE  WritesItsUsers'
<1>0. Daemon \in Proc
  BY ProcessTypes
<1>1. CASE MethodStep(Daemon)
  BY <1>0, <1>1, WritersMethodStep
<1>2. CASE DaemonExits
  BY <1>0, <1>2, WritersKept DEF DaemonExits, Forget, TypeOK
<1>3. CASE ~MethodStep(Daemon) /\ ~DaemonExits
  <2>1. /\ pc[Daemon] # "write" /\ left' = left
        /\ \A x \in Proc \ {Daemon} : users'[x] = users[x] /\ pc'[x] = pc[x]
    <3>1. DaemonBoot \/ DaemonArm \/ Receive \/ Construct \/ Load \/ HandleStat
            \/ HandleTimeout \/ HandleOther \/ PingIfAsked \/ ClearFlag
      BY <1>3 DEF DaemonStep
    <3> USE <1>0, <1>3 DEF TypeOK
    <3>2. CASE DaemonBoot BY <3>2 DEF DaemonBoot
    <3>3. CASE DaemonArm BY <3>3 DEF DaemonArm
    <3>4. CASE Receive BY <3>4 DEF Receive
    <3>5. CASE Construct BY <3>5 DEF Construct
    <3>6. CASE Load BY <3>6 DEF Load
    <3>7. CASE HandleStat BY <3>7 DEF HandleStat, Loaded
    <3>8. CASE HandleTimeout BY <3>8 DEF HandleTimeout, Loaded
    <3>9. CASE HandleOther BY <3>9 DEF HandleOther, Loaded
    <3>10. CASE PingIfAsked BY <3>10 DEF PingIfAsked, AtFlag
    <3>11. CASE ClearFlag BY <3>11 DEF ClearFlag
    <3> QED BY <3>1, <3>2, <3>3, <3>4, <3>5, <3>6, <3>7, <3>8, <3>9, <3>10, <3>11
  <2>2. left[Daemon] = {}
    BY <1>0, <2>1 DEF WritesItsUsers
  <2> QED BY <2>1, <2>2, WritersKept
<1> QED BY <1>1, <1>2, <1>3

-----------------------------------------------------------------------------
(***************************************************************************)
(* The types and the writers' lists are kept by every step.                *)
(***************************************************************************)
LEMMA TypeNext ==
  ASSUME TypeOK, WritesItsUsers, [Next]_vars
  PROVE  TypeOK' /\ WritesItsUsers'
<1>1. CASE ServerStep
  BY <1>1, TypeServerStep, WritersServerStep
<1>2. ASSUME NEW c \in Cli, Command(c) PROVE TypeOK' /\ WritesItsUsers'
  BY <1>2, TypeCommand, WritersCommand
<1>3. ASSUME NEW c \in Cli, CliStep(c) PROVE TypeOK' /\ WritesItsUsers'
  BY <1>3, TypeCliStep, WritersCliStep
<1>4. CASE DaemonStep
  BY <1>4, TypeDaemonStep, WritersDaemonStep
<1>5. CASE DaemonKilled
  <2>1. WritesItsUsers'
    BY <1>5, ProcessTypes, WritersKept DEF DaemonKilled, DaemonExits, Forget, TypeOK
  <2>2. DaemonExits /\ UNCHANGED <<conf, cliVars, serverVars, traffic, credit>>
          /\ crashes' = crashes + 1
    BY <1>5 DEF DaemonKilled
  <2>3. TypeOK'
    <3>1. /\ pc' \in [Proc -> DaemonPc \cup CliPc]
          /\ pc'[Daemon] \in DaemonPc /\ \A c \in Cli : pc'[c] \in CliPc
      BY <2>2, DaemonPcType DEF DaemonExits, DaemonPc
    <3>2. /\ users' \in [Proc -> Table] /\ out' \in [Proc -> SUBSET Request]
          /\ left' \in [Proc -> SUBSET Port]
          /\ comm' \in [Proc -> {"none", "live", "stale"}]
      BY <2>2, ForgetType, ProcessTypes DEF DaemonExits
    <3>3. /\ msg' \in Message /\ inbox' \in Seq(Message) /\ flag' \in BOOLEAN
          /\ constructed' \in BOOLEAN /\ link' \in {"none", "live", "stale"}
      <4>1. Nothing \in Message /\ <<>> \in Seq(Message)
        BY MessageType
      <4> QED BY <2>2, <4>1 DEF DaemonExits, DaemonForgets
    <3>4. crashes' \in Nat
      BY <2>2 DEF TypeOK
    <3> QED BY <2>2, <3>1, <3>2, <3>3, <3>4 DEF TypeOK, cliVars, serverVars
  <2> QED BY <2>1, <2>3
<1>6. CASE UNCHANGED vars
  BY <1>6 DEF vars, cliVars, daemonVars, serverVars, ghostVars, TypeOK,
              WritesItsUsers, Managed
<1> QED BY <1>1, <1>2, <1>3, <1>4, <1>5, <1>6 DEF Next

(***************************************************************************)
(* In every state of every behaviour each variable has its type.           *)
(***************************************************************************)
THEOREM TypeCorrect == Spec => []TypeOK
<1>1. Init => TypeOK /\ WritesItsUsers
  BY TypeInit DEF Init, WritesItsUsers
<1>2. TypeOK /\ WritesItsUsers /\ [Next]_vars => (TypeOK /\ WritesItsUsers)'
  BY TypeNext
<1> QED BY <1>1, <1>2, PTL DEF Spec

-----------------------------------------------------------------------------
(* Billing.  Most steps leave the reports alone and copy recorded usages. *)

(***************************************************************************)
(* A step that loses reports or adds none, loses traffic that was counted  *)
(* or counts none, and only raises what loaded files claimed.              *)
(***************************************************************************)
Frame ==
  /\ IsStat(msg') => msg' = msg
  /\ inbox' = inbox \/ inbox' = <<>> \/ inbox' = Append(inbox, Pong)
  /\ traffic' = traffic
  /\ \A p \in Port : stats'[p] <= stats[p] /\ credit[p] <= credit'[p]

\* A usage some process or the file already records for p, or none.
Recorded(v, p) ==
  \/ v = 0
  \/ \E x \in Proc : users[x][p] # NoUser /\ v = users[x][p].usage
  \/ \E i \in Slot : conf[i] # NoLine /\ conf[i].port = p /\ v = conf[i].usage

(***************************************************************************)
(* A usage that is recorded somewhere has room for the reports under way.  *)
(***************************************************************************)
LEMMA RecordedRoom ==
  ASSUME TypeOK, BillingInv, NEW p \in Port, NEW v, Recorded(v, p)
  PROVE  v \in Nat /\ RoomFor(v, p)
<1>1. CASE v = 0
  BY <1>1 DEF BillingInv, ZeroHasRoom
<1>2. CASE \E x \in Proc : users[x][p] # NoUser /\ v = users[x][p].usage
  BY <1>2 DEF BillingInv, MemoryHasRoom, TypeOK, Table, User
<1>3. CASE \E i \in Slot : conf[i] # NoLine /\ conf[i].port = p /\ v = conf[i].usage
  BY <1>3 DEF BillingInv, FileHasRoom
<1> QED BY <1>1, <1>2, <1>3 DEF Recorded

(***************************************************************************)
(* Only a stat message carries counts, and those are numbers.              *)
(***************************************************************************)
LEMMA StatType ==
  /\ \A m \in Message : IsStat(m) => m.delta \in [Port -> Nat] /\ m.upto \in [Port -> Nat]
  /\ ~IsStat(Nothing) /\ ~IsStat(Timeout) /\ ~IsStat(Interrupt) /\ ~IsStat(Pong)
  /\ \A d, u : IsStat(Stat(d, u)) /\ Stat(d, u).delta = d /\ Stat(d, u).upto = u
BY DEF Message, IsStat, Nothing, Timeout, Interrupt, Pong, Stat

\* The reports in the socket, by position, are reports of traffic.
LEMMA InboxType ==
  ASSUME TypeOK
  PROVE  /\ Len(inbox) \in Nat
         /\ \A i \in 1 .. Len(inbox) : inbox[i] \in Message
         /\ \A i \in 1 .. Len(inbox) : IsStat(inbox[i]) =>
              inbox[i].delta \in [Port -> Nat] /\ inbox[i].upto \in [Port -> Nat]
<1>1. Len(inbox) \in Nat /\ \A i \in 1 .. Len(inbox) : inbox[i] \in Message
  BY DEF TypeOK
<1> QED BY <1>1, StatType

(***************************************************************************)
(* A socket that is unchanged, emptied or given a pong holds no new        *)
(* report.                                                                 *)
(***************************************************************************)
LEMMA FrameInbox ==
  ASSUME TypeOK, Frame
  PROVE  \A i \in 1 .. Len(inbox') : IsStat(inbox'[i]) =>
           i \in 1 .. Len(inbox) /\ inbox'[i] = inbox[i]
<1>1. CASE inbox' = inbox
  BY <1>1
<1>2. CASE inbox' = <<>>
  BY <1>2
<1>3. CASE inbox' = Append(inbox, Pong)
  <2>1. /\ Len(inbox') = Len(inbox) + 1 /\ Len(inbox) \in Nat
        /\ \A i \in 1 .. Len(inbox) : inbox'[i] = inbox[i]
        /\ inbox'[Len(inbox) + 1] = Pong
    BY <1>3 DEF TypeOK
  <2> QED BY <2>1, StatType
<1> QED BY <1>1, <1>2, <1>3 DEF Frame

\* RoomFor in the next state, of a usage that belongs to this one or the next.
RoomNext(v, p) ==
  /\ v + stats'[p] <= traffic'[p] + credit'[p]
  /\ IsStat(msg') => v + msg'.delta[p] <= msg'.upto[p] + credit'[p]
  /\ \A i \in 1 .. Len(inbox') :
       IsStat(inbox'[i]) => v + inbox'[i].delta[p] <= inbox'[i].upto[p] + credit'[p]

(***************************************************************************)
(* Room, spelled out for the next state.                                   *)
(***************************************************************************)
LEMMA RoomPrimed ==
  /\ FileHasRoom' <=>
       \A i \in Slot : conf'[i] # NoLine =>
         conf'[i].usage \in Nat /\ RoomNext(conf'[i].usage, conf'[i].port)
  /\ MemoryHasRoom' <=>
       \A x \in Proc : \A p \in Port :
         users'[x][p] # NoUser => RoomNext(users'[x][p].usage, p)
  /\ ZeroHasRoom' <=> \A p \in Port : RoomNext(0, p)
<1> USE DEF RoomFor, RoomNext, Billable, IsStat
<1>1. FileHasRoom' <=>
        \A i \in Slot : conf'[i] # NoLine =>
          conf'[i].usage \in Nat /\ RoomNext(conf'[i].usage, conf'[i].port)
  BY DEF FileHasRoom
<1>2. MemoryHasRoom' <=>
        \A x \in Proc : \A p \in Port :
          users'[x][p] # NoUser => RoomNext(users'[x][p].usage, p)
  BY DEF MemoryHasRoom
<1>3. ZeroHasRoom' <=> \A p \in Port : RoomNext(0, p)
  BY DEF ZeroHasRoom
<1> QED BY <1>1, <1>2, <1>3

(***************************************************************************)
(* Room survives a step that neither counts nor moves a report.            *)
(***************************************************************************)
LEMMA FrameRoom ==
  ASSUME TypeOK, TypeOK', Frame, NEW v \in Nat, NEW p \in Port, RoomFor(v, p)
  PROVE  RoomNext(v, p)
<1>1. /\ stats[p] \in Nat /\ stats'[p] \in Nat /\ traffic[p] \in Nat
      /\ credit[p] \in Nat /\ credit'[p] \in Nat
      /\ stats'[p] <= stats[p] /\ credit[p] <= credit'[p] /\ traffic' = traffic
  BY DEF TypeOK, Frame
<1>2. v + stats'[p] <= traffic'[p] + credit'[p]
  BY <1>1 DEF RoomFor, Billable
<1>3. IsStat(msg') => v + msg'.delta[p] <= msg'.upto[p] + credit'[p]
  <2>1. IsStat(msg') => msg' = msg /\ msg.delta[p] \in Nat /\ msg.upto[p] \in Nat
    BY StatType DEF TypeOK, Frame
  <2> QED BY <1>1, <2>1 DEF RoomFor
<1>4. ASSUME NEW i \in 1 .. Len(inbox'), IsStat(inbox'[i])
      PROVE  v + inbox'[i].delta[p] <= inbox'[i].upto[p] + credit'[p]
  <2>1. i \in 1 .. Len(inbox) /\ inbox'[i] = inbox[i]
    BY <1>4, FrameInbox
  <2>2. inbox[i].delta[p] \in Nat /\ inbox[i].upto[p] \in Nat
    BY <1>4, <2>1, InboxType
  <2>3. v + inbox[i].delta[p] <= inbox[i].upto[p] + credit[p]
    BY <1>4, <2>1 DEF RoomFor
  <2>4. \A d, u, k, n \in Nat : v + d <= u + k /\ k <= n => v + d <= u + n
    OBVIOUS
  <2>5. v + inbox[i].delta[p] <= inbox[i].upto[p] + credit'[p]
    BY <1>1, <2>2, <2>3, <2>4
  <2> QED BY <2>1, <2>5
<1> QED BY <1>2, <1>3, <1>4 DEF RoomNext

(***************************************************************************)
(* So do the order and the count of the reports.                           *)
(***************************************************************************)
LEMMA FrameReports ==
  ASSUME TypeOK, TypeOK', Frame, ReportsCounted, ReportsInOrder
  PROVE  ReportsCounted' /\ ReportsInOrder'
<1>1. \A p \in Port : stats[p] \in Nat /\ stats'[p] \in Nat
                      /\ traffic[p] \in Nat /\ stats'[p] <= stats[p]
  BY DEF TypeOK, Frame
<1>2. IsStat(msg') => msg' = msg /\ \A p \in Port : msg.upto[p] \in Nat
  BY StatType DEF Frame, TypeOK
<1>3. ASSUME IsStat(msg'), NEW p \in Port
      PROVE  msg'.upto[p] + stats'[p] <= traffic'[p]
  <2>1. msg.upto[p] + stats[p] <= traffic[p]
    BY <1>2, <1>3 DEF ReportsCounted
  <2> QED BY <2>1, <1>1, <1>2, <1>3 DEF Frame
<1>4. ASSUME NEW i \in 1 .. Len(inbox'), IsStat(inbox'[i]), NEW p \in Port
      PROVE  inbox'[i].upto[p] + stats'[p] <= traffic'[p]
  <2>1. i \in 1 .. Len(inbox) /\ inbox'[i] = inbox[i]
    BY <1>4, FrameInbox
  <2>2. inbox[i].upto[p] \in Nat
    BY <1>4, <2>1, InboxType
  <2>3. inbox[i].upto[p] + stats[p] <= traffic[p]
    BY <1>4, <2>1 DEF ReportsCounted
  <2> QED BY <1>1, <2>1, <2>2, <2>3 DEF Frame
<1>5. ReportsCounted'
  BY <1>3, <1>4 DEF ReportsCounted, IsStat
<1>6. ReportsInOrder'
  <2>1. ASSUME IsStat(msg'), NEW i \in 1 .. Len(inbox'), IsStat(inbox'[i]),
               NEW p \in Port
        PROVE  msg'.upto[p] + inbox'[i].delta[p] <= inbox'[i].upto[p]
    BY <2>1, <1>2, FrameInbox DEF ReportsInOrder
  <2>2. ASSUME NEW i \in 1 .. Len(inbox'), NEW j \in 1 .. Len(inbox'), i < j,
               IsStat(inbox'[i]), IsStat(inbox'[j]), NEW p \in Port
        PROVE  inbox'[i].upto[p] + inbox'[j].delta[p] <= inbox'[j].upto[p]
    BY <2>2, FrameInbox DEF ReportsInOrder
  <2> QED BY <2>1, <2>2 DEF ReportsInOrder, IsStat
<1> QED BY <1>5, <1>6

(***************************************************************************)
(* Such a step keeps the invariant when it writes lines of known users     *)
(* and every usage in memory is recorded already or has room.              *)
(***************************************************************************)
LEMMA FrameStep ==
  ASSUME TypeOK, TypeOK', BillingInv, Frame,
         \A i \in Slot : conf'[i] # NoLine =>
           \/ conf'[i] = conf[i]
           \/ \E x \in Proc, p \in Port :
                users[x][p] # NoUser /\ conf'[i] = LineOf(users[x], p),
         \A x \in Proc, p \in Port : users'[x][p] # NoUser =>
           \/ Recorded(users'[x][p].usage, p)
           \/ RoomNext(users'[x][p].usage, p)
  PROVE  BillingInv'
<1>1. ASSUME NEW p \in Port, NEW v, Recorded(v, p)
      PROVE  v \in Nat /\ RoomNext(v, p)
  <2>1. v \in Nat /\ RoomFor(v, p)
    BY <1>1, RecordedRoom
  <2> QED BY <2>1, FrameRoom
<1>2. ReportsCounted' /\ ReportsInOrder'
  BY FrameReports DEF BillingInv
<1>3. ZeroHasRoom'
  <2>1. ASSUME NEW p \in Port PROVE RoomNext(0, p)
    BY <1>1 DEF Recorded
  <2> QED BY <2>1, RoomPrimed
<1>4. MemoryHasRoom'
  <2>1. ASSUME NEW x \in Proc, NEW p \in Port, users'[x][p] # NoUser
        PROVE  RoomNext(users'[x][p].usage, p)
    BY <1>1, <2>1
  <2> QED BY <2>1, RoomPrimed
<1>5. FileHasRoom'
  <2>1. ASSUME NEW i \in Slot, conf'[i] # NoLine
        PROVE  conf'[i].usage \in Nat /\ RoomNext(conf'[i].usage, conf'[i].port)
    <3>1. CASE conf'[i] = conf[i]
      <4>1. conf[i] # NoLine /\ conf[i].port \in Port
        BY <2>1, <3>1 DEF TypeOK, File, Line
      <4>2. Recorded(conf[i].usage, conf[i].port)
        BY <4>1 DEF Recorded
      <4>3. conf[i].usage \in Nat /\ RoomNext(conf[i].usage, conf[i].port)
        BY <4>1, <4>2, <1>1
      <4> QED BY <3>1, <4>3
    <3>2. CASE \E x \in Proc, p \in Port :
                 users[x][p] # NoUser /\ conf'[i] = LineOf(users[x], p)
      <4>1. PICK x \in Proc, p \in Port :
              users[x][p] # NoUser /\ conf'[i] = LineOf(users[x], p)
        BY <3>2
      <4>2. conf'[i].port = p /\ conf'[i].usage = users[x][p].usage
        BY <4>1 DEF LineOf
      <4>3. Recorded(users[x][p].usage, p)
        BY <4>1 DEF Recorded
      <4>4. users[x][p].usage \in Nat /\ RoomNext(users[x][p].usage, p)
        BY <4>3, <1>1
      <4> QED BY <4>2, <4>4
    <3> QED BY <2>1, <3>1, <3>2
  <2> QED BY <2>1, RoomPrimed
<1> QED BY <1>2, <1>3, <1>4, <1>5 DEF BillingInv

(***************************************************************************)
(* What load_conf makes of sswatcher.conf records nothing new.             *)
(***************************************************************************)
LEMMA LoadRecorded ==
  ASSUME TypeOK, FileHasRoom, NEW prev \in Table, NEW p \in Port,
         LoadTable(conf, prev)[p] # NoUser
  PROVE  Recorded(LoadTable(conf, prev)[p].usage, p)
<1>1. \E i \in Slot : IsLastLine(conf, p, i)
  BY DEF LoadTable
<1> DEFINE k == CHOOSE i \in Slot : IsLastLine(conf, p, i)
<1>2. k \in Slot /\ conf[k] # NoLine /\ conf[k].port = p
  BY <1>1 DEF IsLastLine
<1>3. conf[k].usage \in Nat
  BY <1>2 DEF FileHasRoom
<1>4. LoadTable(conf, prev)[p] = UserOf(conf[k], prev[p])
  BY <1>1 DEF LoadTable
<1>5. LoadTable(conf, prev)[p].usage = conf[k].usage
  BY <1>3, <1>4, BlankAssumption DEF UserOf
<1> HIDE DEF k
<1> QED BY <1>2, <1>5 DEF Recorded

(***************************************************************************)
(* What load_conf makes of the current file is recorded already.           *)
(***************************************************************************)
LEMMA CurrentRecorded ==
  ASSUME TypeOK, FileHasRoom, NEW p \in Port, Current[p] # NoUser
  PROVE  Recorded(Current[p].usage, p)
BY LoadRecorded, EmptyType DEF Current

\* Memory that was not touched, or was emptied, is recorded.
LEMMA MemoryRecorded ==
  ASSUME NEW x \in Proc, NEW p \in Port, users[x][p] # NoUser
  PROVE  Recorded(users[x][p].usage, p)
BY DEF Recorded

(***************************************************************************)
(* Memory that a process gives up records nothing.                         *)
(***************************************************************************)
LEMMA ForgetRecorded ==
  ASSUME TypeOK, NEW y \in Proc, users' = [users EXCEPT ![y] = EmptyTable]
  PROVE  \A x \in Proc, p \in Port : users'[x][p] # NoUser =>
           Recorded(users'[x][p].usage, p)
<1>1. ASSUME NEW x \in Proc, NEW p \in Port, users'[x][p] # NoUser
      PROVE  users'[x] = users[x]
  BY <1>1 DEF EmptyTable, TypeOK
<1> QED BY <1>1, MemoryRecorded

(***************************************************************************)
(* A step that leaves socket, counters and claims alone is such a step.    *)
(***************************************************************************)
LEMMA QuietFrame ==
  ASSUME TypeOK,
         msg' = msg \/ msg' = Nothing \/ msg' = Interrupt,
         inbox' = inbox \/ inbox' = <<>> \/ inbox' = Append(inbox, Pong),
         traffic' = traffic, credit' = credit,
         stats' = stats \/ stats' = NoTraffic
  PROVE  Frame
<1>1. \A p \in Port : stats[p] \in Nat /\ credit[p] \in Nat
  BY DEF TypeOK
<1>2. IsStat(msg') => msg' = msg
  BY StatType
<1> QED BY <1>1, <1>2 DEF Frame, NoTraffic

(***************************************************************************)
(* A pong is appended to the socket or dropped.                            *)
(***************************************************************************)
LEMMA PongDelivered == Deliver(Pong) = inbox \/ Deliver(Pong) = Append(inbox, Pong)
BY DEF Deliver

(***************************************************************************)
(* ssserver: traffic and the counters grow together, a report moves the    *)
(* counters into the socket or loses them.                                 *)
(***************************************************************************)
LEMMA BillingTraffic ==
  ASSUME TypeOK, TypeOK', BillingInv, NEW q \in Port, Traffic(q)
  PROVE  BillingInv'
<1>1. /\ conf' = conf /\ users' = users /\ msg' = msg /\ inbox' = inbox
      /\ credit' = credit
      /\ stats' = [stats EXCEPT ![q] = @ + 1]
      /\ traffic' = [traffic EXCEPT ![q] = @ + 1]
  BY DEF Traffic, daemonVars
<1>2. \A p \in Port : /\ stats[p] \in Nat /\ traffic[p] \in Nat /\ credit[p] \in Nat
                      /\ \/ stats'[p] = stats[p] /\ traffic'[p] = traffic[p]
                         \/ stats'[p] = stats[p] + 1 /\ traffic'[p] = traffic[p] + 1
  BY <1>1 DEF TypeOK
<1>3. ASSUME NEW v \in Nat, NEW p \in Port, RoomFor(v, p) PROVE RoomNext(v, p)
  <2>1. v + stats'[p] <= traffic'[p] + credit'[p]
    <3>1. v + stats[p] <= traffic[p] + credit[p]
      BY <1>3 DEF RoomFor, Billable
    <3> QED BY <1>1, <1>2, <3>1
  <2> QED BY <1>1, <1>3, <2>1 DEF RoomFor, RoomNext
<1>4. FileHasRoom'
  <2>1. ASSUME NEW i \in Slot, conf[i] # NoLine
        PROVE  conf[i].usage \in Nat /\ RoomNext(conf[i].usage, conf[i].port)
    <3>1. conf[i].port \in Port
      BY <2>1 DEF TypeOK, File, Line
    <3> QED BY <1>3, <2>1, <3>1 DEF BillingInv, FileHasRoom
  <2> QED BY <1>1, <2>1, RoomPrimed
<1>5. MemoryHasRoom'
  <2>1. ASSUME NEW x \in Proc, NEW p \in Port, users[x][p] # NoUser
        PROVE  RoomNext(users[x][p].usage, p)
    <3>1. users[x][p].usage \in Nat
      BY <2>1 DEF TypeOK, Table, User
    <3> QED BY <1>3, <2>1, <3>1 DEF BillingInv, MemoryHasRoom
  <2> QED BY <1>1, <2>1, RoomPrimed
<1>6. ZeroHasRoom'
  BY <1>3, RoomPrimed DEF BillingInv, ZeroHasRoom
<1>7. ReportsCounted'
  <2>1. ASSUME NEW m \in Message, IsStat(m),
               \A p \in Port : m.upto[p] + stats[p] <= traffic[p]
        PROVE  \A p \in Port : m.upto[p] + stats'[p] <= traffic'[p]
    <3>1. \A p \in Port : m.upto[p] \in Nat
      BY <2>1, StatType
    <3> QED BY <1>2, <2>1, <3>1
  <2>2. msg \in Message /\ \A i \in 1 .. Len(inbox) : inbox[i] \in Message
    BY InboxType DEF TypeOK
  <2> QED BY <1>1, <2>1, <2>2 DEF BillingInv, ReportsCounted, IsStat
<1>8. ReportsInOrder'
  BY <1>1 DEF BillingInv, ReportsInOrder, IsStat
<1> QED BY <1>4, <1>5, <1>6, <1>7, <1>8 DEF BillingInv

(***************************************************************************)
(* A report takes exactly what the counters held.                          *)
(***************************************************************************)
LEMMA BillingSendStat ==
  ASSUME TypeOK, TypeOK', BillingInv, SendStat
  PROVE  BillingInv'
<1>1. /\ conf' = conf /\ users' = users /\ msg' = msg
      /\ credit' = credit /\ traffic' = traffic /\ stats' = NoTraffic
      /\ inbox' = inbox \/ inbox' = Append(inbox, Stat(stats, traffic))
  BY DEF SendStat, Deliver, ghostVars
<1>2. CASE inbox' = inbox
  <2>1. Frame
    BY <1>1, <1>2, QuietFrame
  <2> QED BY <1>1, <2>1, FrameStep, MemoryRecorded
<1>3. CASE inbox' = Append(inbox, Stat(stats, traffic))
  <2> DEFINE m == Stat(stats, traffic)
             n == Len(inbox)
  <2>1. IsStat(m) /\ m.delta = stats /\ m.upto = traffic
    BY StatType
  <2>2. /\ n \in Nat /\ Len(inbox') = n + 1 /\ inbox'[n + 1] = m
        /\ \A i \in 1 .. n : inbox'[i] = inbox[i]
    BY <1>3 DEF TypeOK
  <2>3. \A p \in Port : /\ stats[p] \in Nat /\ traffic[p] \in Nat
                        /\ credit[p] \in Nat /\ stats'[p] = 0
    BY <1>1 DEF TypeOK, NoTraffic
  <2> HIDE DEF m, n
  <2>4. \A i \in 1 .. Len(inbox') : i = n + 1 \/ i \in 1 .. n
    BY <2>2
  <2>5. ASSUME NEW v \in Nat, NEW p \in Port, RoomFor(v, p) PROVE RoomNext(v, p)
    <3>1. v + stats[p] <= traffic[p] + credit[p]
      BY <2>5 DEF RoomFor, Billable
    <3>2. v + stats'[p] <= traffic'[p] + credit'[p]
      BY <1>1, <2>3, <3>1
    <3>3. ASSUME NEW i \in 1 .. Len(inbox'), IsStat(inbox'[i])
          PROVE  v + inbox'[i].delta[p] <= inbox'[i].upto[p] + credit'[p]
      <4>1. CASE i = n + 1
        BY <1>1, <2>1, <2>2, <3>1, <4>1
      <4>2. CASE i \in 1 .. n
        BY <1>1, <2>2, <2>5, <3>3, <4>2 DEF RoomFor, n
      <4> QED BY <2>4, <4>1, <4>2
    <3> QED BY <1>1, <2>5, <3>2, <3>3 DEF RoomFor, RoomNext
  <2>6. FileHasRoom'
    <3>1. ASSUME NEW i \in Slot, conf[i] # NoLine
          PROVE  conf[i].usage \in Nat /\ RoomNext(conf[i].usage, conf[i].port)
      <4>1. conf[i].port \in Port
        BY <3>1 DEF TypeOK, File, Line
      <4> QED BY <2>5, <3>1, <4>1 DEF BillingInv, FileHasRoom
    <3> QED BY <1>1, <3>1, RoomPrimed
  <2>7. MemoryHasRoom'
    <3>1. ASSUME NEW x \in Proc, NEW p \in Port, users[x][p] # NoUser
          PROVE  RoomNext(users[x][p].usage, p)
      <4>1. users[x][p].usage \in Nat
        BY <3>1 DEF TypeOK, Table, User
      <4> QED BY <2>5, <3>1, <4>1 DEF BillingInv, MemoryHasRoom
    <3> QED BY <1>1, <3>1, RoomPrimed
  <2>8. ZeroHasRoom'
    BY <2>5, RoomPrimed DEF BillingInv, ZeroHasRoom
  <2>9. ReportsCounted'
    <3>1. ASSUME NEW k \in Message, IsStat(k), NEW p \in Port,
                 k.upto[p] + stats[p] <= traffic[p]
          PROVE  k.upto[p] + stats'[p] <= traffic'[p]
      <4>1. k.upto[p] \in Nat
        BY <3>1, StatType
      <4> QED BY <1>1, <2>3, <3>1, <4>1
    <3>2. ASSUME IsStat(msg'), NEW p \in Port
          PROVE  msg'.upto[p] + stats'[p] <= traffic'[p]
      BY <1>1, <3>1, <3>2 DEF BillingInv, ReportsCounted, TypeOK
    <3>3. ASSUME NEW i \in 1 .. Len(inbox'), IsStat(inbox'[i]), NEW p \in Port
          PROVE  inbox'[i].upto[p] + stats'[p] <= traffic'[p]
      <4>1. CASE i = n + 1
        BY <1>1, <2>1, <2>2, <2>3, <4>1
      <4>2. CASE i \in 1 .. n
        <5>1. inbox'[i] = inbox[i] /\ inbox[i] \in Message
          BY <2>2, <4>2, InboxType DEF n
        <5> QED BY <3>1, <3>3, <4>2, <5>1 DEF BillingInv, ReportsCounted, n
      <4> QED BY <2>4, <4>1, <4>2
    <3> QED BY <3>2, <3>3 DEF ReportsCounted, IsStat
  <2>10. ReportsInOrder'
    <3>1. ASSUME IsStat(msg'), NEW i \in 1 .. Len(inbox'), IsStat(inbox'[i]),
                 NEW p \in Port
          PROVE  msg'.upto[p] + inbox'[i].delta[p] <= inbox'[i].upto[p]
      <4>1. CASE i = n + 1
        BY <1>1, <2>1, <2>2, <3>1, <4>1 DEF BillingInv, ReportsCounted
      <4>2. CASE i \in 1 .. n
        BY <1>1, <2>2, <3>1, <4>2 DEF BillingInv, ReportsInOrder, n
      <4> QED BY <2>4, <4>1, <4>2
    <3>2. ASSUME NEW i \in 1 .. Len(inbox'), NEW j \in 1 .. Len(inbox'), i < j,
                 IsStat(inbox'[i]), IsStat(inbox'[j]), NEW p \in Port
          PROVE  inbox'[i].upto[p] + inbox'[j].delta[p] <= inbox'[j].upto[p]
      <4>0. i \in 1 .. n
        BY <2>2, <3>2
      <4>1. CASE j = n + 1
        BY <2>1, <2>2, <3>2, <4>0, <4>1 DEF BillingInv, ReportsCounted, n
      <4>2. CASE j \in 1 .. n
        BY <2>2, <3>2, <4>0, <4>2 DEF BillingInv, ReportsInOrder, n
      <4> QED BY <2>4, <4>1, <4>2
    <3> QED BY <3>1, <3>2 DEF ReportsInOrder, IsStat
  <2> QED BY <2>6, <2>7, <2>8, <2>9, <2>10 DEF BillingInv
<1> QED BY <1>1, <1>2, <1>3

(***************************************************************************)
(* The daemon takes a report from its socket ...                           *)
(***************************************************************************)
LEMMA BillingReceive ==
  ASSUME TypeOK, TypeOK', BillingInv, Receive
  PROVE  BillingInv'
<1>1. /\ conf' = conf /\ users' = users /\ credit' = credit
      /\ traffic' = traffic /\ stats' = stats
  BY DEF Receive, serverVars, ghostVars
<1>2. CASE inbox = <<>>
  <2>1. msg' = Timeout /\ inbox' = inbox
    BY <1>2 DEF Receive
  <2>2. Frame
    BY <1>1, <2>1, StatType DEF Frame, TypeOK
  <2> QED BY <1>1, <2>2, FrameStep, MemoryRecorded
<1>3. CASE inbox # <<>>
  <2> DEFINE n == Len(inbox)
  <2>1. /\ n \in Nat /\ n >= 1 /\ Len(inbox') = n - 1
        /\ msg' = inbox[1] /\ 1 \in 1 .. n
        /\ \A i \in 1 .. (n - 1) : inbox'[i] = inbox[i + 1] /\ i + 1 \in 1 .. n
    <3>1. msg' = Head(inbox) /\ inbox' = Tail(inbox) /\ inbox \in Seq(Message)
      BY <1>3 DEF Receive, TypeOK
    <3>2. n \in Nat /\ n >= 1
      BY <1>3, <3>1, EmptySeq
    <3>3. Len(inbox') = n - 1 /\ \A i \in 1 .. (n - 1) : inbox'[i] = inbox[i + 1]
      BY <1>3, <3>1, HeadTailProperties
    <3>4. msg' = inbox[1]
      BY <1>3, <3>1, HeadTailProperties
    <3> QED BY <3>2, <3>3, <3>4
  <2> HIDE DEF n
  <2>2. ASSUME NEW v, NEW p \in Port, RoomFor(v, p) PROVE RoomNext(v, p)
    BY <1>1, <2>1, <2>2 DEF RoomFor, RoomNext, Billable, n
  <2>3. FileHasRoom'
    <3>1. ASSUME NEW i \in Slot, conf[i] # NoLine
          PROVE  conf[i].usage \in Nat /\ RoomNext(conf[i].usage, conf[i].port)
      <4>1. conf[i].port \in Port
        BY <3>1 DEF TypeOK, File, Line
      <4> QED BY <2>2, <3>1, <4>1 DEF BillingInv, FileHasRoom
    <3> QED BY <1>1, <3>1, RoomPrimed
  <2>4. MemoryHasRoom'
    BY <1>1, <2>2, RoomPrimed DEF BillingInv, MemoryHasRoom
  <2>5. ZeroHasRoom'
    BY <2>2, RoomPrimed DEF BillingInv, ZeroHasRoom
  <2>6. ReportsCounted'
    BY <1>1, <2>1 DEF BillingInv, ReportsCounted, IsStat, n
  <2>7. ReportsInOrder'
    <3>1. ASSUME IsStat(msg'), NEW i \in 1 .. Len(inbox'), IsStat(inbox'[i]),
                 NEW p \in Port
          PROVE  msg'.upto[p] + inbox'[i].delta[p] <= inbox'[i].upto[p]
      <4>1. inbox'[i] = inbox[i + 1] /\ i + 1 \in 1 .. n /\ 1 < i + 1
        BY <2>1
      <4> QED BY <2>1, <3>1, <4>1 DEF BillingInv, ReportsInOrder, n
    <3>2. ASSUME NEW i \in 1 .. Len(inbox'), NEW j \in 1 .. Len(inbox'), i < j,
                 IsStat(inbox'[i]), IsStat(inbox'[j]), NEW p \in Port
          PROVE  inbox'[i].upto[p] + inbox'[j].delta[p] <= inbox'[j].upto[p]
      <4>1. /\ inbox'[i] = inbox[i + 1] /\ i + 1 \in 1 .. n
            /\ inbox'[j] = inbox[j + 1] /\ j + 1 \in 1 .. n /\ i + 1 < j + 1
        BY <2>1, <3>2
      <4> QED BY <3>2, <4>1 DEF BillingInv, ReportsInOrder, n
    <3> QED BY <3>1, <3>2 DEF ReportsInOrder, IsStat
  <2> QED BY <2>3, <2>4, <2>5, <2>6, <2>7 DEF BillingInv
<1> QED BY <1>2, <1>3

(***************************************************************************)
(* ... and adds it to the usages it has in memory: there was room for it,  *)
(* and there is for the reports that follow.                               *)
(***************************************************************************)
LEMMA BillingHandleStat ==
  ASSUME TypeOK, TypeOK', BillingInv, HandleStat
  PROVE  BillingInv'
<1>1. /\ conf' = conf /\ inbox' = inbox /\ credit' = credit
      /\ traffic' = traffic /\ stats' = stats /\ msg' = Nothing
      /\ IsStat(msg) /\ Daemon \in Proc
      /\ users' = [users EXCEPT ![Daemon] = AddData(@, msg.delta)]
  BY ProcessTypes DEF HandleStat, serverVars, ghostVars, IsStat
<1>2. Frame
  BY <1>1, QuietFrame
<1>3. ASSUME NEW p \in Port, users[Daemon][p] # NoUser
      PROVE  RoomNext(users[Daemon][p].usage + msg.delta[p], p)
  <2> DEFINE v == users[Daemon][p].usage
             d == msg.delta[p]
             u == msg.upto[p]
  <2>1. v \in Nat /\ RoomFor(v, p)
    BY <1>1, <1>3 DEF BillingInv, MemoryHasRoom, TypeOK, Table, User
  <2>2. d \in Nat /\ u \in Nat
    BY <1>1, StatType DEF TypeOK
  <2>3. stats[p] \in Nat /\ traffic[p] \in Nat /\ credit[p] \in Nat
    BY DEF TypeOK
  <2>4. v + d <= u + credit[p]
    BY <1>1, <2>1 DEF RoomFor
  <2>5. u + stats[p] <= traffic[p]
    BY <1>1 DEF BillingInv, ReportsCounted
  <2>6. ASSUME NEW i \in 1 .. Len(inbox), IsStat(inbox[i])
        PROVE  v + d + inbox[i].delta[p] <= inbox[i].upto[p] + credit[p]
    <3>1. inbox[i].delta[p] \in Nat /\ inbox[i].upto[p] \in Nat
      BY <2>6, InboxType
    <3>2. u + inbox[i].delta[p] <= inbox[i].upto[p]
      BY <1>1, <2>6 DEF BillingInv, ReportsInOrder
    <3> HIDE DEF v, d, u
    <3> QED BY <2>1, <2>2, <2>3, <2>4, <3>1, <3>2
  <2> HIDE DEF v, d, u
  <2>7. v + d + stats[p] <= traffic[p] + credit[p]
    BY <2>1, <2>2, <2>3, <2>4, <2>5
  <2>8. ~IsStat(msg')
    BY <1>1, StatType
  <2>9. RoomNext(v + d, p)
    BY <1>1, <2>6, <2>7, <2>8 DEF RoomNext
  <2> QED BY <2>9 DEF v, d
<1>4. ASSUME NEW x \in Proc, NEW p \in Port, users'[x][p] # NoUser
      PROVE  \/ Recorded(users'[x][p].usage, p)
             \/ RoomNext(users'[x][p].usage, p)
  <2>1. CASE x = Daemon
    <3>1. /\ users[Daemon][p] # NoUser
          /\ users'[x][p] = [users[Daemon][p] EXCEPT !.usage = @ + msg.delta[p]]
      BY <1>1, <1>4, <2>1 DEF AddData, TypeOK
    <3>2. users[Daemon][p] \in User
      BY <1>1, <3>1 DEF TypeOK, Table
    <3>3. users'[x][p].usage = users[Daemon][p].usage + msg.delta[p]
      BY <3>1, <3>2 DEF User
    <3> QED BY <1>3, <3>1, <3>3
  <2>2. CASE x # Daemon
    <3>1. users'[x] = users[x]
      BY <1>1, <2>2 DEF TypeOK
    <3> QED BY <1>4, <3>1, MemoryRecorded
  <2> QED BY <2>1, <2>2
<1> QED BY <1>1, <1>2, <1>4, FrameStep

(***************************************************************************)
(* A loaded file may claim usages: what it claims is credited.             *)
(***************************************************************************)
LEMMA BillingImport ==
  ASSUME TypeOK, TypeOK', BillingInv, NEW c \in Cli, ImportFrom(c)
  PROVE  BillingInv'
<1>0. c \in Proc
  BY DEF Proc
<1>1. PICK f \in Inputs :
        /\ Begin(c, "load", "load", LoadTable(f, Current),
                 ReloadRequests(f, Current), "request")
        /\ credit' = [p \in Port |-> credit[p] + Claimed(f, p)]
        /\ UNCHANGED <<serverVars, traffic, crashes>>
  BY DEF ImportFrom
<1>2. /\ conf' = conf /\ msg' = msg /\ inbox' = inbox
      /\ users' = [users EXCEPT ![c] = LoadTable(f, Current)]
      /\ stats' = stats /\ traffic' = traffic
  BY <1>1 DEF Begin, daemonVars, serverVars
<1>3. f \in File /\ Current \in Table
  BY InputAssumption, CurrentType DEF File
<1>4. LoadTable(f, Current) \in Table /\ LoadTable(f, EmptyTable) \in Table
  BY <1>3, LoadTableType, EmptyType
<1>5. \A p \in Port : /\ Claimed(f, p) \in Nat /\ stats[p] \in Nat
                      /\ traffic[p] \in Nat /\ credit[p] \in Nat
                      /\ credit'[p] = credit[p] + Claimed(f, p)
  BY <1>1, <1>4 DEF Claimed, Table, User, TypeOK
<1>6. Frame
  BY <1>2, <1>5 DEF Frame
<1>7. ASSUME NEW p \in Port PROVE RoomNext(Claimed(f, p), p)
  <2>1. RoomFor(0, p)
    BY DEF BillingInv, ZeroHasRoom
  <2>2. ASSUME NEW m \in Message, IsStat(m), m.delta[p] <= m.upto[p] + credit[p]
        PROVE  Claimed(f, p) + m.delta[p] <= m.upto[p] + credit'[p]
    <3>1. m.delta[p] \in Nat /\ m.upto[p] \in Nat
      BY <2>2, StatType
    <3> QED BY <1>5, <2>2, <3>1
  <2>3. Claimed(f, p) + stats'[p] <= traffic'[p] + credit'[p]
    BY <1>2, <1>5, <2>1 DEF RoomFor, Billable
  <2>4. IsStat(msg) => Claimed(f, p) + msg.delta[p] <= msg.upto[p] + credit'[p]
    <3>1. ASSUME IsStat(msg) PROVE msg.delta[p] <= msg.upto[p] + credit[p]
      <4>1. msg.delta[p] \in Nat
        BY <3>1, StatType DEF TypeOK
      <4>2. 0 + msg.delta[p] <= msg.upto[p] + credit[p]
        BY <2>1, <3>1 DEF RoomFor
      <4> QED BY <4>1, <4>2
    <3> QED BY <2>2, <3>1 DEF TypeOK
  <2>5. ASSUME NEW i \in 1 .. Len(inbox), IsStat(inbox[i])
        PROVE  Claimed(f, p) + inbox[i].delta[p] <= inbox[i].upto[p] + credit'[p]
    <3>1. inbox[i].delta[p] \in Nat /\ inbox[i] \in Message
      BY <2>5, InboxType
    <3>2. 0 + inbox[i].delta[p] <= inbox[i].upto[p] + credit[p]
      BY <2>1, <2>5 DEF RoomFor
    <3>3. inbox[i].delta[p] <= inbox[i].upto[p] + credit[p]
      BY <3>1, <3>2
    <3> QED BY <2>2, <2>5, <3>1, <3>3
  <2> QED BY <1>2, <2>3, <2>4, <2>5 DEF RoomNext
<1>8. ASSUME NEW p \in Port, LoadTable(f, Current)[p] # NoUser
      PROVE  \/ Recorded(LoadTable(f, Current)[p].usage, p)
             \/ LoadTable(f, Current)[p].usage = Claimed(f, p)
  <2>1. \E i \in Slot : IsLastLine(f, p, i)
    BY <1>8 DEF LoadTable
  <2> DEFINE l == f[CHOOSE i \in Slot : IsLastLine(f, p, i)]
  <2>2. /\ LoadTable(f, Current)[p] = UserOf(l, Current[p])
        /\ LoadTable(f, EmptyTable)[p] = UserOf(l, EmptyTable[p])
    BY <2>1 DEF LoadTable
  <2> HIDE DEF l
  <2>3. CASE l.usage # Blank
    <3>1. /\ LoadTable(f, Current)[p].usage = l.usage
          /\ LoadTable(f, EmptyTable)[p].usage = l.usage
      BY <2>2, <2>3 DEF UserOf
    <3>2. LoadTable(f, EmptyTable)[p] # NoUser
      <4>1. IsLastLine(f, p, CHOOSE i \in Slot : IsLastLine(f, p, i))
              /\ (CHOOSE i \in Slot : IsLastLine(f, p, i)) \in Slot
        BY <2>1
      <4>2. l \in Line
        BY <1>3, <4>1 DEF l, IsLastLine, File
      <4>3. UserOf(l, EmptyTable[p]) \in User
        BY <4>2, CapAssumption, BlankAssumption
           DEF UserOf, Line, User, EmptyTable
      <4> QED BY <2>2, <4>3, NoUserAssumption
    <3> QED BY <3>1, <3>2 DEF Claimed
  <2>4. CASE l.usage = Blank /\ Current[p] # NoUser
    <3>1. LoadTable(f, Current)[p].usage = Current[p].usage
      BY <2>2, <2>4 DEF UserOf
    <3> QED BY <2>4, <3>1, CurrentRecorded DEF BillingInv
  <2>5. CASE l.usage = Blank /\ Current[p] = NoUser
    <3>1. LoadTable(f, Current)[p].usage = 0
      BY <2>2, <2>5 DEF UserOf
    <3> QED BY <3>1 DEF Recorded
  <2> QED BY <2>3, <2>4, <2>5
<1>9. ASSUME NEW x \in Proc, NEW p \in Port, users'[x][p] # NoUser
      PROVE  \/ Recorded(users'[x][p].usage, p)
             \/ RoomNext(users'[x][p].usage, p)
  <2>1. CASE x = c
    <3>1. users'[x] = LoadTable(f, Current)
      BY <1>0, <1>2, <2>1 DEF TypeOK
    <3> QED BY <1>7, <1>8, <1>9, <3>1
  <2>2. CASE x # c
    <3>1. users'[x] = users[x]
      BY <1>0, <1>2, <2>2 DEF TypeOK
    <3> QED BY <1>9, <3>1, MemoryRecorded
  <2> QED BY <2>1, <2>2
<1> QED BY <1>2, <1>6, <1>9, FrameStep

(***************************************************************************)
(* The remaining steps copy usages, or lose them.                          *)
(***************************************************************************)
LEMMA BillingKept ==
  ASSUME TypeOK, TypeOK', BillingInv, Frame,
         conf' = conf \/ conf' = EmptyFile,
         \A x \in Proc, p \in Port : users'[x][p] # NoUser =>
           Recorded(users'[x][p].usage, p)
  PROVE  BillingInv'
BY FrameStep DEF EmptyFile

(***************************************************************************)
(* A process that ends or changes place records nothing.                   *)
(***************************************************************************)
LEMMA BillingForget ==
  ASSUME TypeOK, TypeOK', BillingInv, Frame, conf' = conf,
         NEW x \in Proc,
         users' = users \/ users' = [users EXCEPT ![x] = EmptyTable]
  PROVE  BillingInv'
BY BillingKept, ForgetRecorded, MemoryRecorded

(***************************************************************************)
(* The exit of the daemon loses reports and records none.                  *)
(***************************************************************************)
LEMMA BillingDaemonExits ==
  ASSUME TypeOK, TypeOK', BillingInv, DaemonExits, conf' = conf,
         traffic' = traffic, credit' = credit, stats' = stats
  PROVE  BillingInv'
<1>1. Frame
  BY QuietFrame DEF DaemonExits, DaemonForgets
<1> QED BY <1>1, ProcessTypes, BillingForget DEF DaemonExits, Forget

(***************************************************************************)
(* Sending requests and writing the file keep the invariant.               *)
(***************************************************************************)
LEMMA BillingMethodStep ==
  ASSUME TypeOK, WritesItsUsers, TypeOK', BillingInv, NEW x \in Proc, MethodStep(x)
  PROVE  BillingInv'
<1> USE DEF daemonVars, serverVars, ghostVars
<1>1. CASE SendRequest(x)
  <2>1. Frame
    BY <1>1, QuietFrame DEF SendRequest
  <2> QED BY <1>1, <2>1, BillingForget DEF SendRequest
<1>2. CASE SendFails(x)
  <2>1. CASE x = Daemon
    BY <1>2, <2>1, BillingDaemonExits DEF SendFails
  <2>2. CASE x # Daemon
    <3>1. Frame
      BY <1>2, <2>2, QuietFrame DEF SendFails
    <3> QED BY <1>2, <2>2, <3>1, BillingForget DEF SendFails, CliExits, Forget
  <2> QED BY <2>1, <2>2
<1>3. CASE Truncate(x)
  <2>1. Frame
    BY <1>3, QuietFrame DEF Truncate
  <2> QED BY <1>3, <2>1, BillingKept, MemoryRecorded DEF Truncate
<1>4. CASE WriteLine(x)
  <2>1. Frame
    BY <1>4, QuietFrame DEF WriteLine
  <2>2. PICK p \in left[x] :
          conf' = [conf EXCEPT ![SlotOf(users[x], p)] = LineOf(users[x], p)]
    BY <1>4 DEF WriteLine
  <2>3. p \in Port /\ users[x][p] # NoUser
    BY <2>2 DEF WritesItsUsers, Managed
  <2>4. \A i \in Slot : conf'[i] = conf[i] \/ conf'[i] = LineOf(users[x], p)
    BY <2>2 DEF TypeOK, File
  <2>5. users' = users
    BY <1>4 DEF WriteLine
  <2> QED BY <2>1, <2>3, <2>4, <2>5, FrameStep, MemoryRecorded
<1>5. CASE CloseConf(x)
  <2>1. Frame
    BY <1>5, QuietFrame DEF CloseConf
  <2> QED BY <1>5, <2>1, BillingForget DEF CloseConf
<1> QED BY <1>1, <1>2, <1>3, <1>4, <1>5 DEF MethodStep

(***************************************************************************)
(* A new process of the tool holds the table the file stands for, with     *)
(* some usages set to zero.                                                *)
(***************************************************************************)
LEMMA BillingBegin ==
  ASSUME TypeOK, TypeOK', BillingInv, NEW c \in Cli, NEW command, NEW kind,
         NEW t, NEW o, NEW q, Begin(c, command, kind, t, o, q),
         \A p \in Port : t[p] # NoUser => Recorded(t[p].usage, p),
         traffic' = traffic, credit' = credit,
         stats' = stats \/ stats' = NoTraffic
  PROVE  BillingInv'
<1>1. /\ c \in Proc /\ conf' = conf /\ users' = [users EXCEPT ![c] = t]
      /\ msg' = msg /\ inbox' = inbox
  BY DEF Begin, daemonVars, Proc
<1>2. Frame
  BY <1>1, QuietFrame
<1>3. ASSUME NEW x \in Proc, NEW p \in Port, users'[x][p] # NoUser
      PROVE  Recorded(users'[x][p].usage, p)
  <2>1. CASE x = c
    <3>1. users'[x] = t
      BY <1>1, <2>1 DEF TypeOK
    <3> QED BY <1>3, <3>1
  <2>2. CASE x # c
    <3>1. users'[x] = users[x]
      BY <1>1, <2>2 DEF TypeOK
    <3> QED BY <1>3, <3>1, MemoryRecorded
  <2> QED BY <2>1, <2>2
<1> QED BY <1>1, <1>2, <1>3, BillingKept

(***************************************************************************)
(* Every command of the tool keeps the invariant.                          *)
(***************************************************************************)
LEMMA BillingCommand ==
  ASSUME TypeOK, TypeOK', BillingInv, NEW c \in Cli, Command(c)
  PROVE  BillingInv'
<1> USE DEF serverVars, ghostVars
<1>0. /\ Current \in Table
      /\ \A p \in Port : Current[p] # NoUser => Recorded(Current[p].usage, p)
      /\ \A p \in Port : Recorded(0, p)
  BY CurrentType, CurrentRecorded DEF BillingInv, Recorded
<1>1. CASE AddPort(c)
  <2>1. PICK p \in Port, w \in Password, k \in Caps :
          LET known == p \in Managed(Current)
              u == [pw |-> w, cap |-> k,
                    usage |-> IF known THEN Current[p].usage ELSE 0]
              o == (IF known THEN {RemoveRequest(0, p)} ELSE {})
                     \cup {AddRequest(1, p, w)}
          IN  /\ Begin(c, "add", "edit", [Current EXCEPT ![p] = u], o, "request")
              /\ UNCHANGED <<serverVars, ghostVars>>
    BY <1>1 DEF AddPort
  <2> DEFINE known == p \in Managed(Current)
             u == [pw |-> w, cap |-> k,
                   usage |-> IF known THEN Current[p].usage ELSE 0]
             t == [Current EXCEPT ![p] = u]
  <2>2. Recorded(u.usage, p)
    BY <1>0 DEF Managed
  <2> HIDE DEF u
  <2>3. \A q \in Port : t[q] # NoUser => Recorded(t[q].usage, q)
    BY <1>0, <2>2 DEF Table
  <2> HIDE DEF t
  <2> QED BY <2>1, <2>3, BillingBegin DEF t, u
<1>2. CASE RemovePort(c)
  <2>1. PICK p \in Managed(Current) :
          /\ Begin(c, "remove", "edit", [Current EXCEPT ![p] = NoUser],
                   {RemoveRequest(0, p)}, "request")
          /\ UNCHANGED <<serverVars, ghostVars>>
    BY <1>2 DEF RemovePort
  <2> DEFINE t == [Current EXCEPT ![p] = NoUser]
  <2>2. \A q \in Port : t[q] # NoUser => Recorded(t[q].usage, q)
    BY <1>0 DEF Table
  <2> HIDE DEF t
  <2> QED BY <2>1, <2>2, BillingBegin DEF t
<1>3. CASE UpdateDatacap(c)
  <2>1. PICK p \in Managed(Current), k \in Caps :
          /\ Begin(c, "limit", "edit", [Current EXCEPT ![p].cap = k], {}, "open")
          /\ UNCHANGED <<serverVars, ghostVars>>
    BY <1>3 DEF UpdateDatacap
  <2> DEFINE t == [Current EXCEPT ![p].cap = k]
  <2>2. p \in Port /\ Current[p] # NoUser /\ Current[p] \in User
    BY <1>0 DEF Managed, Table
  <2>3. t[p].usage = Current[p].usage /\ \A q \in Port \ {p} : t[q] = Current[q]
    BY <1>0, <2>2 DEF Table, User
  <2> HIDE DEF t
  <2>4. \A q \in Port : t[q] # NoUser => Recorded(t[q].usage, q)
    BY <1>0, <2>2, <2>3
  <2> QED BY <2>1, <2>4, BillingBegin DEF t
<1>4. CASE ResetUsage(c)
  <2>1. PICK p \in Managed(Current) :
          /\ Begin(c, "reset", "edit", [Current EXCEPT ![p].usage = 0], {}, "open")
          /\ UNCHANGED <<serverVars, ghostVars>>
    BY <1>4 DEF ResetUsage
  <2> DEFINE t == [Current EXCEPT ![p].usage = 0]
  <2>2. p \in Port /\ Current[p] \in User
    BY <1>0 DEF Managed, Table
  <2>3. t[p].usage = 0 /\ \A q \in Port \ {p} : t[q] = Current[q]
    BY <1>0, <2>2 DEF Table, User
  <2> HIDE DEF t
  <2>4. \A q \in Port : t[q] # NoUser => Recorded(t[q].usage, q)
    BY <1>0, <2>2, <2>3
  <2> QED BY <2>1, <2>4, BillingBegin DEF t
<1>5. CASE ResetAllUsage(c)
  <2> DEFINE t == [p \in Port |-> IF Current[p] = NoUser THEN NoUser
                                  ELSE [Current[p] EXCEPT !.usage = 0]]
  <2>1. \A q \in Port : t[q] # NoUser => t[q].usage = 0
    BY <1>0 DEF Table, User
  <2>2. /\ Begin(c, "reset_all", "quiet", t, {}, "open")
        /\ UNCHANGED <<serverVars, ghostVars>>
    BY <1>5 DEF ResetAllUsage
  <2> HIDE DEF t
  <2> QED BY <1>0, <2>1, <2>2, BillingBegin
<1>6. CASE ImportFrom(c)
  BY <1>6, BillingImport
<1>7. CASE StartServer(c)
  BY <1>0, <1>7, BillingBegin DEF StartServer
<1>8. CASE StartFoundServer(c)
  BY <1>0, <1>8, BillingBegin DEF StartFoundServer
<1>9. CASE StopDaemon(c)
  <2>1. Frame
    BY <1>9, QuietFrame DEF StopDaemon, DaemonForgets
  <2> QED BY <1>9, <2>1, ProcessTypes, BillingForget DEF StopDaemon, Forget
<1> QED BY <1>1, <1>2, <1>3, <1>4, <1>5, <1>6, <1>7, <1>8, <1>9 DEF Command

(***************************************************************************)
(* So does every later step of a command.                                  *)
(***************************************************************************)
LEMMA BillingCliStep ==
  ASSUME TypeOK, WritesItsUsers, TypeOK', BillingInv, NEW c \in Cli, CliStep(c)
  PROVE  BillingInv'
<1> USE DEF daemonVars, serverVars, ghostVars
<1>0. c \in Proc
  BY DEF Proc
<1>1. CASE MethodStep(c)
  BY <1>0, <1>1, BillingMethodStep
<1>2. CASE InitAfterImport(c)
  <2>1. Frame
    BY <1>2, QuietFrame DEF InitAfterImport
  <2> QED BY <1>0, <1>2, <2>1, BillingForget DEF InitAfterImport
<1>3. CASE SpawnDaemon(c)
  <2>1. Frame
    BY <1>3, QuietFrame DEF SpawnDaemon
  <2> QED BY <1>0, <1>3, <2>1, BillingForget DEF SpawnDaemon, Forget
<1>4. CASE StopServer(c)
  <2>1. Frame
    BY <1>4, QuietFrame DEF StopServer, ServerGone
  <2> QED BY <1>0, <1>4, <2>1, BillingForget DEF StopServer
<1>5. CASE SignalDaemon(c)
  <2>1. /\ conf' = conf /\ traffic' = traffic /\ credit' = credit /\ stats' = stats
        /\ users' = [users EXCEPT ![c] = EmptyTable]
        /\ msg' = msg \/ msg' = Nothing \/ msg' = Interrupt
        /\ inbox' = inbox \/ inbox' = <<>>
    BY <1>5 DEF SignalDaemon, Forget, DaemonForgets
  <2>2. Frame
    BY <2>1, QuietFrame
  <2> QED BY <1>0, <2>1, <2>2, BillingForget
<1>6. CASE ExitQuietly(c)
  <2>1. Frame
    BY <1>6, QuietFrame DEF ExitQuietly
  <2> QED BY <1>0, <1>6, <2>1, BillingForget DEF ExitQuietly, CliExits, Forget
<1> QED BY <1>1, <1>2, <1>3, <1>4, <1>5, <1>6 DEF CliStep

(***************************************************************************)
(* Every step of the daemon keeps the invariant.                           *)
(***************************************************************************)
LEMMA BillingDaemonStep ==
  ASSUME TypeOK, WritesItsUsers, TypeOK', BillingInv, DaemonStep
  PROVE  BillingInv'
<1> USE DEF daemonVars, serverVars, ghostVars
<1>0. Daemon \in Proc
  BY ProcessTypes
<1>1. CASE MethodStep(Daemon)
  BY <1>0, <1>1, BillingMethodStep
<1>2. CASE DaemonBoot
  <2>1. CASE up
    <3>1. /\ conf' = conf /\ users' = users /\ traffic' = traffic
          /\ credit' = credit /\ stats' = stats /\ msg' = msg
          /\ inbox' = inbox \/ inbox' = Append(inbox, Pong)
      BY <1>2, <2>1, PongDelivered DEF DaemonBoot
    <3>2. Frame
      BY <3>1, QuietFrame
    <3> QED BY <1>0, <3>1, <3>2, BillingForget
  <2>2. CASE ~up
    BY <1>2, <2>2, BillingDaemonExits DEF DaemonBoot
  <2> QED BY <2>1, <2>2
<1>3. CASE DaemonArm
  <2>1. Frame
    BY <1>3, QuietFrame DEF DaemonArm
  <2> QED BY <1>0, <1>3, <2>1, BillingForget DEF DaemonArm
<1>4. CASE Receive
  BY <1>4, BillingReceive
<1>5. CASE Construct
  <2>1. Frame
    BY <1>5, QuietFrame DEF Construct
  <2>2. conf' = conf /\ users' = [users EXCEPT ![Daemon] = Current]
    BY <1>5 DEF Construct
  <2>3. ASSUME NEW x \in Proc, NEW p \in Port, users'[x][p] # NoUser
        PROVE  Recorded(users'[x][p].usage, p)
    <3>1. users'[x] = Current \/ users'[x] = users[x]
      BY <1>0, <2>2 DEF TypeOK
    <3> QED BY <2>3, <3>1, CurrentRecorded, MemoryRecorded DEF BillingInv
  <2> QED BY <2>1, <2>2, <2>3, BillingKept
<1>6. CASE Load
  <2>1. Frame
    BY <1>6, QuietFrame DEF Load
  <2> DEFINE t == LoadTable(conf, users[Daemon])
  <2>2. conf' = conf /\ users' = [users EXCEPT ![Daemon] = t]
    BY <1>6 DEF Load
  <2>3. \A p \in Port : t[p] # NoUser => Recorded(t[p].usage, p)
    BY <1>0, LoadRecorded DEF BillingInv, TypeOK
  <2> HIDE DEF t
  <2>4. ASSUME NEW x \in Proc, NEW p \in Port, users'[x][p] # NoUser
        PROVE  Recorded(users'[x][p].usage, p)
    <3>1. users'[x] = t \/ users'[x] = users[x]
      BY <1>0, <2>2 DEF TypeOK
    <3> QED BY <2>3, <2>4, <3>1, MemoryRecorded
  <2> QED BY <2>1, <2>2, <2>4, BillingKept
<1>7. CASE HandleStat
  BY <1>7, BillingHandleStat
<1>8. CASE HandleTimeout
  <2>1. CASE DaemonExits /\ UNCHANGED serverVars
    BY <1>8, <2>1, BillingDaemonExits DEF HandleTimeout
  <2>2. CASE ~(DaemonExits /\ UNCHANGED serverVars)
    <3>1. /\ conf' = conf /\ users' = users /\ traffic' = traffic
          /\ credit' = credit /\ stats' = stats /\ msg' = Nothing
          /\ inbox' = inbox \/ inbox' = Append(inbox, Pong)
      BY <1>8, <2>2, PongDelivered DEF HandleTimeout, Ping
    <3>2. Frame
      BY <3>1, QuietFrame
    <3> QED BY <1>0, <3>1, <3>2, BillingForget
  <2> QED BY <2>1, <2>2
<1>9. CASE HandleOther
  <2>1. Frame
    BY <1>9, QuietFrame DEF HandleOther
  <2> QED BY <1>0, <1>9, <2>1, BillingForget DEF HandleOther
<1>10. CASE PingIfAsked
  <2>1. CASE DaemonExits /\ UNCHANGED serverVars
    BY <1>10, <2>1, BillingDaemonExits DEF PingIfAsked
  <2>2. CASE ~(DaemonExits /\ UNCHANGED serverVars)
    <3>1. /\ conf' = conf /\ users' = users /\ traffic' = traffic
          /\ credit' = credit /\ stats' = stats /\ msg' = msg
          /\ inbox' = inbox \/ inbox' = Append(inbox, Pong)
      BY <1>10, <2>2, PongDelivered DEF PingIfAsked, Ping
    <3>2. Frame
      BY <3>1, QuietFrame
    <3> QED BY <1>0, <3>1, <3>2, BillingForget
  <2> QED BY <2>1, <2>2
<1>11. CASE ClearFlag
  <2>1. Frame
    BY <1>11, QuietFrame DEF ClearFlag
  <2> QED BY <1>0, <1>11, <2>1, BillingForget DEF ClearFlag
<1> QED BY <1>1, <1>2, <1>3, <1>4, <1>5, <1>6, <1>7, <1>8, <1>9, <1>10, <1>11
        DEF DaemonStep

(***************************************************************************)
(* Every step of ssserver keeps the invariant.                             *)
(***************************************************************************)
LEMMA BillingServerStep ==
  ASSUME TypeOK, TypeOK', BillingInv, ServerStep
  PROVE  BillingInv'
<1>1. CASE ServerCrash
  <2>1. Frame
    BY <1>1, QuietFrame DEF ServerCrash, ServerGone
  <2> QED BY <1>1, <2>1, ProcessTypes, BillingForget DEF ServerCrash
<1> QED BY <1>1, BillingTraffic, BillingSendStat DEF ServerStep

(***************************************************************************)
(* The system starts with nothing recorded.                                *)
(***************************************************************************)
LEMMA BillingInit == ASSUME Init PROVE BillingInv
<1>1. /\ \A p \in Port : stats[p] = 0 /\ traffic[p] = 0 /\ credit[p] = 0
      /\ msg = Nothing /\ Len(inbox) = 0
      /\ \A i \in Slot : conf[i] = NoLine
      /\ \A x \in Proc, p \in Port : users[x][p] = NoUser
  BY DEF Init, NoTraffic, EmptyFile, EmptyTable
<1>2. ~IsStat(msg) /\ 1 .. Len(inbox) = {}
  BY <1>1, StatType
<1>3. \A p \in Port : RoomFor(0, p)
  BY <1>1, <1>2 DEF RoomFor, Billable
<1> QED BY <1>1, <1>2, <1>3
        DEF BillingInv, FileHasRoom, MemoryHasRoom, ZeroHasRoom,
            ReportsCounted, ReportsInOrder

(***************************************************************************)
(* The invariant is kept by every step.                                    *)
(***************************************************************************)
LEMMA BillingNext ==
  ASSUME TypeOK, WritesItsUsers, TypeOK', BillingInv, [Next]_vars
  PROVE  BillingInv'
<1>1. CASE DaemonKilled
  BY <1>1, BillingDaemonExits DEF DaemonKilled, serverVars
<1>2. CASE UNCHANGED vars
  <2>1. /\ conf' = conf /\ users' = users /\ msg' = msg /\ inbox' = inbox
        /\ traffic' = traffic /\ credit' = credit /\ stats' = stats
    BY <1>2 DEF vars, daemonVars, serverVars, ghostVars
  <2>2. Frame
    BY <2>1, QuietFrame
  <2> QED BY <2>1, <2>2, ProcessTypes, BillingForget
<1> QED BY <1>1, <1>2, BillingServerStep, BillingCommand, BillingCliStep,
           BillingDaemonStep DEF Next

-----------------------------------------------------------------------------
(***************************************************************************)
(* No usage that the file or any process records ever exceeds the traffic  *)
(* of its port, plus what loaded files claimed: whatever the interleaving  *)
(* of tools and daemon, with every crash, lost report and lost update the  *)
(* system has.                                                             *)
(***************************************************************************)
THEOREM Billing == Spec => []NoOverbilling
<1>1. Init => TypeOK /\ WritesItsUsers /\ BillingInv
  BY TypeInit, BillingInit DEF Init, WritesItsUsers
<1>2. TypeOK /\ WritesItsUsers /\ BillingInv /\ [Next]_vars
        => (TypeOK /\ WritesItsUsers /\ BillingInv)'
  BY TypeNext, BillingNext
<1>3. TypeOK /\ BillingInv => NoOverbilling
  <2> SUFFICES ASSUME TypeOK, BillingInv PROVE NoOverbilling
    OBVIOUS
  <2>1. ASSUME NEW v \in Nat, NEW p \in Port, RoomFor(v, p)
        PROVE  v <= Billable(p)
    BY <2>1 DEF RoomFor, Billable, TypeOK
  <2>2. ASSUME NEW i \in Slot, conf[i] # NoLine
        PROVE  conf[i].usage <= Billable(conf[i].port)
    <3>1. conf[i].port \in Port
      BY <2>2 DEF TypeOK, File, Line
    <3> QED BY <2>1, <2>2, <3>1 DEF BillingInv, FileHasRoom
  <2>3. ASSUME NEW x \in Proc, NEW p \in Managed(users[x])
        PROVE  users[x][p].usage <= Billable(p)
    <3>1. p \in Port /\ users[x][p] # NoUser /\ users[x][p].usage \in Nat
      BY <2>3 DEF Managed, TypeOK, Table, User
    <3> QED BY <2>1, <3>1 DEF BillingInv, MemoryHasRoom
  <2> QED BY <2>2, <2>3 DEF NoOverbilling
<1> QED BY <1>1, <1>2, <1>3, PTL DEF Spec

-----------------------------------------------------------------------------
(***************************************************************************)
(* The ports that ssserver serves.                                         *)
(*                                                                         *)
(* The port that the default configuration of Shadowsocks opens is closed  *)
(* by the start that brings ssserver up, for any number of commands,       *)
(* daemons that come and go, and deaths of ssserver.                       *)
(*                                                                         *)
(* When one operation follows another and nothing dies, no user over the   *)
(* cap is served at rest, and the daemon drops no user.                    *)
(***************************************************************************)
\* Command c has started ssserver and still has to remove the placeholder.
Pending(c) ==
  pc[c] = "init" /\ job[c] = "start" /\ RemoveRequest(0, Placeholder) \in out[c]

(***************************************************************************)
(* Why the placeholder is removed: the removal is the first request of the *)
(* start, and a process that has sent none has no connection that could    *)
(* have gone stale, so that the start fails only if ssserver is down.      *)
(***************************************************************************)
PlaceholderInv ==
  /\ ~up => served[Placeholder] = NotServed
  /\ \A c \in Cli : pc[c] \in {"idle", "stopping"} => comm[c] = "none"
  /\ \A c \in Cli : pc[c] = "init" /\ job[c] = "start" =>
       \A r \in out[c] : r.ord = 0 => r = RemoveRequest(0, Placeholder)
  /\ \A c \in Cli : Pending(c) => comm[c] = "none"
  /\ served[Placeholder] # NotServed => \E c \in Cli : Pending(c)

(***************************************************************************)
(* Steps that do not serve the placeholder and leave each command's start  *)
(* alone, or end it when the placeholder is not served.                    *)
(***************************************************************************)
Untouched(c) ==
  /\ pc'[c] = pc[c] /\ job'[c] = job[c] /\ out'[c] = out[c]
  /\ comm[c] = "none" => comm'[c] = "none"

Elsewhere(c) ==
  /\ ~Pending(c) \/ served'[Placeholder] = NotServed
  /\ ~(pc'[c] = "init" /\ job'[c] = "start")
  /\ pc'[c] \in {"idle", "stopping"} => comm'[c] = "none"

LEMMA PlaceholderFrame ==
  ASSUME PlaceholderInv,
         ~up' => served'[Placeholder] = NotServed,
         served'[Placeholder] \in {served[Placeholder], NotServed},
         \A c \in Cli : Untouched(c) \/ Elsewhere(c)
  PROVE  PlaceholderInv'
<1>1. ASSUME NEW c \in Cli, Pending(c)'
      PROVE  Untouched(c) /\ Pending(c)
  <2>1. pc'[c] = "init" /\ job'[c] = "start" /\ RemoveRequest(0, Placeholder) \in out'[c]
    BY <1>1 DEF Pending, RemoveRequest
  <2>2. Untouched(c)
    BY <2>1 DEF Elsewhere
  <2> QED BY <2>1, <2>2 DEF Pending, Untouched
<1>2. \A c \in Cli : Pending(c)' => comm'[c] = "none"
  BY <1>1 DEF PlaceholderInv, Untouched
<1>3. served'[Placeholder] # NotServed => \E c \in Cli : Pending(c)'
  <2>1. SUFFICES ASSUME served'[Placeholder] # NotServed
                 PROVE  \E c \in Cli : Pending(c)'
    OBVIOUS
  <2>2. PICK c \in Cli : Pending(c)
    BY <2>1 DEF PlaceholderInv
  <2>3. Untouched(c)
    BY <2>1, <2>2 DEF Elsewhere
  <2>4. Pending(c)'
    BY <2>2, <2>3 DEF Pending, Untouched, RemoveRequest
  <2> QED BY <2>4
<1>4. \A c \in Cli : pc'[c] \in {"idle", "stopping"} => comm'[c] = "none"
  BY DEF PlaceholderInv, Untouched, Elsewhere
<1>5. \A c \in Cli : pc'[c] = "init" /\ job'[c] = "start" =>
        \A r \in out'[c] : r.ord = 0 => r = RemoveRequest(0, Placeholder)
  BY DEF PlaceholderInv, Untouched, Elsewhere
<1> QED BY <1>2, <1>3, <1>4, <1>5 DEF PlaceholderInv, RemoveRequest

(***************************************************************************)
(* No request adds the placeholder.                                        *)
(***************************************************************************)
LEMMA PlaceholderObey ==
  ASSUME NEW s \in [ServerPort -> Password \cup {NotServed}], NEW r \in Request
  PROVE  /\ Obey(s, r)[Placeholder] \in {s[Placeholder], NotServed}
         /\ r = RemoveRequest(0, Placeholder) => Obey(s, r)[Placeholder] = NotServed
<1>1. Placeholder \in ServerPort /\ Placeholder \notin Port
  BY PlaceholderAssumption DEF ServerPort
<1>2. CASE r.kind = "remove"
  BY <1>1, <1>2 DEF Obey, Request, RemoveRequest
<1>3. CASE r.kind # "remove"
  <2>1. r.port \in Port /\ r # RemoveRequest(0, Placeholder)
    BY <1>3 DEF Request, RemoveRequest
  <2>2. r.port # Placeholder
    BY <1>1, <2>1
  <2> QED BY <1>1, <1>3, <2>1, <2>2 DEF Obey
<1> QED BY <1>2, <1>3

(***************************************************************************)
(* A request that is sent is the removal, if that is still to be sent.     *)
(***************************************************************************)
LEMMA PlaceholderSendRequest ==
  ASSUME TypeOK, PlaceholderInv, NEW x \in Proc, SendRequest(x)
  PROVE  PlaceholderInv'
<1>1. PICK r \in out[x] :
        /\ \A s \in out[x] : r.ord <= s.ord
        /\ out' = [out EXCEPT ![x] = @ \ {r}]
        /\ served' = Obey(served, r)
  BY DEF SendRequest
<1>2. r \in Request /\ out[x] \subseteq Request
  BY <1>1 DEF TypeOK
<1>3. /\ served'[Placeholder] \in {served[Placeholder], NotServed}
      /\ r = RemoveRequest(0, Placeholder) => served'[Placeholder] = NotServed
  BY <1>1, <1>2, PlaceholderObey DEF TypeOK
<1>4. /\ up /\ up' = up /\ pc' = pc /\ job' = job /\ pc[x] \in Sending
      /\ comm' = [comm EXCEPT ![x] = "live"]
  BY DEF SendRequest, cliVars
<1>5. \A c \in Cli \ {x} : Untouched(c)
  <2>1. \A c \in Cli : c \in Proc
    BY ProcessTypes
  <2> QED BY <1>1, <1>4, <2>1 DEF Untouched, TypeOK
<1>6. CASE x \notin Cli
  BY <1>3, <1>4, <1>5, <1>6, PlaceholderFrame
<1>7. CASE x \in Cli /\ ~(pc[x] = "init" /\ job[x] = "start")
  <2>1. Elsewhere(x)
    BY <1>4, <1>7 DEF Elsewhere, Pending, Sending
  <2> QED BY <1>3, <1>4, <1>5, <2>1, PlaceholderFrame
<1>8. CASE x \in Cli /\ pc[x] = "init" /\ job[x] = "start"
  <2>1. RemoveRequest(0, Placeholder) \in out[x] => r = RemoveRequest(0, Placeholder)
    <3> SUFFICES ASSUME RemoveRequest(0, Placeholder) \in out[x]
                 PROVE  r = RemoveRequest(0, Placeholder)
      OBVIOUS
    <3>1. r.ord <= RemoveRequest(0, Placeholder).ord
      BY <1>1
    <3>2. RemoveRequest(0, Placeholder).ord = 0
      BY DEF RemoveRequest
    <3>3. r.ord \in Nat
      BY <1>2 DEF Request
    <3>4. r.ord = 0
      BY <3>1, <3>2, <3>3
    <3> QED BY <1>1, <1>8, <3>4 DEF PlaceholderInv
  <2>2. out'[x] = out[x] \ {r}
    BY <1>1 DEF TypeOK
  <2>3. ~Pending(x)'
    BY <2>1, <2>2 DEF Pending, RemoveRequest
  <2>4. Pending(x) => served'[Placeholder] = NotServed
    BY <1>3, <2>1 DEF Pending
  <2>5. \A c \in Cli \ {x} : Pending(c)' <=> Pending(c)
    BY <1>5, <1>4 DEF Pending, Untouched, RemoveRequest
  <2>6. \A c \in Cli : Pending(c)' => comm'[c] = "none"
    BY <1>5, <2>3, <2>5 DEF PlaceholderInv, Untouched
  <2>7. served'[Placeholder] # NotServed => \E c \in Cli : Pending(c)'
    BY <1>3, <2>4, <2>5 DEF PlaceholderInv
  <2>8. \A c \in Cli : pc'[c] \in {"idle", "stopping"} => comm'[c] = "none"
    BY <1>4, <1>5, <1>8 DEF PlaceholderInv, Untouched
  <2>9. \A c \in Cli : out'[c] \subseteq out[c]
    BY <1>5, <2>2 DEF Untouched
  <2>10. \A c \in Cli : pc'[c] = "init" /\ job'[c] = "start" =>
           \A q \in out'[c] : q.ord = 0 => q = RemoveRequest(0, Placeholder)
    BY <1>4, <2>9 DEF PlaceholderInv
  <2> QED BY <1>4, <2>6, <2>7, <2>8, <2>10 DEF PlaceholderInv, RemoveRequest
<1> QED BY <1>6, <1>7, <1>8

(***************************************************************************)
(* The other steps inside a method.                                        *)
(***************************************************************************)
LEMMA PlaceholderMethodStep ==
  ASSUME TypeOK, PlaceholderInv, NEW x \in Proc, MethodStep(x)
  PROVE  PlaceholderInv'
<1>0. \A c \in Cli : c \in Proc /\ c # Daemon
  BY CliAssumption DEF Proc
<1>1. CASE SendRequest(x)
  BY <1>1, PlaceholderSendRequest
<1>2. CASE SendFails(x)
  <2>1. Forget(x) /\ served' = served /\ up' = up
    BY <1>2 DEF SendFails, DaemonExits, CliExits, serverVars
  <2>2. /\ \E v : pc' = [pc EXCEPT ![x] = v]
        /\ x = Daemon => job' = job
        /\ x # Daemon => CliExits(x)
        /\ pc[x] \in Sending /\ (~up \/ comm[x] = "stale")
    BY <1>2 DEF SendFails, DaemonExits, CliExits
  <2>3. \A c \in Cli \ {x} : Untouched(c)
    BY <1>0, <2>1, <2>2 DEF Untouched, Forget, CliExits, TypeOK
  <2>4. x \in Cli => Elsewhere(x)
    <3> SUFFICES ASSUME x \in Cli PROVE Elsewhere(x)
      OBVIOUS
    <3>1. pc'[x] = "idle" /\ comm'[x] = "none"
      BY <1>0, <2>1, <2>2 DEF CliExits, Forget, TypeOK
    <3>2. Pending(x) => served'[Placeholder] = NotServed
      BY <2>1, <2>2 DEF PlaceholderInv
    <3> QED BY <3>1, <3>2 DEF Elsewhere
  <2>5. ~up' => served'[Placeholder] = NotServed
    BY <2>1 DEF PlaceholderInv
  <2> QED BY <2>1, <2>3, <2>4, <2>5, PlaceholderFrame
<1>3. CASE Truncate(x) \/ WriteLine(x) \/ CloseConf(x)
  <2>1. /\ served' = served /\ up' = up /\ job' = job /\ comm' = comm
        /\ \E v : out' = [out EXCEPT ![x] = v]
        /\ \/ pc' = pc /\ pc[x] = "write"
           \/ \E v \in {"write", "refresh"} :
                pc' = [pc EXCEPT ![x] = v] /\ pc[x] \in {"open", "request", "write"}
    <3>1. CASE Truncate(x)
      BY <3>1 DEF Truncate, serverVars, cliVars, TypeOK
    <3>2. CASE WriteLine(x)
      BY <3>2 DEF WriteLine, serverVars, cliVars, TypeOK
    <3>3. CASE CloseConf(x)
      BY <3>3 DEF CloseConf, serverVars, cliVars
    <3> QED BY <1>3, <3>1, <3>2, <3>3
  <2>2. \A c \in Cli \ {x} : Untouched(c)
    BY <1>0, <2>1 DEF Untouched, TypeOK
  <2>3. x \in Cli => Elsewhere(x)
    BY <1>0, <2>1 DEF Elsewhere, Pending, TypeOK
  <2>4. ~up' => served'[Placeholder] = NotServed
    BY <2>1 DEF PlaceholderInv
  <2> QED BY <2>1, <2>2, <2>3, <2>4, PlaceholderFrame
<1> QED BY <1>1, <1>2, <1>3 DEF MethodStep

(***************************************************************************)
(* ssserver counts, reports or dies.                                       *)
(***************************************************************************)
LEMMA PlaceholderServerStep ==
  ASSUME TypeOK, PlaceholderInv, ServerStep
  PROVE  PlaceholderInv'
<1>0. \A c \in Cli : c \in Proc
  BY ProcessTypes
<1>1. CASE ServerCrash
  <2>1. /\ served'[Placeholder] = NotServed
        /\ UNCHANGED <<pc, job, out>> /\ comm' = [x \in Proc |-> Stale(comm[x])]
    BY <1>1, PlaceholderAssumption
       DEF ServerCrash, ServerGone, FreshServer, ServerPort, cliVars
  <2>2. \A c \in Cli : Untouched(c)
    BY <1>0, <2>1 DEF Untouched, Stale
  <2> QED BY <2>1, <2>2, PlaceholderFrame
<1>2. CASE SendStat \/ \E p \in Port : Traffic(p)
  <2>1. UNCHANGED <<served, up, pc, job, out, comm>>
    BY <1>2 DEF SendStat, Traffic, cliVars
  <2>2. \A c \in Cli : Untouched(c)
    BY <2>1 DEF Untouched
  <2>3. ~up' => served'[Placeholder] = NotServed
    BY <2>1 DEF PlaceholderInv
  <2> QED BY <2>1, <2>2, <2>3, PlaceholderFrame
<1> QED BY <1>1, <1>2 DEF ServerStep

(***************************************************************************)
(* A command begins; a start that finds ssserver down begins with the      *)
(* removal to send.                                                        *)
(***************************************************************************)
LEMMA PlaceholderBegin ==
  ASSUME TypeOK, PlaceholderInv, NEW c \in Cli, NEW command, NEW kind, NEW t, NEW o,
         NEW p \in {"request", "open", "spawn"}, Begin(c, command, kind, t, o, p),
         UNCHANGED <<served, up>>
  PROVE  PlaceholderInv'
<1>1. \A k \in Cli : k \in Proc
  BY ProcessTypes
<1>2. /\ pc[c] = "idle" /\ pc' = [pc EXCEPT ![c] = p] /\ comm' = comm
      /\ job' = [job EXCEPT ![c] = kind] /\ out' = [out EXCEPT ![c] = o]
  BY DEF Begin
<1>3. \A k \in Cli \ {c} : Untouched(k)
  BY <1>1, <1>2 DEF Untouched, TypeOK
<1>4. Elsewhere(c)
  BY <1>1, <1>2 DEF Elsewhere, Pending, TypeOK
<1>5. ~up' => served'[Placeholder] = NotServed
  BY DEF PlaceholderInv
<1> QED BY <1>3, <1>4, <1>5, PlaceholderFrame

LEMMA PlaceholderStartServer ==
  ASSUME TypeOK, PlaceholderInv, NEW c \in Cli, StartServer(c)
  PROVE  PlaceholderInv'
<1>1. c \in Proc /\ \A k \in Cli : k \in Proc
  BY ProcessTypes
<1>2. /\ pc[c] = "idle" /\ pc' = [pc EXCEPT ![c] = "init"] /\ comm' = comm
      /\ job' = [job EXCEPT ![c] = "start"]
      /\ out' = [out EXCEPT ![c] = InitRequests(Current)]
      /\ up'
  BY DEF StartServer, Begin
<1>3. /\ pc'[c] = "init" /\ job'[c] = "start" /\ out'[c] = InitRequests(Current)
      /\ comm'[c] = "none"
  BY <1>1, <1>2 DEF PlaceholderInv, TypeOK
<1>4. \A k \in Cli \ {c} : Untouched(k)
  BY <1>1, <1>2 DEF Untouched, TypeOK
<1>5. \A r \in InitRequests(Current) : r.ord = 0 => r = RemoveRequest(0, Placeholder)
  <2>1. ASSUME NEW p \in Managed(Current)
        PROVE  2 * p + 1 # 0 /\ 2 * p + 2 # 0
    BY PortAssumption DEF Managed
  <2> QED BY <2>1 DEF InitRequests, RemoveRequest, AddRequest
<1>6. Pending(c)'
  BY <1>3 DEF Pending, InitRequests, RemoveRequest
<1>7. \A k \in Cli : pc'[k] \in {"idle", "stopping"} => comm'[k] = "none"
  BY <1>3, <1>4 DEF PlaceholderInv, Untouched
<1>8. \A k \in Cli : pc'[k] = "init" /\ job'[k] = "start" =>
        \A r \in out'[k] : r.ord = 0 => r = RemoveRequest(0, Placeholder)
  BY <1>3, <1>4, <1>5 DEF PlaceholderInv, Untouched
<1>9. \A k \in Cli : Pending(k)' => comm'[k] = "none"
  BY <1>3, <1>4 DEF PlaceholderInv, Untouched, Pending, RemoveRequest
<1> QED BY <1>2, <1>6, <1>7, <1>8, <1>9 DEF PlaceholderInv, RemoveRequest

LEMMA PlaceholderCommand ==
  ASSUME TypeOK, PlaceholderInv, NEW c \in Cli, Command(c)
  PROVE  PlaceholderInv'
<1>1. CASE StartServer(c)
  BY <1>1, PlaceholderStartServer
<1>2. CASE StopDaemon(c)
  <2>1. \A k \in Cli : k \in Proc /\ k # Daemon
    BY CliAssumption DEF Proc
  <2>2. /\ pc[c] = "idle" /\ UNCHANGED <<job, served, up>>
        /\ pc' = [pc EXCEPT ![c] = "stopping", ![Daemon] = "dead"]
        /\ Forget(Daemon)
    BY <1>2 DEF StopDaemon, serverVars
  <2>3. \A k \in Cli \ {c} : Untouched(k)
    BY <2>1, <2>2 DEF Untouched, Forget, TypeOK
  <2>4. Elsewhere(c)
    BY <2>1, <2>2 DEF Elsewhere, Pending, Forget, TypeOK, PlaceholderInv
  <2>5. ~up' => served'[Placeholder] = NotServed
    BY <2>2 DEF PlaceholderInv
  <2> QED BY <2>2, <2>3, <2>4, <2>5, PlaceholderFrame
<1>3. CASE AddPort(c)
  BY <1>3, PlaceholderBegin DEF AddPort, serverVars
<1>4. CASE RemovePort(c)
  BY <1>4, PlaceholderBegin DEF RemovePort, serverVars
<1>5. CASE UpdateDatacap(c)
  BY <1>5, PlaceholderBegin DEF UpdateDatacap, serverVars
<1>6. CASE ResetUsage(c)
  BY <1>6, PlaceholderBegin DEF ResetUsage, serverVars
<1>7. CASE ResetAllUsage(c)
  BY <1>7, PlaceholderBegin DEF ResetAllUsage, serverVars
<1>8. CASE ImportFrom(c)
  BY <1>8, PlaceholderBegin DEF ImportFrom, serverVars
<1>9. CASE StartFoundServer(c)
  BY <1>9, PlaceholderBegin DEF StartFoundServer, serverVars
<1> QED BY <1>1, <1>2, <1>3, <1>4, <1>5, <1>6, <1>7, <1>8, <1>9 DEF Command

(***************************************************************************)
(* A command goes on: it ends, or leaves "init", only with nothing to send *)
(* or when ssserver is down.                                               *)
(***************************************************************************)
LEMMA PlaceholderCliStep ==
  ASSUME TypeOK, PlaceholderInv, NEW c \in Cli, CliStep(c)
  PROVE  PlaceholderInv'
<1>0. /\ c \in Proc /\ c # Daemon /\ Daemon \in Proc
      /\ \A k \in Cli : k \in Proc /\ k # Daemon
  BY CliAssumption DEF Proc
<1>1. CASE MethodStep(c)
  BY <1>0, <1>1, PlaceholderMethodStep
<1>2. CASE StopServer(c)
  <2>1. /\ served'[Placeholder] = NotServed /\ UNCHANGED <<job, out>>
        /\ pc[c] = "stopping" /\ pc' = [pc EXCEPT ![c] = "idle"]
        /\ comm' = [x \in Proc |-> Stale(comm[x])]
    BY <1>2, PlaceholderAssumption
       DEF StopServer, ServerGone, FreshServer, ServerPort, cliVars
  <2>2. \A k \in Cli \ {c} : Untouched(k)
    BY <1>0, <2>1 DEF Untouched, Stale, TypeOK
  <2>3. Elsewhere(c)
    BY <1>0, <2>1 DEF Elsewhere, Stale, TypeOK, PlaceholderInv
  <2> QED BY <2>1, <2>2, <2>3, PlaceholderFrame
<1>3. ASSUME UNCHANGED <<served, up>>, \A k \in Cli \ {c} : Untouched(k), Elsewhere(c)
      PROVE  PlaceholderInv'
  <2>1. ~up' => served'[Placeholder] = NotServed
    BY <1>3 DEF PlaceholderInv
  <2> QED BY <1>3, <2>1, PlaceholderFrame
<1>4. CASE InitAfterImport(c)
  <2>1. /\ UNCHANGED <<served, up, job, comm>> /\ job[c] = "load" /\ pc[c] = "refresh"
        /\ pc' = [pc EXCEPT ![c] = "init"]
        /\ \E o : out' = [out EXCEPT ![c] = o]
    BY <1>4 DEF InitAfterImport, cliVars, serverVars
  <2>2. (\A k \in Cli \ {c} : Untouched(k)) /\ Elsewhere(c)
    BY <1>0, <2>1 DEF Untouched, Elsewhere, Pending, TypeOK
  <2> QED BY <1>3, <2>1, <2>2
<1>5. CASE SpawnDaemon(c)
  <2>1. /\ UNCHANGED <<served, up>> /\ Forget(c)
        /\ pc[c] = "spawn" \/ out[c] = {}
        /\ \E d : pc' = [pc EXCEPT ![c] = "idle", ![Daemon] = d]
        /\ job' = [job EXCEPT ![c] = "none"]
    BY <1>5 DEF SpawnDaemon, serverVars
  <2>2. (\A k \in Cli \ {c} : Untouched(k)) /\ Elsewhere(c)
    BY <1>0, <2>1 DEF Untouched, Elsewhere, Pending, Forget, TypeOK
  <2> QED BY <1>3, <2>1, <2>2
<1>6. CASE SignalDaemon(c)
  <2>1. /\ UNCHANGED <<served, up>> /\ out[c] = {}
        /\ job' = [job EXCEPT ![c] = "none"]
        /\ comm' = [comm EXCEPT ![c] = "none"]
        /\ out' = out \/ out' = [out EXCEPT ![c] = {}]
        /\ \/ pc' = [pc EXCEPT ![c] = "idle"]
           \/ \E d : pc' = [pc EXCEPT ![c] = "idle", ![Daemon] = d]
    BY <1>6 DEF SignalDaemon, Finished, Forget, serverVars
  <2>2. (\A k \in Cli \ {c} : Untouched(k)) /\ Elsewhere(c)
    BY <1>0, <2>1 DEF Untouched, Elsewhere, Pending, TypeOK
  <2> QED BY <1>3, <2>1, <2>2
<1>7. CASE ExitQuietly(c)
  <2>1. UNCHANGED <<served, up>> /\ out[c] = {} /\ CliExits(c)
    BY <1>7 DEF ExitQuietly, Finished, serverVars
  <2>2. (\A k \in Cli \ {c} : Untouched(k)) /\ Elsewhere(c)
    BY <1>0, <2>1 DEF Untouched, Elsewhere, Pending, CliExits, Forget, TypeOK
  <2> QED BY <1>3, <2>1, <2>2
<1> QED BY <1>1, <1>2, <1>4, <1>5, <1>6, <1>7 DEF CliStep

(***************************************************************************)
(* The daemon leaves every command alone.                                  *)
(***************************************************************************)
LEMMA PlaceholderDaemonStep ==
  ASSUME TypeOK, PlaceholderInv, DaemonStep \/ DaemonKilled
  PROVE  PlaceholderInv'
<1>0. Daemon \in Proc /\ \A k \in Cli : k \in Proc /\ k # Daemon
  BY CliAssumption DEF Proc
<1>1. ASSUME UNCHANGED <<served, up, job>>,
             \E d : pc' = [pc EXCEPT ![Daemon] = d],
             \A k \in Cli : out'[k] = out[k] /\ comm'[k] = comm[k]
      PROVE  PlaceholderInv'
  <2>1. \A k \in Cli : Untouched(k)
    BY <1>0, <1>1 DEF Untouched, TypeOK
  <2>2. ~up' => served'[Placeholder] = NotServed
    BY <1>1 DEF PlaceholderInv
  <2> QED BY <1>1, <2>1, <2>2, PlaceholderFrame
<1>2. CASE MethodStep(Daemon)
  BY <1>0, <1>2, PlaceholderMethodStep
<1>3. DaemonExits => /\ \E d : pc' = [pc EXCEPT ![Daemon] = d]
                     /\ \A k \in Cli : out'[k] = out[k] /\ comm'[k] = comm[k]
  BY <1>0 DEF DaemonExits, Forget, TypeOK
<1>4. CASE DaemonKilled
  BY <1>1, <1>3, <1>4 DEF DaemonKilled, serverVars, cliVars
<1>5. CASE DaemonBoot
  BY <1>1, <1>3, <1>5 DEF DaemonBoot, cliVars
<1>6. CASE DaemonArm \/ Receive \/ Construct \/ HandleStat \/ HandleOther \/ ClearFlag
  BY <1>1, <1>6 DEF DaemonArm, Receive, Construct, HandleStat, HandleOther, ClearFlag,
                    serverVars, cliVars
<1>7. CASE Load
  BY <1>0, <1>1, <1>7 DEF Load, serverVars, cliVars, TypeOK
<1>8. CASE HandleTimeout
  BY <1>1, <1>3, <1>8 DEF HandleTimeout, Ping, serverVars, cliVars
<1>9. CASE PingIfAsked
  BY <1>1, <1>3, <1>9 DEF PingIfAsked, Ping, serverVars, cliVars
<1> QED BY <1>2, <1>4, <1>5, <1>6, <1>7, <1>8, <1>9 DEF DaemonStep

-----------------------------------------------------------------------------
(***************************************************************************)
(* The placeholder port is served only while the start that brought        *)
(* ssserver up still has its removal to send (init_ss, operation.cpp:159). *)
(***************************************************************************)
THEOREM PlaceholderClosed == Spec => []PlaceholderRemoved
<1> DEFINE I == TypeOK /\ WritesItsUsers /\ PlaceholderInv
<1>1. Init => I
  <2> SUFFICES ASSUME Init PROVE I
    OBVIOUS
  <2>1. TypeOK /\ WritesItsUsers
    BY TypeInit DEF Init, WritesItsUsers
  <2>2. \A c \in Cli : c \in Proc /\ c # Daemon
    BY CliAssumption DEF Proc
  <2>3. served[Placeholder] = NotServed
    BY PlaceholderAssumption DEF Init, FreshServer, ServerPort
  <2>4. \A c \in Cli : pc[c] = "idle" /\ comm[c] = "none"
    BY <2>2 DEF Init
  <2> QED BY <2>1, <2>3, <2>4 DEF PlaceholderInv, Pending
<1>2. I /\ [Next]_vars => I'
  <2> SUFFICES ASSUME I, [Next]_vars PROVE I'
    OBVIOUS
  <2>1. TypeOK' /\ WritesItsUsers'
    BY TypeNext
  <2>2. CASE ServerStep
    BY <2>1, <2>2, PlaceholderServerStep
  <2>3. ASSUME NEW c \in Cli, Command(c) \/ CliStep(c) PROVE I'
    BY <2>1, <2>3, PlaceholderCommand, PlaceholderCliStep
  <2>4. CASE DaemonStep \/ DaemonKilled
    BY <2>1, <2>4, PlaceholderDaemonStep
  <2>5. CASE UNCHANGED vars
    BY <2>1, <2>5
       DEF vars, cliVars, serverVars, PlaceholderInv, Pending, RemoveRequest
  <2> QED BY <2>2, <2>3, <2>4, <2>5 DEF Next
<1>3. I => PlaceholderRemoved
  BY DEF PlaceholderInv, Pending, PlaceholderRemoved
<1> QED BY <1>1, <1>2, <1>3, PTL DEF Spec

-----------------------------------------------------------------------------
(***************************************************************************)
(* Why users over the cap are cut off.  One process works at a time.  What *)
(* it writes is its own table, and after the write it removes every user   *)
(* that this table puts over the cap.  Everything that is added, by init   *)
(* or by the daemon's load, is below the cap by the file that was read, so *)
(* between two operations the file and what is served agree.               *)
(***************************************************************************)

\* Process x is in the middle of something.
Works(x) ==
  IF x = Daemon THEN pc[x] # "dead" /\ ~(pc[x] = "receive" /\ constructed)
  ELSE pc[x] # "idle"

OneAtATime == \A x, y \in Proc : Works(x) /\ Works(y) => x = y

\* The file tells one thing about a port.
TidyFile ==
  \A i \in Slot : conf[i] # NoLine =>
    /\ conf[i].cap \in Nat /\ conf[i].usage \in Nat
    /\ \A j \in Slot : conf[j] # NoLine /\ conf[j].port = conf[i].port =>
         conf[j] = conf[i]

\* Whoever is connected is connected to the ssserver that runs.
Connected ==
  /\ \A x \in Proc : comm[x] # "stale"
  /\ \A c \in Cli : pc[c] \in {"idle", "stopping"} => comm[c] = "none"
  /\ \A c \in Cli : pc[c] = "stopping" => pc[Daemon] = "dead"
  /\ pc[Daemon] = "dead" => comm[Daemon] = "none"
  /\ pc[Daemon] # "dead" => up
  /\ ~up => \A p \in Port : served[p] = NotServed

\* No port that the file says is over the cap is served.
CutOff == \A p \in Port : IsOverDatacap(Current[p]) => served[p] = NotServed

\* Every line of the file is what process x has in memory.
Copied(x) ==
  \A i \in Slot : conf[i] # NoLine =>
    /\ users[x][conf[i].port] # NoUser
    /\ conf[i] = LineOf(users[x], conf[i].port)

\* What x has yet to send removes the users of its table that are over the cap.
Removes(x) ==
  /\ \A r \in out[x] : r.kind = "remove"
  /\ \A p \in Port : IsOverDatacap(users[x][p]) =>
       served[p] = NotServed \/ RemoveRequest(p, p) \in out[x]

\* What x has yet to send adds no user that the file says is over the cap.
AddsNone(x) ==
  \A r \in out[x] : r.kind = "add" => ~IsOverDatacap(Current[r.port])

Keeps(x) ==
  /\ pc[x] \in {"write", "refresh"} => Copied(x)
  /\ pc[x] = "refresh" => Removes(x)
  /\ pc[x] = "init" \/ (x = Daemon /\ pc[x] = "request") => AddsNone(x)

Settled ==
  /\ \A c \in Cli : pc[c] \notin {"request", "open", "write", "refresh"}
  /\ pc[Daemon] \notin {"write", "refresh"}

CutOffInv ==
  /\ OneAtATime /\ TidyFile /\ Connected
  /\ \A x \in Proc : Keeps(x)
  /\ Settled => CutOff

-----------------------------------------------------------------------------
(* What the file says of users over the cap. *)

(***************************************************************************)
(* A user over the cap in the file has a line that says so.                *)
(***************************************************************************)
LEMMA OverLine ==
  ASSUME TypeOK, TidyFile, NEW p \in Port, IsOverDatacap(Current[p])
  PROVE  \E k \in Slot : /\ conf[k] # NoLine /\ conf[k].port = p
                         /\ conf[k].cap > 0 /\ conf[k].usage >= conf[k].cap
<1>1. \E i \in Slot : IsLastLine(conf, p, i)
  BY DEF IsOverDatacap, Current, LoadTable
<1> DEFINE k == CHOOSE i \in Slot : IsLastLine(conf, p, i)
<1>2. k \in Slot /\ IsLastLine(conf, p, k)
  BY <1>1
<1>3. Current[p] = UserOf(conf[k], EmptyTable[p])
  BY <1>1 DEF Current, LoadTable
<1>4. conf[k] # NoLine /\ conf[k].port = p
  BY <1>2 DEF IsLastLine
<1>5. conf[k].cap \in Nat /\ conf[k].usage \in Nat
  BY <1>2, <1>4 DEF TidyFile
<1>6. conf[k].cap # Blank /\ conf[k].usage # Blank
  BY <1>5, BlankAssumption
<1>7. Current[p].cap = conf[k].cap /\ Current[p].usage = conf[k].usage
  BY <1>3, <1>6 DEF UserOf
<1> HIDE DEF k
<1>8. conf[k].cap > 0 /\ conf[k].usage >= conf[k].cap
  BY <1>7 DEF IsOverDatacap
<1> QED BY <1>2, <1>4, <1>8

(***************************************************************************)
(* A writer knows the users that its lines say are over the cap.           *)
(***************************************************************************)
LEMMA OverInMemory ==
  ASSUME TypeOK, TidyFile, NEW x \in Proc, Copied(x),
         NEW p \in Port, IsOverDatacap(Current[p])
  PROVE  IsOverDatacap(users[x][p])
<1>1. PICK k \in Slot : /\ conf[k] # NoLine /\ conf[k].port = p
                        /\ conf[k].cap > 0 /\ conf[k].usage >= conf[k].cap
  BY OverLine
<1>2. users[x][p] # NoUser /\ conf[k] = LineOf(users[x], p)
  BY <1>1 DEF Copied
<1>3. conf[k].cap = users[x][p].cap /\ conf[k].usage = users[x][p].usage
  BY <1>2 DEF LineOf
<1> QED BY <1>1, <1>2, <1>3 DEF IsOverDatacap

(***************************************************************************)
(* A writer that has removed its users over the cap has cut them off.      *)
(***************************************************************************)
LEMMA RefreshedCutOff ==
  ASSUME TypeOK, TidyFile, NEW x \in Proc, Copied(x), Removes(x), out[x] = {}
  PROVE  CutOff
BY OverInMemory DEF CutOff, Removes

(***************************************************************************)
(* load_conf adds no user that the file it reads puts over the cap.        *)
(***************************************************************************)
LEMMA ReloadAddsNone ==
  ASSUME TypeOK, TidyFile, NEW t \in Table, NEW r \in ReloadRequests(conf, t)
  PROVE  ~IsOverDatacap(Current[r.port])
<1>1. PICK i \in Slot :
        /\ conf[i] # NoLine /\ r = AddRequest(i, conf[i].port, conf[i].pw)
        /\ ~IsOverDatacap(UserOf(conf[i], t[conf[i].port]))
  BY DEF ReloadRequests
<1> DEFINE p == conf[i].port
<1>2. conf[i].cap \in Nat /\ conf[i].usage \in Nat
  BY <1>1 DEF TidyFile
<1>3. r.port = p
  BY <1>1 DEF AddRequest
<1>4. p \in Port
  BY <1>1 DEF TypeOK, File, Line
<1> DEFINE u == UserOf(conf[i], t[p])
<1>5. u.cap = conf[i].cap /\ u.usage = conf[i].usage
  <2>1. conf[i].cap # Blank /\ conf[i].usage # Blank
    BY <1>2, BlankAssumption
  <2> QED BY <2>1 DEF UserOf
<1>6. u \in User
  <2>1. u = [pw |-> conf[i].pw, cap |-> conf[i].cap, usage |-> conf[i].usage]
    BY <1>2, BlankAssumption DEF UserOf
  <2>2. conf[i].pw \in Password
    BY <1>1 DEF TypeOK, File, Line
  <2> QED BY <1>2, <2>1, <2>2 DEF User
<1>7. ASSUME IsOverDatacap(Current[p]) PROVE FALSE
  <2>1. PICK k \in Slot : /\ conf[k] # NoLine /\ conf[k].port = p
                          /\ conf[k].cap > 0 /\ conf[k].usage >= conf[k].cap
    BY <1>4, <1>7, OverLine
  <2>2. conf[k] = conf[i]
    BY <1>1, <2>1 DEF TidyFile
  <2>3. u # NoUser
    BY <1>6, NoUserAssumption
  <2>4. IsOverDatacap(u)
    BY <1>5, <2>1, <2>2, <2>3 DEF IsOverDatacap
  <2> QED BY <1>1, <2>4
<1> QED BY <1>3, <1>7

(***************************************************************************)
(* init_ss adds no user that the table puts over the cap.                  *)
(***************************************************************************)
LEMMA InitAddsNone ==
  ASSUME NEW t, NEW r \in InitRequests(t), r.kind = "add"
  PROVE  r.port \in Port /\ ~IsOverDatacap(t[r.port])
<1>1. PICK p \in {q \in Managed(t) : ~IsOverDatacap(t[q])} :
        r = AddRequest(2 * p + 2, p, t[p].pw)
  BY DEF InitRequests, RemoveRequest
<1>2. r.port = p
  BY <1>1 DEF AddRequest
<1> QED BY <1>1, <1>2 DEF Managed

(***************************************************************************)
(* refresh_all_users begins with a removal for each user over the cap.     *)
(***************************************************************************)
LEMMA RefreshRemoves ==
  ASSUME NEW t
  PROVE  /\ \A r \in RefreshRequests(t) : r.kind = "remove"
         /\ \A p \in Port : IsOverDatacap(t[p]) =>
              RemoveRequest(p, p) \in RefreshRequests(t)
BY DEF RefreshRequests, RemoveRequest

(***************************************************************************)
(* A request serves at most the port it adds.                              *)
(***************************************************************************)
LEMMA ObeyServes ==
  ASSUME NEW s \in [ServerPort -> Password \cup {NotServed}], NEW r \in Request,
         NEW p \in Port
  PROVE  /\ Obey(s, r)[p] \in {s[p], NotServed} \/ (r.kind = "add" /\ r.port = p)
         /\ r.kind = "remove" /\ r.port = p => Obey(s, r)[p] = NotServed
<1>1. p \in ServerPort /\ r.kind \in {"add", "remove"}
  BY DEF ServerPort, Request
<1>2. CASE r.kind = "remove"
  BY <1>1, <1>2 DEF Obey
<1>3. CASE r.kind # "remove"
  BY <1>1, <1>3 DEF Obey
<1> QED BY <1>2, <1>3

-----------------------------------------------------------------------------
(* Who works, and what the others leave alone. *)

(***************************************************************************)
(* While one process works, the others have nothing to keep.               *)
(***************************************************************************)
LEMMA OneKeeps ==
  ASSUME NEW x \in Proc, \A y \in Proc \ {x} : ~Works(y)', Connected', TidyFile',
         Keeps(x)', Settled' => CutOff'
  PROVE  CutOffInv'
<1>1. OneAtATime'
  BY DEF OneAtATime, Works
<1>2. ASSUME NEW y \in Proc \ {x} PROVE Keeps(y)'
  <2>1. y # Daemon => pc'[y] = "idle"
    BY DEF Works
  <2>2. y = Daemon => pc'[y] \in {"dead", "receive"}
    BY DEF Works
  <2> QED BY <2>1, <2>2 DEF Keeps
<1> QED BY <1>1, <1>2 DEF CutOffInv

(***************************************************************************)
(* A step of the process that works changes no other process.              *)
(***************************************************************************)
LEMMA OthersRest ==
  ASSUME OneAtATime, NEW x \in Proc, Works(x),
         NEW y \in Proc \ {x}, pc'[y] = pc[y],
         y = Daemon => constructed' = constructed
  PROVE  ~Works(y)'
<1>1. ~Works(y)
  BY DEF OneAtATime
<1> QED BY <1>1 DEF Works

(***************************************************************************)
(* Who is cut off stays so while the file is not touched and ssserver adds *)
(* no port.                                                                *)
(***************************************************************************)
LEMMA SameCut ==
  ASSUME CutOff, conf' = conf,
         \A p \in Port : served'[p] \in {served[p], NotServed}
  PROVE  CutOff'
BY DEF CutOff, Current

\* A file that is not touched stays tidy.
LEMMA SameFile == ASSUME TidyFile, conf' = conf PROVE TidyFile'
BY DEF TidyFile

(***************************************************************************)
(* At rest nothing works and the file says who is cut off.                 *)
(***************************************************************************)
LEMMA AtRest ==
  ASSUME CutOffInv, Quiescent
  PROVE  /\ \A x \in Proc : ~Works(x)
         /\ CutOff
<1>1. \A x \in Proc : ~Works(x)
  BY DEF Quiescent, Works, Proc
<1>2. Settled
  BY DEF Quiescent, Settled
<1> QED BY <1>1, <1>2 DEF CutOffInv

(***************************************************************************)
(* While the daemon works, no command is under way.                        *)
(***************************************************************************)
LEMMA DaemonAlone ==
  ASSUME OneAtATime, Works(Daemon)
  PROVE  \A c \in Cli : pc[c] = "idle"
<1>1. \A c \in Cli : c \in Proc /\ Daemon \in Proc /\ c # Daemon
  BY CliAssumption DEF Proc
<1> QED BY <1>1 DEF OneAtATime, Works

(***************************************************************************)
(* Steps that leave the file, the processes and what is served alone.      *)
(***************************************************************************)
LEMMA CutUnchanged ==
  ASSUME CutOffInv, UNCHANGED <<conf, pc, users, out, served, comm, up, constructed>>
  PROVE  CutOffInv'
<1>1. OneAtATime' /\ TidyFile' /\ Connected'
  BY DEF CutOffInv, OneAtATime, Works, TidyFile, Connected
<1>2. \A x \in Proc : Keeps(x)'
  BY DEF CutOffInv, Keeps, Copied, Removes, AddsNone, Current
<1>3. Settled' => CutOff'
  BY DEF CutOffInv, Settled, CutOff, Current
<1> QED BY <1>1, <1>2, <1>3 DEF CutOffInv

-----------------------------------------------------------------------------
(* The steps inside a method. *)

(***************************************************************************)
(* A process inside a method works, and no other does.                     *)
(***************************************************************************)
LEMMA MethodAlone ==
  ASSUME OneAtATime, NEW x \in Proc,
         pc[x] \in {"request", "refresh", "init", "open", "write"},
         \A y \in Proc \ {x} : pc'[y] = pc[y], constructed' = constructed
  PROVE  Works(x) /\ \A y \in Proc \ {x} : ~Works(y)'
<1>1. Works(x)
  BY DEF Works
<1> QED BY <1>1, OthersRest

(***************************************************************************)
(* A request that is sent removes, or adds a user below the cap.           *)
(***************************************************************************)
LEMMA CutSendRequest ==
  ASSUME TypeOK, CutOffInv, NEW x \in Proc, SendRequest(x)
  PROVE  CutOffInv'
<1>1. PICK r \in out[x] :
        /\ out' = [out EXCEPT ![x] = @ \ {r}]
        /\ served' = Obey(served, r)
  BY DEF SendRequest
<1>2. r \in Request /\ out'[x] = out[x] \ {r} /\ out'[x] \subseteq out[x]
  BY <1>1 DEF TypeOK
<1>3. /\ up /\ up' = up /\ pc' = pc /\ pc[x] \in {"request", "refresh", "init"}
      /\ comm' = [comm EXCEPT ![x] = "live"] /\ conf' = conf /\ users' = users
      /\ constructed' = constructed
  BY DEF SendRequest, Sending, daemonVars
<1>4. Works(x) /\ \A y \in Proc \ {x} : ~Works(y)'
  <2>1. \A y \in Proc \ {x} : pc'[y] = pc[y]
    BY <1>3
  <2> QED BY <1>3, <2>1, MethodAlone DEF CutOffInv
<1>5. \A p \in Port :
        /\ served'[p] \in {served[p], NotServed} \/ (r.kind = "add" /\ r.port = p)
        /\ r.kind = "remove" /\ r.port = p => served'[p] = NotServed
  <2>1. served \in [ServerPort -> Password \cup {NotServed}]
    BY DEF TypeOK
  <2> QED BY <1>1, <1>2, <2>1, ObeyServes
<1>6. Connected'
  <2>1. \A y \in Proc : comm'[y] = IF y = x THEN "live" ELSE comm[y]
    BY <1>3 DEF TypeOK
  <2>2. \A c \in Cli : c \in Proc
    BY ProcessTypes
  <2>3. Daemon \in Proc
    BY ProcessTypes
  <2> QED BY <1>3, <2>1, <2>2, <2>3 DEF CutOffInv, Connected
<1>7. TidyFile'
  BY <1>3, SameFile DEF CutOffInv
<1>8. Keeps(x)'
  <2>1. pc[x] = "refresh" => Copied(x)'
    BY <1>3 DEF CutOffInv, Keeps, Copied
  <2>2. ASSUME pc[x] = "refresh" PROVE Removes(x)'
    <3>1. Removes(x)
      BY <2>2 DEF CutOffInv, Keeps
    <3>2. r.kind = "remove"
      BY <3>1 DEF Removes
    <3>3. \A q \in out'[x] : q.kind = "remove"
      BY <1>2, <3>1 DEF Removes
    <3>4. ASSUME NEW p \in Port, IsOverDatacap(users[x][p])
          PROVE  served'[p] = NotServed \/ RemoveRequest(p, p) \in out'[x]
      <4>1. CASE served[p] = NotServed
        BY <1>5, <3>2, <4>1
      <4>2. CASE RemoveRequest(p, p) \in out[x] /\ RemoveRequest(p, p) # r
        BY <1>2, <4>2
      <4>3. CASE RemoveRequest(p, p) = r
        <5>1. r.port = p
          BY <4>3 DEF RemoveRequest
        <5> QED BY <1>5, <3>2, <5>1
      <4> QED BY <3>1, <3>4, <4>1, <4>2, <4>3 DEF Removes
    <3> QED BY <1>3, <3>3, <3>4 DEF Removes, RemoveRequest
  <2>3. AddsNone(x) => AddsNone(x)'
    BY <1>2, <1>3 DEF AddsNone, Current
  <2> QED BY <1>3, <2>1, <2>2, <2>3 DEF CutOffInv, Keeps
<1>9. Settled' => CutOff'
  <2> SUFFICES ASSUME Settled' PROVE CutOff'
    OBVIOUS
  <2>1. Settled
    BY <1>3 DEF Settled
  <2>2. CutOff
    BY <2>1 DEF CutOffInv
  <2>3. AddsNone(x)
    BY <1>3, <2>1 DEF CutOffInv, Keeps, Settled, Proc
  <2>4. ASSUME NEW p \in Port, IsOverDatacap(Current[p])
        PROVE  served'[p] = NotServed
    <3>1. served[p] = NotServed
      BY <2>2, <2>4 DEF CutOff
    <3>2. ~(r.kind = "add" /\ r.port = p)
      BY <2>3, <2>4 DEF AddsNone
    <3> QED BY <1>5, <3>1, <3>2
  <2> QED BY <1>3, <2>4 DEF CutOff, Current
<1> QED BY <1>4, <1>6, <1>7, <1>8, <1>9, OneKeeps

(***************************************************************************)
(* A command fails to send only when ssserver is down; the daemon never    *)
(* does.                                                                   *)
(***************************************************************************)
LEMMA CutSendFails ==
  ASSUME TypeOK, CutOffInv, NEW x \in Proc, SendFails(x)
  PROVE  CutOffInv'
<1>1. pc[x] \in {"request", "refresh", "init"} /\ (~up \/ comm[x] = "stale")
  BY DEF SendFails, Sending
<1>2. ~up /\ x # Daemon
  BY <1>1 DEF CutOffInv, Connected
<1>3. /\ pc' = [pc EXCEPT ![x] = "idle"] /\ comm' = [comm EXCEPT ![x] = "none"]
      /\ UNCHANGED <<conf, served, up, constructed>>
  BY <1>2 DEF SendFails, CliExits, Forget, daemonVars, serverVars
<1>4. \A y \in Proc \ {x} : ~Works(y)'
  <2>1. \A y \in Proc \ {x} : pc'[y] = pc[y]
    BY <1>3 DEF TypeOK
  <2> QED BY <1>1, <1>3, <2>1, MethodAlone DEF CutOffInv
<1>5. pc'[x] = "idle" /\ comm'[x] = "none"
  BY <1>3 DEF TypeOK
<1>6. Connected'
  <2>1. \A y \in Proc \ {x} : comm'[y] = comm[y] /\ pc'[y] = pc[y]
    BY <1>3 DEF TypeOK
  <2>2. Daemon \in Proc /\ \A c \in Cli : c \in Proc
    BY ProcessTypes
  <2> QED BY <1>2, <1>3, <1>5, <2>1, <2>2 DEF CutOffInv, Connected
<1>7. TidyFile'
  BY <1>3, SameFile DEF CutOffInv
<1>8. Keeps(x)'
  BY <1>2, <1>5 DEF Keeps
<1>9. CutOff'
  BY <1>2, <1>3 DEF CutOffInv, Connected, CutOff
<1> QED BY <1>4, <1>6, <1>7, <1>8, <1>9, OneKeeps

(***************************************************************************)
(* The file is opened, written and closed: what it holds is what the       *)
(* writer has in memory, and the writer has every removal to send.         *)
(***************************************************************************)
LEMMA CutWriting ==
  ASSUME TypeOK, WritesItsUsers, CutOffInv, NEW x \in Proc,
         Truncate(x) \/ WriteLine(x) \/ CloseConf(x)
  PROVE  CutOffInv'
<1>1. /\ pc[x] \in {"open", "request", "write"}
      /\ UNCHANGED <<users, comm, served, up, constructed>>
      /\ pc' = pc \/ \E v : pc' = [pc EXCEPT ![x] = v]
  BY DEF Truncate, WriteLine, CloseConf, daemonVars, serverVars
<1>2. pc'[x] \in {"write", "refresh"}
  BY DEF Truncate, WriteLine, CloseConf, TypeOK
<1>3. \A y \in Proc \ {x} : ~Works(y)' /\ pc'[y] = pc[y]
  <2>1. \A y \in Proc \ {x} : pc'[y] = pc[y]
    BY <1>1 DEF TypeOK
  <2> QED BY <1>1, <2>1, MethodAlone DEF CutOffInv
<1>4. Connected'
  <2>1. Daemon \in Proc /\ \A c \in Cli : c \in Proc
    BY ProcessTypes
  <2>2. pc[x] # "dead"
    BY <1>1
  <2>3. \A c \in Cli : pc'[c] \in {"idle", "stopping"} => pc[c] = pc'[c]
    BY <1>2, <1>3, <2>1
  <2>4. pc'[Daemon] = "dead" <=> pc[Daemon] = "dead"
    BY <1>2, <1>3, <2>1, <2>2
  <2> QED BY <1>1, <2>3, <2>4 DEF CutOffInv, Connected
<1>5. ~Settled'
  BY <1>2 DEF Settled, Proc
<1>6. TidyFile' /\ Copied(x)'
  <2>1. CASE Truncate(x)
    <3>1. \A i \in Slot : conf'[i] = NoLine
      BY <2>1 DEF Truncate, EmptyFile
    <3> QED BY <3>1 DEF TidyFile, Copied
  <2>2. CASE WriteLine(x)
    <3>1. PICK p \in left[x] :
            conf' = [conf EXCEPT ![SlotOf(users[x], p)] = LineOf(users[x], p)]
      BY <2>2 DEF WriteLine
    <3>2. users[x] \in Table /\ p \in Port /\ users[x][p] # NoUser
      BY <3>1 DEF TypeOK, WritesItsUsers, Managed
    <3>3. Copied(x)
      BY <2>2 DEF WriteLine, CutOffInv, Keeps
    <3>4. LineOf(users[x], p).port = p
      BY DEF LineOf
    <3>5. Copied(x)'
      <4>1. ASSUME NEW i \in Slot, conf'[i] # NoLine
            PROVE  /\ users[x][conf'[i].port] # NoUser
                   /\ conf'[i] = LineOf(users[x], conf'[i].port)
        <5>1. conf'[i] = conf[i] \/ conf'[i] = LineOf(users[x], p)
          BY <3>1 DEF TypeOK, File
        <5> QED BY <3>2, <3>3, <3>4, <4>1, <5>1 DEF Copied
      <4> QED BY <1>1, <4>1 DEF Copied
    <3>6. TidyFile'
      <4>1. ASSUME NEW i \in Slot, conf'[i] # NoLine
            PROVE  conf'[i].cap \in Nat /\ conf'[i].usage \in Nat
        <5>1. conf'[i] = conf[i] \/ conf'[i] = LineOf(users[x], p)
          BY <3>1 DEF TypeOK, File
        <5>2. users[x][p].cap \in Nat /\ users[x][p].usage \in Nat
          BY <3>2 DEF Table, User
        <5>3. /\ LineOf(users[x], p).cap = users[x][p].cap
              /\ LineOf(users[x], p).usage = users[x][p].usage
          BY DEF LineOf
        <5>4. CASE conf'[i] = conf[i]
          BY <4>1, <5>4 DEF CutOffInv, TidyFile
        <5> QED BY <5>1, <5>2, <5>3, <5>4
      <4>2. ASSUME NEW i \in Slot, NEW j \in Slot, conf'[i] # NoLine,
                   conf'[j] # NoLine, conf'[j].port = conf'[i].port
            PROVE  conf'[j] = conf'[i]
        BY <3>5, <4>2 DEF Copied
      <4> QED BY <4>1, <4>2 DEF TidyFile
    <3> QED BY <3>5, <3>6
  <2>3. CASE CloseConf(x)
    <3>1. conf' = conf /\ users' = users /\ Copied(x)
      BY <2>3 DEF CloseConf, CutOffInv, Keeps
    <3> QED BY <3>1, SameFile DEF Copied, CutOffInv
  <2> QED BY <2>1, <2>2, <2>3
<1>7. ASSUME pc'[x] = "refresh" PROVE Removes(x)'
  <2>1. CloseConf(x)
    BY <1>7 DEF Truncate, WriteLine, TypeOK
  <2>2. out'[x] = RefreshRequests(users[x])
    BY <2>1 DEF CloseConf, TypeOK
  <2> QED BY <1>1, <2>2, RefreshRemoves DEF Removes, RemoveRequest
<1>8. Keeps(x)'
  BY <1>2, <1>6, <1>7 DEF Keeps
<1> QED BY <1>3, <1>4, <1>5, <1>6, <1>8, OneKeeps

\* So every step inside a method keeps the invariant.
LEMMA CutMethodStep ==
  ASSUME TypeOK, WritesItsUsers, CutOffInv, NEW x \in Proc, MethodStep(x)
  PROVE  CutOffInv'
BY CutSendRequest, CutSendFails, CutWriting DEF MethodStep

(***************************************************************************)
(* ssserver counts and reports; it does not die.                           *)
(***************************************************************************)
LEMMA CutServerStep ==
  ASSUME Mortal = {}, CutOffInv, ServerStep
  PROVE  CutOffInv'
<1>1. ~ServerCrash
  BY DEF ServerCrash
<1> QED BY <1>1, CutUnchanged DEF ServerStep, SendStat, Traffic, daemonVars

-----------------------------------------------------------------------------
(* Commands. *)

(***************************************************************************)
(* Of the processes, a command changes its own place and the daemon's.     *)
(***************************************************************************)
LEMMA ProcessPlaces ==
  ASSUME TypeOK, NEW c \in Cli, NEW v, NEW d,
         pc' = [pc EXCEPT ![c] = v, ![Daemon] = d]
  PROVE  /\ pc'[c] = v /\ pc'[Daemon] = d
         /\ \A k \in Cli \ {c} : pc'[k] = pc[k]
<1>1. c \in Proc /\ c # Daemon /\ Daemon \in Proc /\ \A k \in Cli : k \in Proc /\ k # Daemon
  BY CliAssumption DEF Proc
<1> QED BY <1>1 DEF TypeOK

(***************************************************************************)
(* A command begins when nothing else is under way.                        *)
(***************************************************************************)
LEMMA CutBegin ==
  ASSUME Serial, TypeOK, CutOffInv, NEW c \in Cli, NEW command, NEW kind, NEW t, NEW o,
         NEW p \in {"request", "open", "spawn", "init"},
         Begin(c, command, kind, t, o, p),
         up => up', ~up' => UNCHANGED served,
         \A q \in Port : served'[q] \in {served[q], NotServed},
         p = "init" => o = InitRequests(Current)
  PROVE  CutOffInv'
<1>0. c \in Proc /\ c # Daemon /\ Daemon \in Proc /\ \A k \in Cli : k \in Proc /\ k # Daemon
  BY CliAssumption DEF Proc
<1>1. /\ Quiescent /\ pc[c] = "idle" /\ pc' = [pc EXCEPT ![c] = p]
      /\ conf' = conf /\ comm' = comm /\ constructed' = constructed
      /\ out' = [out EXCEPT ![c] = o]
  BY DEF Begin, daemonVars
<1>2. (\A x \in Proc : ~Works(x)) /\ CutOff
  BY <1>1, AtRest
<1>3. pc'[c] = p /\ \A y \in Proc \ {c} : pc'[y] = pc[y]
  BY <1>0, <1>1 DEF TypeOK
<1>4. \A y \in Proc \ {c} : ~Works(y)'
  BY <1>1, <1>2, <1>3 DEF Works
<1>5. Connected'
  <2>1. \A k \in Cli : pc'[k] \in {"idle", "stopping"} => pc[k] = "idle"
    BY <1>0, <1>1, <1>3 DEF Quiescent
  <2>2. \A k \in Cli : pc'[k] # "stopping"
    BY <1>0, <1>1, <1>3 DEF Quiescent
  <2>3. pc'[Daemon] = pc[Daemon]
    BY <1>0, <1>3
  <2> QED BY <1>1, <2>1, <2>2, <2>3 DEF CutOffInv, Connected
<1>6. TidyFile'
  BY <1>1, SameFile DEF CutOffInv
<1>7. CutOff'
  BY <1>1, <1>2, SameCut
<1>8. Keeps(c)'
  <2>1. ASSUME p = "init" PROVE AddsNone(c)'
    <3>1. out'[c] = InitRequests(Current)
      BY <1>0, <1>1, <2>1 DEF TypeOK
    <3>2. Current' = Current
      BY <1>1 DEF Current
    <3> QED BY <3>1, <3>2, InitAddsNone DEF AddsNone
  <2> QED BY <1>0, <1>3, <2>1 DEF Keeps
<1> QED BY <1>0, <1>4, <1>5, <1>6, <1>7, <1>8, OneKeeps

\* stop ends the daemon at rest; nothing that is served changes.
LEMMA CutStopDaemon ==
  ASSUME Serial, TypeOK, CutOffInv, NEW c \in Cli, StopDaemon(c)
  PROVE  CutOffInv'
<1>0. c \in Proc /\ c # Daemon /\ Daemon \in Proc /\ \A k \in Cli : k \in Proc /\ k # Daemon
  BY CliAssumption DEF Proc
<1>1. /\ Quiescent /\ pc[c] = "idle" /\ conf' = conf /\ served' = served /\ up' = up
      /\ pc' = [pc EXCEPT ![c] = "stopping", ![Daemon] = "dead"]
      /\ comm' = [comm EXCEPT ![Daemon] = "none"]
  BY DEF StopDaemon, Forget, serverVars
<1>2. CutOff /\ \A x \in Proc : ~Works(x)
  BY <1>1, AtRest
<1>3. /\ pc'[c] = "stopping" /\ pc'[Daemon] = "dead"
      /\ \A k \in Cli \ {c} : pc'[k] = pc[k]
  BY <1>1, ProcessPlaces
<1>4. \A y \in Proc \ {c} : ~Works(y)'
  BY <1>0, <1>1, <1>3 DEF Works, Quiescent, Proc
<1>5. Connected'
  <2>1. comm'[Daemon] = "none" /\ \A k \in Cli : comm'[k] = comm[k]
    BY <1>0, <1>1 DEF TypeOK
  <2>2. \A k \in Cli : comm[k] = "none"
    BY <1>1 DEF Quiescent, CutOffInv, Connected
  <2>3. \A x \in Proc : comm'[x] # "stale"
    BY <2>1, <2>2 DEF Proc
  <2> QED BY <1>1, <1>3, <2>1, <2>2, <2>3 DEF CutOffInv, Connected
<1>6. TidyFile' /\ CutOff'
  BY <1>1, <1>2, SameFile, SameCut DEF CutOffInv
<1>7. Keeps(c)'
  BY <1>0, <1>3 DEF Keeps
<1> QED BY <1>0, <1>4, <1>5, <1>6, <1>7, OneKeeps

\* Every command begins at rest; start begins with nobody served.
LEMMA CutCommand ==
  ASSUME Serial, TypeOK, CutOffInv, NEW c \in Cli, Command(c)
  PROVE  CutOffInv'
<1>1. ASSUME NEW command, NEW kind, NEW t, NEW o, NEW p \in {"request", "open", "spawn"},
             Begin(c, command, kind, t, o, p), UNCHANGED <<served, up>>
      PROVE  CutOffInv'
  BY <1>1, CutBegin
<1>2. CASE StartServer(c)
  <2>1. /\ Begin(c, "start", "start", Current, InitRequests(Current), "init")
        /\ up' = TRUE
        /\ \E w \in Password : served' = [FreshServer EXCEPT ![Placeholder] = w]
    BY <1>2 DEF StartServer
  <2>2. \A q \in Port : served'[q] = NotServed
    BY <2>1, PlaceholderAssumption DEF FreshServer, ServerPort
  <2> QED BY <2>1, <2>2, CutBegin
<1>3. CASE StopDaemon(c)
  BY <1>3, CutStopDaemon
<1>4. CASE AddPort(c)
  BY <1>1, <1>4 DEF AddPort, serverVars
<1>5. CASE RemovePort(c)
  BY <1>1, <1>5 DEF RemovePort, serverVars
<1>6. CASE UpdateDatacap(c)
  BY <1>1, <1>6 DEF UpdateDatacap, serverVars
<1>7. CASE ResetUsage(c)
  BY <1>1, <1>7 DEF ResetUsage, serverVars
<1>8. CASE ResetAllUsage(c)
  BY <1>1, <1>8 DEF ResetAllUsage, serverVars
<1>9. CASE ImportFrom(c)
  BY <1>1, <1>9 DEF ImportFrom, serverVars
<1>10. CASE StartFoundServer(c)
  BY <1>1, <1>10 DEF StartFoundServer, serverVars
<1> QED BY <1>2, <1>3, <1>4, <1>5, <1>6, <1>7, <1>8, <1>9, <1>10 DEF Command

(***************************************************************************)
(* A command that is under way is alone; when it has sent its removals,    *)
(* the file says who is cut off.                                           *)
(***************************************************************************)
LEMMA CommandAlone ==
  ASSUME TypeOK, CutOffInv, NEW c \in Cli, pc[c] # "idle"
  PROVE  /\ \A k \in Cli \ {c} : pc[k] = "idle"
         /\ pc[Daemon] \in {"dead", "receive"}
         /\ pc[Daemon] = "receive" => constructed
         /\ (pc[c] = "refresh" /\ out[c] = {}) \/ pc[c] \in {"init", "spawn", "stopping"}
              => CutOff
<1>0. c \in Proc /\ c # Daemon /\ Daemon \in Proc /\ \A k \in Cli : k \in Proc /\ k # Daemon
  BY CliAssumption DEF Proc
<1>1. Works(c) /\ \A y \in Proc \ {c} : ~Works(y)
  BY <1>0 DEF CutOffInv, OneAtATime, Works
<1>2. /\ \A k \in Cli \ {c} : pc[k] = "idle"
      /\ pc[Daemon] \in {"dead", "receive"}
      /\ pc[Daemon] = "receive" => constructed
  BY <1>0, <1>1 DEF Works
<1>3. ASSUME pc[c] = "refresh" /\ out[c] = {} PROVE CutOff
  BY <1>0, <1>3, RefreshedCutOff DEF CutOffInv, Keeps
<1>4. ASSUME pc[c] \in {"init", "spawn", "stopping"} PROVE CutOff
  BY <1>2, <1>4 DEF CutOffInv, Settled
<1> QED BY <1>2, <1>3, <1>4

(***************************************************************************)
(* A command ends, and may leave the daemon booting, woken or dead.        *)
(***************************************************************************)
LEMMA CutCommandEnds ==
  ASSUME TypeOK, CutOffInv, CutOff, NEW c \in Cli, pc[c] # "idle",
         NEW d \in {"dead", "receive", "boot", "load", "construct"},
         pc' = [pc EXCEPT ![c] = "idle", ![Daemon] = d],
         d = "dead" => pc[Daemon] = "dead",
         d # "dead" => up',
         comm' = [comm EXCEPT ![c] = "none"],
         UNCHANGED <<conf, served, up>>
  PROVE  CutOffInv'
<1>0. c \in Proc /\ c # Daemon /\ Daemon \in Proc /\ \A k \in Cli : k \in Proc /\ k # Daemon
  BY CliAssumption DEF Proc
<1>1. \A k \in Cli \ {c} : pc[k] = "idle"
  BY CommandAlone
<1>2. /\ pc'[c] = "idle" /\ pc'[Daemon] = d
      /\ \A k \in Cli \ {c} : pc'[k] = pc[k]
  BY ProcessPlaces
<1>3. \A y \in Proc \ {Daemon} : ~Works(y)'
  BY <1>1, <1>2 DEF Works, Proc
<1>4. Connected'
  <2>1. /\ comm'[c] = "none" /\ comm'[Daemon] = comm[Daemon]
        /\ \A k \in Cli \ {c} : comm'[k] = comm[k]
    BY <1>0 DEF TypeOK
  <2>2. \A k \in Cli : comm'[k] = "none" /\ pc'[k] = "idle"
    <3>1. \A k \in Cli \ {c} : comm[k] = "none"
      BY <1>1 DEF CutOffInv, Connected
    <3>2. ASSUME NEW k \in Cli PROVE comm'[k] = "none" /\ pc'[k] = "idle"
      <4>1. CASE k = c
        BY <1>2, <2>1, <4>1
      <4>2. CASE k # c
        <5>1. comm'[k] = comm[k] /\ pc'[k] = pc[k]
          BY <1>2, <2>1, <4>2, Zenon
        <5> QED BY <1>1, <3>1, <4>2, <5>1, Zenon
      <4> QED BY <4>1, <4>2
    <3> QED BY <3>2
  <2>3. \A x \in Proc : comm'[x] # "stale"
    BY <2>1, <2>2 DEF Proc, CutOffInv, Connected
  <2> QED BY <1>2, <2>1, <2>2, <2>3 DEF CutOffInv, Connected
<1>5. TidyFile' /\ CutOff'
  BY SameFile, SameCut DEF CutOffInv
<1>6. Keeps(Daemon)'
  BY <1>2 DEF Keeps
<1> QED BY <1>0, <1>3, <1>4, <1>5, <1>6, OneKeeps

(***************************************************************************)
(* The steps with which a command goes on and ends.                        *)
(***************************************************************************)
LEMMA CutCliStep ==
  ASSUME TypeOK, WritesItsUsers, CutOffInv, NEW c \in Cli, CliStep(c)
  PROVE  CutOffInv'
<1>0. c \in Proc /\ c # Daemon /\ Daemon \in Proc /\ \A k \in Cli : k \in Proc /\ k # Daemon
  BY CliAssumption DEF Proc
<1>1. CASE MethodStep(c)
  BY <1>0, <1>1, CutMethodStep
<1>2. CASE InitAfterImport(c)
  <2>1. /\ pc[c] = "refresh" /\ out[c] = {} /\ pc' = [pc EXCEPT ![c] = "init"]
        /\ out' = [out EXCEPT ![c] = IF up THEN InitRequests(users[c]) ELSE {}]
        /\ UNCHANGED <<conf, comm, served, up, constructed>>
    BY <1>2 DEF InitAfterImport, daemonVars, serverVars
  <2>2. pc'[c] = "init" /\ \A y \in Proc \ {c} : pc'[y] = pc[y]
    BY <1>0, <2>1 DEF TypeOK
  <2>3. \A y \in Proc \ {c} : ~Works(y)'
    BY <1>0, <2>1, <2>2, MethodAlone DEF CutOffInv
  <2>4. CutOff /\ Copied(c) /\ TidyFile
    BY <1>0, <2>1, CommandAlone DEF CutOffInv, Keeps
  <2>5. Connected'
    <3>1. \A k \in Cli : pc'[k] \in {"idle", "stopping"} => pc[k] = pc'[k]
      BY <1>0, <2>2
    <3>2. pc'[Daemon] = pc[Daemon]
      BY <1>0, <2>2
    <3> QED BY <2>1, <3>1, <3>2 DEF CutOffInv, Connected
  <2>6. Keeps(c)'
    <3>1. ASSUME NEW r \in out'[c], r.kind = "add"
          PROVE  ~IsOverDatacap(Current[r.port])
      <4>1. r \in InitRequests(users[c])
        BY <1>0, <2>1, <3>1 DEF TypeOK
      <4>2. r.port \in Port /\ ~IsOverDatacap(users[c][r.port])
        BY <3>1, <4>1, InitAddsNone
      <4> QED BY <1>0, <2>4, <4>2, OverInMemory
    <3>2. Current' = Current
      BY <2>1 DEF Current
    <3>3. AddsNone(c)'
      BY <3>1, <3>2 DEF AddsNone
    <3> QED BY <2>2, <3>3 DEF Keeps
  <2>7. TidyFile' /\ CutOff'
    BY <2>1, <2>4, SameFile, SameCut
  <2> QED BY <1>0, <2>3, <2>5, <2>6, <2>7, OneKeeps
<1>3. CASE SpawnDaemon(c)
  <2> DEFINE d == IF pc[Daemon] = "dead" /\ up THEN "boot" ELSE pc[Daemon]
  <2>1. /\ pc[c] = "spawn" \/ pc[c] = "init"
        /\ pc' = [pc EXCEPT ![c] = "idle", ![Daemon] = d]
        /\ comm' = [comm EXCEPT ![c] = "none"]
        /\ UNCHANGED <<conf, served, up>>
    BY <1>0, <1>3 DEF SpawnDaemon, Forget, serverVars, TypeOK
  <2>2. CutOff /\ pc[Daemon] \in {"dead", "receive"}
    BY <2>1, CommandAlone
  <2>3. /\ d \in {"dead", "receive", "boot"} /\ (d = "dead" => pc[Daemon] = "dead")
        /\ (d # "dead" => up)
    BY <2>2 DEF CutOffInv, Connected
  <2> HIDE DEF d
  <2> QED BY <2>1, <2>2, <2>3, CutCommandEnds
<1>4. CASE StopServer(c)
  <2>1. /\ pc[c] = "stopping" /\ pc' = [pc EXCEPT ![c] = "idle"] /\ up' = FALSE
        /\ served' = FreshServer /\ comm' = [x \in Proc |-> Stale(comm[x])]
        /\ conf' = conf
    BY <1>4 DEF StopServer, ServerGone
  <2>2. pc'[c] = "idle" /\ \A y \in Proc \ {c} : pc'[y] = pc[y]
    BY <1>0, <2>1 DEF TypeOK
  <2>3. (\A k \in Cli \ {c} : pc[k] = "idle") /\ pc[Daemon] = "dead" /\ CutOff
    BY <2>1, CommandAlone DEF CutOffInv, Connected
  <2>4. \A x \in Proc : pc'[x] = IF x = Daemon THEN "dead" ELSE "idle"
    BY <1>0, <2>2, <2>3 DEF Proc
  <2>5. \A y \in Proc \ {c} : ~Works(y)'
    BY <2>4 DEF Works
  <2>6. \A p \in Port : served'[p] = NotServed
    BY <2>1 DEF FreshServer, ServerPort
  <2>7. Connected'
    <3>1. \A x \in Proc : comm[x] = "none"
      BY <2>1, <2>3 DEF CutOffInv, Connected, Proc
    <3>2. \A x \in Proc : comm'[x] = "none"
      BY <2>1, <3>1 DEF Stale
    <3> QED BY <1>0, <2>1, <2>4, <2>6, <3>2 DEF Connected
  <2>8. TidyFile' /\ CutOff'
    BY <2>1, <2>3, <2>6, SameFile, SameCut DEF CutOffInv
  <2>9. Keeps(c)'
    BY <1>0, <2>2 DEF Keeps
  <2> QED BY <1>0, <2>5, <2>7, <2>8, <2>9, OneKeeps
<1>5. CASE SignalDaemon(c)
  <2>1. /\ (pc[c] = "refresh" /\ out[c] = {}) \/ pc[c] = "init"
        /\ UNCHANGED <<conf, served, up>>
        /\ comm' = [comm EXCEPT ![c] = "none"]
    BY <1>5 DEF SignalDaemon, Finished, Forget, serverVars
  <2>2. CutOff /\ pc[Daemon] \in {"dead", "receive"}
    BY <2>1, CommandAlone
  <2>3. \E d \in {"dead", "receive", "load", "construct"} :
          /\ pc' = [pc EXCEPT ![c] = "idle", ![Daemon] = d]
          /\ d = "dead" <=> pc[Daemon] = "dead"
    <3>1. CASE pc' = [pc EXCEPT ![c] = "idle"]
      <4>1. pc' = [pc EXCEPT ![c] = "idle", ![Daemon] = pc[Daemon]]
        BY <1>0, <3>1 DEF TypeOK
      <4> QED BY <2>2, <4>1
    <3>2. CASE /\ pc[Daemon] = "receive"
               /\ pc' = [pc EXCEPT ![c] = "idle",
                            ![Daemon] = IF constructed THEN "load" ELSE "construct"]
      BY <3>2
    <3> QED BY <1>5, <2>2, <3>1, <3>2 DEF SignalDaemon
  <2>4. pc[Daemon] # "dead" => up
    BY DEF CutOffInv, Connected
  <2> QED BY <2>1, <2>2, <2>3, <2>4, CutCommandEnds
<1>6. CASE ExitQuietly(c)
  <2>1. /\ (pc[c] = "refresh" /\ out[c] = {}) \/ pc[c] = "init"
        /\ UNCHANGED <<conf, served, up>>
        /\ comm' = [comm EXCEPT ![c] = "none"] /\ pc' = [pc EXCEPT ![c] = "idle"]
    BY <1>6 DEF ExitQuietly, Finished, CliExits, Forget, serverVars
  <2>2. CutOff /\ pc[Daemon] \in {"dead", "receive"}
    BY <2>1, CommandAlone
  <2>3. pc' = [pc EXCEPT ![c] = "idle", ![Daemon] = pc[Daemon]]
    BY <1>0, <2>1 DEF TypeOK
  <2>4. pc[Daemon] # "dead" => up
    BY DEF CutOffInv, Connected
  <2> QED BY <2>1, <2>2, <2>3, <2>4, CutCommandEnds
<1> QED BY <1>1, <1>2, <1>3, <1>4, <1>5, <1>6 DEF CliStep

-----------------------------------------------------------------------------
(* The daemon. *)

(***************************************************************************)
(* A step of the daemon outside of its methods, which goes on or ends it.  *)
(***************************************************************************)
LEMMA CutDaemonMoves ==
  ASSUME TypeOK, CutOffInv, CutOff, \A c \in Cli : pc[c] = "idle", pc[Daemon] # "dead",
         NEW d, d \notin {"write", "refresh", "init"},
         pc' = [pc EXCEPT ![Daemon] = d],
         d = "request" => AddsNone(Daemon)',
         \/ comm' = comm /\ d # "dead"
         \/ comm' = [comm EXCEPT ![Daemon] = "none"],
         UNCHANGED <<conf, served, up>>
  PROVE  CutOffInv'
<1>0. Daemon \in Proc /\ \A k \in Cli : k \in Proc /\ k # Daemon
  BY CliAssumption DEF Proc
<1>1. pc'[Daemon] = d /\ \A k \in Cli : pc'[k] = "idle"
  BY <1>0 DEF TypeOK
<1>2. \A y \in Proc \ {Daemon} : ~Works(y)'
  BY <1>1 DEF Works, Proc
<1>3. Connected'
  <2>1. \A k \in Cli : comm'[k] = comm[k]
    BY <1>0 DEF TypeOK
  <2>2. comm'[Daemon] \in {comm[Daemon], "none"} /\ (d = "dead" => comm'[Daemon] = "none")
    BY <1>0 DEF TypeOK
  <2>3. \A x \in Proc : comm'[x] # "stale"
    BY <2>1, <2>2 DEF Proc, CutOffInv, Connected
  <2> QED BY <1>1, <2>1, <2>2, <2>3 DEF CutOffInv, Connected
<1>4. TidyFile' /\ CutOff'
  BY SameFile, SameCut DEF CutOffInv
<1>5. Keeps(Daemon)'
  BY <1>1 DEF Keeps
<1> QED BY <1>0, <1>2, <1>3, <1>4, <1>5, OneKeeps

(***************************************************************************)
(* The daemon's loop: what it loads adds no user over the cap, and when it *)
(* has refreshed the users the file says who is cut off.                   *)
(***************************************************************************)
LEMMA CutDaemonStep ==
  ASSUME Serial, TypeOK, WritesItsUsers, CutOffInv, DaemonStep
  PROVE  CutOffInv'
<1>0. Daemon \in Proc /\ \A k \in Cli : k \in Proc /\ k # Daemon
  BY CliAssumption DEF Proc
<1>1. CASE MethodStep(Daemon)
  BY <1>0, <1>1, CutMethodStep
<1>2. ASSUME pc[Daemon] \notin {"dead", "receive"} PROVE \A c \in Cli : pc[c] = "idle"
  BY <1>2, DaemonAlone DEF CutOffInv, Works
<1>3. ASSUME \A c \in Cli : pc[c] = "idle", pc[Daemon] \notin {"write", "refresh"}
      PROVE  CutOff
  BY <1>3 DEF CutOffInv, Settled
<1>4. ASSUME pc[Daemon] = "refresh", out[Daemon] = {} PROVE CutOff
  BY <1>0, <1>4, RefreshedCutOff DEF CutOffInv, Keeps
<1>5. DaemonExits => /\ pc' = [pc EXCEPT ![Daemon] = "dead"]
                     /\ comm' = [comm EXCEPT ![Daemon] = "none"]
  BY DEF DaemonExits, Forget
<1>6. CASE DaemonBoot
  <2>1. /\ pc[Daemon] = "boot" /\ UNCHANGED <<conf, served, up>>
        /\ \/ pc' = [pc EXCEPT ![Daemon] = "arm"] /\ comm' = comm
           \/ DaemonExits
    BY <1>6 DEF DaemonBoot
  <2>2. (\A c \in Cli : pc[c] = "idle") /\ CutOff
    BY <1>2, <1>3, <2>1
  <2> QED BY <1>5, <2>1, <2>2, CutDaemonMoves
<1>7. CASE DaemonArm \/ Construct \/ ClearFlag \/ HandleStat \/ HandleOther
  <2>1. /\ pc[Daemon] \in {"arm", "construct", "clear", "request"}
        /\ UNCHANGED <<conf, served, up, comm>>
        /\ \E d \in {"receive", "load", "open", "flag"} : pc' = [pc EXCEPT ![Daemon] = d]
    BY <1>7 DEF DaemonArm, Construct, ClearFlag, HandleStat, HandleOther, Loaded, serverVars
  <2>2. (\A c \in Cli : pc[c] = "idle") /\ CutOff
    BY <1>2, <1>3, <2>1
  <2> QED BY <2>1, <2>2, CutDaemonMoves
<1>8. CASE Receive
  <2>1. /\ pc[Daemon] = "receive" /\ \A c \in Cli : pc[c] = "idle"
        /\ UNCHANGED <<conf, served, up, comm>>
        /\ \E d \in {"load", "construct"} : pc' = [pc EXCEPT ![Daemon] = d]
    BY <1>8 DEF Receive, serverVars
  <2>2. CutOff
    BY <1>3, <2>1
  <2> QED BY <2>1, <2>2, CutDaemonMoves
<1>9. CASE Load
  <2>1. /\ pc[Daemon] = "load" /\ UNCHANGED <<conf, served, up, comm>>
        /\ pc' = [pc EXCEPT ![Daemon] = "request"]
        /\ out' = [out EXCEPT ![Daemon] = ReloadRequests(conf, users[Daemon])]
    BY <1>9 DEF Load, serverVars
  <2>2. (\A c \in Cli : pc[c] = "idle") /\ CutOff
    BY <1>2, <1>3, <2>1
  <2>3. AddsNone(Daemon)'
    <3>1. out'[Daemon] = ReloadRequests(conf, users[Daemon]) /\ users[Daemon] \in Table
      BY <1>0, <2>1 DEF TypeOK
    <3>2. Current' = Current
      BY <2>1 DEF Current
    <3> QED BY <3>1, <3>2, ReloadAddsNone DEF AddsNone, CutOffInv
  <2> QED BY <2>1, <2>2, <2>3, CutDaemonMoves
<1>10. CASE HandleTimeout
  <2>1. /\ pc[Daemon] = "request" /\ UNCHANGED <<conf, served, up>>
        /\ \/ pc' = [pc EXCEPT ![Daemon] = "flag"] /\ comm' = comm
           \/ DaemonExits
    BY <1>10 DEF HandleTimeout, Loaded, Ping, serverVars
  <2>2. (\A c \in Cli : pc[c] = "idle") /\ CutOff
    BY <1>2, <1>3, <2>1
  <2> QED BY <1>5, <2>1, <2>2, CutDaemonMoves
<1>11. CASE PingIfAsked
  <2>1. /\ pc[Daemon] = "flag" \/ (pc[Daemon] = "refresh" /\ out[Daemon] = {})
        /\ UNCHANGED <<conf, served, up>>
        /\ \/ /\ \E d \in {"receive", "clear"} : pc' = [pc EXCEPT ![Daemon] = d]
              /\ comm' = comm
           \/ DaemonExits
    BY <1>11 DEF PingIfAsked, AtFlag, Ping, serverVars
  <2>2. (\A c \in Cli : pc[c] = "idle") /\ CutOff
    BY <1>2, <1>3, <1>4, <2>1
  <2> QED BY <1>5, <2>1, <2>2, CutDaemonMoves
<1> QED BY <1>1, <1>6, <1>7, <1>8, <1>9, <1>10, <1>11 DEF DaemonStep

-----------------------------------------------------------------------------
(***************************************************************************)
(* Every process starts at rest, and no step breaks what keeps users cut   *)
(* off.                                                                    *)
(***************************************************************************)
LEMMA CutInit == ASSUME Init PROVE TypeOK /\ WritesItsUsers /\ CutOffInv
<1>1. TypeOK /\ WritesItsUsers
  BY TypeInit DEF Init, WritesItsUsers
<1>2. Daemon \in Proc /\ \A c \in Cli : c \in Proc /\ c # Daemon
  BY CliAssumption DEF Proc
<1>3. /\ pc[Daemon] = IF up THEN "receive" ELSE "dead"
      /\ \A c \in Cli : pc[c] = "idle"
      /\ \A x \in Proc : comm[x] = "none"
      /\ constructed = up
  BY <1>2 DEF Init
<1>4. \A i \in Slot : conf[i] = NoLine
  BY DEF Init, EmptyFile
<1>5. \A p \in Port : served[p] = NotServed
  BY DEF Init, FreshServer, ServerPort
<1>6. \A x \in Proc : ~Works(x)
  BY <1>3 DEF Works, Proc
<1>7. Connected
  BY <1>2, <1>3, <1>5 DEF Connected
<1>8. \A x \in Proc : Keeps(x)
  BY <1>3 DEF Keeps, Proc
<1>9. OneAtATime /\ TidyFile /\ CutOff
  BY <1>4, <1>5, <1>6 DEF OneAtATime, TidyFile, CutOff
<1> QED BY <1>1, <1>7, <1>8, <1>9 DEF CutOffInv

\* Each step, by who takes it.
LEMMA CutNext ==
  ASSUME Serial, Mortal = {}, TypeOK, WritesItsUsers, CutOffInv, [Next]_vars
  PROVE  TypeOK' /\ WritesItsUsers' /\ CutOffInv'
<1>1. TypeOK' /\ WritesItsUsers'
  BY TypeNext
<1>2. CASE ServerStep
  BY <1>1, <1>2, CutServerStep
<1>3. ASSUME NEW c \in Cli, Command(c) \/ CliStep(c) PROVE CutOffInv'
  BY <1>3, CutCommand, CutCliStep
<1>4. CASE DaemonStep
  BY <1>1, <1>4, CutDaemonStep
<1>5. ~DaemonKilled
  BY DEF DaemonKilled
<1>6. CASE UNCHANGED vars
  BY <1>1, <1>6, CutUnchanged DEF vars, daemonVars, serverVars
<1> QED BY <1>1, <1>2, <1>3, <1>4, <1>5, <1>6 DEF Next

(***************************************************************************)
(* At rest no user over the cap is served (operation.cpp:325), when one    *)
(* operation follows another and neither ssserver nor the daemon dies; for *)
(* every sequence of commands, loaded files, stops, starts and reports.    *)
(***************************************************************************)
THEOREM OverCapIsCutOff ==
  ASSUME Serial, Mortal = {}
  PROVE  Spec => []OverCapCutOff
<1> DEFINE I == TypeOK /\ WritesItsUsers /\ CutOffInv
<1>1. Init => I
  BY CutInit
<1>2. I /\ [Next]_vars => I'
  BY CutNext
<1>3. I => OverCapCutOff
  BY AtRest DEF OverCapCutOff, CutOff
<1> QED BY <1>1, <1>2, <1>3, PTL DEF Spec

-----------------------------------------------------------------------------
(* The daemon keeps the users that the file lists. *)

(***************************************************************************)
(* What the daemon has loaded, and not yet written, lists every user that  *)
(* the file lists.                                                         *)
(***************************************************************************)
LoadedAll ==
  pc[Daemon] \in {"request", "open"} => Managed(Current) \subseteq Managed(users[Daemon])

\* load_conf keeps a user for every port that has a line.
LEMMA LoadListsAll ==
  ASSUME TypeOK, NEW t \in Table
  PROVE  Managed(Current) \subseteq Managed(LoadTable(conf, t))
<1>1. ASSUME NEW l \in Line, NEW u \in User \cup {NoUser}
      PROVE  UserOf(l, u) # NoUser
  <2>1. UserOf(l, u) \in User
    BY <1>1, CapAssumption, BlankAssumption DEF UserOf, Line, User
  <2> QED BY <2>1, NoUserAssumption
<1>2. ASSUME NEW p \in Port, Current[p] # NoUser PROVE LoadTable(conf, t)[p] # NoUser
  <2>1. \E i \in Slot : IsLastLine(conf, p, i)
    BY <1>2 DEF Current, LoadTable
  <2> DEFINE k == CHOOSE i \in Slot : IsLastLine(conf, p, i)
  <2>2. k \in Slot /\ IsLastLine(conf, p, k)
    BY <2>1
  <2>3. conf[k] \in Line
    BY <2>2 DEF IsLastLine, TypeOK, File
  <2>4. t[p] \in User \cup {NoUser}
    BY DEF Table
  <2>5. LoadTable(conf, t)[p] = UserOf(conf[k], t[p])
    BY <2>1 DEF LoadTable
  <2> QED BY <1>1, <2>3, <2>4, <2>5
<1> QED BY <1>2 DEF Managed

(***************************************************************************)
(* Nothing comes between the daemon's load and its write: no command is    *)
(* under way.                                                              *)
(***************************************************************************)
LEMMA DaemonUndisturbed ==
  ASSUME Serial, TypeOK, CutOffInv, NEW c \in Cli, Command(c) \/ CliStep(c)
  PROVE  pc'[Daemon] \notin {"request", "open"}
<1>0. c \in Proc /\ c # Daemon /\ Daemon \in Proc
  BY CliAssumption DEF Proc
<1>1. CASE Command(c)
  <2>1. CASE StopDaemon(c)
    BY <1>0, <2>1 DEF StopDaemon, TypeOK
  <2>2. ASSUME NEW command, NEW kind, NEW t, NEW o, NEW p,
               Begin(c, command, kind, t, o, p)
        PROVE  pc'[Daemon] \notin {"request", "open"}
    <3>1. Quiescent /\ pc' = [pc EXCEPT ![c] = p]
      BY <2>2 DEF Begin
    <3>2. pc'[Daemon] = pc[Daemon]
      BY <1>0, <3>1 DEF TypeOK
    <3> QED BY <3>1, <3>2 DEF Quiescent
  <2>3. CASE AddPort(c) \/ RemovePort(c) \/ UpdateDatacap(c) \/ ResetUsage(c)
    BY <2>2, <2>3 DEF AddPort, RemovePort, UpdateDatacap, ResetUsage
  <2>4. CASE ResetAllUsage(c) \/ ImportFrom(c) \/ StartServer(c) \/ StartFoundServer(c)
    BY <2>2, <2>4 DEF ResetAllUsage, ImportFrom, StartServer, StartFoundServer
  <2> QED BY <1>1, <2>1, <2>3, <2>4 DEF Command
<1>2. CASE CliStep(c)
  <2>1. pc[c] # "idle"
    <3>1. CASE MethodStep(c)
      BY <3>1 DEF MethodStep, SendRequest, SendFails, Truncate, WriteLine, CloseConf, Sending
    <3>2. CASE ~MethodStep(c)
      BY <1>2, <3>2 DEF CliStep, InitAfterImport, SpawnDaemon, StopServer, SignalDaemon,
                        ExitQuietly, Finished
    <3> QED BY <3>1, <3>2
  <2>2. pc[Daemon] \in {"dead", "receive"}
    BY <2>1, CommandAlone
  <2>3. \/ pc' = pc \/ \E v : pc' = [pc EXCEPT ![c] = v]
        \/ \E d \in {"dead", "receive", "boot", "load", "construct"} :
             pc' = [pc EXCEPT ![c] = "idle", ![Daemon] = d]
    <3>1. CASE MethodStep(c)
      BY <1>0, <3>1 DEF MethodStep, SendRequest, SendFails, CliExits, Truncate, WriteLine,
                        CloseConf
    <3>2. CASE InitAfterImport(c) \/ StopServer(c) \/ ExitQuietly(c)
      BY <3>2 DEF InitAfterImport, StopServer, ExitQuietly, CliExits
    <3>3. CASE SpawnDaemon(c)
      <4>1. pc' = [pc EXCEPT ![c] = "idle",
                       ![Daemon] = IF pc[Daemon] = "dead" /\ up THEN "boot" ELSE pc[Daemon]]
        BY <1>0, <3>3 DEF SpawnDaemon, TypeOK
      <4> QED BY <2>2, <4>1
    <3>4. CASE SignalDaemon(c)
      BY <3>4 DEF SignalDaemon
    <3> QED BY <1>2, <3>1, <3>2, <3>3, <3>4 DEF CliStep
  <2> QED BY <1>0, <2>2, <2>3 DEF TypeOK
<1> QED BY <1>1, <1>2

\* Load establishes it, counting keeps it, writing ends it.
LEMMA LoadedAllNext ==
  ASSUME Serial, Mortal = {}, TypeOK, CutOffInv, LoadedAll, [Next]_vars
  PROVE  LoadedAll'
<1>0. Daemon \in Proc
  BY DEF Proc
<1> SUFFICES ASSUME pc'[Daemon] \in {"request", "open"}
             PROVE  Managed(Current)' \subseteq Managed(users'[Daemon])
  BY DEF LoadedAll, Managed
<1>1. ASSUME conf' = conf PROVE Managed(Current)' = Managed(Current)
  BY <1>1 DEF Current, Managed
<1>2. ASSUME UNCHANGED <<conf, pc, users>>
      PROVE  Managed(Current)' \subseteq Managed(users'[Daemon])
  BY <1>1, <1>2 DEF LoadedAll
<1>3. CASE ServerStep
  BY <1>2, <1>3 DEF ServerStep, SendStat, ServerCrash, Traffic
<1>4. ASSUME NEW c \in Cli, Command(c) \/ CliStep(c) PROVE FALSE
  BY <1>4, DaemonUndisturbed
<1>5. CASE SendRequest(Daemon)
  BY <1>2, <1>5 DEF SendRequest
<1>6. CASE Load
  <2>1. /\ conf' = conf /\ users[Daemon] \in Table
        /\ users'[Daemon] = LoadTable(conf, users[Daemon])
    BY <1>0, <1>6 DEF Load, TypeOK
  <2> QED BY <1>1, <2>1, LoadListsAll
<1>7. CASE HandleStat
  <2>1. /\ conf' = conf /\ pc[Daemon] = "request" /\ users[Daemon] \in Table
        /\ users'[Daemon] = AddData(users[Daemon], msg.delta)
    BY <1>0, <1>7 DEF HandleStat, Loaded, TypeOK
  <2>2. msg.delta \in [Port -> Nat]
    BY <1>7 DEF HandleStat, TypeOK, Message
  <2>3. Managed(users[Daemon]) \subseteq Managed(AddData(users[Daemon], msg.delta))
    <3>1. ASSUME NEW p \in Managed(users[Daemon])
          PROVE  AddData(users[Daemon], msg.delta)[p] # NoUser
      <4>1. p \in Port /\ users[Daemon][p] \in User /\ users[Daemon][p] # NoUser
        BY <2>1 DEF Managed, Table
      <4>2. AddData(users[Daemon], msg.delta)[p]
              = [users[Daemon][p] EXCEPT !.usage = @ + msg.delta[p]]
        BY <4>1 DEF AddData
      <4>3. AddData(users[Daemon], msg.delta)[p] \in User
        BY <2>2, <4>1, <4>2 DEF User
      <4> QED BY <4>3, NoUserAssumption
    <3> QED BY <3>1 DEF Managed
  <2> QED BY <1>1, <2>1, <2>3 DEF LoadedAll
<1>8. CASE DaemonStep /\ ~SendRequest(Daemon) /\ ~Load /\ ~HandleStat
  <2>1. \E d : /\ d \notin {"request", "open"}
               /\ pc' = [pc EXCEPT ![Daemon] = d] \/ (pc' = pc /\ pc[Daemon] = d)
    <3>1. CASE MethodStep(Daemon)
      BY <1>8, <3>1 DEF MethodStep, SendFails, DaemonExits, Truncate, WriteLine, CloseConf
    <3>2. CASE DaemonBoot \/ DaemonArm \/ Receive \/ Construct
      BY <3>2 DEF DaemonBoot, DaemonArm, Receive, Construct, DaemonExits
    <3>3. CASE HandleTimeout \/ HandleOther \/ PingIfAsked \/ ClearFlag
      BY <3>3 DEF HandleTimeout, HandleOther, PingIfAsked, ClearFlag, DaemonExits
    <3> QED BY <1>8, <3>1, <3>2, <3>3 DEF DaemonStep
  <2> QED BY <1>0, <2>1 DEF TypeOK
<1>9. ~DaemonKilled
  BY DEF DaemonKilled
<1>10. CASE UNCHANGED vars
  BY <1>2, <1>10 DEF vars
<1> QED BY <1>3, <1>4, <1>5, <1>6, <1>7, <1>8, <1>9, <1>10 DEF Next, DaemonStep

(***************************************************************************)
(* The daemon never drops a user whom the file lists when it records usage *)
(* (add_data_to_conf, operation.cpp:301), when one operation follows       *)
(* another and nothing dies.                                               *)
(***************************************************************************)
THEOREM DaemonDropsNobody ==
  ASSUME Serial, Mortal = {}
  PROVE  Spec => DaemonKeepsUsers
<1> DEFINE I == TypeOK /\ WritesItsUsers /\ CutOffInv /\ LoadedAll
<1>1. Init => I
  <2>1. Init => pc[Daemon] \notin {"request", "open"}
    BY DEF Init, Proc
  <2> QED BY <2>1, CutInit DEF LoadedAll
<1>2. I /\ [Next]_vars => I'
  BY CutNext, LoadedAllNext
<1>3. I /\ [Next]_vars =>
        [pc[Daemon] = "open" /\ pc'[Daemon] = "write" /\ Writers = {}
           => Managed(Current) \subseteq Managed(users[Daemon])]_vars
  BY DEF LoadedAll
<1> QED BY <1>1, <1>2, <1>3, PTL DEF Spec, DaemonKeepsUsers
=============================================================================
