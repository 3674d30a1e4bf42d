-------------------------------- MODULE Cli --------------------------------
(***************************************************************************)
(* The command line of sswatcher: which words lead to which method         *)
(* (watcher/main.cpp, commands.h), and what the methods of ConfigMgr make  *)
(* of the numbers they are given, print and read back                      *)
(* (shared/operation.cpp, shared/status.cpp, shared/path.cpp).             *)
(*                                                                         *)
(* Watcher has the processes, the requests and the interleavings, and      *)
(* counts sizes in a coarse unit.  Here one command runs at a time, from   *)
(* its arguments to its exit status, and numbers have their width.         *)
(***************************************************************************)
EXTENDS Converter, Sequences

CONSTANTS
  Port,         \* the ports of the users
  PortArg,      \* the numbers given as ports on the command line
  Size,         \* the texts given as sizes
  Given,        \* the files a user writes by hand
  Config,       \* the configuration files of ssserver that exist
  SS_CONFIG,    \* the one that is used by default
  Delta,        \* the traffic of a report
  NoUser,       \* absence of a table entry
  Blank,        \* a column that a line does not have, an argument not given
  MaxCommands,  \* bound on the commands given
  MaxReports    \* bound on the reports recorded

ASSUME CliAssumption ==
  /\ Port \subseteq 0 .. PortWord - 1 /\ IsFiniteSet(Port)
  /\ PortArg \subseteq Nat /\ \A n \in PortArg : PortOf(n) \in Port
  /\ Size \subseteq Text /\ Blank \notin Text
  /\ Delta \subseteq 0 .. MaxSigned
  /\ MaxCommands \in Nat /\ MaxReports \in Nat

VARIABLES
  conf,        \* sswatcher.conf: the user each port's line describes
  capfile,     \* the text in the default cap file; none reads as 0
  announced,   \* history: the default cap in the memory of default_limit
  file,        \* the file that export, export_users and load are given
  server,      \* ssserver: whether it runs, with which configuration
  last,        \* history: the last command and how it ended
  commands,    \* history: commands given
  reports      \* history: reports recorded

vars == <<conf, capfile, announced, file, server, last, commands, reports>>

User == [cap : 0 .. Word - 1, usage : 0 .. Word - 1]

Line == [port : Nat, cap : Text \cup {Blank}, usage : Text \cup {Blank}]

ASSUME TableAssumption == NoUser \notin User /\ Given \subseteq Seq(Line)

-----------------------------------------------------------------------------
(***************************************************************************)
(* The table: what load_conf reads and export_to writes.                   *)
(***************************************************************************)
\* Mutant of DefaultCap: the file is not read.
DefaultCapZero == 0

\* get_default_datacap, in a process that has not set it: one word of the file.
DefaultCap == ParseSize(FirstWord(capfile), FALSE)

\* Mutants of UserOf: the usage of a loaded line is added to the one in memory;
\* usages start at zero when the file has none.
UserOfPlus(l, prev) ==
  [cap   |-> IF l.cap = Blank THEN DefaultCap ELSE ParseSize(l.cap, FALSE),
   usage |-> (IF l.usage # Blank THEN ParseSize(l.usage, FALSE) ELSE 0)
             + (IF prev # NoUser THEN prev.usage ELSE 0)]

UserOfAfresh(l, prev) ==
  [cap   |-> IF l.cap = Blank THEN DefaultCap ELSE ParseSize(l.cap, FALSE),
   usage |-> IF l.usage # Blank THEN ParseSize(l.usage, FALSE) ELSE 0]

\* The user a line describes, given what memory held for its port.
UserOf(l, prev) ==
  [cap   |-> IF l.cap = Blank THEN DefaultCap ELSE ParseSize(l.cap, FALSE),
   usage |-> IF l.usage # Blank THEN ParseSize(l.usage, FALSE)
             ELSE IF prev # NoUser THEN prev.usage ELSE 0]

LastLines(f, p) ==
  {i \in 1 .. Len(f) : /\ PortOf(f[i].port) = p
                       /\ \A j \in i + 1 .. Len(f) : PortOf(f[j].port) # p}

LoadConf(f, prev) ==
  [p \in Port |-> IF LastLines(f, p) = {} THEN NoUser
                  ELSE UserOf(f[CHOOSE i \in LastLines(f, p) : TRUE], prev[p])]

Empty == [p \in Port |-> NoUser]

Sorted(S) ==
  CHOOSE s \in [1 .. Cardinality(S) -> S] : \A i, j \in DOMAIN s : i < j => s[i] < s[j]

\* The lines of a table, in the order of the ports; export_user leaves out the
\* cap and the usage.
LinesOf(t, full) ==
  LET s == Sorted({p \in Port : t[p] # NoUser})
  IN  [i \in DOMAIN s |->
         [port  |-> s[i],
          cap   |-> IF full THEN Decimal(t[s[i]].cap) ELSE Blank,
          usage |-> IF full THEN Decimal(t[s[i]].usage) ELSE Blank]]

ExportTo(t) == LinesOf(t, TRUE)

ExportUser(t) == LinesOf(t, FALSE)

\* The constructor of ConfigMgr: the table of a process that starts now.
Users == LoadConf(ExportTo(conf), Empty)

-----------------------------------------------------------------------------
(***************************************************************************)
(* handle_input: the method a command word leads to, by the number of      *)
(* arguments (argc counts the program's name).  "--" before a word is      *)
(* dropped and makes no difference.                                        *)
(***************************************************************************)
Printing == {"stat", "status", "help", "ver", "version"}

DefaultLimit == {"dlim", "default_limit"}

Handler(task, argc) ==
  CASE argc = 1 -> "show"
    [] argc = 2 /\ task \in Printing \cup DefaultLimit -> "show"
    [] argc = 2 /\ task = "load" -> "import_from"
    [] argc = 2 /\ task = "reset_all" -> "reset_usage_for_all"
    [] argc = 2 /\ task \in {"start", "stop", "restart"} -> task
    [] argc = 3 /\ task = "remove" -> "remove_port"
    [] argc = 3 /\ task = "load" -> "import_from"
    [] argc = 3 /\ task = "export" -> "export_to"
    [] argc = 3 /\ task = "export_users" -> "export_user"
    [] argc = 3 /\ task \in DefaultLimit -> "set_default_datacap"
    [] argc = 3 /\ task = "reset" -> "reset_usage_for_port"
    [] argc \in {4, 5} /\ task \in {"add", "update"} -> "add_port"
    [] argc >= 4 /\ task = "limit" -> "update_datacap_for_port"
    [] argc >= 4 /\ task = "start" -> "start"
    [] OTHER -> "show_usage"

\* The commands after which send_connect_signal is called.
Signalling == {"load", "reset", "remove", "dlim", "default_limit", "limit",
               "limit_all", "add", "update"}

Tasks == Signalling \cup Printing
           \cup {"reset_all", "export", "export_users", "start", "stop", "restart"}

\* Mutant of Ends: only commands with a port signal the daemon.
EndsUnsignalled(task, argc, args, outcome) ==
  last' = [task |-> task, argc |-> argc, args |-> args, outcome |-> outcome,
           signal |-> /\ outcome = "done"
                      /\ task \in Signalling \ (DefaultLimit \cup {"load"})]

\* A command runs to its end: "done", "failed" (exit after a message),
\* "unsupported" or "crashed"; only those that return to handle_input signal.
Ends(task, argc, args, outcome) ==
  last' = [task |-> task, argc |-> argc, args |-> args, outcome |-> outcome,
           signal |-> outcome = "done" /\ task \in Signalling]

Begins(task, argc, handler) ==
  /\ commands < MaxCommands
  /\ Handler(task, argc) = handler
  /\ commands' = commands + 1
  /\ UNCHANGED reports

-----------------------------------------------------------------------------
(***************************************************************************)
(* The commands.                                                           *)
(***************************************************************************)
Init ==
  /\ conf = Empty
  /\ capfile = Decimal(0)
  /\ announced = 0
  /\ file = <<>>
  /\ server = [up |-> FALSE, config |-> SS_CONFIG]
  /\ last = [task |-> "none", argc |-> 1, args |-> <<>>,
             outcome |-> "done", signal |-> FALSE]
  /\ commands = 0 /\ reports = 0

\* The number a user is given as cap with add; a missing limit is a null
\* pointer, of which parse_size makes a string: the process ends there.
AddPort(task, argc, n, size) ==
  /\ Begins(task, argc, "add_port")
  /\ size = Blank <=> argc = 4
  /\ IF size = Blank
     THEN Ends(task, argc, <<n>>, "crashed") /\ UNCHANGED conf
     ELSE LET p == PortOf(n)
          IN  /\ conf' = [Users EXCEPT ![p] =
                            [cap   |-> ParseSize(size, TRUE),
                             usage |-> IF @ = NoUser THEN 0 ELSE @.usage]]
              /\ Ends(task, argc, <<n, size>>, "done")
  /\ UNCHANGED <<capfile, announced, file, server>>

\* remove_port, reset_usage_for_port, update_datacap_for_port: a method that
\* changes the user of a port to "edited", or exits if there is none.
EditPort(task, argc, args, edited) ==
  LET p == PortOf(args[1])
  IN  /\ IF Users[p] = NoUser
         THEN Ends(task, argc, args, "failed") /\ UNCHANGED conf
         ELSE /\ conf' = [Users EXCEPT ![p] = edited]
              /\ Ends(task, argc, args, "done")
      /\ UNCHANGED <<capfile, announced, file, server>>

RemovePort(argc, n) ==
  /\ Begins("remove", argc, "remove_port")
  /\ EditPort("remove", argc, <<n>>, NoUser)

ResetPort(argc, n) ==
  /\ Begins("reset", argc, "reset_usage_for_port")
  /\ EditPort("reset", argc, <<n>>, [Users[PortOf(n)] EXCEPT !.usage = 0])

\* A bare number counts bytes here.
LimitPort(argc, n, size) ==
  /\ Begins("limit", argc, "update_datacap_for_port")
  /\ EditPort("limit", argc, <<n, size>>,
              [Users[PortOf(n)] EXCEPT !.cap = ParseSize(size, FALSE)])

ResetAll(argc) ==
  /\ Begins("reset_all", argc, "reset_usage_for_all")
  /\ conf' = [p \in Port |-> IF Users[p] = NoUser THEN NoUser
                             ELSE [Users[p] EXCEPT !.usage = 0]]
  /\ Ends("reset_all", argc, <<>>, "done")
  /\ UNCHANGED <<capfile, announced, file, server>>

\* load replaces the table; a file that cannot be opened reads as empty.
ImportFrom(argc, f) ==
  /\ Begins("load", argc, "import_from")
  /\ conf' = LoadConf(f, Users)
  /\ Ends("load", argc, <<f>>, "done")
  /\ UNCHANGED <<capfile, announced, file, server>>

Export(task, argc) ==
  /\ \/ /\ Begins(task, argc, "export_to")
        /\ file' = ExportTo(Users)
     \/ /\ Begins(task, argc, "export_user")
        /\ file' = ExportUser(Users)
  /\ Ends(task, argc, <<>>, "done")
  /\ UNCHANGED <<conf, capfile, announced, server>>

\* set_default_datacap: the process remembers the size as it was meant, in
\* gigabytes if it is bare; the file keeps the text.
SetDefaultDatacap(task, argc, size) ==
  /\ Begins(task, argc, "set_default_datacap")
  /\ capfile' = size
  /\ announced' = ParseSize(size, TRUE)
  /\ Ends(task, argc, <<size>>, "done")
  /\ UNCHANGED <<conf, file, server>>

\* Words that print, and forms that are not supported.
Show(task, argc) ==
  /\ \/ Begins(task, argc, "show") /\ Ends(task, argc, <<>>, "done")
     \/ Begins(task, argc, "show_usage") /\ Ends(task, argc, <<>>, "unsupported")
  /\ UNCHANGED <<conf, capfile, announced, file, server>>

\* start_ss with the path that Path::set_ss_config was given, or none.
StartSs(path, started) ==
  IF started.up THEN [server |-> started, ok |-> TRUE]
  ELSE IF path \in Config
       THEN [server |-> [up |-> TRUE, config |-> path], ok |-> TRUE]
       ELSE [server |-> started, ok |-> FALSE]

\* start [user u] [config path], where path is absent below four arguments and
\* the last config pair wins.
Start(argc, path) ==
  /\ Begins("start", argc, "start")
  /\ argc = 2 => path = SS_CONFIG
  /\ LET s == StartSs(path, server)
     IN  /\ server' = s.server
         /\ Ends("start", argc, <<path>>, IF s.ok THEN "done" ELSE "failed")
  /\ UNCHANGED <<conf, capfile, announced, file>>

\* check_prev: starting and stopping is for root.
NotRoot(task, argc) ==
  /\ Begins(task, argc, task)
  /\ Ends(task, argc, <<>>, "failed")
  /\ UNCHANGED <<conf, capfile, announced, file, server>>

Stop(argc) ==
  /\ Begins("stop", argc, "stop")
  /\ server' = [server EXCEPT !.up = FALSE]
  /\ Ends("stop", argc, <<>>, "done")
  /\ UNCHANGED <<conf, capfile, announced, file>>

\* stop_ss, then start_ss in a process that was given no configuration.
Restart(argc) ==
  /\ Begins("restart", argc, "restart")
  /\ LET s == StartSs(SS_CONFIG, [server EXCEPT !.up = FALSE])
     IN  /\ server' = s.server
         /\ Ends("restart", argc, <<>>, IF s.ok THEN "done" ELSE "failed")
  /\ UNCHANGED <<conf, capfile, announced, file>>

-----------------------------------------------------------------------------
(***************************************************************************)
(* The daemon reads the table, adds a report and writes it back; the user  *)
(* writes a file of its own.                                               *)
(***************************************************************************)
AddDataToConf(p, d) ==
  /\ reports < MaxReports
  /\ conf' = [q \in Port |->
                IF q = p /\ Users[q] # NoUser
                THEN [Users[q] EXCEPT !.usage = (@ + d) % Word] ELSE Users[q]]
  /\ reports' = reports + 1
  /\ UNCHANGED <<capfile, announced, file, server, last, commands>>

Command(argc) ==
  \/ \E task \in {"add", "update"}, n \in PortArg, size \in Size \cup {Blank} :
       AddPort(task, argc, n, size)
  \/ \E n \in PortArg : RemovePort(argc, n) \/ ResetPort(argc, n)
  \/ \E n \in PortArg, size \in Size : LimitPort(argc, n, size)
  \/ ResetAll(argc)
  \/ \E f \in Given \cup {file} : ImportFrom(argc, f)
  \/ \E task \in {"export", "export_users"} : Export(task, argc)
  \/ \E task \in DefaultLimit, size \in Size : SetDefaultDatacap(task, argc, size)
  \/ \E task \in Tasks : Show(task, argc)
  \/ \E path \in Config \cup {SS_CONFIG} : Start(argc, path)
  \/ \E task \in {"start", "stop", "restart"} : NotRoot(task, argc)
  \/ Stop(argc)
  \/ Restart(argc)

Next ==
  \/ Show("none", 1)
  \/ \E argc \in 2 .. 6 : Command(argc)
  \/ \E p \in Port, d \in Delta : AddDataToConf(p, d)

Spec == Init /\ [][Next]_vars

-----------------------------------------------------------------------------
TypeOK ==
  /\ conf \in [Port -> User \cup {NoUser}]
  /\ capfile \in Text
  /\ announced \in 0 .. Word - 1
  /\ file \in Seq(Line)
  /\ server \in [up : BOOLEAN, config : Config \cup {SS_CONFIG}]
  /\ last.outcome \in {"done", "failed", "unsupported", "crashed"}
  /\ commands \in 0 .. MaxCommands /\ reports \in 0 .. MaxReports

\* What the user of a command line means: the largest unit named, counted in
\* thousands from bytes.
Rank == [u \in Unit |-> CASE u = "B" -> 0 [] u = "K" -> 1 [] u = "M" -> 2
                          [] u = "G" -> 3 [] u = "T" -> 4]

Meant(size, bare) ==
  LET named == {Rank[u] : u \in size.letters}
      rank  == IF named = {} THEN bare
               ELSE CHOOSE r \in named : \A s \in named : s <= r
  IN  size.num * <<1, Kilo, Kilo * Kilo, Kilo * Kilo * Kilo,
                   Kilo * Kilo * Kilo * Kilo>>[rank + 1]

(***************************************************************************)
(* What a process that starts after an add or a limit enforces, whatever   *)
(* reports have been recorded since, is the cap that was typed: gigabytes  *)
(* for add, bytes for limit, if no unit is named.  It takes parse_size,    *)
(* write_conf and load_conf to agree (converter.cpp:17, operation.cpp:233, *)
(* operation.cpp:122), and holds below 2^63 and without a fraction only.   *)
(***************************************************************************)
CapAsTyped ==
  last.outcome = "done" /\ last.task \in {"add", "update", "limit"} =>
    LET size  == last.args[2]
        meant == Meant(size, IF last.task = "limit" THEN 0 ELSE 3)
    IN  size.frac = 0 /\ meant <= MaxSigned =>
          Users[PortOf(last.args[1])].cap = meant

(***************************************************************************)
(* An exported file that is loaded back gives the table that every process *)
(* reads from sswatcher.conf, whatever the table was before (export_to and *)
(* load_conf, operation.cpp:223 and 95): also for numbers that were cut    *)
(* off, because reading them once more changes nothing.                    *)
(***************************************************************************)
ExportReadsBack ==
  \A prev \in {Empty, conf, Users} : LoadConf(ExportTo(Users), prev) = Users

\* What is shown is within half a hundredth of its unit, of which there are 1 to
\* Kilo, or it is in TB.
ShownExactly(n) ==
  LET t == ConvertToString(n)
      b == Bytes(UnitOf(t.letters, "B"))
      error == (100 * t.num + t.frac) * b - 100 * n
  IN  /\ -b <= 2 * error /\ 2 * error <= b
      /\ n < Kilo * b \/ b = Bytes("T")
      /\ n > 0 => t.num >= 1

(***************************************************************************)
(* stat (export_to, operation.cpp:228) prints every cap and usage within   *)
(* half a hundredth of its unit, in the unit of which there are 1 to 1000, *)
(* or in TB.                                                               *)
(***************************************************************************)
StatIsExact ==
  \A p \in Port : conf[p] # NoUser =>
    ShownExactly(conf[p].cap) /\ ShownExactly(conf[p].usage)

(***************************************************************************)
(* A recorded usage that a process can read (below 2^63) falls only when a *)
(* reset, a remove or a file that is loaded says so; a user who is added   *)
(* again keeps it (operation.cpp:290).                                     *)
(***************************************************************************)
UsageFallsOnlyWhenTold ==
  [][\A p \in Port :
       /\ conf[p] # NoUser /\ conf[p].usage <= MaxSigned
       /\ conf'[p] = NoUser \/ conf'[p].usage < conf[p].usage
       => /\ commands' # commands
          /\ \/ last'.task \in {"reset", "remove"} /\ PortOf(last'.args[1]) = p
             \/ last'.task = "reset_all"
             \/ /\ last'.task = "load"
                /\ LET f == last'.args[1]
                   IN  \A i \in LastLines(f, p) : f[i].usage # Blank]_vars

(***************************************************************************)
(* A line that is loaded without a cap gives the default cap as            *)
(* default_limit took it (operation.cpp:58), when that was one word with a *)
(* unit: a bare number was taken for gigabytes and is read back as bytes   *)
(* by every later process (operation.cpp:39), and of "20 GB" only 20 is.   *)
(***************************************************************************)
LoadAppliesDefault ==
  [][commands' # commands /\ last'.task = "load" /\ last'.outcome = "done"
       => \A i \in DOMAIN last'.args[1] :
            LET l == last'.args[1][i]
                p == PortOf(l.port)
            IN  /\ p \in Port /\ LastLines(last'.args[1], p) = {i}
                /\ l.cap = Blank /\ capfile.letters # {} /\ ~capfile.spaced
                => conf'[p].cap = announced]_vars

(***************************************************************************)
(* A command that changes the table or the default cap, or hands ssserver  *)
(* new caps, signals the daemon (watcher/main.cpp:134), except reset_all,  *)
(* which the list of words leaves out.                                     *)
(***************************************************************************)
EditsAreSignalled ==
  [][commands' # commands /\ (conf' # conf \/ capfile' # capfile)
       => last'.signal \/ last'.task = "reset_all"]_vars

(***************************************************************************)
(* A command on a port below 65536 changes the user of this port and of no *)
(* other (a larger number is cut to 16 bits, operation.cpp:258).           *)
(***************************************************************************)
OnlyTheNamedUserChanges ==
  [][commands' # commands /\ last'.task \in {"add", "update", "limit", "remove", "reset"}
       => \A p \in Port :
            conf'[p] # Users[p] /\ conf' # conf /\ last'.args[1] < PortWord
            => last'.args[1] = p]_vars

\* The command forms that show_usage lists (watcher/main.cpp:174).
Listed ==
  {<<"status", 2>>, <<"stat", 2>>, <<"load", 2>>, <<"version", 2>>,
   <<"add", 4>>, <<"add", 5>>, <<"update", 4>>, <<"update", 5>>, <<"limit", 4>>,
   <<"limit_all", 3>>, <<"reset", 3>>, <<"reset_all", 2>>, <<"remove", 3>>,
   <<"load", 3>>, <<"export", 3>>, <<"export_users", 3>>, <<"default_limit", 2>>,
   <<"default_limit", 3>>, <<"start", 2>>, <<"start", 4>>, <<"start", 6>>,
   <<"stop", 2>>, <<"restart", 2>>}

(***************************************************************************)
(* "supported commands: ... add <port> <password> [limit] ... limit_all    *)
(* <limit>" (watcher/main.cpp:173): a form that is listed is neither       *)
(* refused as unsupported nor ends the program.                            *)
(***************************************************************************)
ListedFormsCarriedOut ==
  <<last.task, last.argc>> \in Listed => last.outcome \in {"done", "failed"}
=============================================================================
