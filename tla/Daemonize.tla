----------------------------- MODULE Daemonize -----------------------------
(***************************************************************************)
(* How sswatcherd becomes a daemon (daemon/main.cpp, daemonize): a launch  *)
(* is a process that takes the lock file, forks, and waits for its child   *)
(* to report that it runs; the tool (shared/status.cpp, watcher/main.cpp)  *)
(* starts launches and sends signals to the process that pgrep finds.      *)
(*                                                                         *)
(* A signal is pending until the process takes it, and what it then does   *)
(* depends on the handlers installed by that time.  flock belongs to the   *)
(* open file that parent and child share: it is released by LOCK_UN in     *)
(* either of them, or when both have ended.                                *)
(***************************************************************************)
EXTENDS Naturals

CONSTANTS
  Launch,       \* executions of sswatcherd
  Orphan,       \* those that process 1 runs
  Nobody,       \* no launch
  Tool,         \* invocations of sswatcher
  Kinds,        \* what they may do: "start", "stop", "signal"
  MaxCommands   \* bound on what they do

ASSUME LaunchAssumption == Orphan \subseteq Launch /\ Nobody \notin Launch

VARIABLES
  parent,       \* where the launched process is
  child,        \* where the process it forks is
  tells,        \* whom the child takes for its parent
  pending,      \* the signals each process has not taken yet
  lock,         \* the launch whose open file holds the lock
  tool,         \* what each invocation of the tool is about to do
  daemonized,   \* history: the launches whose child became a daemon
  mistaken,     \* history: the launches whose parent a tool sent SIGUSR1
  commands      \* history: commands given so far

ghostVars == <<daemonized, mistaken, commands>>
vars == <<parent, child, tells, pending, lock, tool, ghostVars>>

Role == {"parent", "child"}
Process == Launch \X Role
Signal == {"USR1", "TERM", "CHLD", "ALRM"}

Ended == {"success", "failure", "killed"}
ParentPc == {"none", "prereq", "lock", "trap", "fork", "alarm", "pause"}
              \cup Ended
ChildPc == {"none", "forked", "asked", "ready", "told", "serving", "unlocked",
            "dead"}
ToolPc == [do : {"idle", "launch"}]
            \cup [do : {"kill"}, sig : {"USR1", "TERM"}, pid : Process]

ParentLives(l) == parent[l] \notin {"none"} \cup Ended
ChildLives(l) == child[l] \notin {"none", "dead"}

\* What pgrep finds.  It prints the lowest process id first, and ids wrap
\* around, so that may be any of them.
Matches ==
  {x \in Process : IF x[2] = "parent" THEN ParentLives(x[1]) ELSE ChildLives(x[1])}

TypeOK ==
  /\ parent \in [Launch -> ParentPc] /\ child \in [Launch -> ChildPc]
  /\ tells \in [Launch -> {"nobody", "parent", "init"}]
  /\ pending \in [Process -> SUBSET Signal]
  /\ lock \in Launch \cup {Nobody}
  /\ tool \in [Tool -> ToolPc]
  /\ daemonized \subseteq Launch /\ mistaken \subseteq Launch
  /\ commands \in Nat

Init ==
  /\ parent = [l \in Launch |-> "none"] /\ child = [l \in Launch |-> "none"]
  /\ tells = [l \in Launch |-> "nobody"]
  /\ pending = [x \in Process |-> {}]
  /\ lock = Nobody
  /\ tool = [t \in Tool |-> [do |-> "idle"]]
  /\ daemonized = {} /\ mistaken = {} /\ commands = 0

Send(x, s) ==
  pending' = [pending EXCEPT ![x] = IF x \in Matches THEN @ \cup {s} ELSE @]

-----------------------------------------------------------------------------
(* The tool *)

\* start_ss looks for a daemon; stop_ss and send_connect_signal look for the
\* process to signal.
Look(t) ==
  /\ tool[t].do = "idle" /\ commands < MaxCommands
  /\ commands' = commands + 1
  /\ \/ /\ "start" \in Kinds /\ Matches = {}
        /\ tool' = [tool EXCEPT ![t] = [do |-> "launch"]]
     \/ \E x \in Matches, s \in {"USR1", "TERM"} :
          /\ (IF s = "TERM" THEN "stop" ELSE "signal") \in Kinds
          /\ tool' = [tool EXCEPT ![t] = [do |-> "kill", sig |-> s, pid |-> x]]
  /\ UNCHANGED <<parent, child, tells, pending, lock, daemonized, mistaken>>

Kill(t) ==
  /\ tool[t].do = "kill"
  /\ Send(tool[t].pid, tool[t].sig)
  /\ mistaken' = mistaken \cup
       {l \in Launch : tool[t].sig = "USR1" /\ tool[t].pid = <<l, "parent">>}
  /\ tool' = [tool EXCEPT ![t] = [do |-> "idle"]]
  /\ UNCHANGED <<parent, child, tells, lock, daemonized, commands>>

Unused(l) == parent[l] = "none" /\ child[l] = "none"

StartDaemon(t) ==
  /\ tool[t].do = "launch"
  /\ \E l \in Launch \ Orphan :
       /\ Unused(l)
       /\ parent' = [parent EXCEPT ![l] = "prereq"]
  /\ tool' = [tool EXCEPT ![t] = [do |-> "idle"]]
  /\ UNCHANGED <<child, tells, pending, lock, ghostVars>>

\* Process 1 runs sswatcherd, which takes itself for a daemon already.
InitRuns(l) ==
  /\ l \in Orphan /\ Unused(l)
  /\ child' = [child EXCEPT ![l] = "told"]
  /\ UNCHANGED <<parent, tells, pending, lock, tool, ghostVars>>

-----------------------------------------------------------------------------
(* The launched process *)

Advance(l, from, to) ==
  /\ parent[l] = from
  /\ parent' = [parent EXCEPT ![l] = to]
  /\ UNCHANGED <<tells, tool, ghostVars>>

\* Mutant of ParentEnds: the lock is the process's own, as with lockf.
ParentEndsWithLockf(l, from, to) ==
  /\ Advance(l, from, to)
  /\ lock' = IF lock = l THEN Nobody ELSE lock
  /\ pending' = [pending EXCEPT ![<<l, "parent">>] = {}]
  /\ UNCHANGED child

\* The parent ends; with its child gone, the lock goes too.
ParentEnds(l, from, to) ==
  /\ Advance(l, from, to)
  /\ lock' = IF lock = l /\ ~ChildLives(l) THEN Nobody ELSE lock
  /\ pending' = [pending EXCEPT ![<<l, "parent">>] = {}]
  /\ UNCHANGED child

\* Not root, or ssserver does not run.
CheckPrereq(l) ==
  \/ Advance(l, "prereq", "lock") /\ UNCHANGED <<child, pending, lock>>
  \/ ParentEnds(l, "prereq", "failure")

TakeLock(l) ==
  \/ /\ lock = Nobody
     /\ Advance(l, "lock", "trap")
     /\ lock' = l
     /\ UNCHANGED <<child, pending>>
  \/ /\ lock # Nobody
     /\ ParentEnds(l, "lock", "failure")

TrapSignals(l) ==
  Advance(l, "trap", "fork") /\ UNCHANGED <<child, pending, lock>>

Fork(l) ==
  \/ /\ Advance(l, "fork", "alarm")
     /\ child' = [child EXCEPT ![l] = "forked"]
     /\ UNCHANGED <<pending, lock>>
  \/ ParentEnds(l, "fork", "failure")

SetAlarm(l) ==
  Advance(l, "alarm", "pause") /\ UNCHANGED <<child, pending, lock>>

\* Mutant of AlarmRings: no alarm is set.
AlarmNeverRings(l) == FALSE /\ UNCHANGED vars

\* The two seconds are over.
AlarmRings(l) ==
  /\ parent[l] = "pause"
  /\ Send(<<l, "parent">>, "ALRM")
  /\ UNCHANGED <<parent, child, tells, lock, tool, ghostVars>>

\* The default actions, and child_handler once it is installed.
Trapped == {"fork", "alarm", "pause"}

Outcome(pc, s) ==
  IF s = "TERM" \/ (s = "USR1" /\ pc \notin Trapped) THEN "killed"
  ELSE IF s = "USR1" THEN "success" ELSE "failure"

ParentTakes(l) ==
  /\ ParentLives(l)
  /\ \E s \in pending[<<l, "parent">>] :
       ParentEnds(l, parent[l], Outcome(parent[l], s))

-----------------------------------------------------------------------------
(* Its child, the daemon *)

Step(l, from, to) ==
  /\ child[l] = from
  /\ child' = [child EXCEPT ![l] = to]
  /\ UNCHANGED <<parent, tool, mistaken, commands>>

\* The child ends: its parent gets SIGCHLD, and with the parent gone, the lock
\* goes too.
ChildEnds(l) ==
  /\ Step(l, child[l], "dead")
  /\ lock' = IF lock = l /\ ~ParentLives(l) THEN Nobody ELSE lock
  /\ pending' = [pending EXCEPT ![<<l, "child">>] = {},
                   ![<<l, "parent">>] = IF ParentLives(l) THEN @ \cup {"CHLD"}
                                        ELSE @]
  /\ UNCHANGED <<tells, daemonized>>

\* getppid: process 1 if the parent has ended.
AskParent(l) ==
  /\ Step(l, "forked", "asked")
  /\ tells' = [tells EXCEPT ![l] = IF ParentLives(l) THEN "parent" ELSE "init"]
  /\ UNCHANGED <<pending, lock, daemonized>>

\* Signals, mask, session and standard files.
BecomeDaemon(l) ==
  \/ /\ Step(l, "asked", "ready")
     /\ daemonized' = daemonized \cup {l}
     /\ UNCHANGED <<tells, pending, lock>>
  \/ child[l] = "asked" /\ ChildEnds(l)

\* Mutant of TellParent: the child reports before it is a daemon.
TellParentEarly(l) ==
  /\ Step(l, "asked", "told")
  /\ IF tells[l] = "parent" THEN Send(<<l, "parent">>, "USR1")
     ELSE UNCHANGED pending
  /\ UNCHANGED <<tells, lock, daemonized>>

\* Mutant of TellParent: the wrong one of the two user signals.
TellParentUsr2(l) ==
  /\ Step(l, "ready", "told")
  /\ IF tells[l] = "parent" THEN Send(<<l, "parent">>, "USR2")
     ELSE UNCHANGED pending
  /\ UNCHANGED <<tells, lock, daemonized>>

TellParent(l) ==
  /\ Step(l, "ready", "told")
  /\ IF tells[l] = "parent" THEN Send(<<l, "parent">>, "USR1")
     ELSE UNCHANGED pending
  /\ UNCHANGED <<tells, lock, daemonized>>

\* Communicator connects, or exits; then connect_handler is installed.
Serve(l) ==
  \/ Step(l, "told", "serving") /\ UNCHANGED <<tells, pending, lock, daemonized>>
  \/ child[l] = "told" /\ ChildEnds(l)

\* Communicator exits when a send fails.
LinkFails(l) == child[l] = "serving" /\ ChildEnds(l)

\* Handlers of the parent until its own are installed.
WithExitHandler(l) == l \notin Orphan /\ child[l] \in {"ready", "told", "serving"}

\* SIGTERM, with exit_handler: LOCK_UN, close, and then exit.
Unlock(l) ==
  /\ Step(l, child[l], "unlocked")
  /\ lock' = IF lock = l THEN Nobody ELSE lock
  /\ pending' = [pending EXCEPT ![<<l, "child">>] = {}]
  /\ UNCHANGED <<tells, daemonized>>

\* SIGUSR1, with connect_handler.
Note(l) ==
  /\ pending' = [pending EXCEPT ![<<l, "child">>] = @ \ {"USR1"}]
  /\ UNCHANGED <<parent, child, tells, lock, tool, ghostVars>>

ChildTakes(l) ==
  /\ ChildLives(l) /\ child[l] # "unlocked"
  /\ \/ /\ "TERM" \in pending[<<l, "child">>]
        /\ IF WithExitHandler(l) THEN Unlock(l) ELSE ChildEnds(l)
     \/ /\ "USR1" \in pending[<<l, "child">>]
        /\ IF child[l] = "serving" THEN Note(l) ELSE ChildEnds(l)

Exit(l) == child[l] = "unlocked" /\ ChildEnds(l)

-----------------------------------------------------------------------------
\* A process takes its signals before it goes on.
ParentStep(l) ==
  \/ /\ pending[<<l, "parent">>] = {}
     /\ \/ CheckPrereq(l) \/ TakeLock(l) \/ TrapSignals(l)
        \/ Fork(l) \/ SetAlarm(l)
  \/ ParentTakes(l)

ChildStep(l) ==
  \/ /\ pending[<<l, "child">>] = {}
     /\ \/ AskParent(l) \/ BecomeDaemon(l) \/ TellParent(l)
        \/ Serve(l) \/ LinkFails(l)
  \/ ChildTakes(l) \/ Exit(l)

Next ==
  \/ \E t \in Tool : Look(t) \/ Kill(t) \/ StartDaemon(t)
  \/ \E l \in Launch :
       InitRuns(l) \/ ParentStep(l) \/ AlarmRings(l) \/ ChildStep(l)

Spec == Init /\ [][Next]_vars

\* A launched process is scheduled and its alarm rings; its child may hang.
FairSpec ==
  /\ Spec
  /\ \A l \in Launch : WF_vars(ParentStep(l)) /\ WF_vars(AlarmRings(l))

-----------------------------------------------------------------------------
(***************************************************************************)
(* One daemon at a time: whatever tools race to start it, and whatever     *)
(* signals end parents and children at whatever point, at most one child   *)
(* is past the lock (flock daemon/main.cpp:193, exit_handler :153).  A     *)
(* process that init runs takes no lock (:183) and is not counted.         *)
(***************************************************************************)
Active(l) == l \notin Orphan /\ child[l] \notin {"none", "unlocked", "dead"}

OneDaemon == \A l, m \in Launch : Active(l) /\ Active(m) => l = m

(***************************************************************************)
(* A launch reports success only when its child has become a daemon, or    *)
(* when a tool took the waiting parent for the daemon and signalled it     *)
(* (child_handler daemon/main.cpp:146, kill :257, send_connect_signal      *)
(* watcher/main.cpp:161).                                                  *)
(***************************************************************************)
SuccessExplained ==
  \A l \in Launch : parent[l] = "success" => l \in daemonized \cup mistaken

(***************************************************************************)
(* Whoever starts sswatcherd gets control back: a launched process ends,   *)
(* even if its child hangs before it reports (alarm, daemon/main.cpp:219). *)
(***************************************************************************)
LaunchEnds == \A l \in Launch : ParentLives(l) ~> ~ParentLives(l)

(***************************************************************************)
(* Why there is one daemon: the lock is held from the moment it is taken   *)
(* until the child unlocks it or both processes have ended; a launch that  *)
(* has not forked has no child, and one that init runs has no parent.      *)
(***************************************************************************)
LockHeld ==
  \A l \in Launch : Active(l) \/ parent[l] \in {"trap", "fork"} => lock = l

Forked ==
  \A l \in Launch :
    /\ l \in Orphan => parent[l] = "none"
    /\ l \notin Orphan /\ parent[l] \in {"none", "prereq", "lock", "trap", "fork"}
         => child[l] = "none"

(***************************************************************************)
(* Why a success is explained: so is every SIGUSR1 that a launched process *)
(* has not taken yet, and only a child that became a daemon sends one.     *)
(***************************************************************************)
ConfirmationsExplained ==
  \A l \in Launch :
    /\ "USR1" \in pending[<<l, "parent">>] => l \in daemonized \cup mistaken
    /\ child[l] = "ready" => l \in daemonized
=============================================================================
