--------------------------- MODULE WatcherLedger ---------------------------
(***************************************************************************)
(* Watcher implements Ledger as long as no operation starts before the     *)
(* last one is absorbed (Serial) and the daemon does not die while it      *)
(* works.                                                                  *)
(***************************************************************************)
EXTENDS Watcher, FiniteSetsExt

\* The reports that have left ssserver and are not yet handled.
Reports == {m \in {msg} \cup {inbox[i] : i \in 1 .. Len(inbox)} : IsStat(m)}

\* What a report says is owed: the traffic it counts and all that came later.
\* Without a report, what is owed is what ssserver has counted.
Claims(p) ==
  {stats[p]} \cup {traffic[p] - (m.upto[p] - m.delta[p]) : m \in Reports}

\* The usage the daemon has added in memory and not yet begun to write.
Unwritten(p) ==
  IF pc[Daemon] = "open" /\ users[Daemon][p] # NoUser /\ Current[p] # NoUser
  THEN users[Daemon][p].usage - Current[p].usage ELSE 0

\* Traffic on its way into the table: what the oldest report claims, and what
\* was added.  A report that was lost is written off when a later one is handled.
Owed == [p \in Port |-> Max(Claims(p)) + Unwritten(p)]

Promised == INSTANCE Ledger WITH book <- Book, owed <- Owed

(***************************************************************************)
(* Every behaviour of tool, daemon, file and ssserver is, seen from the    *)
(* table, one of whole methods and reports recorded at most once: the      *)
(* truncated and half-written file is never mistaken for the table, what   *)
(* the daemon writes back is what it read plus one report, and a command's *)
(* edit reaches the file whole (write_conf operation.cpp:169, load_conf    *)
(* operation.cpp:92, the loop of daemon/main.cpp:85).                      *)
(***************************************************************************)
ImplementsLedger == Promised!Spec
=============================================================================
