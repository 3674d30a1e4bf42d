--------------------------- MODULE WatcherClaims ---------------------------
(***************************************************************************)
(* What the documentation and the comments say of sswatcher, and the code  *)
(* does not do; a run refutes it.                                          *)
(***************************************************************************)
EXTENDS MCWatcher

(***************************************************************************)
(* "You can manage the sswatcher config file while ssserver is not         *)
(* running" (README.md:129): a command that edits the table gets as far as *)
(* writing it.                                                             *)
(***************************************************************************)
EditsAreWritten ==
  [][\A c \in Cli : pc[c] = "request" /\ job[c] = "edit" => pc'[c] # "idle"]_vars
=============================================================================
