------------------------------- MODULE Ledger -------------------------------
(***************************************************************************)
(* What the methods of ConfigMgr promise together: one table of users that *)
(* changes by one whole method at a time, and an account of the traffic    *)
(* that is owed to it.  A unit of traffic is recorded once or lost, never  *)
(* recorded twice, and no record disappears but by a command.              *)
(*                                                                         *)
(* There is no file, no process and no message here.                       *)
(***************************************************************************)
EXTENDS UserTable

CONSTANTS
  Caps,    \* the caps a command may set
  Inputs   \* the files load may read

VARIABLES
  book,    \* the table of users
  owed     \* the traffic of each port that was moved, not recorded, not lost

Init == book = EmptyTable /\ owed = [p \in Port |-> 0]

\* A client moves data.
Move(p) == owed' = [owed EXCEPT ![p] = @ + 1] /\ UNCHANGED book

\* Some of what is owed is recorded; that of unknown ports is dropped.
Bill ==
  /\ \A p \in Port : owed'[p] <= owed[p]
  /\ book' = AddData(book, [p \in Port |-> owed[p] - owed'[p]])

\* Some of what is owed is never recorded.
Lose ==
  /\ \A p \in Port : owed'[p] <= owed[p]
  /\ UNCHANGED book

Edit(t) == book' = t /\ UNCHANGED owed

Add ==
  \E p \in Port, w \in Password, k \in Caps :
    Edit([book EXCEPT ![p] = [pw |-> w, cap |-> k,
            usage |-> IF book[p] # NoUser THEN book[p].usage ELSE 0]])

Remove == \E p \in Managed(book) : Edit([book EXCEPT ![p] = NoUser])

Limit == \E p \in Managed(book), k \in Caps : Edit([book EXCEPT ![p].cap = k])

Reset == \E p \in Managed(book) : Edit([book EXCEPT ![p].usage = 0])

ResetAll == Edit([p \in Port |-> IF book[p] = NoUser THEN NoUser
                                 ELSE [book[p] EXCEPT !.usage = 0]])

Import == \E f \in Inputs : Edit(LoadTable(f, book))

Next ==
  \/ \E p \in Port : Move(p)
  \/ Bill \/ Lose
  \/ Add \/ Remove \/ Limit \/ Reset \/ ResetAll \/ Import

Spec == Init /\ [][Next]_<<book, owed>>
=============================================================================
