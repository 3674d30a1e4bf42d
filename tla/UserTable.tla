----------------------------- MODULE UserTable -----------------------------
(***************************************************************************)
(* The data of sswatcher and the pure part of ConfigMgr                    *)
(* (shared/operation.hpp, shared/operation.cpp): the table of managed      *)
(* users, the lines of sswatcher.conf, what load_conf makes of them, the   *)
(* data cap test, and the requests the methods send to ssserver.           *)
(*                                                                         *)
(* A port and a byte count are natural numbers, a password is an opaque    *)
(* value.  Sizes are counted in a coarse unit, so a cap of 1 or 2 already  *)
(* tells "under" from "over".                                              *)
(***************************************************************************)
EXTENDS Naturals, FiniteSets

CONSTANTS
  Port,          \* the ports a user may be given
  Placeholder,   \* PLACEHOLDER_PORT, the port of the default ss-config.json
  Password,
  DefaultCap,    \* get_default_datacap()
  NoUser,        \* absence of a table entry
  NoLine,        \* a slot of the file that holds no line
  Blank          \* a column that a loaded line does not have

ASSUME PortAssumption == Port \subseteq Nat /\ IsFiniteSet(Port)
ASSUME PlaceholderAssumption == Placeholder \in Nat \ Port
ASSUME CapAssumption == DefaultCap \in Nat
ASSUME BlankAssumption == Blank \notin Nat

User == [pw : Password, cap : Nat, usage : Nat]

Table == [Port -> User \cup {NoUser}]

EmptyTable == [p \in Port |-> NoUser]

Managed(t) == {p \in Port : t[p] # NoUser}

ASSUME NoUserAssumption == NoUser \notin User

(***************************************************************************)
(* A configuration file is a fixed number of line slots.  A writer puts    *)
(* the line of its k-th user in slot k, at its own file offset, so two     *)
(* writers of one file overwrite one another slot by slot.  A slot that    *)
(* was skipped reads as NUL bytes, which load_conf treats as separators.   *)
(***************************************************************************)
Line == [port : Port, pw : Password, cap : Nat \cup {Blank},
         usage : Nat \cup {Blank}]

ASSUME NoLineAssumption == NoLine \notin Line

Slot == 1 .. Cardinality(Port)

File == [Slot -> Line \cup {NoLine}]

EmptyFile == [i \in Slot |-> NoLine]

LineOf(t, p) ==
  [port |-> p, pw |-> t[p].pw, cap |-> t[p].cap, usage |-> t[p].usage]

SlotOf(t, p) == Cardinality({q \in Managed(t) : q <= p})

-----------------------------------------------------------------------------
(***************************************************************************)
(* load_conf: the user one line describes, given what memory held for its  *)
(* port; the last line of a port wins.                                     *)
(***************************************************************************)
UserOf(l, prev) ==
  [pw    |-> l.pw,
   cap   |-> IF l.cap = Blank THEN DefaultCap ELSE l.cap,
   usage |-> IF l.usage # Blank THEN l.usage
             ELSE IF prev # NoUser THEN prev.usage ELSE 0]

IsLastLine(f, p, i) ==
  /\ f[i] # NoLine /\ f[i].port = p
  /\ \A j \in Slot : j > i => f[j] = NoLine \/ f[j].port # p

LoadTable(f, prev) ==
  [p \in Port |->
     IF \E i \in Slot : IsLastLine(f, p, i)
     THEN UserOf(f[CHOOSE i \in Slot : IsLastLine(f, p, i)], prev[p])
     ELSE NoUser]

IsOverDatacap(u) == u # NoUser /\ u.cap > 0 /\ u.usage >= u.cap

-----------------------------------------------------------------------------
(***************************************************************************)
(* Requests to the manager.  A method sends several in a fixed order: the  *)
(* field ord is the place of a request in that order.                      *)
(***************************************************************************)
\* Mutant of AddRequest: port and password are swapped.
AddRequestSwapped(o, p, w) == [ord |-> o, kind |-> "add", port |-> w, pw |-> p]

AddRequest(o, p, w) == [ord |-> o, kind |-> "add", port |-> p, pw |-> w]

RemoveRequest(o, p) == [ord |-> o, kind |-> "remove", port |-> p]

Request == [ord : Nat, kind : {"add"}, port : Port, pw : Password]
             \cup [ord : Nat, kind : {"remove"}, port : Port \cup {Placeholder}]

\* Mutant of ReloadRequests: a raised cap does not bring the user back.
ReloadRequestsNone(f, prev) == {}

\* load_conf adds a known user whose cap changed and who is not over it.
ReloadRequests(f, prev) ==
  {AddRequest(i, f[i].port, f[i].pw) :
     i \in {j \in Slot :
              /\ f[j] # NoLine
              /\ prev[f[j].port] # NoUser
              /\ LET u == UserOf(f[j], prev[f[j].port])
                 IN  u.cap # prev[f[j].port].cap /\ ~IsOverDatacap(u)}}

\* Mutant of RefreshRequests: users over the cap are left alone.
RefreshRequestsNone(t) == {}

\* refresh_all_users removes every user who is over the cap.
RefreshRequests(t) ==
  {RemoveRequest(p, p) : p \in {q \in Port : IsOverDatacap(t[q])}}

\* Mutants of InitRequests: the placeholder is forgotten, the cap is not looked
\* at.
InitRequestsNoPlaceholder(t) ==
  {RemoveRequest(2 * p + 1, p) : p \in Managed(t)}
    \cup {AddRequest(2 * p + 2, p, t[p].pw) :
            p \in {q \in Managed(t) : ~IsOverDatacap(t[q])}}

InitRequestsUncapped(t) ==
  {RemoveRequest(0, Placeholder)}
    \cup {RemoveRequest(2 * p + 1, p) : p \in Managed(t)}
    \cup {AddRequest(2 * p + 2, p, t[p].pw) : p \in Managed(t)}

\* init_ss removes the placeholder, then removes every user and adds back
\* those who are not over the cap.
InitRequests(t) ==
  {RemoveRequest(0, Placeholder)}
    \cup {RemoveRequest(2 * p + 1, p) : p \in Managed(t)}
    \cup {AddRequest(2 * p + 2, p, t[p].pw) :
            p \in {q \in Managed(t) : ~IsOverDatacap(t[q])}}

\* add_data_to_conf: usage of ports outside the table is ignored.
AddData(t, delta) ==
  [p \in Port |-> IF t[p] = NoUser THEN NoUser
                  ELSE [t[p] EXCEPT !.usage = @ + delta[p]]]
=============================================================================
