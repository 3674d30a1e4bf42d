----------------------------- MODULE FileProofs -----------------------------
(***************************************************************************)
(* Theorems about Watcher and what sswatcher.conf holds.                   *)
(*                                                                         *)
(* When one operation follows another and the daemon does not die while it *)
(* works, a process that rewrites the file leaves its whole table there,   *)
(* and what is written was made from the table that the file held before.  *)
(* So Watcher implements Ledger: seen from outside, tool and daemon keep   *)
(* one table, changed by one whole method at a time.  And at rest ssserver *)
(* serves those whom that table lists below their cap, and nobody whom it  *)
(* does not list.                                                          *)
(***************************************************************************)
EXTENDS WatcherLedger, WatcherProofs, FiniteSetTheorems

-----------------------------------------------------------------------------
(* Lines and slots. *)

(***************************************************************************)
(* Every set of natural numbers that is not empty has a least element.     *)
(***************************************************************************)
LEMMA LeastNumber ==
  ASSUME NEW T \in SUBSET Nat, T # {}
  PROVE  \E x \in T : \A y \in T : x <= y
<1> DEFINE R == {ss \in Nat \X Nat : ss[1] < ss[2]}
<1>1. IsWellFoundedOn(R, Nat)
  BY NatLessThanWellFounded, Zenon DEF OpToRel
<1> HIDE DEF R
<1>2. PICK x \in T : \A y \in T : ~(<<y, x>> \in R)
  BY <1>1, WFMin
<1>3. \A y \in T : ~(y < x)
  BY <1>2 DEF R
<1> QED BY <1>3

(***************************************************************************)
(* The number of ports is a natural number, and so are the slots.          *)
(***************************************************************************)
LEMMA SlotType == Cardinality(Port) \in Nat /\ Slot \subseteq Nat \ {0}
BY PortAssumption, FS_CardinalityType DEF Slot

(***************************************************************************)
(* The k-th user of a table goes to a slot of the file, and no two users   *)
(* to the same one.                                                        *)
(***************************************************************************)
LEMMA SlotOfType ==
  ASSUME NEW t \in Table, NEW p \in Managed(t)
  PROVE  SlotOf(t, p) \in Slot
<1> DEFINE S == {q \in Managed(t) : q <= p}
<1>1. S \in SUBSET Port /\ IsFiniteSet(Port) /\ p \in S
  BY PortAssumption DEF Managed
<1>2. IsFiniteSet(S) /\ Cardinality(S) <= Cardinality(Port)
  BY <1>1, FS_Subset
<1>3. Cardinality(S) \in Nat /\ Cardinality(Port) \in Nat
  BY <1>1, <1>2, FS_CardinalityType
<1>4. Cardinality(S) # 0
  BY <1>1, <1>2, FS_EmptySet
<1> QED BY <1>2, <1>3, <1>4 DEF SlotOf, Slot

LEMMA SlotOfInjective ==
  ASSUME NEW t \in Table, NEW p \in Managed(t), NEW q \in Managed(t), p # q
  PROVE  SlotOf(t, p) # SlotOf(t, q)
<1>1. p \in Nat /\ q \in Nat /\ \A r \in Managed(t) : r \in Nat
  BY PortAssumption DEF Managed
<1>2. ASSUME NEW a \in Managed(t), NEW b \in Managed(t), a < b
      PROVE  SlotOf(t, a) # SlotOf(t, b)
  <2> DEFINE A == {r \in Managed(t) : r <= a}
             B == {r \in Managed(t) : r <= b}
  <2>1. a \in Nat /\ b \in Nat
    BY <1>1
  <2>2. A \in SUBSET B /\ b \in B /\ b \notin A
    <3>1. \A r \in Managed(t) : r <= a => r <= b
      BY <1>1, <1>2, <2>1
    <3>2. b <= b /\ ~(b <= a)
      BY <1>2, <2>1
    <3> QED BY <3>1, <3>2
  <2>3. B \in SUBSET Port /\ IsFiniteSet(Port)
    BY PortAssumption DEF Managed
  <2>4. IsFiniteSet(B)
    BY <2>3, FS_Subset
  <2>5. Cardinality(B) = Cardinality(A) => B = A
    BY <2>2, <2>4, FS_Subset
  <2>6. Cardinality(B) # Cardinality(A)
    BY <2>2, <2>5
  <2> QED BY <2>6 DEF SlotOf
<1>3. CASE p < q
  BY <1>2, <1>3
<1>4. CASE q < p
  BY <1>2, <1>4
<1> QED BY <1>1, <1>3, <1>4

(***************************************************************************)
(* A port that has a line has a last one.                                  *)
(***************************************************************************)
LEMMA LastLine ==
  ASSUME NEW f, NEW i \in Slot, f[i] # NoLine
  PROVE  \E k \in Slot : IsLastLine(f, f[i].port, k)
<1> DEFINE n == Cardinality(Port)
           p == f[i].port
           From == {m \in Nat : \E k \in Slot : m = n - k /\ f[k] # NoLine /\ f[k].port = p}
<1>1. n \in Nat /\ Slot = 1 .. n
  BY SlotType DEF Slot
<1>2. n - i \in From
  BY <1>1
<1>3. From \in SUBSET Nat /\ From # {}
  BY <1>2
<1> HIDE DEF From
<1>4. PICK m \in From : \A y \in From : m <= y
  BY <1>3, LeastNumber
<1>5. PICK k \in Slot : m = n - k /\ f[k] # NoLine /\ f[k].port = p
  BY <1>4 DEF From
<1>6. ASSUME NEW j \in Slot, j > k, f[j] # NoLine, f[j].port = p
      PROVE  FALSE
  <2>1. n - j \in From
    BY <1>1, <1>6 DEF From
  <2>2. m <= n - j
    BY <1>4, <2>1
  <2> QED BY <1>1, <1>5, <1>6, <2>2
<1>7. IsLastLine(f, p, k)
  BY <1>5, <1>6 DEF IsLastLine
<1> QED BY <1>7

-----------------------------------------------------------------------------
(* What is read. *)

(***************************************************************************)
(* load_conf reads what the file says of usages, whatever memory held:     *)
(* every line that write_conf left has a usage.                            *)
(***************************************************************************)
LEMMA LoadReads ==
  ASSUME TypeOK, FileHasRoom, NEW t \in Table
  PROVE  LoadTable(conf, t) = Current
<1>1. ASSUME NEW p \in Port
      PROVE  LoadTable(conf, t)[p] = Current[p]
  <2> DEFINE k == CHOOSE i \in Slot : IsLastLine(conf, p, i)
  <2>1. CASE \E i \in Slot : IsLastLine(conf, p, i)
    <3>1. k \in Slot /\ conf[k] # NoLine
      BY <2>1 DEF IsLastLine
    <3>2. conf[k].usage # Blank
      BY <3>1, BlankAssumption DEF FileHasRoom
    <3>3. UserOf(conf[k], t[p]) = UserOf(conf[k], EmptyTable[p])
      BY <3>2 DEF UserOf
    <3> QED BY <2>1, <3>3 DEF LoadTable, Current
  <2>2. CASE ~\E i \in Slot : IsLastLine(conf, p, i)
    BY <2>2 DEF LoadTable, Current
  <2> QED BY <2>1, <2>2
<1>2. /\ LoadTable(conf, t) \in [Port -> User \cup {NoUser}]
      /\ Current \in [Port -> User \cup {NoUser}]
  BY LoadTableType, CurrentType DEF Table, TypeOK
<1> QED BY <1>1, <1>2

\* The lines of x's users that are not left to write are in their slots.
Written(x) ==
  \A p \in Managed(users[x]) \ left[x] :
    conf[SlotOf(users[x], p)] = LineOf(users[x], p)

(***************************************************************************)
(* A file to which every user of x was written, and nothing else, reads    *)
(* back as the table of x.                                                 *)
(***************************************************************************)
LEMMA ReadBack ==
  ASSUME TypeOK, NEW x \in Proc, Copied(x), Written(x), left[x] = {}
  PROVE  Current = users[x]
<1>0. users[x] \in Table /\ users[x] \in [Port -> User \cup {NoUser}]
      /\ Current \in [Port -> User \cup {NoUser}]
  BY CurrentType DEF TypeOK, Table
<1>1. ASSUME NEW p \in Port PROVE Current[p] = users[x][p]
  <2> DEFINE k == CHOOSE i \in Slot : IsLastLine(conf, p, i)
  <2>1. CASE \E i \in Slot : IsLastLine(conf, p, i)
    <3>1. k \in Slot /\ conf[k] # NoLine /\ conf[k].port = p
      BY <2>1 DEF IsLastLine
    <3> HIDE DEF k
    <3>2. users[x][p] # NoUser /\ conf[k] = LineOf(users[x], p)
      BY <3>1 DEF Copied
    <3>3. users[x][p] \in User
      BY <1>0, <3>2
    <3>4. users[x][p].cap # Blank /\ users[x][p].usage # Blank
      BY <3>3, BlankAssumption DEF User
    <3>5. UserOf(conf[k], EmptyTable[p])
            = [pw |-> users[x][p].pw, cap |-> users[x][p].cap, usage |-> users[x][p].usage]
      BY <3>2, <3>4 DEF UserOf, LineOf
    <3>6. UserOf(conf[k], EmptyTable[p]) = users[x][p]
      BY <3>3, <3>5 DEF User
    <3>7. Current[p] = UserOf(conf[k], EmptyTable[p])
      BY <2>1 DEF LoadTable, Current, k
    <3> QED BY <3>6, <3>7
  <2>2. CASE ~\E i \in Slot : IsLastLine(conf, p, i)
    <3>1. Current[p] = NoUser
      BY <2>2 DEF LoadTable, Current
    <3>2. ASSUME users[x][p] # NoUser PROVE FALSE
      <4> DEFINE i == SlotOf(users[x], p)
      <4>1. p \in Managed(users[x])
        BY <3>2 DEF Managed
      <4>2. i \in Slot /\ conf[i] = LineOf(users[x], p)
        BY <1>0, <4>1, SlotOfType DEF Written
      <4> HIDE DEF i
      <4>3. conf[i] \in Line /\ conf[i].port = p
        BY <1>0, <3>2, <4>2, LineOfType
      <4>4. conf[i] # NoLine
        BY <4>3, NoLineAssumption
      <4> QED BY <2>2, <4>2, <4>3, <4>4, LastLine
    <3> QED BY <3>1, <3>2
  <2> QED BY <2>1, <2>2
<1> QED BY <1>0, <1>1

-----------------------------------------------------------------------------
(***************************************************************************)
(* What a process holds while it works.  A command that has begun holds an *)
(* edit of the table in the file, the daemon holds the table it has loaded *)
(* or that table and one report, and a process that writes has in the file *)
(* the lines of its own table that it has written, and no other.  It rests *)
(* on one process working at a time: nobody changes the file between a     *)
(* process's load and its write.                                           *)
(***************************************************************************)

\* t is what one command makes of table b.
Edited(b, t) ==
  \/ \E p \in Port, w \in Password, k \in Caps :
       t = [b EXCEPT ![p] = [pw |-> w, cap |-> k,
              usage |-> IF b[p] # NoUser THEN b[p].usage ELSE 0]]
  \/ \E p \in Managed(b) : t = [b EXCEPT ![p] = NoUser]
  \/ \E p \in Managed(b), k \in Caps : t = [b EXCEPT ![p].cap = k]
  \/ \E p \in Managed(b) : t = [b EXCEPT ![p].usage = 0]
  \/ t = [p \in Port |-> IF b[p] = NoUser THEN NoUser
                         ELSE [b[p] EXCEPT !.usage = 0]]
  \/ \E f \in Inputs : t = LoadTable(f, b)

\* t is table b and one report.
Billed(b, t) == \E d \in [Port -> Nat] : t = AddData(b, d)

InStep(x) ==
  /\ pc[x] = "write" => Copied(x) /\ Written(x)
  /\ x \in Cli /\ pc[x] \in {"request", "open"} => Edited(Current, users[x])
  /\ x = Daemon /\ pc[x] = "request" => users[x] = Current
  /\ x = Daemon /\ pc[x] = "open" => Billed(Current, users[x])

FileInv == OneAtATime /\ \A x \in Proc : InStep(x)

-----------------------------------------------------------------------------
(* Who works, and what the others leave alone. *)

(***************************************************************************)
(* While one process works, the others are in no step of a method.         *)
(***************************************************************************)
LEMMA OneInStep ==
  ASSUME NEW x \in Proc, \A y \in Proc \ {x} : ~Works(y)', InStep(x)'
  PROVE  FileInv'
<1>1. OneAtATime'
  BY DEF OneAtATime, Works
<1>2. ASSUME NEW y \in Proc \ {x} PROVE InStep(y)'
  <2>1. y # Daemon => pc'[y] = "idle"
    BY DEF Works
  <2>2. y = Daemon => pc'[y] \in {"dead", "receive"}
    BY DEF Works
  <2>3. pc'[y] \notin {"write", "request", "open"}
    BY <2>1, <2>2
  <2> QED BY <2>3 DEF InStep
<1> QED BY <1>1, <1>2 DEF FileInv

\* A process that is in no step of a method holds nothing.
LEMMA NotInStep ==
  ASSUME NEW x \in Proc, pc'[x] \notin {"write", "request", "open"}
  PROVE  InStep(x)'
BY DEF InStep

\* The same, when no command is under way.
LEMMA DaemonInStep ==
  ASSUME \A c \in Cli : pc'[c] = "idle", InStep(Daemon)'
  PROVE  FileInv'
<1>1. \A y \in Proc \ {Daemon} : ~Works(y)'
  BY CliAssumption DEF Works, Proc
<1> QED BY <1>1, OneInStep, ProcessTypes

(***************************************************************************)
(* Steps that touch neither file nor processes.                            *)
(***************************************************************************)
LEMMA SameStep ==
  ASSUME FileInv, UNCHANGED <<conf, pc, users, left, constructed>>
  PROVE  FileInv'
<1>1. OneAtATime'
  BY DEF FileInv, OneAtATime, Works
<1>2. ASSUME NEW x \in Proc PROVE InStep(x)'
  <2>1. InStep(x) /\ Current' = Current
    BY DEF FileInv, Current
  <2>2. Copied(x) /\ Written(x) => Copied(x)' /\ Written(x)'
    BY DEF Copied, Written
  <2> QED BY <2>1, <2>2 DEF InStep
<1> QED BY <1>1, <1>2 DEF FileInv

(***************************************************************************)
(* A command that is under way is alone.                                   *)
(***************************************************************************)
LEMMA OneCommand ==
  ASSUME FileInv, NEW c \in Cli, pc[c] # "idle"
  PROVE  /\ \A k \in Cli \ {c} : pc[k] = "idle"
         /\ pc[Daemon] \in {"dead", "receive"}
         /\ pc[Daemon] = "receive" => constructed
<1>0. c \in Proc /\ c # Daemon /\ Daemon \in Proc /\ \A k \in Cli : k \in Proc /\ k # Daemon
  BY CliAssumption DEF Proc
<1>1. Works(c) /\ \A y \in Proc \ {c} : ~Works(y)
  BY <1>0 DEF FileInv, OneAtATime, Works
<1> QED BY <1>0, <1>1 DEF Works

-----------------------------------------------------------------------------
(* The steps inside a method. *)

(***************************************************************************)
(* The file is opened and written: each line goes to the slot of its user. *)
(***************************************************************************)
LEMMA StepTruncate ==
  ASSUME TypeOK, FileInv, NEW x \in Proc, Truncate(x)
  PROVE  FileInv'
<1>1. /\ pc[x] \in {"open", "request"} /\ pc' = [pc EXCEPT ![x] = "write"]
      /\ conf' = EmptyFile /\ users' = users /\ constructed' = constructed
      /\ left' = [left EXCEPT ![x] = Managed(users[x])]
  BY DEF Truncate, daemonVars
<1>2. \A y \in Proc \ {x} : ~Works(y)'
  <2>1. \A y \in Proc \ {x} : pc'[y] = pc[y]
    BY <1>1 DEF TypeOK
  <2> QED BY <1>1, <2>1, MethodAlone DEF FileInv
<1>3. pc'[x] = "write" /\ left'[x] = Managed(users[x])
  BY <1>1 DEF TypeOK
<1>4. Copied(x)' /\ Written(x)'
  <2>1. \A i \in Slot : conf'[i] = NoLine
    BY <1>1 DEF EmptyFile
  <2>2. Managed(users'[x]) \ left'[x] = {}
    BY <1>1, <1>3
  <2>3. Copied(x)'
    BY <2>1 DEF Copied
  <2> QED BY <2>2, <2>3 DEF Written
<1>5. InStep(x)'
  BY <1>3, <1>4 DEF InStep
<1> QED BY <1>2, <1>5, OneInStep

LEMMA StepWriteLine ==
  ASSUME TypeOK, WritesItsUsers, FileInv, NEW x \in Proc, WriteLine(x)
  PROVE  FileInv'
<1>1. PICK p \in left[x] :
        /\ conf' = [conf EXCEPT ![SlotOf(users[x], p)] = LineOf(users[x], p)]
        /\ left' = [left EXCEPT ![x] = @ \ {p}]
  BY DEF WriteLine
<1>2. /\ pc[x] = "write" /\ pc' = pc /\ users' = users /\ constructed' = constructed
  BY DEF WriteLine, daemonVars
<1>3. users[x] \in Table /\ p \in Managed(users[x])
  BY <1>1 DEF TypeOK, WritesItsUsers
<1>4. p \in Port /\ users[x][p] # NoUser
  BY <1>3 DEF Managed
<1>5. \A y \in Proc \ {x} : ~Works(y)'
  <2>1. \A y \in Proc \ {x} : pc'[y] = pc[y]
    BY <1>2
  <2> QED BY <1>2, <2>1, MethodAlone DEF FileInv
<1>6. Copied(x) /\ Written(x)
  BY <1>2 DEF FileInv, InStep
<1> DEFINE k == SlotOf(users[x], p)
           l == LineOf(users[x], p)
<1>7. k \in Slot
  BY <1>3, SlotOfType
<1>8. l.port = p
  BY DEF LineOf
<1>9. \A i \in Slot : conf'[i] = IF i = k THEN l ELSE conf[i]
  BY <1>1, <1>7 DEF TypeOK, File
<1>10. Copied(x)'
  <2>1. ASSUME NEW i \in Slot, conf'[i] # NoLine
        PROVE  /\ users[x][conf'[i].port] # NoUser
               /\ conf'[i] = LineOf(users[x], conf'[i].port)
    <3> HIDE DEF k
    <3>1. CASE conf'[i] = conf[i]
      BY <1>6, <2>1, <3>1 DEF Copied
    <3>2. CASE conf'[i] = l
      BY <1>4, <1>8, <3>2
    <3> QED BY <1>9, <3>1, <3>2
  <2> QED BY <1>2, <2>1 DEF Copied
<1>11. Written(x)'
  <2>1. left'[x] = left[x] \ {p}
    BY <1>1 DEF TypeOK
  <2>2. ASSUME NEW q \in Managed(users[x]) \ left'[x]
        PROVE  conf'[SlotOf(users[x], q)] = LineOf(users[x], q)
    <3>1. CASE q = p
      BY <1>7, <1>9, <3>1
    <3>2. CASE q # p
      <4>1. q \in Managed(users[x]) \ left[x]
        BY <2>1, <3>2
      <4>2. SlotOf(users[x], q) \in Slot /\ SlotOf(users[x], q) # k
        BY <1>3, <3>2, SlotOfType, SlotOfInjective
      <4>3. conf[SlotOf(users[x], q)] = LineOf(users[x], q)
        BY <1>6, <4>1 DEF Written
      <4> HIDE DEF k, l
      <4> QED BY <1>9, <4>2, <4>3
    <3> QED BY <3>1, <3>2
  <2> QED BY <1>2, <2>2 DEF Written
<1>12. InStep(x)'
  BY <1>2, <1>10, <1>11 DEF InStep
<1> QED BY <1>5, <1>12, OneInStep

(***************************************************************************)
(* Requests, failures and the end of the write keep no more than was kept. *)
(***************************************************************************)
LEMMA StepMethod ==
  ASSUME TypeOK, WritesItsUsers, FileInv, NEW x \in Proc, MethodStep(x)
  PROVE  FileInv'
<1>1. CASE SendRequest(x)
  BY <1>1, SameStep DEF SendRequest, daemonVars
<1>2. CASE Truncate(x)
  BY <1>2, StepTruncate
<1>3. CASE WriteLine(x)
  BY <1>3, StepWriteLine
<1>4. CASE SendFails(x) \/ CloseConf(x)
  <2>1. /\ pc[x] \in {"request", "refresh", "init", "write"}
        /\ \E v \in {"dead", "idle", "refresh"} : pc' = [pc EXCEPT ![x] = v]
        /\ x # Daemon => constructed' = constructed
    BY <1>4 DEF SendFails, CloseConf, Sending, DaemonExits, CliExits, daemonVars
  <2>2. Works(x)
    BY <2>1 DEF Works
  <2>3. \A y \in Proc \ {x} : pc'[y] = pc[y]
    BY <2>1 DEF TypeOK
  <2>4. \A y \in Proc \ {x} : ~Works(y)'
    BY <2>1, <2>2, <2>3, OthersRest DEF FileInv
  <2>5. pc'[x] \in {"dead", "idle", "refresh"}
    BY <2>1 DEF TypeOK
  <2>6. InStep(x)'
    BY <2>5, NotInStep
  <2> QED BY <2>4, <2>6, OneInStep
<1> QED BY <1>1, <1>2, <1>3, <1>4 DEF MethodStep

-----------------------------------------------------------------------------
(* Commands. *)

(***************************************************************************)
(* A command begins at rest, with an edit of the table that it has read.   *)
(***************************************************************************)
LEMMA StepBegin ==
  ASSUME Serial, TypeOK, FileInv, NEW c \in Cli, NEW command, NEW kind, NEW t, NEW o,
         NEW p \in {"request", "open", "spawn", "init"},
         Begin(c, command, kind, t, o, p),
         p \in {"request", "open"} => Edited(Current, t)
  PROVE  FileInv'
<1>0. c \in Proc /\ c # Daemon
  BY CliAssumption DEF Proc
<1>1. /\ Quiescent /\ pc' = [pc EXCEPT ![c] = p] /\ conf' = conf
      /\ constructed' = constructed /\ users' = [users EXCEPT ![c] = t]
  BY DEF Begin, daemonVars
<1>2. pc'[c] = p /\ \A y \in Proc \ {c} : pc'[y] = pc[y]
  BY <1>0, <1>1 DEF TypeOK
<1>3. \A y \in Proc \ {c} : ~Works(y)'
  BY <1>1, <1>2 DEF Works, Quiescent, Proc
<1>4. users'[c] = t /\ Current' = Current
  BY <1>0, <1>1 DEF TypeOK, Current
<1>5. InStep(c)'
  BY <1>0, <1>2, <1>4 DEF InStep
<1> QED BY <1>0, <1>3, <1>5, OneInStep

(***************************************************************************)
(* What each command makes of the table.                                   *)
(***************************************************************************)
LEMMA StepCommand ==
  ASSUME Serial, TypeOK, FileInv, NEW c \in Cli, Command(c)
  PROVE  FileInv'
<1>1. CASE AddPort(c)
  <2>1. PICK p \in Port, w \in Password, k \in Caps :
          LET known == p \in Managed(Current)
              u == [pw |-> w, cap |-> k,
                    usage |-> IF known THEN Current[p].usage ELSE 0]
              o == (IF known THEN {RemoveRequest(0, p)} ELSE {})
                     \cup {AddRequest(1, p, w)}
          IN  Begin(c, "add", "edit", [Current EXCEPT ![p] = u], o, "request")
    BY <1>1 DEF AddPort
  <2> DEFINE known == p \in Managed(Current)
             u == [pw |-> w, cap |-> k,
                   usage |-> IF known THEN Current[p].usage ELSE 0]
             v == [pw |-> w, cap |-> k,
                   usage |-> IF Current[p] # NoUser THEN Current[p].usage ELSE 0]
             o == (IF known THEN {RemoveRequest(0, p)} ELSE {})
                    \cup {AddRequest(1, p, w)}
  <2>2. u = v
    BY DEF Managed
  <2>3. Edited(Current, [Current EXCEPT ![p] = v])
    BY DEF Edited
  <2>4. Begin(c, "add", "edit", [Current EXCEPT ![p] = u], o, "request")
    BY <2>1
  <2>5. Edited(Current, [Current EXCEPT ![p] = u])
    BY <2>2, <2>3
  <2> HIDE DEF u, o
  <2> QED BY <2>4, <2>5, StepBegin
<1>2. CASE RemovePort(c)
  <2>1. PICK p \in Managed(Current) :
          Begin(c, "remove", "edit", [Current EXCEPT ![p] = NoUser],
                {RemoveRequest(0, p)}, "request")
    BY <1>2 DEF RemovePort
  <2>2. Edited(Current, [Current EXCEPT ![p] = NoUser])
    BY DEF Edited
  <2> QED BY <2>1, <2>2, StepBegin
<1>3. CASE UpdateDatacap(c)
  <2>1. PICK p \in Managed(Current), k \in Caps :
          Begin(c, "limit", "edit", [Current EXCEPT ![p].cap = k], {}, "open")
    BY <1>3 DEF UpdateDatacap
  <2>2. Edited(Current, [Current EXCEPT ![p].cap = k])
    BY Zenon DEF Edited
  <2> DEFINE t == [Current EXCEPT ![p].cap = k]
  <2> HIDE DEF t
  <2> QED BY <2>1, <2>2, StepBegin DEF t
<1>4. CASE ResetUsage(c)
  <2>1. PICK p \in Managed(Current) :
          Begin(c, "reset", "edit", [Current EXCEPT ![p].usage = 0], {}, "open")
    BY <1>4 DEF ResetUsage
  <2>2. Edited(Current, [Current EXCEPT ![p].usage = 0])
    BY Zenon DEF Edited
  <2> DEFINE t == [Current EXCEPT ![p].usage = 0]
  <2> HIDE DEF t
  <2> QED BY <2>1, <2>2, StepBegin DEF t
<1>5. CASE ResetAllUsage(c)
  <2> DEFINE t == [p \in Port |-> IF Current[p] = NoUser THEN NoUser
                                  ELSE [Current[p] EXCEPT !.usage = 0]]
  <2>1. Begin(c, "reset_all", "quiet", t, {}, "open")
    BY <1>5 DEF ResetAllUsage
  <2>2. Edited(Current, t)
    BY DEF Edited
  <2> HIDE DEF t
  <2> QED BY <2>1, <2>2, StepBegin
<1>6. CASE ImportFrom(c)
  <2>1. PICK f \in Inputs :
          Begin(c, "load", "load", LoadTable(f, Current),
                ReloadRequests(f, Current), "request")
    BY <1>6 DEF ImportFrom
  <2>2. Edited(Current, LoadTable(f, Current))
    BY DEF Edited
  <2> QED BY <2>1, <2>2, StepBegin
<1>7. CASE StartServer(c)
  BY <1>7, StepBegin DEF StartServer
<1>8. CASE StartFoundServer(c)
  BY <1>8, StepBegin DEF StartFoundServer
<1>9. CASE StopDaemon(c)
  <2>1. Quiescent /\ pc' = [pc EXCEPT ![c] = "stopping", ![Daemon] = "dead"]
    BY <1>9 DEF StopDaemon
  <2>2. /\ pc'[c] = "stopping" /\ pc'[Daemon] = "dead"
        /\ \A k \in Cli \ {c} : pc'[k] = pc[k]
    BY <2>1, ProcessPlaces
  <2>3. c \in Proc /\ \A k \in Cli : k # Daemon
    BY CliAssumption DEF Proc
  <2>4. \A y \in Proc \ {c} : ~Works(y)'
    BY <2>1, <2>2, <2>3 DEF Works, Quiescent, Proc
  <2> QED BY <2>2, <2>3, <2>4, NotInStep, OneInStep
<1> QED BY <1>1, <1>2, <1>3, <1>4, <1>5, <1>6, <1>7, <1>8, <1>9 DEF Command

(***************************************************************************)
(* A command that goes on outside of its method, or ends and leaves the    *)
(* daemon booting or woken.                                                *)
(***************************************************************************)
LEMMA StepCommandGoesOn ==
  ASSUME TypeOK, WritesItsUsers, FileInv, NEW c \in Cli, CliStep(c)
  PROVE  FileInv'
<1>0. c \in Proc /\ c # Daemon /\ Daemon \in Proc /\ \A k \in Cli : k \in Proc /\ k # Daemon
  BY CliAssumption DEF Proc
<1>1. CASE MethodStep(c)
  BY <1>0, <1>1, StepMethod
<1>2. CASE InitAfterImport(c) \/ StopServer(c) \/ ExitQuietly(c)
  <2>1. /\ pc[c] \in {"refresh", "stopping", "init"} /\ constructed' = constructed
        /\ \E v \in {"init", "idle"} : pc' = [pc EXCEPT ![c] = v]
    BY <1>2 DEF InitAfterImport, StopServer, ExitQuietly, Finished, CliExits, daemonVars
  <2>2. pc'[c] \in {"init", "idle"} /\ \A y \in Proc \ {c} : pc'[y] = pc[y]
    BY <1>0, <2>1 DEF TypeOK
  <2>3. Works(c)
    BY <1>0, <2>1 DEF Works
  <2>4. \A y \in Proc \ {c} : ~Works(y)'
    BY <1>0, <2>1, <2>2, <2>3, OthersRest DEF FileInv
  <2> QED BY <1>0, <2>2, <2>4, NotInStep, OneInStep
<1>3. CASE SpawnDaemon(c) \/ SignalDaemon(c)
  <2>1. pc[c] \in {"spawn", "init", "refresh"}
    BY <1>3 DEF SpawnDaemon, SignalDaemon, Finished
  <2>2. /\ \A k \in Cli \ {c} : pc[k] = "idle"
        /\ pc[Daemon] \in {"dead", "receive"}
    BY <2>1, OneCommand
  <2>3. \E d \in {"dead", "receive", "boot", "load", "construct"} :
          pc' = [pc EXCEPT ![c] = "idle", ![Daemon] = d]
    <3>1. CASE SpawnDaemon(c)
      <4>1. pc' = [pc EXCEPT ![c] = "idle",
                       ![Daemon] = IF pc[Daemon] = "dead" /\ up THEN "boot" ELSE pc[Daemon]]
        BY <1>0, <3>1 DEF SpawnDaemon, TypeOK
      <4> QED BY <2>2, <4>1
    <3>2. CASE SignalDaemon(c)
      <4>1. CASE pc' = [pc EXCEPT ![c] = "idle"]
        <5>1. pc' = [pc EXCEPT ![c] = "idle", ![Daemon] = pc[Daemon]]
          BY <1>0, <4>1 DEF TypeOK
        <5> QED BY <2>2, <5>1
      <4>2. CASE pc' = [pc EXCEPT ![c] = "idle",
                            ![Daemon] = IF constructed THEN "load" ELSE "construct"]
        BY <4>2
      <4> QED BY <2>2, <3>2, <4>1, <4>2 DEF SignalDaemon
    <3> QED BY <1>3, <3>1, <3>2
  <2>4. PICK d \in {"dead", "receive", "boot", "load", "construct"} :
          pc' = [pc EXCEPT ![c] = "idle", ![Daemon] = d]
    BY <2>3
  <2>5. /\ pc'[c] = "idle" /\ pc'[Daemon] = d
        /\ \A k \in Cli \ {c} : pc'[k] = pc[k]
    BY <2>4, ProcessPlaces
  <2>6. \A k \in Cli : pc'[k] = "idle"
    BY <2>2, <2>5
  <2> QED BY <1>0, <2>5, <2>6, NotInStep, DaemonInStep
<1> QED BY <1>1, <1>2, <1>3 DEF CliStep

-----------------------------------------------------------------------------
(***************************************************************************)
(* The daemon's loop: what it loads is what the file holds, and what it    *)
(* adds to that is one report.                                             *)
(***************************************************************************)
LEMMA StepDaemon ==
  ASSUME Serial, TypeOK, WritesItsUsers, BillingInv, FileInv, DaemonStep
  PROVE  FileInv'
<1>0. Daemon \in Proc /\ \A k \in Cli : k \in Proc /\ k # Daemon
  BY CliAssumption DEF Proc
<1>1. CASE MethodStep(Daemon)
  BY <1>0, <1>1, StepMethod
<1>2. ASSUME NEW d, pc' = [pc EXCEPT ![Daemon] = d], \A c \in Cli : pc[c] = "idle"
      PROVE  pc'[Daemon] = d /\ \A c \in Cli : pc'[c] = "idle"
  BY <1>0, <1>2 DEF TypeOK
<1>3. ASSUME pc[Daemon] \notin {"dead", "receive"} PROVE \A c \in Cli : pc[c] = "idle"
  BY <1>3, DaemonAlone DEF FileInv, Works
<1>4. CASE Load
  <2>1. /\ pc' = [pc EXCEPT ![Daemon] = "request"] /\ conf' = conf /\ pc[Daemon] = "load"
        /\ users' = [users EXCEPT ![Daemon] = LoadTable(conf, users[Daemon])]
    BY <1>4 DEF Load
  <2>2. pc'[Daemon] = "request" /\ \A c \in Cli : pc'[c] = "idle"
    BY <1>2, <1>3, <2>1
  <2>3. users'[Daemon] = LoadTable(conf, users[Daemon]) /\ users[Daemon] \in Table
    BY <1>0, <2>1 DEF TypeOK
  <2>4. users'[Daemon] = Current /\ Current' = Current
    BY <2>1, <2>3, LoadReads DEF BillingInv, Current
  <2>5. InStep(Daemon)'
    BY <1>0, <2>2, <2>4 DEF InStep
  <2> QED BY <2>2, <2>5, DaemonInStep
<1>5. CASE HandleStat
  <2>1. /\ pc' = [pc EXCEPT ![Daemon] = "open"] /\ conf' = conf /\ pc[Daemon] = "request"
        /\ users' = [users EXCEPT ![Daemon] = AddData(@, msg.delta)]
        /\ IsStat(msg)
    BY <1>5 DEF HandleStat, Loaded, IsStat
  <2>2. pc'[Daemon] = "open" /\ \A c \in Cli : pc'[c] = "idle"
    BY <1>2, <1>3, <2>1
  <2>3. users'[Daemon] = AddData(users[Daemon], msg.delta)
    BY <1>0, <2>1 DEF TypeOK
  <2>4. users[Daemon] = Current /\ Current' = Current
    BY <1>0, <2>1 DEF FileInv, InStep, Current
  <2>5. msg.delta \in [Port -> Nat]
    BY <2>1, StatType DEF TypeOK
  <2>6. Billed(Current, users'[Daemon])
    BY <2>3, <2>4, <2>5 DEF Billed
  <2>7. InStep(Daemon)'
    BY <1>0, <2>2, <2>4, <2>6 DEF InStep
  <2> QED BY <2>2, <2>7, DaemonInStep
<1>6. CASE ~MethodStep(Daemon) /\ ~Load /\ ~HandleStat
  <2>1. /\ pc[Daemon] # "receive" \/ \A c \in Cli : pc[c] = "idle"
        /\ pc[Daemon] # "dead"
        /\ \E d : /\ d \notin {"write", "request", "open"}
                  /\ pc' = [pc EXCEPT ![Daemon] = d]
    <3>1. CASE DaemonBoot \/ DaemonArm \/ Receive \/ Construct
      BY <3>1 DEF DaemonBoot, DaemonArm, Receive, Construct, DaemonExits
    <3>2. CASE HandleTimeout \/ HandleOther \/ PingIfAsked \/ ClearFlag
      BY <3>2 DEF HandleTimeout, HandleOther, PingIfAsked, ClearFlag, DaemonExits,
                  Loaded, AtFlag
    <3> QED BY <1>6, <3>1, <3>2 DEF DaemonStep
  <2>2. \A c \in Cli : pc[c] = "idle"
    BY <1>3, <2>1
  <2>3. pc'[Daemon] \notin {"write", "request", "open"} /\ \A c \in Cli : pc'[c] = "idle"
    BY <1>2, <2>1, <2>2
  <2> QED BY <1>0, <2>3, NotInStep, DaemonInStep
<1> QED BY <1>1, <1>4, <1>5, <1>6

-----------------------------------------------------------------------------
(***************************************************************************)
(* The system starts at rest, and no step breaks what processes hold as    *)
(* long as the daemon does not die in the middle.                          *)
(***************************************************************************)
Holds == TypeOK /\ WritesItsUsers /\ BillingInv /\ FileInv

LEMMA HoldsInit == ASSUME Init PROVE Holds
<1>1. TypeOK /\ WritesItsUsers /\ BillingInv
  BY TypeInit, BillingInit DEF Init, WritesItsUsers
<1>2. Daemon \in Proc /\ \A c \in Cli : c \in Proc /\ c # Daemon
  BY CliAssumption DEF Proc
<1>3. /\ pc[Daemon] = IF up THEN "receive" ELSE "dead"
      /\ \A c \in Cli : pc[c] = "idle"
      /\ constructed = up
  BY <1>2 DEF Init
<1>4. \A x \in Proc : ~Works(x) /\ InStep(x)
  BY <1>3 DEF Works, InStep, Proc
<1> QED BY <1>1, <1>4 DEF Holds, FileInv, OneAtATime

LEMMA HoldsNext ==
  ASSUME Serial, "sswatcherd" \notin Mortal, Holds, [Next]_vars
  PROVE  Holds'
<1>0. TypeOK /\ WritesItsUsers /\ BillingInv /\ FileInv
  BY DEF Holds
<1>1. TypeOK' /\ WritesItsUsers' /\ BillingInv'
  BY <1>0, TypeNext, BillingNext
<1>2. ASSUME ServerStep PROVE FileInv'
  BY <1>0, <1>2, SameStep DEF ServerStep, SendStat, ServerCrash, Traffic, daemonVars
<1>3. ASSUME NEW c \in Cli, Command(c) \/ CliStep(c) PROVE FileInv'
  BY <1>0, <1>3, StepCommand, StepCommandGoesOn
<1>4. ASSUME DaemonStep PROVE FileInv'
  BY <1>0, <1>4, StepDaemon
<1>5. ~DaemonKilled
  BY DEF DaemonKilled
<1>6. ASSUME UNCHANGED vars PROVE FileInv'
  BY <1>0, <1>6, SameStep DEF vars, daemonVars
<1>7. FileInv'
  BY <1>2, <1>3, <1>4, <1>5, <1>6 DEF Next
<1> QED BY <1>1, <1>7 DEF Holds

-----------------------------------------------------------------------------
(* What is owed. *)

\* What a port is owed is a number: the greatest of the claims, and what the
\* daemon has added.
OwedWell ==
  \A p \in Port :
    /\ Claims(p) \subseteq Nat
    /\ Max(Claims(p)) \in Claims(p)
    /\ \A n \in Claims(p) : n <= Max(Claims(p))
    /\ Unwritten(p) \in Nat

\* A greatest element is the greatest.
LEMMA Greatest ==
  ASSUME NEW S \in SUBSET Nat, NEW m \in S, \A n \in S : n <= m
  PROVE  Max(S) = m
<1>1. m \in S /\ \A n \in S : m >= n
  OBVIOUS
<1>2. Max(S) \in S /\ \A n \in S : Max(S) >= n
  BY <1>1 DEF Max
<1>3. Max(S) \in Nat /\ m \in Nat /\ Max(S) >= m /\ m >= Max(S)
  BY <1>1, <1>2
<1> QED BY <1>3

(***************************************************************************)
(* Of the reports that are under way the oldest claims the most, and more  *)
(* than ssserver has counted since.                                        *)
(***************************************************************************)
LEMMA OldestClaim ==
  ASSUME TypeOK, BillingInv, NEW p \in Port
  PROVE  Claims(p) \subseteq Nat /\ \E m \in Claims(p) : \A n \in Claims(p) : n <= m
<1> DEFINE Claim(m) == traffic[p] - (m.upto[p] - m.delta[p])
<1>1. stats[p] \in Nat /\ traffic[p] \in Nat
  BY DEF TypeOK
<1>2. \A i \in 1 .. Len(inbox) : IsStat(inbox[i]) =>
        /\ inbox[i].upto[p] \in Nat /\ inbox[i].delta[p] \in Nat
        /\ inbox[i].upto[p] + stats[p] <= traffic[p]
  BY InboxType DEF BillingInv, ReportsCounted
<1>3. IsStat(msg) => /\ msg.upto[p] \in Nat /\ msg.delta[p] \in Nat
                     /\ msg.upto[p] + stats[p] <= traffic[p]
  BY StatType DEF TypeOK, BillingInv, ReportsCounted
<1>4. \A m \in Reports : (m = msg /\ IsStat(msg))
        \/ \E i \in 1 .. Len(inbox) : m = inbox[i] /\ IsStat(inbox[i])
  BY DEF Reports
<1>5. /\ IsStat(msg) => msg \in Reports
      /\ \A i \in 1 .. Len(inbox) : IsStat(inbox[i]) => inbox[i] \in Reports
  BY DEF Reports
<1>6. \A n : n \in Claims(p) <=> n = stats[p] \/ \E m \in Reports : n = Claim(m)
  BY DEF Claims
<1>7. \A m \in Reports : /\ m.upto[p] \in Nat /\ m.delta[p] \in Nat
                         /\ m.upto[p] + stats[p] <= traffic[p]
  BY <1>2, <1>3, <1>4
<1>8. \A m \in Reports : Claim(m) \in Nat /\ stats[p] <= Claim(m)
  BY <1>1, <1>7
<1>9. Claims(p) \subseteq Nat
  <2> HIDE DEF Claim
  <2> QED BY <1>1, <1>6, <1>8
<1>10. ASSUME NEW m \in Reports,
              \A n \in Reports : n = m \/ m.upto[p] + n.delta[p] <= n.upto[p]
       PROVE  \E k \in Claims(p) : \A n \in Claims(p) : n <= k
  <2>1. \A n \in Reports : Claim(n) <= Claim(m)
    BY <1>1, <1>7, <1>10
  <2>2. Claim(m) \in Claims(p)
    BY <1>6
  <2> HIDE DEF Claim
  <2>3. \A n \in Claims(p) : n <= Claim(m)
    BY <1>6, <1>8, <2>1
  <2> QED BY <2>2, <2>3
<1>11. CASE IsStat(msg)
  <2>1. \A i \in 1 .. Len(inbox) : IsStat(inbox[i]) =>
          msg.upto[p] + inbox[i].delta[p] <= inbox[i].upto[p]
    BY <1>11 DEF BillingInv, ReportsInOrder
  <2>2. \A n \in Reports : n = msg \/ msg.upto[p] + n.delta[p] <= n.upto[p]
    BY <1>4, <2>1
  <2> QED BY <1>5, <1>9, <1>10, <1>11, <2>2
<1>12. CASE ~IsStat(msg) /\ \E i \in 1 .. Len(inbox) : IsStat(inbox[i])
  <2> DEFINE T == {i \in 1 .. Len(inbox) : IsStat(inbox[i])}
  <2>1. T \in SUBSET Nat /\ T # {}
    BY <1>12
  <2>2. PICK i \in T : \A j \in T : i <= j
    BY <2>1, LeastNumber
  <2>3. \A j \in T : i < j => inbox[i].upto[p] + inbox[j].delta[p] <= inbox[j].upto[p]
    BY DEF BillingInv, ReportsInOrder
  <2>4. \A n \in Reports : n = inbox[i] \/ inbox[i].upto[p] + n.delta[p] <= n.upto[p]
    <3>1. ASSUME NEW n \in Reports, n # inbox[i]
          PROVE  inbox[i].upto[p] + n.delta[p] <= n.upto[p]
      <4>1. PICK j \in T : n = inbox[j]
        BY <1>4, <1>12
      <4>2. i < j
        <5>1. i <= j /\ i # j /\ i \in Nat /\ j \in Nat
          BY <2>1, <2>2, <3>1, <4>1
        <5> QED BY <5>1
      <4> QED BY <2>3, <4>1, <4>2
    <3> QED BY <3>1
  <2>5. inbox[i] \in Reports
    BY <1>5
  <2> QED BY <1>9, <1>10, <2>4, <2>5
<1>13. CASE ~IsStat(msg) /\ ~\E i \in 1 .. Len(inbox) : IsStat(inbox[i])
  <2>1. \A n : n \in Claims(p) <=> n = stats[p]
    BY <1>4, <1>6, <1>13
  <2> QED BY <1>1, <1>9, <2>1
<1> QED BY <1>11, <1>12, <1>13

(***************************************************************************)
(* What the daemon has added and not written is the report it has handled. *)
(***************************************************************************)
LEMMA UnwrittenType ==
  ASSUME TypeOK, FileInv, NEW p \in Port
  PROVE  /\ Unwritten(p) \in Nat
         /\ pc[Daemon] # "open" => Unwritten(p) = 0
<1>1. CASE pc[Daemon] # "open"
  BY <1>1 DEF Unwritten
<1>2. CASE pc[Daemon] = "open"
  <2>1. PICK d \in [Port -> Nat] : users[Daemon] = AddData(Current, d)
    BY <1>2, ProcessTypes DEF FileInv, InStep, Billed
  <2>2. Current \in [Port -> User \cup {NoUser}]
    BY CurrentType DEF Table
  <2>3. ASSUME Current[p] # NoUser
        PROVE  users[Daemon][p].usage = Current[p].usage + d[p] /\ Current[p].usage \in Nat
    <3>1. users[Daemon][p] = [Current[p] EXCEPT !.usage = @ + d[p]]
      BY <2>1, <2>3 DEF AddData
    <3>2. Current[p] \in User
      BY <2>2, <2>3
    <3> QED BY <3>1, <3>2 DEF User
  <2> QED BY <1>2, <2>3 DEF Unwritten
<1> QED BY <1>1, <1>2

LEMMA OwedIsWell == Holds => OwedWell
<1> SUFFICES ASSUME Holds PROVE OwedWell
  OBVIOUS
<1>1. TypeOK /\ BillingInv /\ FileInv
  BY DEF Holds
<1>2. ASSUME NEW p \in Port
      PROVE  /\ Claims(p) \subseteq Nat
             /\ Max(Claims(p)) \in Claims(p)
             /\ \A n \in Claims(p) : n <= Max(Claims(p))
             /\ Unwritten(p) \in Nat
  <2>1. Claims(p) \in SUBSET Nat
    BY <1>1, OldestClaim
  <2>2. PICK m \in Claims(p) : \A n \in Claims(p) : n <= m
    BY <1>1, OldestClaim
  <2>3. Max(Claims(p)) = m
    BY <2>1, <2>2, Greatest
  <2> QED BY <1>1, <2>1, <2>2, <2>3, UnwrittenType
<1> QED BY <1>2 DEF OwedWell

LEMMA OwedIsWellNext == Holds' => OwedWell'
BY OwedIsWell, PTL

(***************************************************************************)
(* Claims fall when none of the next ones is new.                          *)
(***************************************************************************)
LEMMA ClaimsFall ==
  ASSUME OwedWell, OwedWell', NEW p \in Port,
         \A n \in Claims(p)' : \E k \in Claims(p) : n <= k
  PROVE  Max(Claims(p))' <= Max(Claims(p))
<1>1. Max(Claims(p))' \in Claims(p)' /\ Max(Claims(p))' \in Nat
  BY DEF OwedWell
<1>2. PICK k \in Claims(p) : Max(Claims(p))' <= k
  BY <1>1
<1>3. k <= Max(Claims(p)) /\ k \in Nat /\ Max(Claims(p)) \in Nat
  BY DEF OwedWell
<1> QED BY <1>1, <1>2, <1>3

\* The claims of the next state, spelled out.
LEMMA ClaimsNext ==
  ASSUME NEW p, NEW n \in Claims(p)'
  PROVE  \/ n = stats'[p]
         \/ IsStat(msg') /\ n = traffic'[p] - (msg'.upto[p] - msg'.delta[p])
         \/ \E i \in 1 .. Len(inbox') :
              /\ IsStat(inbox'[i])
              /\ n = traffic'[p] - (inbox'[i].upto[p] - inbox'[i].delta[p])
BY DEF Claims, Reports, IsStat

\* The claims of this one.
LEMMA ClaimsNow ==
  ASSUME NEW p
  PROVE  /\ stats[p] \in Claims(p)
         /\ IsStat(msg) => traffic[p] - (msg.upto[p] - msg.delta[p]) \in Claims(p)
         /\ \A i \in 1 .. Len(inbox) : IsStat(inbox[i]) =>
              traffic[p] - (inbox[i].upto[p] - inbox[i].delta[p]) \in Claims(p)
BY DEF Claims, Reports

(***************************************************************************)
(* A step that loses reports or adds none claims no more.                  *)
(***************************************************************************)
LEMMA FrameClaims ==
  ASSUME TypeOK, OwedWell, OwedWell', Frame, NEW p \in Port
  PROVE  Max(Claims(p))' <= Max(Claims(p))
<1>1. ASSUME NEW n \in Claims(p)' PROVE \E k \in Claims(p) : n <= k
  <2>0. n \in Nat /\ n <= n
    BY DEF OwedWell
  <2>1. CASE n = stats'[p]
    BY <2>1, ClaimsNow DEF Frame
  <2>2. CASE IsStat(msg') /\ n = traffic'[p] - (msg'.upto[p] - msg'.delta[p])
    <3>1. IsStat(msg) /\ n = traffic[p] - (msg.upto[p] - msg.delta[p])
      BY <2>2 DEF Frame
    <3> QED BY <2>0, <3>1, ClaimsNow
  <2>3. CASE \E i \in 1 .. Len(inbox') :
               /\ IsStat(inbox'[i])
               /\ n = traffic'[p] - (inbox'[i].upto[p] - inbox'[i].delta[p])
    <3>1. PICK i \in 1 .. Len(inbox') :
               /\ IsStat(inbox'[i])
               /\ n = traffic'[p] - (inbox'[i].upto[p] - inbox'[i].delta[p])
      BY <2>3
    <3>2. i \in 1 .. Len(inbox) /\ inbox'[i] = inbox[i]
      BY <3>1, FrameInbox
    <3>3. IsStat(inbox[i]) /\ n = traffic[p] - (inbox[i].upto[p] - inbox[i].delta[p])
      BY <3>1, <3>2 DEF Frame
    <3>4. n \in Claims(p)
      BY <3>2, <3>3, ClaimsNow
    <3> QED BY <2>0, <3>4
  <2> QED BY <2>1, <2>2, <2>3, ClaimsNext
<1> QED BY <1>1, ClaimsFall

-----------------------------------------------------------------------------
(* The book. *)

(***************************************************************************)
(* The book is the table of the process that writes, or what is read from  *)
(* the file.                                                               *)
(***************************************************************************)
LEMMA BookOfWriter ==
  ASSUME FileInv, NEW x \in Proc, pc[x] = "write"
  PROVE  Book = users[x]
<1>1. \A y \in Proc : pc[y] = "write" => y = x
  BY DEF FileInv, OneAtATime, Works
<1>2. Writers = {x}
  BY <1>1 DEF Writers
<1>3. (CHOOSE y \in Writers : TRUE) = x /\ Writers # {}
  BY <1>2
<1> QED BY <1>3 DEF Book

LEMMA BookOfFile ==
  ASSUME \A x \in Proc : pc[x] # "write"
  PROVE  Book = Current
BY DEF Book, Writers

LEMMA BooksNext ==
  /\ FileInv' => \A x \in Proc : pc'[x] = "write" => Book' = users'[x]
  /\ (\A x \in Proc : pc'[x] # "write") => Book' = Current'
<1>1. FileInv => \A x \in Proc : pc[x] = "write" => Book = users[x]
  BY BookOfWriter
<1>2. (\A x \in Proc : pc[x] # "write") => Book = Current
  BY BookOfFile
<1>3. (FileInv => \A x \in Proc : pc[x] = "write" => Book = users[x])'
  BY <1>1, PTL
<1>4. ((\A x \in Proc : pc[x] # "write") => Book = Current)'
  BY <1>2, PTL
<1> QED BY <1>3, <1>4

(***************************************************************************)
(* The book stays while nobody begins or ends a write.                     *)
(***************************************************************************)
LEMMA SameBook ==
  ASSUME FileInv, FileInv',
         \A x \in Proc : pc'[x] = "write" <=> pc[x] = "write",
         conf' = conf \/ \E x \in Proc : pc[x] = "write",
         \A x \in Proc : pc[x] = "write" => users'[x] = users[x]
  PROVE  Book' = Book
<1>1. CASE \E x \in Proc : pc[x] = "write"
  <2>1. PICK x \in Proc : pc[x] = "write"
    BY <1>1
  <2>2. Book = users[x]
    BY <2>1, BookOfWriter
  <2>3. pc'[x] = "write" /\ users'[x] = users[x]
    BY <2>1
  <2>4. Book' = users'[x]
    BY <2>3, BooksNext
  <2> QED BY <2>2, <2>3, <2>4
<1>2. CASE \A x \in Proc : pc[x] # "write"
  <2>1. Book = Current
    BY <1>2, BookOfFile
  <2>2. \A x \in Proc : pc'[x] # "write"
    BY <1>2
  <2>3. Book' = Current'
    BY <2>2, BooksNext
  <2>4. Current' = Current
    BY <1>2 DEF Current
  <2> QED BY <2>1, <2>3, <2>4
<1> QED BY <1>1, <1>2

-----------------------------------------------------------------------------
(* Steps of the ledger. *)

(***************************************************************************)
(* The ledger's operators on tables are those of ConfigMgr.                *)
(***************************************************************************)
LEMMA LedgerTables ==
  /\ \A t, d : Promised!AddData(t, d) = AddData(t, d)
  /\ \A f, t : Promised!LoadTable(f, t) = LoadTable(f, t)
  /\ \A t : Promised!Managed(t) = Managed(t)
<1>1. \A t, d : Promised!AddData(t, d) = AddData(t, d)
  BY Zenon DEF Promised!AddData, AddData
<1>2. \A t : Promised!Managed(t) = Managed(t)
  BY Zenon DEF Promised!Managed, Managed
<1>3. \A l, u : Promised!UserOf(l, u) = UserOf(l, u)
  BY Zenon DEF Promised!UserOf, UserOf
<1>4. Promised!Slot = Slot
  <2>1. \A S : Promised!Cardinality(S) = Cardinality(S)
    BY Zenon DEF Promised!Cardinality, Cardinality
  <2> QED BY <2>1, Zenon DEF Promised!Slot, Slot
<1>5. \A f, p, i : Promised!IsLastLine(f, p, i) <=> IsLastLine(f, p, i)
  BY <1>4 DEF Promised!IsLastLine, IsLastLine
<1>6. \A f, t : Promised!LoadTable(f, t) = LoadTable(f, t)
  BY <1>3, <1>4, <1>5 DEF Promised!LoadTable, LoadTable
<1> QED BY <1>1, <1>2, <1>6

LEMMA LoseStep ==
  ASSUME Book' = Book,
         \A p \in Port : Max(Claims(p))' + Unwritten(p)' <= Max(Claims(p)) + Unwritten(p)
  PROVE  Promised!Next
<1>1. ASSUME NEW p \in Port PROVE Owed'[p] <= Owed[p]
  <2>1. Owed[p] = Max(Claims(p)) + Unwritten(p)
    BY DEF Owed
  <2>2. Owed'[p] = Max(Claims(p))' + Unwritten(p)'
    BY DEF Owed
  <2> QED BY <2>1, <2>2
<1>2. Promised!Lose
  BY <1>1 DEF Promised!Lose
<1> QED BY <1>2 DEF Promised!Next

LEMMA EditStep ==
  ASSUME Edited(Book, Book'), Owed' = Owed
  PROVE  Promised!Next
<1> USE DEF Promised!Edit
<1>1. \A t : Promised!Managed(t) = Managed(t)
  BY LedgerTables
<1>2. CASE \E p \in Port, w \in Password, k \in Caps :
             Book' = [Book EXCEPT ![p] = [pw |-> w, cap |-> k,
                        usage |-> IF Book[p] # NoUser THEN Book[p].usage ELSE 0]]
  BY <1>2 DEF Promised!Next, Promised!Add
<1>3. CASE \E p \in Managed(Book) : Book' = [Book EXCEPT ![p] = NoUser]
  BY <1>1, <1>3 DEF Promised!Next, Promised!Remove
<1>4. CASE \E p \in Managed(Book), k \in Caps : Book' = [Book EXCEPT ![p].cap = k]
  BY <1>1, <1>4, Zenon DEF Promised!Next, Promised!Limit
<1>5. CASE \E p \in Managed(Book) : Book' = [Book EXCEPT ![p].usage = 0]
  BY <1>1, <1>5, Zenon DEF Promised!Next, Promised!Reset
<1>6. CASE Book' = [p \in Port |-> IF Book[p] = NoUser THEN NoUser
                                   ELSE [Book[p] EXCEPT !.usage = 0]]
  BY <1>6, Zenon DEF Promised!Next, Promised!ResetAll
<1>7. CASE \E f \in Inputs : Book' = LoadTable(f, Book)
  BY <1>7, LedgerTables DEF Promised!Next, Promised!Import
<1> QED BY <1>2, <1>3, <1>4, <1>5, <1>6, <1>7 DEF Edited

\* Where nothing is sent, counted or taken from the socket, claims are the same.
LEMMA SameClaims ==
  ASSUME UNCHANGED <<stats, traffic, msg, inbox>>, NEW p
  PROVE  Claims(p)' = Claims(p)
BY DEF Claims, Reports, IsStat

(***************************************************************************)
(* When the daemon opens the file to write, the book becomes what it held  *)
(* plus the report that was handled.                                       *)
(***************************************************************************)
LEMMA BillStep ==
  ASSUME Holds, Holds', Truncate(Daemon), pc[Daemon] = "open"
  PROVE  Promised!Next
<1>0. TypeOK /\ FileInv /\ FileInv' /\ TypeOK' /\ OwedWell /\ OwedWell' /\ Daemon \in Proc
  BY OwedIsWell, OwedIsWellNext, ProcessTypes DEF Holds
<1>1. /\ pc' = [pc EXCEPT ![Daemon] = "write"] /\ users' = users
      /\ UNCHANGED <<stats, traffic, msg, inbox>>
  BY DEF Truncate, daemonVars, serverVars, ghostVars
<1>2. pc'[Daemon] = "write"
  BY <1>0, <1>1 DEF TypeOK
<1>3. Book = Current
  <2>1. \A x \in Proc : Works(x) => x = Daemon
    BY <1>0 DEF FileInv, OneAtATime, Works
  <2>2. \A x \in Proc : pc[x] # "write"
    BY <2>1 DEF Works
  <2> QED BY <2>2, BookOfFile
<1>4. Book' = users[Daemon]
  BY <1>0, <1>1, <1>2, BooksNext
<1>5. PICK d \in [Port -> Nat] : users[Daemon] = AddData(Current, d)
  BY <1>0 DEF FileInv, InStep, Billed
<1>6. ASSUME NEW p \in Port
      PROVE  /\ Owed'[p] <= Owed[p]
             /\ Current[p] # NoUser => Owed[p] - Owed'[p] = d[p]
  <2>1. Owed[p] = Max(Claims(p)) + Unwritten(p)
    BY DEF Owed
  <2>2. Owed'[p] = Max(Claims(p))' + Unwritten(p)'
    BY DEF Owed
  <2>3. Max(Claims(p))' = Max(Claims(p)) /\ Unwritten(p)' = 0
    BY <1>1, <1>2, SameClaims DEF Unwritten
  <2>4. Max(Claims(p)) \in Nat /\ Unwritten(p) \in Nat
    BY <1>0 DEF OwedWell
  <2>5. ASSUME Current[p] # NoUser PROVE Unwritten(p) = d[p]
    <3>1. Current[p] \in User
      BY <1>0, <2>5, CurrentType DEF Table
    <3>2. users[Daemon][p] = [Current[p] EXCEPT !.usage = @ + d[p]]
      BY <1>5, <2>5 DEF AddData
    <3>3. d[p] \in Nat /\ Current[p].usage \in Nat
      BY <3>1 DEF User
    <3>4. users[Daemon][p] \in User /\ users[Daemon][p].usage = Current[p].usage + d[p]
      BY <3>1, <3>2, <3>3 DEF User
    <3>5. users[Daemon][p] # NoUser
      BY <3>4, NoUserAssumption
    <3>6. Unwritten(p) = users[Daemon][p].usage - Current[p].usage
      BY <2>5, <3>5 DEF Unwritten
    <3> QED BY <3>3, <3>4, <3>6
  <2> QED BY <2>1, <2>2, <2>3, <2>4, <2>5
<1> DEFINE e == [p \in Port |-> Owed[p] - Owed'[p]]
<1>7. AddData(Current, e) = AddData(Current, d)
  <2>1. \A p \in Port : Current[p] # NoUser => e[p] = d[p]
    BY <1>6
  <2> HIDE DEF e
  <2> QED BY <2>1, Zenon DEF AddData
<1>8. Book' = Promised!AddData(Book, e)
  <2> HIDE DEF e
  <2> QED BY <1>3, <1>4, <1>5, <1>7, LedgerTables
<1>9. Promised!Bill
  BY <1>6, <1>8 DEF Promised!Bill
<1> QED BY <1>9 DEF Promised!Next

(***************************************************************************)
(* A unit of traffic raises every claim on its port by one.                *)
(***************************************************************************)
LEMMA MoveStep ==
  ASSUME Holds, Holds', NEW q \in Port, Traffic(q)
  PROVE  Promised!Next
<1>0. TypeOK /\ FileInv /\ FileInv' /\ OwedWell /\ OwedWell'
  BY OwedIsWell, OwedIsWellNext DEF Holds
<1>1. /\ UNCHANGED <<conf, pc, users, msg, inbox>>
      /\ stats' = [stats EXCEPT ![q] = @ + 1]
      /\ traffic' = [traffic EXCEPT ![q] = @ + 1]
  BY DEF Traffic, daemonVars
<1>2. Book' = Book /\ \A p \in Port : Unwritten(p)' = Unwritten(p)
  BY <1>1 DEF Book, Writers, Current, Unwritten
<1> DEFINE by(p) == IF p = q THEN 1 ELSE 0
<1>3. ASSUME NEW p \in Port
      PROVE  Max(Claims(p))' = Max(Claims(p)) + by(p)
  <2>1. /\ stats[p] \in Nat /\ traffic[p] \in Nat /\ by(p) \in Nat
        /\ stats'[p] = stats[p] + by(p) /\ traffic'[p] = traffic[p] + by(p)
    BY <1>0, <1>1 DEF TypeOK
  <2> HIDE DEF by
  <2>2. \A m \in Reports : m.upto[p] \in Nat /\ m.delta[p] \in Nat
    <3>1. \A i \in 1 .. Len(inbox) : IsStat(inbox[i]) =>
            inbox[i].upto[p] \in Nat /\ inbox[i].delta[p] \in Nat
      BY <1>0, InboxType
    <3>2. IsStat(msg) => msg.upto[p] \in Nat /\ msg.delta[p] \in Nat
      BY <1>0, StatType DEF TypeOK
    <3> QED BY <3>1, <3>2 DEF Reports
  <2>3. Reports' = Reports
    BY <1>1 DEF Reports, IsStat
  <2>4. \A n : n \in Claims(p) <=>
          n = stats[p] \/ \E m \in Reports : n = traffic[p] - (m.upto[p] - m.delta[p])
    BY DEF Claims
  <2>5. \A n : n \in Claims(p)' <=>
          n = stats'[p] \/ \E m \in Reports : n = traffic'[p] - (m.upto[p] - m.delta[p])
    BY <2>3 DEF Claims
  <2>6. \A n \in Claims(p) : n + by(p) \in Claims(p)'
    <3>1. stats[p] + by(p) \in Claims(p)'
      BY <2>1, <2>5
    <3>2. ASSUME NEW m \in Reports
          PROVE  traffic[p] - (m.upto[p] - m.delta[p]) + by(p) \in Claims(p)'
      <4>1. traffic[p] - (m.upto[p] - m.delta[p]) + by(p)
              = traffic'[p] - (m.upto[p] - m.delta[p])
        BY <2>1, <2>2
      <4> QED BY <2>5, <4>1
    <3> QED BY <2>4, <3>1, <3>2
  <2>7. \A n \in Claims(p)' : \E k \in Claims(p) : n = k + by(p)
    <3>1. ASSUME NEW m \in Reports
          PROVE  \E k \in Claims(p) : traffic'[p] - (m.upto[p] - m.delta[p]) = k + by(p)
      <4>1. traffic[p] - (m.upto[p] - m.delta[p]) + by(p)
              = traffic'[p] - (m.upto[p] - m.delta[p])
        BY <2>1, <2>2
      <4>2. traffic[p] - (m.upto[p] - m.delta[p]) \in Claims(p)
        BY <2>4
      <4> QED BY <4>1, <4>2
    <3>2. \E k \in Claims(p) : stats'[p] = k + by(p)
      BY <2>1, <2>4
    <3> QED BY <2>5, <3>1, <3>2
  <2> DEFINE a == Max(Claims(p))
             b == Max(Claims(p))'
  <2>8. /\ a \in Nat /\ a \in Claims(p) /\ \A n \in Claims(p) : n \in Nat /\ n <= a
        /\ b \in Nat /\ b \in Claims(p)' /\ \A n \in Claims(p)' : n <= b
    BY <1>0 DEF OwedWell
  <2> HIDE DEF a, b
  <2>9. a + by(p) <= b
    BY <2>6, <2>8
  <2>10. b <= a + by(p)
    <3>1. PICK k \in Claims(p) : b = k + by(p)
      BY <2>7, <2>8
    <3> QED BY <2>1, <2>8, <3>1
  <2>11. b = a + by(p)
    BY <2>1, <2>8, <2>9, <2>10
  <2> QED BY <2>11 DEF a, b
<1>4. \A p \in Port : Max(Claims(p)) \in Nat /\ Unwritten(p) \in Nat
  BY <1>0 DEF OwedWell
<1>5. Owed' = [Owed EXCEPT ![q] = @ + 1]
  <2>1. ASSUME NEW p \in Port
        PROVE  Max(Claims(p))' + Unwritten(p)' = [Owed EXCEPT ![q] = @ + 1][p]
    <3>1. Owed[p] = Max(Claims(p)) + Unwritten(p) /\ Owed = [r \in Port |-> Owed[r]]
      BY DEF Owed
    <3>2. [Owed EXCEPT ![q] = @ + 1][p] = IF p = q THEN Owed[p] + 1 ELSE Owed[p]
      BY <3>1
    <3> QED BY <1>2, <1>3, <1>4, <3>1, <3>2
  <2>2. Owed' = [p \in Port |-> Max(Claims(p))' + Unwritten(p)']
    BY DEF Owed
  <2>3. [Owed EXCEPT ![q] = @ + 1] = [p \in Port |-> [Owed EXCEPT ![q] = @ + 1][p]]
    BY DEF Owed
  <2> HIDE DEF by
  <2> QED BY <2>1, <2>2, <2>3, Zenon
<1>6. Promised!Move(q)
  BY <1>2, <1>5 DEF Promised!Move
<1> QED BY <1>6 DEF Promised!Next

(***************************************************************************)
(* A step that claims no more and leaves what the daemon has added as it   *)
(* is, or discards it.                                                     *)
(***************************************************************************)
LEMMA LoseClaims ==
  ASSUME Holds, Holds', Book' = Book,
         \A p \in Port : Max(Claims(p))' <= Max(Claims(p)),
         pc'[Daemon] # "open" \/ UNCHANGED <<conf, pc, users>>
  PROVE  Promised!Next
<1>1. ASSUME NEW p \in Port
      PROVE  Max(Claims(p))' + Unwritten(p)' <= Max(Claims(p)) + Unwritten(p)
  <2>1. /\ Max(Claims(p)) \in Nat /\ Unwritten(p) \in Nat
        /\ Max(Claims(p))' \in Nat /\ Unwritten(p)' \in Nat
    BY OwedIsWell, OwedIsWellNext DEF OwedWell
  <2>2. Unwritten(p)' <= Unwritten(p)
    <3>1. CASE pc'[Daemon] # "open"
      BY <2>1, <3>1 DEF Unwritten
    <3>2. CASE UNCHANGED <<conf, pc, users>>
      BY <2>1, <3>2 DEF Unwritten, Current
    <3> QED BY <3>1, <3>2
  <2> QED BY <2>1, <2>2
<1> QED BY <1>1, LoseStep

(***************************************************************************)
(* ssserver reports what it has counted, or its report is lost.            *)
(***************************************************************************)
LEMMA SendStatStep ==
  ASSUME Holds, Holds', SendStat
  PROVE  Promised!Next
<1>0. TypeOK /\ OwedWell /\ OwedWell'
  BY OwedIsWell, OwedIsWellNext DEF Holds
<1>1. /\ UNCHANGED <<conf, pc, users, msg, traffic>> /\ stats' = NoTraffic
      /\ inbox' = inbox \/ inbox' = Append(inbox, Stat(stats, traffic))
  BY DEF SendStat, Deliver, ghostVars
<1>2. Book' = Book
  BY <1>1 DEF Book, Writers, Current
<1>3. ASSUME NEW p \in Port PROVE Max(Claims(p))' <= Max(Claims(p))
  <2>0. stats[p] \in Nat /\ traffic[p] \in Nat /\ stats'[p] = 0
    BY <1>0, <1>1 DEF TypeOK, NoTraffic
  <2>1. ASSUME NEW n \in Claims(p)' PROVE \E k \in Claims(p) : n <= k
    <3>0. n \in Nat /\ n <= n
      BY <1>0 DEF OwedWell
    <3>1. CASE n = stats'[p]
      BY <2>0, <3>1, ClaimsNow
    <3>2. CASE IsStat(msg') /\ n = traffic'[p] - (msg'.upto[p] - msg'.delta[p])
      BY <1>1, <3>0, <3>2, ClaimsNow
    <3>3. ASSUME NEW i \in 1 .. Len(inbox'), IsStat(inbox'[i]),
                 n = traffic'[p] - (inbox'[i].upto[p] - inbox'[i].delta[p])
          PROVE  \E k \in Claims(p) : n <= k
      <4>1. CASE i \in 1 .. Len(inbox) /\ inbox'[i] = inbox[i]
        <5>1. n = traffic[p] - (inbox[i].upto[p] - inbox[i].delta[p]) /\ IsStat(inbox[i])
          BY <1>1, <3>3, <4>1
        <5>2. n \in Claims(p)
          BY <4>1, <5>1, ClaimsNow
        <5> QED BY <3>0, <5>2
      <4>2. CASE inbox'[i] = Stat(stats, traffic)
        <5>1. inbox'[i].upto = traffic /\ inbox'[i].delta = stats
          BY <4>2, StatType
        <5>2. n = stats[p]
          BY <1>1, <2>0, <3>3, <5>1
        <5> QED BY <3>0, <5>2, ClaimsNow
      <4>3. \/ i \in 1 .. Len(inbox) /\ inbox'[i] = inbox[i]
            \/ inbox'[i] = Stat(stats, traffic)
        <5>1. CASE inbox' = inbox
          BY <5>1
        <5>2. CASE inbox' = Append(inbox, Stat(stats, traffic))
          <6> DEFINE m == Stat(stats, traffic)
          <6>1. /\ Len(inbox') = Len(inbox) + 1 /\ Len(inbox) \in Nat
                /\ \A j \in 1 .. Len(inbox) : inbox'[j] = inbox[j]
                /\ inbox'[Len(inbox) + 1] = m
            <7> HIDE DEF m
            <7> QED BY <1>0, <5>2 DEF TypeOK, m
          <6>2. i \in 1 .. Len(inbox) \/ i = Len(inbox) + 1
            BY <3>3, <6>1
          <6> QED BY <6>1, <6>2
        <5> QED BY <1>1, <5>1, <5>2
      <4> QED BY <4>1, <4>2, <4>3
    <3> QED BY <3>1, <3>2, <3>3, ClaimsNext
  <2> QED BY <1>0, <2>1, ClaimsFall
<1> QED BY <1>1, <1>2, <1>3, LoseClaims

(***************************************************************************)
(* The daemon takes a message from its socket.                             *)
(***************************************************************************)
LEMMA ReceiveClaims ==
  ASSUME Holds, Holds', Receive, NEW p \in Port
  PROVE  Max(Claims(p))' <= Max(Claims(p))
<1>0. TypeOK /\ OwedWell /\ OwedWell'
  BY OwedIsWell, OwedIsWellNext DEF Holds
<1>1. traffic' = traffic /\ stats' = stats
  BY DEF Receive, serverVars, ghostVars
<1>2. /\ IsStat(msg') => 1 \in 1 .. Len(inbox) /\ msg' = inbox[1]
      /\ \A i \in 1 .. Len(inbox') : IsStat(inbox'[i]) =>
           \E j \in 1 .. Len(inbox) : inbox'[i] = inbox[j]
  <2>1. CASE inbox = <<>>
    <3>1. msg' = Timeout /\ inbox' = inbox
      BY <2>1 DEF Receive
    <3> QED BY <2>1, <3>1, StatType
  <2>2. CASE inbox # <<>>
    <3>1. msg' = Head(inbox) /\ inbox' = Tail(inbox) /\ inbox \in Seq(Message)
      BY <1>0, <2>2 DEF Receive, TypeOK
    <3>2. Len(inbox) \in Nat /\ Len(inbox) >= 1
      BY <2>2, <3>1, EmptySeq
    <3>3. Len(inbox') = Len(inbox) - 1
          /\ \A i \in 1 .. (Len(inbox) - 1) : inbox'[i] = inbox[i + 1]
      BY <2>2, <3>1, HeadTailProperties
    <3>4. msg' = inbox[1]
      BY <2>2, <3>1, HeadTailProperties
    <3>5. \A i \in 1 .. Len(inbox') : i + 1 \in 1 .. Len(inbox) /\ inbox'[i] = inbox[i + 1]
      BY <3>2, <3>3
    <3> QED BY <3>2, <3>4, <3>5
  <2> QED BY <2>1, <2>2
<1>3. ASSUME NEW n \in Claims(p)' PROVE \E k \in Claims(p) : n <= k
  <2>0. n \in Nat /\ n <= n
    BY <1>0 DEF OwedWell
  <2>1. CASE n = stats'[p]
    BY <1>1, <2>0, <2>1, ClaimsNow
  <2>2. CASE IsStat(msg') /\ n = traffic'[p] - (msg'.upto[p] - msg'.delta[p])
    <3>1. /\ 1 \in 1 .. Len(inbox) /\ IsStat(inbox[1])
          /\ n = traffic[p] - (inbox[1].upto[p] - inbox[1].delta[p])
      BY <1>1, <1>2, <2>2
    <3>2. n \in Claims(p)
      BY <3>1, ClaimsNow
    <3> QED BY <2>0, <3>2
  <2>3. ASSUME NEW i \in 1 .. Len(inbox'), IsStat(inbox'[i]),
               n = traffic'[p] - (inbox'[i].upto[p] - inbox'[i].delta[p])
        PROVE  \E k \in Claims(p) : n <= k
    <3>1. PICK j \in 1 .. Len(inbox) : inbox'[i] = inbox[j]
      BY <1>2, <2>3
    <3>2. IsStat(inbox[j]) /\ n = traffic[p] - (inbox[j].upto[p] - inbox[j].delta[p])
      BY <1>1, <2>3, <3>1
    <3>3. n \in Claims(p)
      BY <3>1, <3>2, ClaimsNow
    <3> QED BY <2>0, <3>3
  <2> QED BY <2>1, <2>2, <2>3, ClaimsNext
<1> QED BY <1>0, <1>3, ClaimsFall

(***************************************************************************)
(* The daemon adds a report, and claims it no more.                        *)
(***************************************************************************)
LEMMA HandleStatStep ==
  ASSUME Holds, Holds', HandleStat
  PROVE  Promised!Next
<1>0. /\ TypeOK /\ BillingInv /\ FileInv /\ FileInv' /\ OwedWell /\ OwedWell'
      /\ Daemon \in Proc
  BY OwedIsWell, OwedIsWellNext, ProcessTypes DEF Holds
<1>1. /\ UNCHANGED <<conf, inbox, traffic, stats>> /\ msg' = Nothing
      /\ IsStat(msg) /\ pc[Daemon] = "request" /\ pc' = [pc EXCEPT ![Daemon] = "open"]
      /\ users' = [users EXCEPT ![Daemon] = AddData(@, msg.delta)]
  BY DEF HandleStat, Loaded, IsStat, serverVars, ghostVars
<1>2. /\ users[Daemon] = Current /\ Current' = Current
      /\ users'[Daemon] = AddData(Current, msg.delta)
  <2>1. users[Daemon] = Current
    BY <1>0, <1>1 DEF FileInv, InStep
  <2> QED BY <1>0, <1>1, <2>1 DEF TypeOK, Current
<1>3. Book' = Book
  <2>1. \A x \in Proc : Works(x) => x = Daemon
    BY <1>0, <1>1 DEF FileInv, OneAtATime, Works
  <2>2. \A x \in Proc : pc[x] # "write" /\ pc'[x] # "write"
    <3>1. \A x \in Proc : pc[x] # "write"
      BY <1>1, <2>1 DEF Works
    <3> QED BY <1>0, <1>1, <3>1 DEF TypeOK
  <2> QED BY <1>2, <2>2, BookOfFile, BooksNext
<1>4. ASSUME NEW p \in Port
      PROVE  Max(Claims(p))' + Unwritten(p)' <= Max(Claims(p)) + Unwritten(p)
  <2> DEFINE d == msg.delta[p]
             u == msg.upto[p]
             c == traffic[p] - (u - d)
             a == Max(Claims(p))
             b == Max(Claims(p))'
  <2>1. d \in Nat /\ u \in Nat /\ traffic[p] \in Nat /\ stats[p] \in Nat
    BY <1>0, <1>1, StatType DEF TypeOK
  <2>2. u + stats[p] <= traffic[p]
    BY <1>0, <1>1 DEF BillingInv, ReportsCounted
  <2>3. c \in Claims(p)
    BY <1>1, ClaimsNow
  <2>4. ASSUME NEW n \in Claims(p)' PROVE n + d <= c
    <3>1. CASE n = stats'[p]
      <4> HIDE DEF d, u
      <4> QED BY <1>1, <2>1, <2>2, <3>1
    <3>2. ~IsStat(msg')
      BY <1>1, StatType
    <3>3. ASSUME NEW i \in 1 .. Len(inbox'), IsStat(inbox'[i]),
                 n = traffic'[p] - (inbox'[i].upto[p] - inbox'[i].delta[p])
          PROVE  n + d <= c
      <4> DEFINE v == inbox[i].upto[p]
                 e == inbox[i].delta[p]
      <4>1. i \in 1 .. Len(inbox) /\ IsStat(inbox[i]) /\ n = traffic[p] - (v - e)
        BY <1>1, <3>3
      <4>2. v \in Nat /\ e \in Nat
        BY <1>0, <4>1, InboxType
      <4>3. u + e <= v
        BY <1>0, <1>1, <4>1 DEF BillingInv, ReportsInOrder
      <4> HIDE DEF d, u, v, e
      <4> QED BY <2>1, <4>1, <4>2, <4>3
    <3> QED BY <3>1, <3>2, <3>3, ClaimsNext
  <2>5. /\ a \in Nat /\ \A n \in Claims(p) : n \in Nat /\ n <= a
        /\ b \in Nat /\ b \in Claims(p)'
        /\ Unwritten(p) \in Nat /\ Unwritten(p)' \in Nat
    BY <1>0 DEF OwedWell
  <2>6. Unwritten(p)' <= d
    <3>1. CASE Current[p] = NoUser
      BY <1>2, <2>1, <3>1 DEF Unwritten
    <3>2. CASE Current[p] # NoUser
      <4>1. Current[p] \in User
        BY <1>0, <3>2, CurrentType DEF Table
      <4>2. users'[Daemon][p] = [Current[p] EXCEPT !.usage = @ + d]
        BY <1>2, <3>2 DEF AddData
      <4>3. users'[Daemon][p].usage = Current[p].usage + d /\ Current[p].usage \in Nat
        BY <4>1, <4>2 DEF User
      <4>4. Unwritten(p)' = users'[Daemon][p].usage - Current[p].usage \/ Unwritten(p)' = 0
        BY <1>2 DEF Unwritten
      <4> HIDE DEF d
      <4> QED BY <2>1, <4>3, <4>4
    <3> QED BY <3>1, <3>2
  <2>7. c <= a /\ b + d <= c /\ c \in Nat
    BY <2>3, <2>4, <2>5
  <2> HIDE DEF a, b, c, d
  <2>8. b + Unwritten(p)' <= a + Unwritten(p)
    BY <2>1, <2>5, <2>6, <2>7 DEF d
  <2> QED BY <2>8 DEF a, b
<1> QED BY <1>3, <1>4, LoseStep

-----------------------------------------------------------------------------
(* Steps of tool and daemon, seen in the ledger. *)

(***************************************************************************)
(* While a process works, only it can be writing.                          *)
(***************************************************************************)
LEMMA OneWriter ==
  ASSUME FileInv, NEW x \in Proc, Works(x)
  PROVE  \A y \in Proc \ {x} : pc[y] # "write" /\ pc[y] # "open"
<1>1. \A y \in Proc \ {x} : ~Works(y)
  BY DEF FileInv, OneAtATime
<1> QED BY <1>1 DEF Works

(***************************************************************************)
(* A command opens the file to write: its edit of the book is done.        *)
(***************************************************************************)
LEMMA CommandOpens ==
  ASSUME Holds, Holds', NEW c \in Cli, Truncate(c)
  PROVE  Promised!Next
<1>0. TypeOK /\ FileInv /\ FileInv' /\ c \in Proc /\ c # Daemon /\ Daemon \in Proc
  BY CliAssumption DEF Holds, Proc
<1>1. /\ pc[c] \in {"open", "request"} /\ pc' = [pc EXCEPT ![c] = "write"]
      /\ users' = users /\ UNCHANGED <<stats, traffic, msg, inbox>>
  BY DEF Truncate, daemonVars, serverVars, ghostVars
<1>2. pc'[c] = "write" /\ pc'[Daemon] = pc[Daemon]
  BY <1>0, <1>1 DEF TypeOK
<1>3. Works(c)
  BY <1>0, <1>1 DEF Works
<1>4. \A y \in Proc : pc[y] # "write"
  BY <1>0, <1>1, <1>3, OneWriter
<1>5. Book = Current
  BY <1>4, BookOfFile
<1>6. Book' = users[c]
  BY <1>0, <1>1, <1>2, BooksNext
<1>7. Edited(Current, users[c])
  BY <1>0, <1>1 DEF FileInv, InStep
<1>8. pc[Daemon] # "open"
  BY <1>0, <1>3, OneWriter
<1>9. Owed' = Owed
  <2>1. \A p \in Port : Max(Claims(p))' = Max(Claims(p)) /\ Unwritten(p)' = Unwritten(p)
    BY <1>1, <1>2, <1>8, SameClaims DEF Unwritten
  <2> QED BY <2>1, Zenon DEF Owed
<1> QED BY <1>5, <1>6, <1>7, <1>9, EditStep

(***************************************************************************)
(* While the file is written the book is what is being written, and when   *)
(* it is closed the file says the same.                                    *)
(***************************************************************************)
LEMMA WritingStep ==
  ASSUME Holds, Holds', NEW x \in Proc, WriteLine(x) \/ CloseConf(x)
  PROVE  Promised!Next
<1>0. TypeOK /\ FileInv /\ FileInv' /\ Daemon \in Proc
  BY ProcessTypes DEF Holds
<1>1. /\ pc[x] = "write" /\ users' = users
      /\ UNCHANGED <<stats, traffic, msg, inbox>>
  BY DEF WriteLine, CloseConf, daemonVars, serverVars, ghostVars
<1>2. \A y \in Proc \ {x} : pc[y] # "write" /\ pc[y] # "open"
  BY <1>0, <1>1, OneWriter DEF Works
<1>3. Book = users[x]
  BY <1>0, <1>1, BookOfWriter
<1>4. CASE WriteLine(x)
  <2>1. pc' = pc
    BY <1>4 DEF WriteLine
  <2>2. Book' = users[x]
    BY <1>0, <1>1, <2>1, BooksNext
  <2>3. pc'[Daemon] # "open"
    BY <1>0, <1>1, <1>2, <2>1
  <2> QED BY <1>1, <1>3, <2>2, <2>3, SameClaims, OwedIsWell, OwedIsWellNext, LoseClaims
             DEF OwedWell
<1>5. CASE CloseConf(x)
  <2>1. /\ pc' = [pc EXCEPT ![x] = "refresh"] /\ conf' = conf /\ left[x] = {}
    BY <1>5 DEF CloseConf
  <2>2. \A y \in Proc : pc'[y] # "write" /\ pc'[y] # "open"
    BY <1>0, <1>2, <2>1 DEF TypeOK
  <2>3. Current = users[x]
    BY <1>0, <1>1, <2>1, ReadBack DEF FileInv, InStep
  <2>4. Book' = Current
    BY <2>1, <2>2, BooksNext DEF Current
  <2> QED BY <1>0, <1>1, <1>3, <2>2, <2>3, <2>4, SameClaims, OwedIsWell, OwedIsWellNext,
             LoseClaims DEF OwedWell
<1> QED BY <1>4, <1>5

(***************************************************************************)
(* A step at which nobody writes or begins to.                             *)
(***************************************************************************)
LEMMA OutsideStep ==
  ASSUME Holds, Holds', conf' = conf,
         \A y \in Proc : pc[y] # "write" /\ pc'[y] # "write",
         pc'[Daemon] # "open",
         Frame \/ UNCHANGED <<stats, traffic, msg, inbox>>
  PROVE  Promised!Next
<1>1. Book' = Book
  BY BookOfFile, BooksNext DEF Current
<1>2. TypeOK /\ OwedWell /\ OwedWell'
  BY OwedIsWell, OwedIsWellNext DEF Holds
<1>3. ASSUME NEW p \in Port PROVE Max(Claims(p))' <= Max(Claims(p))
  <2>1. CASE Frame
    BY <1>2, <2>1, FrameClaims
  <2>2. CASE UNCHANGED <<stats, traffic, msg, inbox>>
    BY <1>2, <2>2, SameClaims DEF OwedWell
  <2> QED BY <2>1, <2>2
<1> QED BY <1>1, <1>3, LoseClaims

\* Steps that touch neither file nor processes.
LEMMA ApartStep ==
  ASSUME Holds, Holds', UNCHANGED <<conf, pc, users>>,
         Frame \/ UNCHANGED <<stats, traffic, msg, inbox>>
  PROVE  Promised!Next
<1>1. Book' = Book
  BY DEF Book, Writers, Current
<1>2. TypeOK /\ OwedWell /\ OwedWell'
  BY OwedIsWell, OwedIsWellNext DEF Holds
<1>3. ASSUME NEW p \in Port PROVE Max(Claims(p))' <= Max(Claims(p))
  <2>1. CASE Frame
    BY <1>2, <2>1, FrameClaims
  <2>2. CASE UNCHANGED <<stats, traffic, msg, inbox>>
    BY <1>2, <2>2, SameClaims DEF OwedWell
  <2> QED BY <2>1, <2>2
<1> QED BY <1>1, <1>3, LoseClaims

(***************************************************************************)
(* The steps inside a method, of a command or of the daemon.               *)
(***************************************************************************)
LEMMA MethodInLedger ==
  ASSUME Holds, Holds', NEW x \in Proc, MethodStep(x)
  PROVE  Promised!Next
<1>0. TypeOK /\ FileInv /\ Daemon \in Proc
  BY ProcessTypes DEF Holds
<1>1. CASE SendRequest(x)
  BY <1>1, ApartStep DEF SendRequest, daemonVars, serverVars, ghostVars
<1>2. CASE SendFails(x)
  <2>1. /\ pc[x] \in Sending /\ conf' = conf
        /\ \E v \in {"dead", "idle"} : pc' = [pc EXCEPT ![x] = v]
        /\ msg' = msg \/ msg' = Nothing
        /\ inbox' = inbox \/ inbox' = <<>>
        /\ traffic' = traffic /\ credit' = credit /\ stats' = stats
    BY <1>2 DEF SendFails, DaemonExits, DaemonForgets, CliExits, daemonVars, serverVars,
                ghostVars
  <2>2. Frame
    BY <1>0, <2>1, QuietFrame
  <2>3. Works(x)
    BY <2>1 DEF Works, Sending
  <2>4. \A y \in Proc : pc[y] # "write" /\ pc'[y] # "write" /\ pc'[y] # "open"
    <3>1. pc[x] # "write"
      BY <2>1 DEF Sending
    <3>2. pc'[x] \in {"dead", "idle"} /\ \A y \in Proc \ {x} : pc'[y] = pc[y]
      BY <1>0, <2>1 DEF TypeOK
    <3> QED BY <1>0, <2>3, <3>1, <3>2, OneWriter
  <2> QED BY <1>0, <2>1, <2>2, <2>4, OutsideStep
<1>3. CASE Truncate(x)
  <2>1. CASE x \in Cli
    BY <1>3, <2>1, CommandOpens
  <2>2. CASE x = Daemon
    <3>1. pc[Daemon] = "open"
      BY <1>3, <2>2, CliAssumption DEF Truncate
    <3> QED BY <1>3, <2>2, <3>1, BillStep
  <2> QED BY <2>1, <2>2 DEF Proc
<1>4. CASE WriteLine(x) \/ CloseConf(x)
  BY <1>4, WritingStep
<1> QED BY <1>1, <1>2, <1>3, <1>4 DEF MethodStep

(***************************************************************************)
(* A command that begins changes nothing in the ledger yet.                *)
(***************************************************************************)
LEMMA BeginInLedger ==
  ASSUME Serial, Holds, Holds', NEW c \in Cli, NEW command, NEW kind, NEW t, NEW o,
         NEW p \in {"request", "open", "spawn", "init"},
         Begin(c, command, kind, t, o, p), UNCHANGED <<stats, traffic>>
  PROVE  Promised!Next
<1>0. TypeOK /\ c \in Proc /\ c # Daemon /\ Daemon \in Proc
  BY CliAssumption DEF Holds, Proc
<1>1. /\ Quiescent /\ pc' = [pc EXCEPT ![c] = p] /\ conf' = conf
      /\ UNCHANGED <<stats, traffic, msg, inbox>>
  BY DEF Begin, daemonVars
<1>2. pc'[c] = p /\ \A y \in Proc \ {c} : pc'[y] = pc[y]
  BY <1>0, <1>1 DEF TypeOK
<1>3. \A y \in Proc : pc[y] # "write" /\ pc[y] # "open"
  BY <1>1 DEF Quiescent, Proc
<1>4. pc'[Daemon] # "open" /\ \A y \in Proc : pc'[y] # "write"
  BY <1>0, <1>2, <1>3
<1> QED BY <1>1, <1>3, <1>4, OutsideStep

LEMMA CommandInLedger ==
  ASSUME Serial, Holds, Holds', NEW c \in Cli, Command(c)
  PROVE  Promised!Next
<1>0. TypeOK /\ c \in Proc /\ c # Daemon /\ Daemon \in Proc
  BY CliAssumption DEF Holds, Proc
<1>1. CASE AddPort(c) \/ RemovePort(c) \/ UpdateDatacap(c) \/ ResetUsage(c)
  BY <1>1, BeginInLedger, Zenon
     DEF AddPort, RemovePort, UpdateDatacap, ResetUsage, serverVars, ghostVars
<1>2. CASE ResetAllUsage(c) \/ ImportFrom(c) \/ StartServer(c) \/ StartFoundServer(c)
  BY <1>2, BeginInLedger, Zenon
     DEF ResetAllUsage, ImportFrom, StartServer, StartFoundServer, serverVars, ghostVars
<1>3. CASE StopDaemon(c)
  <2>1. /\ Quiescent /\ pc' = [pc EXCEPT ![c] = "stopping", ![Daemon] = "dead"]
        /\ conf' = conf /\ msg' = Nothing /\ inbox' = <<>>
        /\ traffic' = traffic /\ credit' = credit /\ stats' = stats
    BY <1>3 DEF StopDaemon, DaemonForgets, serverVars, ghostVars
  <2>2. Frame
    BY <1>0, <2>1, QuietFrame
  <2>3. \A y \in Proc : pc[y] # "write"
    BY <2>1 DEF Quiescent, Proc
  <2>4. \A y \in Proc : pc'[y] # "write" /\ pc'[y] # "open"
    BY <1>0, <2>1 DEF Quiescent, Proc, TypeOK
  <2> QED BY <1>0, <2>1, <2>2, <2>3, <2>4, OutsideStep
<1> QED BY <1>1, <1>2, <1>3 DEF Command

(***************************************************************************)
(* Where the processes are at a step of a command outside its method ...   *)
(***************************************************************************)
LEMMA CommandPlaces ==
  ASSUME TypeOK, FileInv, NEW c \in Cli, CliStep(c), ~MethodStep(c)
  PROVE  /\ \A y \in Proc : pc[y] # "write" /\ pc'[y] \notin {"write", "request", "open"}
         /\ \A y \in Proc : pc'[y] \notin {"refresh", "init"} \/ (y = c /\ InitAfterImport(c))
         /\ \A k \in Cli : pc[k] \notin {"request", "open"}
         /\ conf' = conf
<1>0. c \in Proc /\ c # Daemon /\ Daemon \in Proc
  BY CliAssumption DEF Proc
<1>1. pc[c] \in {"refresh", "spawn", "init", "stopping"} /\ conf' = conf
  BY DEF CliStep, InitAfterImport, SpawnDaemon, StopServer, SignalDaemon, ExitQuietly, Finished
<1>2. /\ \A k \in Cli \ {c} : pc[k] = "idle"
      /\ pc[Daemon] \in {"dead", "receive"}
  BY <1>0, <1>1, OneCommand
<1>3. \E v \in {"init", "idle"}, d \in {"dead", "receive", "boot", "load", "construct"} :
        /\ pc' = [pc EXCEPT ![c] = v, ![Daemon] = d]
        /\ v = "init" => InitAfterImport(c)
  <2>1. ASSUME NEW v \in {"init", "idle"}, pc' = [pc EXCEPT ![c] = v]
        PROVE  pc' = [pc EXCEPT ![c] = v, ![Daemon] = pc[Daemon]]
    BY <1>0, <2>1 DEF TypeOK
  <2>2. CASE InitAfterImport(c) \/ StopServer(c) \/ ExitQuietly(c)
    <3>1. \E v \in {"init", "idle"} : /\ pc' = [pc EXCEPT ![c] = v]
                                      /\ v = "init" => InitAfterImport(c)
      BY <2>2 DEF InitAfterImport, StopServer, ExitQuietly, CliExits
    <3> QED BY <1>2, <2>1, <3>1
  <2>3. CASE SpawnDaemon(c)
    <3>1. pc' = [pc EXCEPT ![c] = "idle",
                     ![Daemon] = IF pc[Daemon] = "dead" /\ up THEN "boot" ELSE pc[Daemon]]
      BY <1>0, <2>3 DEF SpawnDaemon, TypeOK
    <3> QED BY <1>2, <3>1
  <2>4. CASE SignalDaemon(c)
    <3>1. CASE pc' = [pc EXCEPT ![c] = "idle"]
      BY <1>2, <2>1, <3>1
    <3>2. CASE pc' = [pc EXCEPT ![c] = "idle",
                          ![Daemon] = IF constructed THEN "load" ELSE "construct"]
      BY <3>2
    <3> QED BY <1>2, <2>4, <3>1, <3>2 DEF SignalDaemon
  <2> QED BY <2>2, <2>3, <2>4 DEF CliStep
<1>4. PICK v \in {"init", "idle"}, d \in {"dead", "receive", "boot", "load", "construct"} :
        /\ pc' = [pc EXCEPT ![c] = v, ![Daemon] = d]
        /\ v = "init" => InitAfterImport(c)
  BY <1>3
<1>5. /\ pc'[c] = v /\ pc'[Daemon] = d
      /\ \A k \in Cli \ {c} : pc'[k] = pc[k]
  BY <1>0, <1>4, ProcessPlaces
<1> QED BY <1>1, <1>2, <1>4, <1>5 DEF Proc

(***************************************************************************)
(* ... and of the daemon's loop.                                           *)
(***************************************************************************)
LEMMA DaemonPlaces ==
  ASSUME Serial, TypeOK, FileInv, DaemonStep, ~MethodStep(Daemon)
  PROVE  /\ \A y \in Proc : pc[y] # "write" /\ pc'[y] # "write"
         /\ \A k \in Cli : pc[k] = "idle" /\ pc'[k] = "idle"
         /\ pc'[Daemon] = "open" => HandleStat
         /\ pc'[Daemon] = "request" => Load
         /\ pc'[Daemon] \notin {"refresh", "init"}
         /\ conf' = conf
<1>0. Daemon \in Proc /\ \A k \in Cli : k \in Proc /\ k # Daemon
  BY CliAssumption DEF Proc
<1>1. /\ pc[Daemon] = "receive" => \A k \in Cli : pc[k] = "idle"
      /\ pc[Daemon] \notin {"dead", "write"}
      /\ conf' = conf
      /\ \E d : /\ pc' = [pc EXCEPT ![Daemon] = d]
                /\ d \notin {"write", "refresh", "init"}
                /\ d = "open" => HandleStat
                /\ d = "request" => Load
  <2>1. CASE DaemonBoot \/ DaemonArm \/ Receive \/ Construct \/ Load
    BY <2>1 DEF DaemonBoot, DaemonArm, Receive, Construct, Load, DaemonExits
  <2>2. CASE HandleStat \/ HandleTimeout \/ HandleOther \/ PingIfAsked \/ ClearFlag
    BY <2>2 DEF HandleStat, HandleTimeout, HandleOther, PingIfAsked, ClearFlag, DaemonExits,
                Loaded, AtFlag
  <2> QED BY <2>1, <2>2 DEF DaemonStep
<1>2. \A k \in Cli : pc[k] = "idle"
  BY <1>1, DaemonAlone DEF FileInv, Works
<1>3. PICK d : /\ pc' = [pc EXCEPT ![Daemon] = d]
               /\ d \notin {"write", "refresh", "init"}
               /\ d = "open" => HandleStat
               /\ d = "request" => Load
  BY <1>1
<1>4. pc'[Daemon] = d /\ \A k \in Cli : pc'[k] = pc[k]
  BY <1>0, <1>3 DEF TypeOK
<1>5. \A y \in Proc : pc[y] # "write" /\ pc'[y] # "write"
  BY <1>1, <1>2, <1>3, <1>4 DEF Proc
<1> QED BY <1>1, <1>2, <1>3, <1>4, <1>5

(***************************************************************************)
(* Neither touches the table, but for a report that is handled.            *)
(***************************************************************************)
LEMMA CliInLedger ==
  ASSUME Holds, Holds', NEW c \in Cli, CliStep(c)
  PROVE  Promised!Next
<1>0. TypeOK /\ FileInv /\ c \in Proc /\ Daemon \in Proc
  BY ProcessTypes DEF Holds
<1>1. CASE MethodStep(c)
  BY <1>0, <1>1, MethodInLedger
<1>2. CASE ~MethodStep(c)
  <2>1. /\ traffic' = traffic /\ credit' = credit
        /\ msg' = msg \/ msg' = Nothing \/ msg' = Interrupt
        /\ inbox' = inbox \/ inbox' = <<>>
        /\ stats' = stats \/ stats' = NoTraffic
    BY <1>2 DEF CliStep, InitAfterImport, SpawnDaemon, StopServer, ServerGone,
                SignalDaemon, DaemonForgets, ExitQuietly, daemonVars, serverVars, ghostVars
  <2>2. Frame
    BY <1>0, <2>1, QuietFrame
  <2> QED BY <1>0, <1>2, <2>2, CommandPlaces, OutsideStep
<1> QED BY <1>1, <1>2

LEMMA DaemonInLedger ==
  ASSUME Serial, Holds, Holds', DaemonStep
  PROVE  Promised!Next
<1>0. TypeOK /\ FileInv /\ Daemon \in Proc
  BY ProcessTypes DEF Holds
<1>1. CASE MethodStep(Daemon)
  BY <1>0, <1>1, MethodInLedger
<1>2. CASE HandleStat
  BY <1>2, HandleStatStep
<1>3. CASE ~MethodStep(Daemon) /\ ~HandleStat
  <2>1. /\ \A y \in Proc : pc[y] # "write" /\ pc'[y] # "write"
        /\ pc'[Daemon] # "open" /\ conf' = conf
    BY <1>0, <1>3, DaemonPlaces
  <2>2. CASE Receive
    <3>1. Book' = Book
      BY <2>1, BookOfFile, BooksNext DEF Current
    <3> QED BY <2>1, <2>2, <3>1, ReceiveClaims, LoseClaims
  <2>3. CASE ~Receive
    <3>1. /\ msg' = msg \/ msg' = Nothing \/ msg' = Interrupt
          /\ inbox' = inbox \/ inbox' = <<>> \/ inbox' = Append(inbox, Pong)
          /\ traffic' = traffic /\ credit' = credit /\ stats' = stats
      <4>1. CASE DaemonBoot \/ DaemonArm \/ Construct \/ Load
        BY <4>1, PongDelivered
           DEF DaemonBoot, DaemonArm, Construct, Load, DaemonExits, DaemonForgets,
               daemonVars, serverVars, ghostVars
      <4>2. CASE HandleTimeout \/ HandleOther \/ PingIfAsked \/ ClearFlag
        BY <4>2, PongDelivered
           DEF HandleTimeout, HandleOther, PingIfAsked, ClearFlag, DaemonExits,
               DaemonForgets, Ping, daemonVars, serverVars, ghostVars
      <4> QED BY <1>3, <2>3, <4>1, <4>2 DEF DaemonStep
    <3>2. Frame
      BY <1>0, <3>1, QuietFrame
    <3> QED BY <2>1, <3>2, OutsideStep
  <2> QED BY <2>2, <2>3
<1> QED BY <1>1, <1>2, <1>3

(***************************************************************************)
(* Every step is one of the ledger's.                                      *)
(***************************************************************************)
LEMMA StepInLedger ==
  ASSUME Serial, "sswatcherd" \notin Mortal, Holds, Holds', [Next]_vars
  PROVE  [Promised!Next]_<<Book, Owed>>
<1>0. TypeOK
  BY DEF Holds
<1>1. CASE ServerStep
  <2>1. CASE ServerCrash
    <3>1. /\ UNCHANGED <<conf, pc, users, msg, inbox, traffic, credit>>
          /\ stats' = NoTraffic
      BY <2>1 DEF ServerCrash, ServerGone
    <3>2. Frame
      BY <1>0, <3>1, QuietFrame
    <3> QED BY <3>1, <3>2, ApartStep
  <2> QED BY <1>1, <2>1, MoveStep, SendStatStep DEF ServerStep
<1>2. CASE UNCHANGED vars
  <2>1. UNCHANGED <<conf, pc, users, stats, traffic, msg, inbox>>
    BY <1>2 DEF vars, daemonVars, serverVars, ghostVars
  <2> QED BY <2>1, ApartStep
<1>3. ~DaemonKilled
  BY DEF DaemonKilled
<1> QED BY <1>1, <1>2, <1>3, CommandInLedger, CliInLedger, DaemonInLedger DEF Next

LEMMA InitInLedger == ASSUME Init PROVE Promised!Init
<1>1. Holds
  BY HoldsInit
<1>2. /\ conf = EmptyFile /\ msg = Nothing /\ inbox = <<>>
      /\ \A p \in Port : stats[p] = 0
      /\ \A x \in Proc : pc[x] # "write" /\ pc[x] # "open"
  BY DEF Init, NoTraffic
<1>3. Book = EmptyTable
  <2>1. Book = Current
    BY <1>2, BookOfFile
  <2>2. \A p \in Port, i \in Slot : ~IsLastLine(conf, p, i)
    BY <1>2 DEF IsLastLine, EmptyFile
  <2> QED BY <2>1, <2>2 DEF Current, LoadTable, EmptyTable
<1>4. ASSUME NEW p \in Port PROVE Max(Claims(p)) + Unwritten(p) = 0
  <2>1. Unwritten(p) = 0
    BY <1>2, ProcessTypes DEF Unwritten
  <2>2. Reports = {}
    BY <1>2, StatType DEF Reports
  <2>3. Claims(p) = {0}
    BY <1>2, <2>2 DEF Claims
  <2>4. Max(Claims(p)) \in Claims(p)
    BY <1>1, OwedIsWell DEF OwedWell
  <2> QED BY <2>1, <2>3, <2>4
<1>5. Owed = [p \in Port |-> 0]
  BY <1>4, Zenon DEF Owed
<1>6. Promised!EmptyTable = EmptyTable
  BY DEF Promised!EmptyTable, EmptyTable
<1> QED BY <1>3, <1>5, <1>6 DEF Promised!Init

(***************************************************************************)
(* Seen from the table, tool, daemon, file and ssserver behave like a      *)
(* ledger that changes by whole methods and records a report at most once, *)
(* for any ports, caps, files, commands and crashes of ssserver, as long   *)
(* as one operation follows another and nobody kills the daemon            *)
(* (write_conf operation.cpp:169, load_conf operation.cpp:92, the loop of  *)
(* daemon/main.cpp:85).                                                    *)
(***************************************************************************)
THEOREM KeepsTheLedger ==
  ASSUME Serial, "sswatcherd" \notin Mortal
  PROVE  Spec => ImplementsLedger
<1>1. Init => Holds
  BY HoldsInit
<1>2. Holds /\ [Next]_vars => Holds'
  BY HoldsNext
<1>3. Init => Promised!Init
  BY InitInLedger
<1>4. Holds /\ Holds' /\ [Next]_vars => [Promised!Next]_<<Book, Owed>>
  BY StepInLedger
<1> QED BY <1>1, <1>2, <1>3, <1>4, PTL DEF Spec, ImplementsLedger, Promised!Spec

-----------------------------------------------------------------------------
(***************************************************************************)
(* Who is served, at rest, is in the file.  While a command has its        *)
(* requests to send, who is served is in the table it holds or about to    *)
(* be removed; whatever is added is in that table; and once the file is    *)
(* written, it is that table.                                              *)
(***************************************************************************)

\* Every file that may be loaded lists every port.
FilesListAll ==
  "load" \in Commands => \A f \in Inputs : Managed(LoadTable(f, EmptyTable)) = Port

AddsListed(x, t) == \A r \in out[x] : r.kind = "add" => r.port \in Managed(t)

Editing(x) == x \in Cli /\ pc[x] \in {"request", "open"}

ServesListed(x) ==
  /\ Editing(x) =>
       /\ AddsListed(x, users[x])
       /\ \A p \in Port : served[p] # NotServed =>
            p \in Managed(users[x]) \/ \E r \in out[x] : r.kind = "remove" /\ r.port = p
  /\ x \in Cli /\ pc[x] = "open" => out[x] = {}
  /\ pc[x] = "refresh" => users[x] = Current
  /\ pc[x] \in {"refresh", "init"} \/ (x = Daemon /\ pc[x] = "request") =>
       AddsListed(x, Current)

OnlyListed == \A p \in Port : served[p] # NotServed => p \in Managed(Book)

ListedInv ==
  /\ \A x \in Proc : ServesListed(x)
  /\ (\A x \in Proc : ~Editing(x)) => OnlyListed

-----------------------------------------------------------------------------
(* ssserver is there, or serves nobody. *)

\* When ssserver is gone nobody is served, and a command that lost its connection
\* lost it because ssserver is gone.
GoneInv ==
  /\ ~up => \A p \in Port : served[p] = NotServed
  /\ \A c \in Cli : comm[c] = "stale" => ~up
  /\ \A c \in Cli : pc[c] \in {"idle", "stopping"} => comm[c] = "none"

(***************************************************************************)
(* Steps that leave ssserver alone, and connections too, but for those of  *)
(* processes that end.                                                     *)
(***************************************************************************)
LEMMA GoneFrame ==
  ASSUME GoneInv, up' = up, served' = served,
         \A c \in Cli : \/ comm'[c] = "none"
                        \/ comm'[c] = comm[c] /\ pc'[c] = pc[c]
                        \/ comm'[c] = comm[c] /\ pc'[c] \notin {"idle", "stopping"}
  PROVE  GoneInv'
BY DEF GoneInv

LEMMA GoneMethod ==
  ASSUME TypeOK, GoneInv, NEW x \in Proc, MethodStep(x)
  PROVE  GoneInv'
<1>0. /\ \A c \in Cli : c \in Proc /\ c # Daemon
      /\ \A y \in Proc : y # Daemon => y \in Cli
  BY CliAssumption DEF Proc
<1>1. CASE SendRequest(x)
  <2>1. /\ up /\ up' = up /\ pc' = pc /\ comm' = [comm EXCEPT ![x] = "live"]
        /\ pc[x] \in {"request", "refresh", "init"}
    BY <1>1 DEF SendRequest, Sending
  <2>2. ASSUME NEW c \in Cli
        PROVE  /\ comm'[c] # "stale"
               /\ pc'[c] \in {"idle", "stopping"} => comm'[c] = "none"
    <3>1. CASE c = x
      BY <1>0, <2>1, <3>1 DEF TypeOK
    <3>2. CASE c # x
      BY <1>0, <2>1, <3>2 DEF TypeOK, GoneInv
    <3> QED BY <3>1, <3>2
  <2> QED BY <2>1, <2>2 DEF GoneInv
<1>2. CASE SendFails(x)
  <2>1. /\ up' = up /\ served' = served /\ comm' = [comm EXCEPT ![x] = "none"]
        /\ \E v : pc' = [pc EXCEPT ![x] = v]
    BY <1>2 DEF SendFails, DaemonExits, CliExits, Forget, serverVars
  <2>2. comm'[x] = "none" /\ \A c \in Cli \ {x} : comm'[c] = comm[c] /\ pc'[c] = pc[c]
    BY <1>0, <2>1 DEF TypeOK
  <2> QED BY <2>1, <2>2, GoneFrame
<1>3. CASE Truncate(x) \/ WriteLine(x) \/ CloseConf(x)
  <2>1. /\ up' = up /\ served' = served /\ comm' = comm
        /\ pc' = pc \/ \E v \in {"write", "refresh"} : pc' = [pc EXCEPT ![x] = v]
    BY <1>3 DEF Truncate, WriteLine, CloseConf, serverVars
  <2>2. \A c \in Cli : pc'[c] = pc[c] \/ pc'[c] \in {"write", "refresh"}
    BY <1>0, <2>1 DEF TypeOK
  <2> QED BY <2>1, <2>2, GoneFrame
<1> QED BY <1>1, <1>2, <1>3 DEF MethodStep

LEMMA GoneCommand ==
  ASSUME Serial, TypeOK, GoneInv, NEW c \in Cli, Command(c)
  PROVE  GoneInv'
<1>0. \A k \in Cli : k \in Proc /\ k # Daemon
  BY CliAssumption DEF Proc
<1>1. ASSUME NEW command, NEW kind, NEW t, NEW o, NEW p \in {"request", "open", "spawn"},
             Begin(c, command, kind, t, o, p), up' = up, served' = served
      PROVE  GoneInv'
  <2>1. pc' = [pc EXCEPT ![c] = p] /\ comm' = comm
    BY <1>1 DEF Begin
  <2>2. \A k \in Cli : pc'[k] = pc[k] \/ pc'[k] \notin {"idle", "stopping"}
    BY <1>0, <2>1 DEF TypeOK
  <2> QED BY <1>1, <2>1, <2>2, GoneFrame
<1>2. CASE StartServer(c)
  <2>1. /\ Quiescent /\ comm' = comm /\ pc' = [pc EXCEPT ![c] = "init"] /\ up'
    BY <1>2 DEF StartServer, Begin
  <2>2. \A k \in Cli : comm'[k] = "none"
    BY <2>1 DEF GoneInv, Quiescent
  <2> QED BY <2>1, <2>2 DEF GoneInv
<1>3. CASE StopDaemon(c)
  <2>1. /\ pc[c] = "idle" /\ pc' = [pc EXCEPT ![c] = "stopping", ![Daemon] = "dead"]
        /\ up' = up /\ served' = served /\ comm' = [comm EXCEPT ![Daemon] = "none"]
    BY <1>3 DEF StopDaemon, Forget, serverVars
  <2>2. /\ \A k \in Cli : comm'[k] = comm[k]
        /\ \A k \in Cli \ {c} : pc'[k] = pc[k]
    BY <1>0, <2>1, ProcessPlaces DEF TypeOK
  <2>3. comm'[c] = "none"
    BY <2>1, <2>2 DEF GoneInv
  <2> QED BY <2>1, <2>2, <2>3, GoneFrame
<1>4. CASE AddPort(c)
  BY <1>1, <1>4 DEF AddPort, serverVars
<1>5. CASE RemovePort(c)
  BY <1>1, <1>5 DEF RemovePort, serverVars
<1>6. CASE UpdateDatacap(c)
  BY <1>1, <1>6 DEF UpdateDatacap, serverVars
<1>7. CASE ResetUsage(c)
  BY <1>1, <1>7 DEF ResetUsage, serverVars
<1>8. CASE ResetAllUsage(c)
  BY <1>1, <1>8 DEF ResetAllUsage, serverVars
<1>9. CASE ImportFrom(c)
  BY <1>1, <1>9 DEF ImportFrom, serverVars
<1>10. CASE StartFoundServer(c)
  BY <1>1, <1>10 DEF StartFoundServer, serverVars
<1> QED BY <1>2, <1>3, <1>4, <1>5, <1>6, <1>7, <1>8, <1>9, <1>10 DEF Command

LEMMA GoneCliStep ==
  ASSUME TypeOK, GoneInv, NEW c \in Cli, CliStep(c)
  PROVE  GoneInv'
<1>0. c \in Proc /\ c # Daemon /\ Daemon \in Proc /\ \A k \in Cli : k \in Proc /\ k # Daemon
  BY CliAssumption DEF Proc
<1>1. CASE MethodStep(c)
  BY <1>0, <1>1, GoneMethod
<1>2. CASE InitAfterImport(c)
  <2>1. /\ up' = up /\ served' = served /\ comm' = comm /\ pc' = [pc EXCEPT ![c] = "init"]
    BY <1>2 DEF InitAfterImport, serverVars
  <2>2. \A k \in Cli : pc'[k] = pc[k] \/ pc'[k] = "init"
    BY <1>0, <2>1 DEF TypeOK
  <2> QED BY <2>1, <2>2, GoneFrame
<1>3. CASE StopServer(c)
  <2>1. /\ ~up' /\ served' = FreshServer /\ pc' = [pc EXCEPT ![c] = "idle"]
        /\ pc[c] = "stopping" /\ comm' = [x \in Proc |-> Stale(comm[x])]
    BY <1>3 DEF StopServer, ServerGone
  <2>2. \A p \in Port : served'[p] = NotServed
    BY <2>1 DEF FreshServer, ServerPort
  <2>3. \A k \in Cli : pc'[k] \in {"idle", "stopping"} => comm'[k] = "none"
    BY <1>0, <2>1 DEF GoneInv, Stale, TypeOK
  <2> QED BY <2>1, <2>2, <2>3 DEF GoneInv
<1>4. CASE SpawnDaemon(c) \/ SignalDaemon(c) \/ ExitQuietly(c)
  <2>1. /\ up' = up /\ served' = served /\ comm' = [comm EXCEPT ![c] = "none"]
        /\ \E d : pc' = [pc EXCEPT ![c] = "idle", ![Daemon] = d]
    <3>1. pc' = [pc EXCEPT ![c] = "idle"] =>
            pc' = [pc EXCEPT ![c] = "idle", ![Daemon] = pc[Daemon]]
      BY <1>0 DEF TypeOK
    <3>2. CASE SpawnDaemon(c) \/ ExitQuietly(c)
      <4>1. SpawnDaemon(c) => \E d : pc' = [pc EXCEPT ![c] = "idle", ![Daemon] = d]
        <5>1. SpawnDaemon(c) =>
                pc' = [pc EXCEPT ![c] = "idle",
                           ![Daemon] = IF pc[Daemon] = "dead" /\ up THEN "boot" ELSE pc[Daemon]]
          BY <1>0 DEF SpawnDaemon, TypeOK
        <5> QED BY <5>1
      <4> QED BY <3>1, <3>2, <4>1 DEF SpawnDaemon, ExitQuietly, CliExits, Forget, serverVars
    <3>3. CASE SignalDaemon(c)
      BY <3>1, <3>3 DEF SignalDaemon, Forget, serverVars
    <3> QED BY <1>4, <3>2, <3>3
  <2>2. /\ comm'[c] = "none" /\ \A k \in Cli \ {c} : comm'[k] = comm[k]
        /\ \A k \in Cli \ {c} : pc'[k] = pc[k]
    BY <1>0, <2>1, ProcessPlaces DEF TypeOK
  <2> QED BY <2>1, <2>2, GoneFrame
<1> QED BY <1>1, <1>2, <1>3, <1>4 DEF CliStep

LEMMA GoneDaemonStep ==
  ASSUME TypeOK, GoneInv, DaemonStep \/ DaemonKilled
  PROVE  GoneInv'
<1>0. Daemon \in Proc /\ \A k \in Cli : k \in Proc /\ k # Daemon
  BY CliAssumption DEF Proc
<1>1. CASE MethodStep(Daemon)
  BY <1>0, <1>1, GoneMethod
<1>2. CASE ~MethodStep(Daemon)
  <2>1. /\ up' = up /\ served' = served
        /\ comm' = comm \/ comm' = [comm EXCEPT ![Daemon] = "none"]
        /\ \E d : pc' = [pc EXCEPT ![Daemon] = d]
    <3>1. CASE DaemonBoot \/ DaemonArm \/ Receive \/ Construct \/ Load \/ DaemonKilled
      BY <3>1 DEF DaemonBoot, DaemonArm, Receive, Construct, Load, DaemonKilled,
                  DaemonExits, Forget, serverVars
    <3>2. CASE HandleStat \/ HandleTimeout \/ HandleOther \/ PingIfAsked \/ ClearFlag
      BY <3>2 DEF HandleStat, HandleTimeout, HandleOther, PingIfAsked, ClearFlag, Ping,
                  DaemonExits, Forget, serverVars
    <3> QED BY <1>2, <3>1, <3>2 DEF DaemonStep
  <2>2. \A k \in Cli : comm'[k] = comm[k] /\ pc'[k] = pc[k]
    BY <1>0, <2>1 DEF TypeOK
  <2> QED BY <2>1, <2>2, GoneFrame
<1> QED BY <1>1, <1>2

LEMMA GoneNext ==
  ASSUME Serial, TypeOK, GoneInv, [Next]_vars
  PROVE  GoneInv'
<1>1. CASE ServerStep
  <2>1. CASE ServerCrash
    <3>1. /\ ~up' /\ served' = FreshServer /\ pc' = pc
          /\ comm' = [x \in Proc |-> Stale(comm[x])]
      BY <2>1 DEF ServerCrash, ServerGone
    <3>2. \A p \in Port : served'[p] = NotServed
      BY <3>1 DEF FreshServer, ServerPort
    <3>3. \A c \in Cli : pc'[c] \in {"idle", "stopping"} => comm'[c] = "none"
      BY <3>1 DEF GoneInv, Stale, Proc
    <3> QED BY <3>1, <3>2, <3>3 DEF GoneInv
  <2>2. CASE SendStat \/ \E p \in Port : Traffic(p)
    BY <2>2, GoneFrame DEF SendStat, Traffic
  <2> QED BY <1>1, <2>1, <2>2 DEF ServerStep
<1>2. CASE UNCHANGED vars
  BY <1>2, GoneFrame DEF vars, serverVars
<1> QED BY <1>1, <1>2, GoneCommand, GoneCliStep, GoneDaemonStep DEF Next

-----------------------------------------------------------------------------
(* Who a table lists. *)

\* What a line is read as is a user, so a file lists the same ports over any table.
LEMMA LoadLists ==
  ASSUME NEW f \in File, NEW t \in Table
  PROVE  Managed(LoadTable(f, t)) = Managed(LoadTable(f, EmptyTable))
<1>1. ASSUME NEW u \in Table, NEW p \in Port
      PROVE  LoadTable(f, u)[p] # NoUser <=> \E i \in Slot : IsLastLine(f, p, i)
  <2>1. CASE \E i \in Slot : IsLastLine(f, p, i)
    <3> DEFINE k == CHOOSE i \in Slot : IsLastLine(f, p, i)
    <3>1. k \in Slot /\ f[k] # NoLine
      BY <2>1 DEF IsLastLine
    <3> HIDE DEF k
    <3>2. f[k] \in Line /\ u[p] \in User \cup {NoUser}
      BY <3>1 DEF File, Table
    <3>3. UserOf(f[k], u[p]) \in User
      BY <3>2, CapAssumption, BlankAssumption DEF UserOf, Line, User
    <3>4. LoadTable(f, u)[p] = UserOf(f[k], u[p])
      BY <2>1 DEF LoadTable, k
    <3> QED BY <2>1, <3>3, <3>4, NoUserAssumption
  <2>2. CASE ~\E i \in Slot : IsLastLine(f, p, i)
    BY <2>2 DEF LoadTable
  <2> QED BY <2>1, <2>2
<1> QED BY <1>1, EmptyType DEF Managed

\* A port that has a line in the file is listed.
LEMMA LineListed ==
  ASSUME TypeOK, NEW i \in Slot, conf[i] # NoLine
  PROVE  conf[i].port \in Managed(Current)
<1> DEFINE p == conf[i].port
           k == CHOOSE j \in Slot : IsLastLine(conf, p, j)
<1>1. \E j \in Slot : IsLastLine(conf, p, j)
  BY LastLine
<1>2. k \in Slot /\ conf[k] # NoLine /\ p \in Port
  BY <1>1 DEF IsLastLine, TypeOK, File, Line
<1> HIDE DEF k
<1>3. conf[k] \in Line
  BY <1>2 DEF TypeOK, File
<1>4. UserOf(conf[k], EmptyTable[p]) \in User
  BY <1>2, <1>3, CapAssumption, BlankAssumption DEF UserOf, Line, User, EmptyTable
<1>5. Current[p] = UserOf(conf[k], EmptyTable[p])
  BY <1>1, <1>2 DEF Current, LoadTable, k
<1> QED BY <1>2, <1>4, <1>5, NoUserAssumption DEF Managed

\* A report lists nobody new and drops nobody.
LEMMA BilledLists ==
  ASSUME NEW t \in Table, NEW u, Billed(t, u)
  PROVE  Managed(u) = Managed(t)
<1>1. PICK d \in [Port -> Nat] : u = AddData(t, d)
  BY DEF Billed
<1>2. ASSUME NEW p \in Port PROVE u[p] # NoUser <=> t[p] # NoUser
  <2>1. CASE t[p] = NoUser
    BY <1>1, <2>1 DEF AddData
  <2>2. CASE t[p] # NoUser
    <3>1. t[p] \in User /\ d[p] \in Nat
      BY <2>2 DEF Table
    <3>2. u[p] = [t[p] EXCEPT !.usage = @ + d[p]]
      BY <1>1, <2>2 DEF AddData
    <3>3. u[p] \in User
      BY <3>1, <3>2 DEF User
    <3> QED BY <2>2, <3>3, NoUserAssumption
  <2> QED BY <2>1, <2>2
<1> QED BY <1>2 DEF Managed

(***************************************************************************)
(* What load and the daemon's reload add has a line, what init adds is a   *)
(* user, and refresh adds nobody.                                          *)
(***************************************************************************)
LEMMA RequestsList ==
  /\ \A f, t : \A r \in ReloadRequests(f, t) :
       r.kind = "add" /\ \E i \in Slot : f[i] # NoLine /\ r.port = f[i].port
  /\ \A t : \A r \in InitRequests(t) : r.kind = "add" => r.port \in Managed(t)
  /\ \A t : \A r \in RefreshRequests(t) : r.kind = "remove"
<1>1. \A f, t : \A r \in ReloadRequests(f, t) :
        r.kind = "add" /\ \E i \in Slot : f[i] # NoLine /\ r.port = f[i].port
  BY DEF ReloadRequests, AddRequest
<1>2. ASSUME NEW t, NEW r \in InitRequests(t), r.kind = "add"
      PROVE  r.port \in Managed(t)
  BY <1>2 DEF InitRequests, AddRequest, RemoveRequest
<1>3. \A t : \A r \in RefreshRequests(t) : r.kind = "remove"
  BY DEF RefreshRequests, RemoveRequest
<1> QED BY <1>1, <1>2, <1>3

-----------------------------------------------------------------------------
(* Who is served is listed. *)

\* A process that is in no step of a method promises nothing.
LEMMA ServesNothing ==
  ASSUME NEW x \in Proc, ~Works(x)' \/ pc'[x] \notin {"request", "open", "refresh", "init"}
  PROVE  ServesListed(x)' /\ ~Editing(x)'
<1>1. ~Works(x)' => pc'[x] \notin {"request", "open", "refresh", "init"}
  BY DEF Works
<1> QED BY <1>1 DEF ServesListed, Editing

(***************************************************************************)
(* Nobody new is served, the book lists who it listed, and no command has  *)
(* an edit in hand.                                                        *)
(***************************************************************************)
LEMMA ListedKept ==
  ASSUME ListedInv, \A x \in Proc : ~Editing(x),
         \A p \in Port : served'[p] = served[p] \/ served'[p] = NotServed,
         Managed(Book) \subseteq Managed(Book)',
         \A x \in Proc : ServesListed(x)'
  PROVE  ListedInv'
<1>1. OnlyListed'
  BY DEF ListedInv, OnlyListed
<1> QED BY <1>1 DEF ListedInv

(***************************************************************************)
(* Steps that leave the processes alone and let ssserver serve no more.    *)
(***************************************************************************)
LEMMA ListedApart ==
  ASSUME ListedInv, UNCHANGED <<conf, pc, users, out>>,
         \A p \in Port : served'[p] = served[p] \/ served'[p] = NotServed
  PROVE  ListedInv'
<1>1. Current' = Current /\ Book' = Book /\ \A x \in Proc : Editing(x)' <=> Editing(x)
  BY DEF Current, Book, Writers, Editing
<1>2. ASSUME NEW x \in Proc PROVE ServesListed(x)'
  BY <1>1 DEF ListedInv, ServesListed, AddsListed, Editing
<1>3. OnlyListed => OnlyListed'
  BY <1>1 DEF OnlyListed
<1> QED BY <1>1, <1>2, <1>3 DEF ListedInv

(***************************************************************************)
(* A request: who is added is listed, and a removal that is sent is done.  *)
(***************************************************************************)
LEMMA ListedSendRequest ==
  ASSUME TypeOK, FileInv, ListedInv, NEW x \in Proc, SendRequest(x)
  PROVE  ListedInv'
<1>1. PICK r \in out[x] : /\ out' = [out EXCEPT ![x] = @ \ {r}]
                          /\ served' = Obey(served, r)
  BY DEF SendRequest
<1>2. /\ UNCHANGED <<conf, pc, users, constructed>>
      /\ pc[x] \in {"request", "refresh", "init"} /\ Works(x)
  BY DEF SendRequest, Sending, daemonVars, Works
<1>3. /\ out'[x] = out[x] \ {r} /\ r \in Request
      /\ served \in [ServerPort -> Password \cup {NotServed}]
  BY <1>1 DEF TypeOK
<1>4. r.kind = "add" \/ r.kind = "remove"
  BY <1>3 DEF Request
<1>5. \A p \in Port : served'[p] # NotServed =>
        \/ served[p] # NotServed /\ ~(r.kind = "remove" /\ r.port = p)
        \/ r.kind = "add" /\ r.port = p
  BY <1>1, <1>3, <1>4 DEF Obey, ServerPort
<1>6. \A y \in Proc \ {x} : ~Works(y)'
  BY <1>2, MethodAlone DEF FileInv
<1>7. \A y \in Proc \ {x} : ServesListed(y)' /\ ~Editing(y)'
  BY <1>6, ServesNothing
<1>8. ServesListed(x)
  BY DEF ListedInv
<1>9. Current' = Current /\ Book' = Book /\ \A y \in Proc : Editing(y)' <=> Editing(y)
  BY <1>2 DEF Current, Book, Writers, Editing
<1>10. \A t : AddsListed(x, t) => \A q \in out'[x] : q.kind = "add" => q.port \in Managed(t)
  BY <1>3 DEF AddsListed
<1>11. CASE Editing(x)
  <2>1. /\ pc[x] = "request" /\ x \in Cli
        /\ AddsListed(x, users[x])
        /\ \A p \in Port : served[p] # NotServed =>
             p \in Managed(users[x]) \/ \E q \in out[x] : q.kind = "remove" /\ q.port = p
    BY <1>2, <1>8, <1>11 DEF Editing, ServesListed
  <2>2. \A p \in Port : served'[p] # NotServed =>
          p \in Managed(users[x]) \/ \E q \in out'[x] : q.kind = "remove" /\ q.port = p
    BY <1>3, <1>5, <2>1 DEF AddsListed
  <2>3. x # Daemon
    BY <2>1, CliAssumption
  <2>4. ServesListed(x)'
    BY <1>2, <1>9, <1>10, <1>11, <2>1, <2>2, <2>3 DEF ServesListed, AddsListed, Editing
  <2> QED BY <1>7, <1>9, <1>11, <2>4 DEF ListedInv
<1>12. CASE ~Editing(x)
  <2>1. \A y \in Proc : ~Editing(y)
    BY <1>7, <1>9, <1>12
  <2>2. Book = Current
    <3>1. \A y \in Proc : pc[y] # "write"
      BY <1>2, OneWriter
    <3> QED BY <3>1, BookOfFile
  <2>3. r.kind = "add" => r.port \in Managed(Current)
    <3>1. pc[x] \in {"refresh", "init"} \/ (x = Daemon /\ pc[x] = "request")
      BY <1>2, <1>12 DEF Editing, Proc
    <3> QED BY <1>8, <3>1 DEF ServesListed, AddsListed
  <2>4. OnlyListed'
    BY <1>5, <1>9, <2>1, <2>2, <2>3 DEF ListedInv, OnlyListed
  <2>5. ServesListed(x)'
    BY <1>2, <1>8, <1>9, <1>10, <1>12 DEF ServesListed, AddsListed, Editing
  <2> QED BY <1>7, <2>4, <2>5 DEF ListedInv
<1> QED BY <1>11, <1>12

(***************************************************************************)
(* A command that gives up has found no ssserver, so nobody is served; the *)
(* daemon has changed nothing yet.                                         *)
(***************************************************************************)
LEMMA ListedSendFails ==
  ASSUME TypeOK, FileInv, GoneInv, ListedInv, NEW x \in Proc, SendFails(x)
  PROVE  ListedInv'
<1>1. /\ pc[x] \in {"request", "refresh", "init"} /\ served' = served /\ conf' = conf
      /\ ~up \/ comm[x] = "stale"
      /\ \E v \in {"dead", "idle"} : pc' = [pc EXCEPT ![x] = v]
      /\ x # Daemon => constructed' = constructed
  BY DEF SendFails, Sending, DaemonExits, CliExits, daemonVars, serverVars
<1>2. pc'[x] \in {"dead", "idle"} /\ \A y \in Proc \ {x} : pc'[y] = pc[y]
  BY <1>1 DEF TypeOK
<1>3. Works(x)
  BY <1>1 DEF Works
<1>4. \A y \in Proc \ {x} : ~Works(y)'
  BY <1>1, <1>2, <1>3, OthersRest DEF FileInv
<1>5. \A y \in Proc : ServesListed(y)'
  BY <1>2, <1>4, ServesNothing
<1>6. CASE x \in Cli
  BY <1>1, <1>5, <1>6 DEF ListedInv, OnlyListed, GoneInv
<1>7. CASE x = Daemon
  <2>1. \A y \in Proc : pc[y] # "write" /\ ~Editing(y)
    <3>1. \A y \in Proc \ {x} : ~Works(y)
      BY <1>3 DEF FileInv, OneAtATime
    <3> QED BY <1>1, <1>7, <3>1, CliAssumption DEF Works, Editing
  <2>2. \A y \in Proc : pc'[y] # "write"
    BY <1>2, <2>1
  <2>3. Book = Current /\ Book' = Current' /\ Current' = Current
    BY <1>1, <2>1, <2>2, BookOfFile, BooksNext DEF Current
  <2> QED BY <1>1, <1>5, <2>1, <2>3, ListedKept
<1> QED BY <1>6, <1>7 DEF Proc

(***************************************************************************)
(* When the file is opened, the table that is written lists who is served. *)
(***************************************************************************)
LEMMA ListedTruncate ==
  ASSUME TypeOK, FileInv, FileInv', ListedInv, NEW x \in Proc, Truncate(x)
  PROVE  ListedInv'
<1>1. /\ pc[x] = "open" \/ (x \in Cli /\ pc[x] = "request" /\ out[x] = {})
      /\ pc' = [pc EXCEPT ![x] = "write"] /\ users' = users /\ served' = served
      /\ constructed' = constructed
  BY DEF Truncate, serverVars, daemonVars
<1>2. pc'[x] = "write" /\ \A y \in Proc \ {x} : pc'[y] = pc[y]
  BY <1>1 DEF TypeOK
<1>3. Works(x) /\ \A y \in Proc \ {x} : ~Works(y)'
  BY <1>1, <1>2, MethodAlone DEF FileInv
<1>4. \A y \in Proc : ServesListed(y)'
  BY <1>2, <1>3, ServesNothing
<1>5. Book' = users[x]
  BY <1>1, <1>2, BooksNext
<1>6. \A p \in Port : served[p] # NotServed => p \in Managed(users[x])
  <2>1. CASE x \in Cli
    <3>1. out[x] = {} /\ Editing(x)
      BY <1>1, <2>1 DEF ListedInv, ServesListed, Editing
    <3> QED BY <3>1 DEF ListedInv, ServesListed
  <2>2. CASE x = Daemon
    <3>1. pc[Daemon] = "open"
      BY <1>1, <2>2, CliAssumption
    <3>2. \A y \in Proc \ {x} : pc[y] # "write" /\ ~Editing(y)
      <4>1. \A y \in Proc \ {x} : ~Works(y)
        BY <1>3 DEF FileInv, OneAtATime
      <4> QED BY <4>1 DEF Works, Editing
    <3>3. Book = Current
      BY <2>2, <3>1, <3>2, BookOfFile
    <3>4. OnlyListed
      BY <2>2, <3>2, CliAssumption DEF ListedInv, Editing
    <3>5. Managed(users[x]) = Managed(Current)
      BY <2>2, <3>1, BilledLists, CurrentType DEF FileInv, InStep
    <3> QED BY <3>3, <3>4, <3>5 DEF OnlyListed
  <2> QED BY <2>1, <2>2 DEF Proc
<1>7. OnlyListed'
  BY <1>1, <1>5, <1>6 DEF OnlyListed
<1> QED BY <1>4, <1>7 DEF ListedInv

(***************************************************************************)
(* While it is written, and when it is closed, the book is the same.       *)
(***************************************************************************)
LEMMA ListedWriting ==
  ASSUME TypeOK, FileInv, FileInv', ListedInv, NEW x \in Proc, WriteLine(x) \/ CloseConf(x)
  PROVE  ListedInv'
<1>1. /\ pc[x] = "write" /\ users' = users /\ served' = served /\ Works(x)
      /\ constructed' = constructed
  BY DEF WriteLine, CloseConf, Works, serverVars, daemonVars
<1>2. \A y \in Proc \ {x} : ~Works(y) /\ ~Editing(y) /\ pc[y] # "write"
  <2>1. \A y \in Proc \ {x} : ~Works(y)
    BY <1>1 DEF FileInv, OneAtATime
  <2> QED BY <2>1 DEF Works, Editing
<1>3. ~Editing(x) /\ Book = users[x]
  BY <1>1, BookOfWriter DEF Editing
<1>4. CASE WriteLine(x)
  <2>1. pc' = pc
    BY <1>4 DEF WriteLine
  <2>2. Book' = users[x]
    BY <1>1, <2>1, BooksNext
  <2>3. \A y \in Proc \ {x} : ~Works(y)'
    BY <1>1, <1>2, <2>1 DEF Works
  <2>4. \A y \in Proc : ServesListed(y)'
    BY <1>1, <2>1, <2>3, ServesNothing
  <2> QED BY <1>1, <1>2, <1>3, <2>2, <2>4, ListedKept
<1>5. CASE CloseConf(x)
  <2>1. /\ pc' = [pc EXCEPT ![x] = "refresh"] /\ conf' = conf /\ left[x] = {}
        /\ out' = [out EXCEPT ![x] = RefreshRequests(users[x])]
    BY <1>5 DEF CloseConf
  <2>2. /\ pc'[x] = "refresh" /\ out'[x] = RefreshRequests(users[x])
        /\ \A y \in Proc \ {x} : pc'[y] = pc[y]
    BY <2>1 DEF TypeOK
  <2>3. Current = users[x] /\ Current' = Current
    BY <1>1, <2>1, ReadBack DEF FileInv, InStep, Current
  <2>4. Book' = Current
    BY <1>2, <2>2, <2>3, BooksNext
  <2>5. \A y \in Proc \ {x} : ~Works(y)'
    BY <1>1, <1>2, <2>2 DEF Works
  <2>6. ServesListed(x)'
    BY <1>1, <2>2, <2>3, RequestsList DEF ServesListed, AddsListed, Editing
  <2>7. \A y \in Proc : ServesListed(y)'
    BY <2>5, <2>6, ServesNothing
  <2> QED BY <1>1, <1>2, <1>3, <2>3, <2>4, <2>7, ListedKept
<1> QED BY <1>4, <1>5

LEMMA ListedMethod ==
  ASSUME TypeOK, FileInv, FileInv', GoneInv, ListedInv, NEW x \in Proc, MethodStep(x)
  PROVE  ListedInv'
BY ListedSendRequest, ListedSendFails, ListedTruncate, ListedWriting DEF MethodStep

(***************************************************************************)
(* A command that begins to edit holds a table that lists who is served,   *)
(* or has their removal to send.                                           *)
(***************************************************************************)
LEMMA ListedBegin ==
  ASSUME Serial, TypeOK, FileInv, ListedInv, NEW c \in Cli, NEW command, NEW kind, NEW t,
         NEW o, NEW p \in {"request", "open", "spawn", "init"},
         Begin(c, command, kind, t, o, p),
         \A q \in Port : served'[q] = served[q] \/ served'[q] = NotServed,
         p = "open" => o = {},
         p \in {"request", "init"} => \A r \in o : r.kind = "add" => r.port \in Managed(t),
         p = "init" => t = Current,
         p \in {"request", "open"} =>
           \A q \in Managed(Current) :
             q \in Managed(t) \/ \E r \in o : r.kind = "remove" /\ r.port = q
  PROVE  ListedInv'
<1>0. c \in Proc /\ c # Daemon /\ Daemon \in Proc
  BY CliAssumption DEF Proc
<1>1. /\ Quiescent /\ pc' = [pc EXCEPT ![c] = p] /\ conf' = conf
      /\ constructed' = constructed /\ users' = [users EXCEPT ![c] = t]
      /\ out' = [out EXCEPT ![c] = o]
  BY DEF Begin, daemonVars
<1>2. /\ pc'[c] = p /\ users'[c] = t /\ out'[c] = o
      /\ \A y \in Proc \ {c} : pc'[y] = pc[y]
  BY <1>0, <1>1 DEF TypeOK
<1>3. /\ \A y \in Proc : pc[y] # "write" /\ ~Editing(y)
      /\ \A y \in Proc \ {c} : ~Works(y)'
  BY <1>1, <1>2 DEF Works, Quiescent, Proc, Editing
<1>4. Book = Current /\ Current' = Current
  BY <1>1, <1>3, BookOfFile DEF Current
<1>5. \A q \in Port : served'[q] # NotServed => q \in Managed(Current)
  BY <1>3, <1>4 DEF ListedInv, OnlyListed
<1>6. ServesListed(c)'
  <2>1. CASE p \in {"request", "open"}
    BY <1>0, <1>2, <1>5, <2>1 DEF ServesListed, AddsListed, Editing
  <2>2. CASE p \in {"init", "spawn"}
    BY <1>0, <1>2, <1>4, <2>2 DEF ServesListed, AddsListed, Editing
  <2> QED BY <2>1, <2>2
<1>7. \A y \in Proc : ServesListed(y)' /\ (y # c => ~Editing(y)')
  BY <1>3, <1>6, ServesNothing
<1>8. (\A y \in Proc : ~Editing(y)') => OnlyListed'
  <2>1. ASSUME \A y \in Proc : ~Editing(y)' PROVE OnlyListed'
    <3>1. \A y \in Proc : pc'[y] # "write"
      BY <1>2, <1>3
    <3>2. Book' = Current
      BY <1>4, <3>1, BooksNext
    <3> QED BY <1>5, <3>2 DEF OnlyListed
  <2> QED BY <2>1
<1> QED BY <1>7, <1>8 DEF ListedInv

(***************************************************************************)
(* What each command leaves in memory lists who is served.                 *)
(***************************************************************************)
LEMMA ListedCommand ==
  ASSUME Serial, FilesListAll, TypeOK, FileInv, ListedInv, NEW c \in Cli, Command(c)
  PROVE  ListedInv'
<1>0. Current \in [Port -> User \cup {NoUser}]
  BY CurrentType DEF Table
<1>1. CASE AddPort(c)
  <2>1. PICK p \in Port, w \in Password, k \in Caps :
          LET known == p \in Managed(Current)
              u == [pw |-> w, cap |-> k,
                    usage |-> IF known THEN Current[p].usage ELSE 0]
              o == (IF known THEN {RemoveRequest(0, p)} ELSE {})
                     \cup {AddRequest(1, p, w)}
          IN  Begin(c, "add", "edit", [Current EXCEPT ![p] = u], o, "request")
    BY <1>1 DEF AddPort
  <2> DEFINE known == p \in Managed(Current)
             u == [pw |-> w, cap |-> k,
                   usage |-> IF known THEN Current[p].usage ELSE 0]
             t == [Current EXCEPT ![p] = u]
             o == (IF known THEN {RemoveRequest(0, p)} ELSE {})
                    \cup {AddRequest(1, p, w)}
  <2>2. Begin(c, "add", "edit", t, o, "request") /\ served' = served
    BY <1>1, <2>1 DEF AddPort, serverVars
  <2>3. u \in User
    BY <1>0, InputAssumption DEF Managed, User
  <2> HIDE DEF u
  <2>4. t[p] # NoUser /\ \A q \in Port \ {p} : t[q] = Current[q]
    BY <1>0, <2>3, NoUserAssumption
  <2>5. \A r \in o : r.kind = "add" => r.port = p
    BY DEF RemoveRequest, AddRequest
  <2> HIDE DEF o, t
  <2>6. p \in Managed(t) /\ Managed(Current) \subseteq Managed(t)
    BY <2>4 DEF Managed
  <2> QED BY <2>2, <2>5, <2>6, ListedBegin
<1>2. CASE RemovePort(c)
  <2>1. PICK p \in Managed(Current) :
          /\ Begin(c, "remove", "edit", [Current EXCEPT ![p] = NoUser],
                   {RemoveRequest(0, p)}, "request")
          /\ served' = served
    BY <1>2 DEF RemovePort, serverVars
  <2> DEFINE t == [Current EXCEPT ![p] = NoUser]
             o == {RemoveRequest(0, p)}
  <2>2. \A q \in Managed(Current) : q \in Managed(t) \/ q = p
    BY <1>0 DEF Managed
  <2>3. \E r \in o : r.kind = "remove" /\ r.port = p
    BY DEF RemoveRequest
  <2>4. \A r \in o : r.kind # "add"
    BY DEF RemoveRequest
  <2> HIDE DEF t, o
  <2>5. Begin(c, "remove", "edit", t, o, "request")
    BY <2>1 DEF t, o
  <2> QED BY <2>1, <2>2, <2>3, <2>4, <2>5, ListedBegin
<1>3. ASSUME NEW p \in Managed(Current), NEW u \in User, NEW command, NEW kind,
             Begin(c, command, kind, [Current EXCEPT ![p] = u], {}, "open"), served' = served
      PROVE  ListedInv'
  <2> DEFINE t == [Current EXCEPT ![p] = u]
  <2>1. Managed(Current) \subseteq Managed(t)
    BY <1>0, NoUserAssumption DEF Managed
  <2> HIDE DEF t
  <2>2. Begin(c, command, kind, t, {}, "open")
    BY <1>3 DEF t
  <2> QED BY <1>3, <2>1, <2>2, ListedBegin
<1>4. CASE UpdateDatacap(c)
  <2>1. PICK p \in Managed(Current), k \in Caps :
          Begin(c, "limit", "edit", [Current EXCEPT ![p].cap = k], {}, "open")
    BY <1>4 DEF UpdateDatacap
  <2>2. [Current[p] EXCEPT !.cap = k] \in User
    BY <1>0, InputAssumption DEF Managed, User
  <2> QED BY <1>3, <1>4, <2>1, <2>2 DEF UpdateDatacap, serverVars
<1>5. CASE ResetUsage(c)
  <2>1. PICK p \in Managed(Current) :
          Begin(c, "reset", "edit", [Current EXCEPT ![p].usage = 0], {}, "open")
    BY <1>5 DEF ResetUsage
  <2>2. [Current[p] EXCEPT !.usage = 0] \in User
    BY <1>0 DEF Managed, User
  <2> QED BY <1>3, <1>5, <2>1, <2>2 DEF ResetUsage, serverVars
<1>6. CASE ResetAllUsage(c)
  <2> DEFINE t == [p \in Port |-> IF Current[p] = NoUser THEN NoUser
                                  ELSE [Current[p] EXCEPT !.usage = 0]]
  <2>1. Begin(c, "reset_all", "quiet", t, {}, "open") /\ served' = served
    BY <1>6 DEF ResetAllUsage, serverVars
  <2>2. ASSUME NEW p \in Port, Current[p] # NoUser PROVE t[p] # NoUser
    <3>1. [Current[p] EXCEPT !.usage = 0] \in User
      BY <1>0, <2>2 DEF User
    <3> QED BY <2>2, <3>1, NoUserAssumption
  <2> HIDE DEF t
  <2>3. Managed(Current) \subseteq Managed(t)
    BY <2>2 DEF Managed
  <2> QED BY <2>1, <2>3, ListedBegin
<1>7. CASE ImportFrom(c)
  <2>1. PICK f \in Inputs :
          /\ Begin(c, "load", "load", LoadTable(f, Current),
                   ReloadRequests(f, Current), "request")
          /\ served' = served
    BY <1>7 DEF ImportFrom, serverVars
  <2>2. f \in File
    BY InputAssumption DEF File
  <2>3. Managed(LoadTable(f, Current)) = Port
    BY <2>1, <2>2, LoadLists, CurrentType DEF FilesListAll, Begin
  <2>4. \A r \in ReloadRequests(f, Current) : r.port \in Port
    <3>1. \A i \in Slot : f[i] # NoLine => f[i].port \in Port
      BY <2>2 DEF File, Line
    <3> QED BY <3>1, RequestsList
  <2>5. Managed(Current) \subseteq Port
    BY DEF Managed
  <2> QED BY <2>1, <2>3, <2>4, <2>5, ListedBegin
<1>8. CASE StartServer(c)
  <2>1. /\ Begin(c, "start", "start", Current, InitRequests(Current), "init")
        /\ \E w \in Password : served' = [FreshServer EXCEPT ![Placeholder] = w]
    BY <1>8 DEF StartServer
  <2>2. \A q \in Port : served'[q] = NotServed
    BY <2>1, PlaceholderAssumption DEF FreshServer, ServerPort
  <2> QED BY <2>1, <2>2, RequestsList, ListedBegin
<1>9. CASE StartFoundServer(c)
  <2>1. Begin(c, "start", "start", Current, {}, "spawn") /\ served' = served
    BY <1>9 DEF StartFoundServer, serverVars
  <2> QED BY <2>1, ListedBegin
<1>10. CASE StopDaemon(c)
  <2>1. /\ Quiescent /\ pc' = [pc EXCEPT ![c] = "stopping", ![Daemon] = "dead"]
        /\ conf' = conf /\ served' = served
    BY <1>10 DEF StopDaemon, serverVars
  <2>2. /\ pc'[c] = "stopping" /\ pc'[Daemon] = "dead"
        /\ \A k \in Cli \ {c} : pc'[k] = pc[k]
    BY <2>1, ProcessPlaces
  <2>3. /\ \A y \in Proc : pc[y] # "write" /\ ~Editing(y)
        /\ \A y \in Proc : pc'[y] \in {"idle", "dead", "stopping"}
    BY <2>1, <2>2 DEF Quiescent, Proc, Editing
  <2>4. \A y \in Proc : ServesListed(y)'
    BY <2>3, ServesNothing
  <2>5. Book = Current /\ Book' = Current' /\ Current' = Current
    BY <2>1, <2>3, BookOfFile, BooksNext DEF Current
  <2> QED BY <2>1, <2>3, <2>4, <2>5, ListedKept
<1> QED BY <1>1, <1>2, <1>4, <1>5, <1>6, <1>7, <1>8, <1>9, <1>10 DEF Command

(***************************************************************************)
(* A command that goes on adds whom it has written.                        *)
(***************************************************************************)
LEMMA ListedCliStep ==
  ASSUME TypeOK, FileInv, FileInv', GoneInv, ListedInv, NEW c \in Cli, CliStep(c)
  PROVE  ListedInv'
<1>0. c \in Proc /\ c # Daemon /\ Daemon \in Proc
  BY CliAssumption DEF Proc
<1>1. CASE MethodStep(c)
  BY <1>0, <1>1, ListedMethod
<1>2. CASE ~MethodStep(c)
  <2>1. /\ \A y \in Proc : pc[y] # "write" /\ pc'[y] \notin {"write", "request", "open"}
        /\ \A y \in Proc : pc'[y] \notin {"refresh", "init"} \/ (y = c /\ InitAfterImport(c))
        /\ \A k \in Cli : pc[k] \notin {"request", "open"}
        /\ conf' = conf
    BY <1>2, CommandPlaces
  <2>2. \A p \in Port : served'[p] = served[p] \/ served'[p] = NotServed
    BY <1>2 DEF CliStep, InitAfterImport, SpawnDaemon, StopServer, ServerGone, SignalDaemon,
                ExitQuietly, serverVars, FreshServer, ServerPort
  <2>3. ASSUME InitAfterImport(c) PROVE ServesListed(c)'
    <3>1. /\ pc[c] = "refresh" /\ pc' = [pc EXCEPT ![c] = "init"]
          /\ out' = [out EXCEPT ![c] = IF up THEN InitRequests(users[c]) ELSE {}]
      BY <2>3 DEF InitAfterImport
    <3>2. users[c] = Current /\ Current' = Current /\ pc'[c] = "init"
      BY <1>0, <2>1, <3>1 DEF ListedInv, ServesListed, Current, TypeOK
    <3>3. \A r \in out'[c] : r.kind = "add" => r.port \in Managed(Current)
      BY <1>0, <3>1, <3>2, RequestsList DEF TypeOK
    <3> QED BY <1>0, <3>2, <3>3 DEF ServesListed, AddsListed, Editing
  <2>4. ASSUME NEW y \in Proc PROVE ServesListed(y)'
    <3>1. CASE y = c /\ InitAfterImport(c)
      BY <2>3, <3>1
    <3>2. CASE ~(y = c /\ InitAfterImport(c))
      BY <2>1, <3>2, ServesNothing
    <3> QED BY <3>1, <3>2
  <2>5. Book = Current /\ Book' = Current' /\ Current' = Current
    BY <2>1, BookOfFile, BooksNext DEF Current
  <2>6. \A y \in Proc : ~Editing(y)
    BY <2>1 DEF Editing
  <2> QED BY <2>2, <2>4, <2>5, <2>6, ListedKept
<1> QED BY <1>1, <1>2

(***************************************************************************)
(* What the daemon adds when it loads the file has a line in it.           *)
(***************************************************************************)
LEMMA ListedDaemonStep ==
  ASSUME Serial, TypeOK, FileInv, FileInv', GoneInv, ListedInv, DaemonStep
  PROVE  ListedInv'
<1>0. Daemon \in Proc /\ \A k \in Cli : k # Daemon
  BY CliAssumption DEF Proc
<1>1. CASE MethodStep(Daemon)
  BY <1>0, <1>1, ListedMethod
<1>2. CASE ~MethodStep(Daemon)
  <2>1. /\ \A y \in Proc : pc[y] # "write" /\ pc'[y] # "write"
        /\ \A k \in Cli : pc[k] = "idle" /\ pc'[k] = "idle"
        /\ pc'[Daemon] = "request" => Load
        /\ pc'[Daemon] \notin {"refresh", "init"}
        /\ conf' = conf
    BY <1>2, DaemonPlaces
  <2>2. served' = served
    <3>1. CASE DaemonBoot \/ DaemonArm \/ Receive \/ Construct \/ Load
      BY <3>1 DEF DaemonBoot, DaemonArm, Receive, Construct, Load, serverVars
    <3>2. CASE HandleStat \/ HandleTimeout \/ HandleOther \/ PingIfAsked \/ ClearFlag
      BY <3>2 DEF HandleStat, HandleTimeout, HandleOther, PingIfAsked, ClearFlag, Ping,
                  serverVars
    <3> QED BY <1>2, <3>1, <3>2 DEF DaemonStep
  <2>3. Current' = Current
    BY <2>1 DEF Current
  <2>4. ASSUME Load PROVE ServesListed(Daemon)'
    <3>1. /\ out' = [out EXCEPT ![Daemon] = ReloadRequests(conf, users[Daemon])]
          /\ pc' = [pc EXCEPT ![Daemon] = "request"]
      BY <2>4 DEF Load
    <3>2. /\ out'[Daemon] = ReloadRequests(conf, users[Daemon])
          /\ pc'[Daemon] = "request"
      BY <1>0, <3>1 DEF TypeOK
    <3>3. \A r \in out'[Daemon] : r.port \in Managed(Current)
      BY <3>2, RequestsList, LineListed
    <3> QED BY <1>0, <2>3, <3>2, <3>3 DEF ServesListed, AddsListed, Editing
  <2>5. ASSUME NEW y \in Proc PROVE ServesListed(y)'
    <3>1. CASE y = Daemon /\ pc'[Daemon] = "request"
      BY <2>1, <2>4, <3>1
    <3>2. CASE y = Daemon /\ pc'[Daemon] # "request"
      BY <1>0, <2>1, <3>2 DEF ServesListed, Editing
    <3>3. CASE y \in Cli
      BY <2>1, <3>3, ServesNothing
    <3> QED BY <3>1, <3>2, <3>3 DEF Proc
  <2>6. Book = Current /\ Book' = Current'
    BY <2>1, BookOfFile, BooksNext
  <2>7. \A y \in Proc : ~Editing(y)
    BY <2>1 DEF Editing
  <2> QED BY <2>2, <2>3, <2>5, <2>6, <2>7, ListedKept
<1> QED BY <1>1, <1>2

-----------------------------------------------------------------------------
ListedHolds == Holds /\ GoneInv /\ ListedInv

LEMMA ListedInit == ASSUME Init PROVE ListedHolds
<1>1. Daemon \in Proc /\ \A c \in Cli : c \in Proc /\ c # Daemon
  BY CliAssumption DEF Proc
<1>2. /\ \A x \in Proc : pc[x] \in {"idle", "receive", "dead"}
      /\ \A c \in Cli : comm[c] = "none"
  BY <1>1 DEF Init
<1>3. \A p \in Port : served[p] = NotServed
  BY DEF Init, FreshServer, ServerPort
<1>4. \A x \in Proc : ServesListed(x)
  BY <1>2 DEF ServesListed, Editing
<1>5. OnlyListed /\ GoneInv
  BY <1>2, <1>3 DEF OnlyListed, GoneInv
<1> QED BY <1>4, <1>5, HoldsInit DEF ListedHolds, ListedInv

LEMMA ListedNext ==
  ASSUME Serial, "sswatcherd" \notin Mortal, FilesListAll, ListedHolds, [Next]_vars
  PROVE  ListedHolds'
<1>0. Holds /\ TypeOK /\ FileInv /\ GoneInv /\ ListedInv
  BY DEF ListedHolds, Holds
<1>1. Holds' /\ FileInv'
  BY <1>0, HoldsNext DEF Holds
<1>2. GoneInv'
  BY <1>0, GoneNext
<1>3. ASSUME ServerStep \/ UNCHANGED vars PROVE ListedInv'
  <2>1. /\ UNCHANGED <<conf, pc, users, out>>
        /\ \A p \in Port : served'[p] = served[p] \/ served'[p] = NotServed
    BY <1>3 DEF ServerStep, SendStat, ServerCrash, ServerGone, Traffic, FreshServer,
                ServerPort, vars, serverVars
  <2> QED BY <1>0, <2>1, ListedApart
<1>4. ASSUME NEW c \in Cli, Command(c) \/ CliStep(c) PROVE ListedInv'
  BY <1>0, <1>1, <1>4, ListedCommand, ListedCliStep
<1>5. ASSUME DaemonStep PROVE ListedInv'
  BY <1>0, <1>1, <1>5, ListedDaemonStep
<1>6. ~DaemonKilled
  BY DEF DaemonKilled
<1>7. ListedInv'
  BY <1>3, <1>4, <1>5, <1>6 DEF Next
<1> QED BY <1>1, <1>2, <1>7 DEF ListedHolds

(***************************************************************************)
(* At rest ssserver serves no port that the file does not list: a command  *)
(* that drops a user has sent the removal before it writes the file, and   *)
(* nothing that load_conf, init_ss or the daemon sends later brings the    *)
(* user back (remove_port operation.cpp:256, load_conf operation.cpp:141). *)
(* For any ports, caps, commands and deaths of ssserver, one operation     *)
(* after the other, if nobody kills the daemon and every file that is      *)
(* loaded lists every port: a load that drops a user tells ssserver        *)
(* nothing, which claim_listed shows.                                      *)
(***************************************************************************)
THEOREM ServesOnlyListed ==
  ASSUME Serial, "sswatcherd" \notin Mortal, FilesListAll
  PROVE  Spec => []ServedOnlyConfigured
<1>1. Init => ListedHolds
  BY ListedInit
<1>2. ListedHolds /\ [Next]_vars => ListedHolds'
  BY ListedNext
<1>3. ListedHolds => ServedOnlyConfigured
  <2> SUFFICES ASSUME ListedInv, Quiescent PROVE ServedOnlyConfigured
    BY DEF ListedHolds, ServedOnlyConfigured
  <2>1. \A x \in Proc : pc[x] # "write" /\ ~Editing(x)
    BY DEF Quiescent, Proc, Editing
  <2>2. Book = Current
    BY <2>1, BookOfFile
  <2> QED BY <2>1, <2>2 DEF ListedInv, OnlyListed, ServedOnlyConfigured
<1> QED BY <1>1, <1>2, <1>3, PTL DEF Spec
-----------------------------------------------------------------------------
(***************************************************************************)
(* Who is below the cap is served with the configured password at rest.    *)
(* A process that has requests to send brings that about when it has sent  *)
(* them all; a cap that is raised or lifted is left to the daemon, which   *)
(* has the old one in memory and sees the difference when it next loads    *)
(* the file.                                                               *)
(***************************************************************************)

\* What ssserver has for port p, v, is the password of the user, or nothing.
Loyal(p, t, v) == v = NotServed \/ (t[p] # NoUser /\ v = t[p].pw)

\* ... and it is nothing only if there is no user below the cap.
Suits(p, t, v) ==
  /\ Loyal(p, t, v)
  /\ t[p] # NoUser /\ ~IsOverDatacap(t[p]) => v # NotServed

\* The daemon is about to load the file, and has another cap in memory.
WillNotice(p, t) ==
  /\ pc[Daemon] \in {"receive", "load"} /\ constructed
  /\ t[p] # NoUser /\ users[Daemon][p] # NoUser
  /\ users[Daemon][p].cap # t[p].cap

SuitsSoon(p, t, v) == Suits(p, t, v) \/ (Loyal(p, t, v) /\ WillNotice(p, t))

Asks(o, kind, p) == {r \in o : r.kind = kind /\ r.port = p}

\* When ssserver serves s and the requests o are sent, it has v for port p.
Told(o, s, p, v) ==
  /\ \A a \in Asks(o, "add", p) :
       a.pw = v /\ \A q \in Asks(o, "remove", p) : q.ord < a.ord
  /\ Asks(o, "remove", p) = {} =>
       s[p] = v \/ (s[p] = NotServed /\ Asks(o, "add", p) # {})
  /\ Asks(o, "add", p) = {} /\ Asks(o, "remove", p) # {} => v = NotServed

InMethod == {"request", "open", "write", "refresh"}

TellsRight(x) ==
  /\ x \in Cli /\ job[x] # "load" /\ pc[x] \in InMethod =>
       \A p \in Port : \E v : Told(out[x], served, p, v) /\ SuitsSoon(p, users[x], v)
  /\ pc[x] = "init" \/ (x = Daemon /\ pc[x] \in {"request", "refresh"}) =>
       \A p \in Port : \E v : Told(out[x], served, p, v) /\ Suits(p, Current, v)
  /\ x = Daemon /\ pc[x] \in {"open", "write"} =>
       \A p \in Port : Suits(p, users[x], served[p])
  /\ pc[x] = "spawn" => \A p \in Port : Suits(p, Current, served[p])

\* Nobody is inside of a method.
Resting == (\A c \in Cli : pc[c] = "idle") /\ pc[Daemon] \notin InMethod

ServedInv ==
  up => /\ \A x \in Proc : TellsRight(x)
        /\ Resting => \A p \in Port : SuitsSoon(p, Current, served[p])

(***************************************************************************)
(* The daemon lives and is connected while ssserver runs, but for a start  *)
(* and a stop; a process that writes has nothing left to send; and no      *)
(* command ends without a signal.                                          *)
(***************************************************************************)
Attends(c) == pc[c] = "stopping" \/ (pc[c] \in {"init", "spawn"} /\ job[c] = "start")

Does(c) ==
  /\ pc[c] \in InMethod => job[c] \in {"edit", "load"}
  /\ pc[c] = "init" => job[c] \in {"load", "start"}
  /\ pc[c] = "spawn" => job[c] = "start"

Attended ==
  /\ up /\ pc[Daemon] = "dead" => \E c \in Cli : Attends(c)
  /\ link = IF pc[Daemon] \in {"dead", "boot"} THEN "none" ELSE "live"
  /\ \A x \in Proc : pc[x] \in {"open", "write"} => out[x] = {}
  /\ \A c \in Cli : Does(c)

-----------------------------------------------------------------------------
(* What requests make of what is served. *)

LEMMA ToldNothing ==
  ASSUME NEW s, NEW p, NEW v
  PROVE  Told({}, s, p, v) <=> s[p] = v
BY DEF Told, Asks

\* Requests about other ports.
LEMMA ToldElsewhere ==
  ASSUME NEW o, NEW s, NEW p, \A r \in o : r.port # p
  PROVE  Told(o, s, p, s[p])
BY DEF Told, Asks

LEMMA ToldType ==
  ASSUME NEW o \in SUBSET Request, NEW r \in o
  PROVE  r.kind \in {"add", "remove"} /\ r.ord \in Nat
BY DEF Request

(***************************************************************************)
(* The first request is obeyed, and the others are as right as before.     *)
(***************************************************************************)
LEMMA ToldNext ==
  ASSUME NEW o \in SUBSET Request, NEW s \in [ServerPort -> Password \cup {NotServed}],
         NEW r \in o, \A q \in o : r.ord <= q.ord, NEW p \in Port, NEW v,
         Told(o, s, p, v)
  PROVE  Told(o \ {r}, Obey(s, r), p, v)
<1> DEFINE u == o \ {r}
           z == Obey(s, r)
<1>0. p \in ServerPort /\ r.kind \in {"add", "remove"} /\ \A q \in o : q.ord \in Nat
  BY ToldType DEF ServerPort
<1>1. CASE r.port # p
  <2>1. z[p] = s[p]
    BY <1>0, <1>1 DEF Obey
  <2>2. \A kind : Asks(u, kind, p) = Asks(o, kind, p)
    BY <1>1 DEF Asks
  <2> QED BY <2>1, <2>2 DEF Told
<1>2. CASE r.port = p /\ r.kind = "remove"
  <2>1. z[p] = NotServed
    BY <1>0, <1>2 DEF Obey
  <2>2. /\ Asks(u, "add", p) = Asks(o, "add", p)
        /\ Asks(u, "remove", p) \subseteq Asks(o, "remove", p)
        /\ Asks(o, "remove", p) # {}
    BY <1>2 DEF Asks
  <2>3. Asks(o, "add", p) = {} => v = NotServed
    BY <2>2 DEF Told
  <2> HIDE DEF u, z
  <2> QED BY <2>1, <2>2, <2>3 DEF Told, u, z
<1>3. CASE r.port = p /\ r.kind = "add"
  <2>1. r.pw = v /\ Asks(o, "remove", p) = {}
    <3>1. r \in Asks(o, "add", p)
      BY <1>3 DEF Asks
    <3>2. ASSUME NEW q \in Asks(o, "remove", p) PROVE FALSE
      <4>1. q.ord < r.ord /\ q \in o
        BY <3>1, <3>2 DEF Told, Asks
      <4> QED BY <1>0, <4>1
    <3> QED BY <3>1, <3>2 DEF Told
  <2>2. z[p] = IF s[p] = NotServed THEN v ELSE s[p]
    BY <1>0, <1>3, <2>1 DEF Obey
  <2>3. z[p] = v
    BY <2>1, <2>2 DEF Told
  <2>4. /\ Asks(u, "remove", p) = {}
        /\ Asks(u, "add", p) \subseteq Asks(o, "add", p)
    BY <2>1 DEF Asks
  <2> HIDE DEF u, z
  <2> QED BY <2>3, <2>4 DEF Told, u, z
<1> QED BY <1>0, <1>1, <1>2, <1>3

(***************************************************************************)
(* refresh_all_users cuts off the users over the cap, and leaves the       *)
(* others as they are.                                                     *)
(***************************************************************************)
LEMMA ToldRefresh ==
  ASSUME NEW t, NEW s, NEW p \in Port
  PROVE  Told(RefreshRequests(t), s, p, IF IsOverDatacap(t[p]) THEN NotServed ELSE s[p])
<1> DEFINE o == RefreshRequests(t)
<1>1. Asks(o, "add", p) = {}
  BY DEF Asks, RefreshRequests, RemoveRequest
<1>2. CASE IsOverDatacap(t[p])
  <2>1. RemoveRequest(p, p) \in Asks(o, "remove", p)
    BY <1>2 DEF Asks, RefreshRequests, RemoveRequest
  <2> HIDE DEF o
  <2> QED BY <1>1, <1>2, <2>1 DEF Told, o
<1>3. CASE ~IsOverDatacap(t[p])
  <2>1. Asks(o, "remove", p) = {}
    BY <1>3 DEF Asks, RefreshRequests, RemoveRequest
  <2> HIDE DEF o
  <2> QED BY <1>1, <1>3, <2>1 DEF Told, o
<1> QED BY <1>2, <1>3

LEMMA SuitsRefreshed ==
  ASSUME NEW t, NEW p, NEW v, Suits(p, t, v) \/ Loyal(p, t, v)
  PROVE  /\ Suits(p, t, v) => Suits(p, t, IF IsOverDatacap(t[p]) THEN NotServed ELSE v)
         /\ Loyal(p, t, IF IsOverDatacap(t[p]) THEN NotServed ELSE v)
BY DEF Suits, Loyal, IsOverDatacap

(***************************************************************************)
(* init_ss serves who is below the cap, and nobody else.                   *)
(***************************************************************************)
LEMMA ToldInit ==
  ASSUME NEW t \in Table, NEW s, NEW p \in Port, s[p] = NotServed \/ t[p] # NoUser
  PROVE  \E v : Told(InitRequests(t), s, p, v) /\ Suits(p, t, v)
<1> DEFINE o == InitRequests(t)
           due == t[p] # NoUser /\ ~IsOverDatacap(t[p])
           a == AddRequest(2 * p + 2, p, t[p].pw)
           d == RemoveRequest(2 * p + 1, p)
<1>0. p \in Nat /\ p # Placeholder
  BY PortAssumption, PlaceholderAssumption
<1>1. Asks(o, "add", p) = IF due THEN {a} ELSE {}
  BY <1>0 DEF Asks, InitRequests, AddRequest, RemoveRequest, Managed
<1>2. Asks(o, "remove", p) = IF t[p] # NoUser THEN {d} ELSE {}
  BY <1>0 DEF Asks, InitRequests, AddRequest, RemoveRequest, Managed
<1>3. a.pw = t[p].pw /\ a.ord = 2 * p + 2 /\ d.ord = 2 * p + 1
  BY DEF AddRequest, RemoveRequest
<1>4. d.ord < a.ord
  BY <1>0, <1>3
<1> HIDE DEF o, a, d
<1>5. CASE due
  <2>1. Told(o, s, p, t[p].pw)
    BY <1>1, <1>2, <1>3, <1>4, <1>5 DEF Told
  <2>2. t[p].pw # NotServed
    BY <1>5, NotServedAssumption DEF Table, User
  <2> QED BY <1>5, <2>1, <2>2 DEF Suits, Loyal, o
<1>6. CASE ~due
  <2>1. Told(o, s, p, NotServed)
    BY <1>1, <1>2, <1>6 DEF Told
  <2> QED BY <1>6, <2>1 DEF Suits, Loyal, o
<1> QED BY <1>5, <1>6

(***************************************************************************)
(* A line of the file says what the table has of its port.                 *)
(***************************************************************************)
LEMMA TidyLine ==
  ASSUME TypeOK, TidyFile, NEW i \in Slot, conf[i] # NoLine, NEW u
  PROVE  /\ conf[i].port \in Port
         /\ UserOf(conf[i], u) = Current[conf[i].port]
         /\ conf[i].pw = Current[conf[i].port].pw
<1> DEFINE p == conf[i].port
           k == CHOOSE j \in Slot : IsLastLine(conf, p, j)
<1>1. p \in Port /\ \E j \in Slot : IsLastLine(conf, p, j)
  BY LastLine DEF TypeOK, File, Line
<1>2. Current[p] = UserOf(conf[k], EmptyTable[p])
  BY <1>1 DEF Current, LoadTable
<1>3. conf[k] = conf[i]
  BY <1>1 DEF TidyFile, IsLastLine
<1>4. conf[i].cap \in Nat /\ conf[i].usage \in Nat
  BY DEF TidyFile
<1>5. conf[i].cap # Blank /\ conf[i].usage # Blank
  BY <1>4, BlankAssumption
<1> HIDE DEF k
<1>6. \A w : UserOf(conf[i], w) =
                [pw |-> conf[i].pw, cap |-> conf[i].cap, usage |-> conf[i].usage]
  BY <1>5 DEF UserOf
<1>7. Current[p] = [pw |-> conf[i].pw, cap |-> conf[i].cap, usage |-> conf[i].usage]
  BY <1>2, <1>3, <1>6
<1> QED BY <1>1, <1>6, <1>7

(***************************************************************************)
(* The daemon that loads the file brings back who got a higher cap.        *)
(***************************************************************************)
LEMMA ToldReload ==
  ASSUME TypeOK, TidyFile, NEW p \in Port, pc[Daemon] = "load",
         SuitsSoon(p, Current, served[p])
  PROVE  \E v : /\ Told(ReloadRequests(conf, users[Daemon]), served, p, v)
                /\ Suits(p, Current, v)
<1> DEFINE u == users[Daemon]
           o == ReloadRequests(conf, u)
           Noticed == /\ u[p] # NoUser /\ Current[p] # NoUser
                      /\ Current[p].cap # u[p].cap /\ ~IsOverDatacap(Current[p])
<1>1. Asks(o, "remove", p) = {}
  BY DEF Asks, ReloadRequests, AddRequest
<1>2. ASSUME NEW a \in Asks(o, "add", p)
      PROVE  a.pw = Current[p].pw /\ Current[p] # NoUser /\ Noticed
  <2>1. PICK i \in Slot :
          /\ conf[i] # NoLine /\ a = AddRequest(i, conf[i].port, conf[i].pw)
          /\ u[conf[i].port] # NoUser
          /\ UserOf(conf[i], u[conf[i].port]).cap # u[conf[i].port].cap
          /\ ~IsOverDatacap(UserOf(conf[i], u[conf[i].port]))
    BY <1>2 DEF ReloadRequests, Asks
  <2>2. conf[i].port = p /\ a.pw = conf[i].pw
    BY <1>2, <2>1 DEF Asks, AddRequest
  <2>3. UserOf(conf[i], u[p]) = Current[p] /\ conf[i].pw = Current[p].pw
    BY <2>1, <2>2, TidyLine
  <2>4. p \in Managed(Current)
    BY <2>1, <2>2, LineListed
  <2> QED BY <2>1, <2>2, <2>3, <2>4 DEF Managed
<1>3. ASSUME Noticed PROVE Asks(o, "add", p) # {}
  <2>1. PICK i \in Slot : IsLastLine(conf, p, i)
    BY <1>3 DEF Current, LoadTable
  <2>2. conf[i] # NoLine /\ conf[i].port = p
    BY <2>1 DEF IsLastLine
  <2>3. UserOf(conf[i], u[p]) = Current[p]
    BY <2>2, TidyLine
  <2>4. AddRequest(i, p, conf[i].pw) \in o
    BY <1>3, <2>2, <2>3 DEF ReloadRequests
  <2>5. AddRequest(i, p, conf[i].pw) \in Asks(o, "add", p)
    BY <2>4 DEF Asks, AddRequest
  <2> QED BY <2>5
<1>4. Loyal(p, Current, served[p])
  BY DEF SuitsSoon, Suits
<1> HIDE DEF o
<1>5. CASE Asks(o, "add", p) # {}
  <2>1. Noticed
    BY <1>2, <1>5
  <2>2. Told(o, served, p, Current[p].pw)
    BY <1>1, <1>2, <1>4, <1>5 DEF Told, Loyal
  <2>3. Current[p].pw # NotServed
    BY <2>1, CurrentType, NotServedAssumption DEF Table, User
  <2> QED BY <2>1, <2>2, <2>3 DEF Suits, Loyal, o
<1>6. CASE Asks(o, "add", p) = {}
  <2>1. Told(o, served, p, served[p])
    BY <1>1, <1>6 DEF Told
  <2>2. ~Noticed
    BY <1>3, <1>6
  <2>3. Suits(p, Current, served[p])
    BY <1>4, <2>2 DEF SuitsSoon, Suits, WillNotice
  <2> QED BY <2>1, <2>3 DEF o
<1> QED BY <1>5, <1>6

-----------------------------------------------------------------------------
(* Who attends to ssserver. *)

(***************************************************************************)
(* Steps that leave ssserver and the daemon alone.                         *)
(***************************************************************************)
LEMMA AttendedFrame ==
  ASSUME Attended, up' = up, link' = link, pc'[Daemon] = pc[Daemon],
         \A x \in Proc : pc'[x] \in {"open", "write"} => out'[x] = {},
         \A c \in Cli : Does(c)' /\ (Attends(c) => Attends(c)')
  PROVE  Attended'
BY DEF Attended

LEMMA AttendedMethod ==
  ASSUME TypeOK, CutOffInv, Attended, NEW x \in Proc, MethodStep(x)
  PROVE  Attended'
<1>0. /\ Daemon \in Proc /\ \A c \in Cli : c \in Proc /\ c # Daemon
      /\ \A y \in Proc : y # Daemon => y \in Cli
  BY CliAssumption DEF Proc
<1>1. CASE SendRequest(x)
  <2>1. /\ UNCHANGED <<up, link, pc, job>>
        /\ \E r \in out[x] : out' = [out EXCEPT ![x] = @ \ {r}]
    BY <1>1 DEF SendRequest, cliVars, daemonVars
  <2>2. \A y \in Proc : out'[y] \subseteq out[y]
    BY <2>1 DEF TypeOK
  <2> QED BY <2>1, <2>2 DEF Attended, Attends, Does
<1>2. CASE SendFails(x)
  <2>1. /\ ~up' /\ x # Daemon /\ link' = link /\ CliExits(x)
    BY <1>0, <1>2 DEF SendFails, Sending, CutOffInv, Connected, serverVars, daemonVars
  <2>2. pc' = [pc EXCEPT ![x] = "idle"] /\ out' = [out EXCEPT ![x] = {}]
        /\ job' = [job EXCEPT ![x] = "none"]
    BY <2>1 DEF CliExits, Forget
  <2>3. /\ pc'[x] = "idle" /\ \A y \in Proc \ {x} : pc'[y] = pc[y]
        /\ \A y \in Proc : out'[y] = out[y] \/ out'[y] = {}
        /\ \A c \in Cli \ {x} : job'[c] = job[c]
    BY <1>0, <2>2 DEF TypeOK
  <2> QED BY <1>0, <2>1, <2>3 DEF Attended, Does, InMethod
<1>3. CASE Truncate(x) \/ WriteLine(x) \/ CloseConf(x)
  <2>1. /\ UNCHANGED <<up, link, job>> /\ pc[x] \in InMethod
        /\ \E v \in {"write", "refresh"} :
             pc' = [pc EXCEPT ![x] = v] /\ (v = "write" => out' = out)
        /\ \A y \in Proc \ {x} : out'[y] = out[y]
        /\ pc[x] = "request" => out[x] = {}
    <3>1. CASE Truncate(x)
      BY <3>1 DEF Truncate, serverVars, daemonVars, cliVars, InMethod
    <3>2. CASE WriteLine(x)
      BY <3>2 DEF WriteLine, serverVars, daemonVars, cliVars, InMethod, TypeOK
    <3>3. CASE CloseConf(x)
      BY <3>3 DEF CloseConf, serverVars, daemonVars, cliVars, InMethod, TypeOK
    <3> QED BY <1>3, <3>1, <3>2, <3>3
  <2>2. /\ pc'[x] \in {"write", "refresh"} /\ (pc'[x] = "write" => out' = out)
        /\ \A y \in Proc \ {x} : pc'[y] = pc[y]
    BY <2>1 DEF TypeOK
  <2>3. pc'[x] = "write" => out'[x] = {}
    <3>1. pc'[x] = "write" => pc[x] # "refresh"
      BY <1>3, <2>2 DEF Truncate, WriteLine, CloseConf, TypeOK
    <3> QED BY <2>1, <2>2, <3>1 DEF Attended, InMethod
  <2>4. \A c \in Cli : Does(c)' /\ (Attends(c) => Attends(c)')
    BY <1>0, <2>1, <2>2 DEF Attended, Does, Attends, InMethod
  <2>5. \A y \in Proc : pc'[y] \in {"open", "write"} => out'[y] = {}
    BY <2>1, <2>2, <2>3 DEF Attended
  <2>6. CASE x # Daemon
    BY <1>0, <2>1, <2>2, <2>4, <2>5, <2>6, AttendedFrame
  <2>7. CASE x = Daemon
    BY <1>0, <2>1, <2>2, <2>4, <2>5, <2>7 DEF Attended, InMethod
  <2> QED BY <2>6, <2>7
<1> QED BY <1>1, <1>2, <1>3 DEF MethodStep

LEMMA AttendedBegin ==
  ASSUME Serial, TypeOK, Attended, NEW c \in Cli, NEW command, NEW kind, NEW t, NEW o,
         NEW p \in {"request", "open", "spawn", "init"},
         Begin(c, command, kind, t, o, p),
         p = "open" => o = {},
         p \in {"request", "open"} => kind \in {"edit", "load"},
         p \in {"spawn", "init"} => kind = "start",
         up' = up \/ p = "init"
  PROVE  Attended'
<1>0. c \in Proc /\ c # Daemon /\ Daemon \in Proc /\ \A k \in Cli : k \in Proc /\ k # Daemon
  BY CliAssumption DEF Proc
<1>1. /\ pc' = [pc EXCEPT ![c] = p] /\ link' = link /\ out' = [out EXCEPT ![c] = o]
      /\ job' = [job EXCEPT ![c] = kind] /\ pc[c] = "idle"
  BY DEF Begin, daemonVars
<1>2. /\ pc'[c] = p /\ out'[c] = o /\ job'[c] = kind
      /\ \A y \in Proc \ {c} : pc'[y] = pc[y] /\ out'[y] = out[y]
      /\ \A k \in Cli \ {c} : job'[k] = job[k]
  BY <1>0, <1>1 DEF TypeOK
<1>3. \A y \in Proc : pc'[y] \in {"open", "write"} => out'[y] = {}
  BY <1>2 DEF Attended
<1>4. \A k \in Cli : Does(k)' /\ (Attends(k) => Attends(k)')
  BY <1>0, <1>1, <1>2 DEF Attended, Does, Attends, InMethod
<1>5. p = "init" => Attends(c)'
  BY <1>2 DEF Attends
<1> QED BY <1>0, <1>1, <1>2, <1>3, <1>4, <1>5 DEF Attended

LEMMA AttendedCommand ==
  ASSUME Serial, {"reset", "reset_all"} \cap Commands = {}, TypeOK, Attended,
         NEW c \in Cli, Command(c)
  PROVE  Attended'
<1>0. c \in Proc /\ c # Daemon /\ Daemon \in Proc /\ \A k \in Cli : k \in Proc /\ k # Daemon
  BY CliAssumption DEF Proc
<1>1. CASE AddPort(c)
  BY <1>1, AttendedBegin DEF AddPort, serverVars
<1>2. CASE RemovePort(c)
  BY <1>2, AttendedBegin DEF RemovePort, serverVars
<1>3. CASE UpdateDatacap(c)
  BY <1>3, AttendedBegin DEF UpdateDatacap, serverVars
<1>4. CASE ResetUsage(c) \/ ResetAllUsage(c)
  BY <1>4 DEF ResetUsage, ResetAllUsage, Begin
<1>5. CASE ImportFrom(c)
  BY <1>5, AttendedBegin DEF ImportFrom, serverVars
<1>6. CASE StartServer(c)
  BY <1>6, AttendedBegin DEF StartServer
<1>7. CASE StartFoundServer(c)
  BY <1>7, AttendedBegin DEF StartFoundServer, serverVars
<1>8. CASE StopDaemon(c)
  <2>1. /\ pc' = [pc EXCEPT ![c] = "stopping", ![Daemon] = "dead"]
        /\ link' = "none" /\ out' = [out EXCEPT ![Daemon] = {}] /\ job' = job
    BY <1>8 DEF StopDaemon, DaemonForgets, Forget
  <2>2. /\ pc'[c] = "stopping" /\ pc'[Daemon] = "dead"
        /\ \A k \in Cli \ {c} : pc'[k] = pc[k]
    BY <2>1, ProcessPlaces
  <2>3. \A y \in Proc : out'[y] = {} \/ out'[y] = out[y]
    BY <2>1 DEF TypeOK
  <2>4. \A y \in Proc : pc'[y] \in {"open", "write"} => out'[y] = {}
    BY <1>0, <2>2, <2>3 DEF Attended, Proc
  <2>5. \A k \in Cli : Does(k)'
    BY <1>0, <2>1, <2>2 DEF Attended, Does, InMethod
  <2> QED BY <1>0, <2>1, <2>2, <2>4, <2>5 DEF Attended, Attends
<1> QED BY <1>1, <1>2, <1>3, <1>4, <1>5, <1>6, <1>7, <1>8 DEF Command

(***************************************************************************)
(* A command that ends leaves the daemon alive, or ssserver stopped.       *)
(***************************************************************************)
LEMMA AttendedCliStep ==
  ASSUME TypeOK, FileInv, CutOffInv, Attended, NEW c \in Cli, CliStep(c)
  PROVE  Attended'
<1>0. c \in Proc /\ c # Daemon /\ Daemon \in Proc /\ \A k \in Cli : k \in Proc /\ k # Daemon
  BY CliAssumption DEF Proc
<1>1. CASE MethodStep(c)
  BY <1>0, <1>1, AttendedMethod
<1>2. CASE ~MethodStep(c)
  <2>1. /\ pc[c] \in {"refresh", "init", "spawn", "stopping"}
        /\ \A k \in Cli \ {c} : pc[k] = "idle"
        /\ pc[Daemon] \in {"dead", "receive"}
    <3>1. pc[c] \in {"refresh", "init", "spawn", "stopping"}
      BY <1>2 DEF CliStep, InitAfterImport, SpawnDaemon, StopServer, SignalDaemon,
                  ExitQuietly, Finished
    <3> QED BY <3>1, OneCommand
  <2>2. \A y \in Proc : pc'[y] \notin {"write", "open"}
    <3>1. \A y \in Proc : pc'[y] \notin {"write", "request", "open"}
      BY <1>2, CommandPlaces
    <3> QED BY <3>1
  <2>3. CASE InitAfterImport(c)
    <3>1. /\ pc' = [pc EXCEPT ![c] = "init"] /\ job' = job /\ job[c] = "load"
          /\ link' = link /\ up' = up /\ pc[c] = "refresh"
      BY <2>3 DEF InitAfterImport, cliVars, daemonVars, serverVars
    <3>2. pc'[c] = "init" /\ \A y \in Proc \ {c} : pc'[y] = pc[y]
      BY <1>0, <3>1 DEF TypeOK
    <3>3. \A k \in Cli : Does(k)' /\ (Attends(k) => Attends(k)')
      BY <1>0, <3>1, <3>2 DEF Attended, Does, Attends, InMethod
    <3> QED BY <1>0, <2>2, <3>1, <3>2, <3>3, AttendedFrame
  <2>4. CASE SpawnDaemon(c)
    <3>1. /\ pc' = [pc EXCEPT ![c] = "idle",
                        ![Daemon] = IF pc[Daemon] = "dead" /\ up THEN "boot" ELSE pc[Daemon]]
          /\ link' = link /\ up' = up /\ job' = [job EXCEPT ![c] = "none"]
      BY <1>0, <2>4 DEF SpawnDaemon, TypeOK, daemonVars, serverVars
    <3>2. /\ pc'[c] = "idle"
          /\ pc'[Daemon] = IF pc[Daemon] = "dead" /\ up THEN "boot" ELSE pc[Daemon]
          /\ \A k \in Cli \ {c} : pc'[k] = pc[k]
      BY <3>1, ProcessPlaces
    <3>3. \A k \in Cli : Does(k)'
      BY <2>1, <3>2 DEF Does, InMethod
    <3>4. pc'[Daemon] = "dead" => ~up'
      BY <3>1, <3>2
    <3>5. link' = IF pc'[Daemon] \in {"dead", "boot"} THEN "none" ELSE "live"
      BY <2>1, <3>1, <3>2 DEF Attended
    <3> QED BY <2>2, <3>3, <3>4, <3>5 DEF Attended
  <2>5. CASE StopServer(c)
    <3>1. /\ pc' = [pc EXCEPT ![c] = "idle"] /\ ~up' /\ link' = Stale(link)
          /\ pc[Daemon] = "dead"
      BY <2>5 DEF StopServer, ServerGone, CutOffInv, Connected
    <3>2. pc'[c] = "idle" /\ \A y \in Proc \ {c} : pc'[y] = pc[y]
      BY <1>0, <3>1 DEF TypeOK
    <3>3. \A k \in Cli : Does(k)'
      BY <1>0, <2>1, <3>2 DEF Does, InMethod
    <3> QED BY <1>0, <2>2, <3>1, <3>2, <3>3 DEF Attended, Stale
  <2>6. CASE SignalDaemon(c)
    <3>1. /\ link' = link /\ up' = up
          /\ pc[c] = "refresh" \/ (pc[c] = "init" /\ job[c] = "load")
          /\ \E d : /\ pc' = [pc EXCEPT ![c] = "idle", ![Daemon] = d]
                    /\ d = pc[Daemon] \/ (pc[Daemon] = "receive" /\ d \in {"load", "construct"})
      <4>1. pc' = [pc EXCEPT ![c] = "idle"] =>
              pc' = [pc EXCEPT ![c] = "idle", ![Daemon] = pc[Daemon]]
        BY <1>0 DEF TypeOK
      <4> QED BY <2>1, <2>6, <4>1 DEF SignalDaemon, Finished, daemonVars, serverVars
    <3>2. PICK d : /\ pc' = [pc EXCEPT ![c] = "idle", ![Daemon] = d]
                   /\ d = pc[Daemon] \/ (pc[Daemon] = "receive" /\ d \in {"load", "construct"})
      BY <3>1
    <3>3. pc'[c] = "idle" /\ pc'[Daemon] = d /\ \A k \in Cli \ {c} : pc'[k] = pc[k]
      BY <3>2, ProcessPlaces
    <3>4. \A k \in Cli : Does(k)'
      BY <2>1, <3>3 DEF Does, InMethod
    <3>5. pc'[Daemon] = "dead" => ~up'
      <4>1. \A k \in Cli : ~Attends(k)
        BY <2>1, <3>1 DEF Attended, Does, Attends, InMethod
      <4> QED BY <3>1, <3>2, <3>3, <4>1 DEF Attended
    <3>6. link' = IF pc'[Daemon] \in {"dead", "boot"} THEN "none" ELSE "live"
      BY <2>1, <3>1, <3>2, <3>3 DEF Attended
    <3> QED BY <2>2, <3>4, <3>5, <3>6 DEF Attended
  <2>7. ~ExitQuietly(c)
    BY DEF ExitQuietly, Finished, Attended, Does, InMethod
  <2> QED BY <1>2, <2>3, <2>4, <2>5, <2>6, <2>7 DEF CliStep
<1> QED BY <1>1, <1>2

(***************************************************************************)
(* The daemon, connected, goes through its loop and does not exit.         *)
(***************************************************************************)
LEMMA AttendedDaemonStep ==
  ASSUME TypeOK, CutOffInv, Attended, DaemonStep
  PROVE  Attended'
<1>0. Daemon \in Proc /\ \A k \in Cli : k \in Proc /\ k # Daemon
  BY CliAssumption DEF Proc
<1>1. CASE MethodStep(Daemon)
  BY <1>0, <1>1, AttendedMethod
<1>2. CASE ~MethodStep(Daemon)
  <2>1. \A d : pc' = [pc EXCEPT ![Daemon] = d] =>
          pc'[Daemon] = d /\ \A k \in Cli : pc'[k] = pc[k]
    BY <1>0 DEF TypeOK
  <2>2. /\ job' = job /\ up' = up /\ link' = "live"
        /\ pc'[Daemon] \notin {"dead", "boot", "write"}
        /\ \A k \in Cli : pc'[k] = pc[k]
        /\ pc'[Daemon] = "open" => out'[Daemon] = {}
        /\ \A k \in Cli : out'[k] = out[k]
    <3>1. pc[Daemon] # "dead" => up /\ link # "stale" /\ comm[Daemon] # "stale"
      BY <1>0 DEF CutOffInv, Connected, Attended
    <3>2. CASE DaemonBoot
      BY <2>1, <3>1, <3>2 DEF DaemonBoot, cliVars
    <3>3. CASE DaemonArm \/ Receive \/ Construct
      BY <2>1, <3>3 DEF DaemonArm, Receive, Construct, Attended, cliVars, daemonVars, serverVars
    <3>4. CASE Load
      <4>1. \A k \in Cli : out'[k] = out[k]
        BY <1>0, <3>4 DEF Load, TypeOK
      <4> QED BY <2>1, <3>4, <4>1 DEF Load, Attended, cliVars, daemonVars, serverVars
    <3>5. CASE HandleStat \/ HandleOther \/ ClearFlag
      BY <2>1, <3>5 DEF HandleStat, HandleOther, ClearFlag, Loaded, Attended, cliVars,
                  daemonVars, serverVars
    <3>6. CASE HandleTimeout \/ PingIfAsked
      BY <2>1, <3>1, <3>6 DEF HandleTimeout, PingIfAsked, Ping, Loaded, AtFlag, Attended,
                  cliVars, daemonVars, serverVars
    <3> QED BY <1>2, <3>2, <3>3, <3>4, <3>5, <3>6 DEF DaemonStep
  <2>3. \A y \in Proc : pc'[y] \in {"open", "write"} => out'[y] = {}
    BY <1>0, <2>2 DEF Attended, Proc
  <2>4. \A k \in Cli : Does(k)'
    BY <2>2 DEF Attended, Does
  <2> QED BY <2>2, <2>3, <2>4 DEF Attended
<1> QED BY <1>1, <1>2

LEMMA AttendedNext ==
  ASSUME Serial, Mortal = {}, {"reset", "reset_all"} \cap Commands = {},
         TypeOK, FileInv, CutOffInv, Attended, [Next]_vars
  PROVE  Attended'
<1>1. ASSUME ServerStep \/ UNCHANGED vars PROVE Attended'
  <2>1. UNCHANGED <<up, link, pc, out, job>>
    BY <1>1 DEF ServerStep, SendStat, ServerCrash, Traffic, vars, cliVars, daemonVars, serverVars
  <2> QED BY <2>1 DEF Attended, Does, Attends
<1>2. ~DaemonKilled
  BY DEF DaemonKilled
<1> QED BY <1>1, <1>2, AttendedCommand, AttendedCliStep, AttendedDaemonStep DEF Next

-----------------------------------------------------------------------------
(* What is served suits the table. *)

LEMMA TellsNothing ==
  ASSUME NEW x \in Proc, ~Works(x)' \/ pc'[x] \notin InMethod \cup {"init", "spawn"}
  PROVE  TellsRight(x)'
<1>1. ~Works(x)' => pc'[x] \notin InMethod \cup {"init", "spawn"}
  BY DEF Works, InMethod
<1> QED BY <1>1 DEF TellsRight, InMethod

\* When everything is sent, ssserver has what it was told.
LEMMA AllSent ==
  ASSUME NEW p, NEW v, Told({}, served, p, v)
  PROVE  v = served[p]
BY ToldNothing

(***************************************************************************)
(* While process x works, nobody else has to say anything.                 *)
(***************************************************************************)
LEMMA ServedByOne ==
  ASSUME NEW x \in Proc, \A y \in Proc \ {x} : ~Works(y)',
         IF x = Daemon THEN pc'[x] \in InMethod ELSE pc'[x] # "idle",
         up' => TellsRight(x)'
  PROVE  ServedInv'
<1>1. \A y \in Proc \ {x} : TellsRight(y)'
  BY TellsNothing
<1>2. ~Resting'
  BY DEF Resting, Proc
<1> QED BY <1>1, <1>2 DEF ServedInv

(***************************************************************************)
(* At rest nothing is due.                                                 *)
(***************************************************************************)
LEMMA ServedAtRest ==
  ASSUME ServedInv, Quiescent, up, NEW p \in Port
  PROVE  Suits(p, Current, served[p])
BY DEF ServedInv, Quiescent, Resting, InMethod, SuitsSoon, WillNotice

LEMMA ServedMethod ==
  ASSUME TypeOK, FileInv, FileInv', CutOffInv, Attended, ServedInv,
         NEW x \in Proc, MethodStep(x)
  PROVE  ServedInv'
<1>0. /\ Daemon \in Proc /\ \A c \in Cli : c \in Proc /\ c # Daemon
      /\ \A y \in Proc : y # Daemon => y \in Cli
  BY CliAssumption DEF Proc
<1>1. CASE SendRequest(x)
  <2>1. /\ UNCHANGED <<conf, pc, users, job, constructed, up>> /\ up
        /\ pc[x] \in {"request", "refresh", "init"}
    BY <1>1 DEF SendRequest, Sending, cliVars, daemonVars
  <2>2. PICK r \in out[x] : /\ \A q \in out[x] : r.ord <= q.ord
                            /\ out' = [out EXCEPT ![x] = @ \ {r}]
                            /\ served' = Obey(served, r)
    BY <1>1 DEF SendRequest
  <2>3. /\ out'[x] = out[x] \ {r} /\ out[x] \in SUBSET Request
        /\ served \in [ServerPort -> Password \cup {NotServed}]
    BY <2>2 DEF TypeOK
  <2>4. ASSUME NEW p \in Port, NEW v, Told(out[x], served, p, v)
        PROVE  Told(out'[x], served', p, v)
    BY <2>2, <2>3, <2>4, ToldNext
  <2>5. Current' = Current /\ \A p, t : WillNotice(p, t)' <=> WillNotice(p, t)
    BY <2>1 DEF Current, WillNotice
  <2>6. \A p, v : SuitsSoon(p, users[x], v)' <=> SuitsSoon(p, users[x], v)
    BY <2>1, <2>5 DEF SuitsSoon, Suits, Loyal
  <2>7. TellsRight(x)
    BY <2>1 DEF ServedInv
  <2>8. TellsRight(x)'
    <3>1. ASSUME NEW p \in Port,
                 \E v : Told(out[x], served, p, v) /\ SuitsSoon(p, users[x], v)
          PROVE  (\E v : Told(out[x], served, p, v) /\ SuitsSoon(p, users[x], v))'
      <4>1. PICK v : Told(out[x], served, p, v) /\ SuitsSoon(p, users[x], v)
        BY <3>1
      <4> QED BY <2>4, <2>6, <4>1
    <3>2. ASSUME NEW p \in Port,
                 \E v : Told(out[x], served, p, v) /\ Suits(p, Current, v)
          PROVE  (\E v : Told(out[x], served, p, v) /\ Suits(p, Current, v))'
      <4>1. PICK v : Told(out[x], served, p, v) /\ Suits(p, Current, v)
        BY <3>2
      <4>2. Suits(p, Current, v)'
        BY <2>5, <4>1 DEF Suits, Loyal
      <4> QED BY <2>4, <4>1, <4>2
    <3> QED BY <2>1, <2>7, <3>1, <3>2 DEF TellsRight, InMethod
  <2>9. \A y \in Proc \ {x} : ~Works(y)'
    BY <2>1, MethodAlone DEF FileInv
  <2>10. x = Daemon => pc[x] # "init"
    BY DEF TypeOK, DaemonPc
  <2> QED BY <1>0, <2>1, <2>8, <2>9, <2>10, ServedByOne DEF InMethod
<1>2. CASE SendFails(x)
  <2>1. ~up'
    BY <1>2 DEF SendFails, Sending, CutOffInv, Connected, serverVars
  <2> QED BY <2>1 DEF ServedInv
<1>3. CASE Truncate(x)
  <2>1. /\ UNCHANGED <<users, out, job, served, constructed, up>>
        /\ pc[x] = "open" \/ (x \in Cli /\ pc[x] = "request")
        /\ pc' = [pc EXCEPT ![x] = "write"]
    BY <1>3 DEF Truncate, cliVars, daemonVars, serverVars
  <2>2. pc'[x] = "write" /\ \A y \in Proc \ {x} : pc'[y] = pc[y]
    BY <2>1 DEF TypeOK
  <2>3. \A y \in Proc \ {x} : ~Works(y)'
    BY <2>1, <2>2, MethodAlone DEF FileInv
  <2>4. ASSUME x \in Cli, NEW p, NEW v PROVE SuitsSoon(p, users[x], v)' <=> SuitsSoon(p, users[x], v)
    <3>1. pc'[Daemon] = pc[Daemon]
      BY <1>0, <2>2, <2>4
    <3> QED BY <2>1, <3>1 DEF SuitsSoon, Suits, Loyal, WillNotice
  <2>5. up => TellsRight(x)
    BY DEF ServedInv
  <2>6. up' => TellsRight(x)'
    BY <1>0, <2>1, <2>2, <2>4, <2>5 DEF TellsRight, InMethod
  <2> QED BY <1>0, <2>2, <2>3, <2>6, ServedByOne DEF InMethod
<1>4. CASE WriteLine(x)
  <2>1. /\ UNCHANGED <<users, out, job, served, constructed, up, pc>> /\ pc[x] = "write"
    BY <1>4 DEF WriteLine, cliVars, daemonVars, serverVars
  <2>2. \A y \in Proc \ {x} : ~Works(y)'
    BY <2>1, MethodAlone DEF FileInv
  <2>3. \A p, v : SuitsSoon(p, users[x], v)' <=> SuitsSoon(p, users[x], v)
    BY <2>1 DEF SuitsSoon, Suits, Loyal, WillNotice
  <2>4. up => TellsRight(x)
    BY DEF ServedInv
  <2>5. up' => TellsRight(x)'
    BY <2>1, <2>3, <2>4 DEF TellsRight, InMethod
  <2> QED BY <1>0, <2>1, <2>2, <2>5, ServedByOne DEF InMethod
<1>5. CASE CloseConf(x)
  <2>1. /\ UNCHANGED <<conf, users, job, served, constructed, up>>
        /\ pc[x] = "write" /\ left[x] = {}
        /\ pc' = [pc EXCEPT ![x] = "refresh"]
        /\ out' = [out EXCEPT ![x] = RefreshRequests(users[x])]
    BY <1>5 DEF CloseConf, cliVars, daemonVars, serverVars
  <2>2. /\ pc'[x] = "refresh" /\ \A y \in Proc \ {x} : pc'[y] = pc[y]
        /\ out'[x] = RefreshRequests(users[x])
    BY <2>1 DEF TypeOK
  <2>3. \A y \in Proc \ {x} : ~Works(y)'
    BY <2>1, <2>2, MethodAlone DEF FileInv
  <2>4. Current = users[x] /\ Current' = Current
    BY <2>1, ReadBack DEF FileInv, InStep, Current
  <2> DEFINE v(p) == IF IsOverDatacap(users[x][p]) THEN NotServed ELSE served[p]
  <2>5. \A p \in Port : Told(out'[x], served', p, v(p))
    BY <2>1, <2>2, ToldRefresh
  <2>6. ASSUME NEW p, Suits(p, users[x], served[p]) PROVE Suits(p, users[x], v(p))
    BY <2>6, SuitsRefreshed
  <2>7. ASSUME NEW p, Loyal(p, users[x], served[p]) PROVE Loyal(p, users[x], v(p))
    BY <2>7, SuitsRefreshed
  <2>8. out[x] = {}
    BY <2>1 DEF Attended
  <2>9. up => TellsRight(x)
    BY DEF ServedInv
  <2>10. CASE x \in Cli
    <3>1. ASSUME up, job[x] # "load", NEW p \in Port
          PROVE  SuitsSoon(p, users[x], served[p])
      <4>1. PICK w : Told(out[x], served, p, w) /\ SuitsSoon(p, users[x], w)
        BY <2>1, <2>9, <2>10, <3>1 DEF TellsRight, InMethod
      <4> QED BY <2>8, <4>1, AllSent
    <3>2. pc'[Daemon] = pc[Daemon]
      BY <1>0, <2>2, <2>10
    <3>3. \A p : WillNotice(p, users[x])' <=> WillNotice(p, users[x])
      BY <2>1, <3>2 DEF WillNotice
    <3>4. ASSUME up, job[x] # "load", NEW p \in Port
          PROVE  SuitsSoon(p, users[x], v(p))'
      <4>1. Suits(p, users[x], v(p)) \/ (Loyal(p, users[x], v(p)) /\ WillNotice(p, users[x]))
        BY <2>6, <2>7, <3>1, <3>4 DEF SuitsSoon
      <4>2. v(p)' = v(p)
        BY <2>1
      <4> HIDE DEF v
      <4> QED BY <2>1, <3>3, <4>1, <4>2 DEF SuitsSoon, Suits, Loyal
    <3>5. \A p : v(p)' = v(p)
      BY <2>1
    <3> HIDE DEF v
    <3>6. ASSUME up', job'[x] # "load", NEW p \in Port
          PROVE  (\E w : Told(out[x], served, p, w) /\ SuitsSoon(p, users[x], w))'
      BY <2>1, <2>5, <3>4, <3>5, <3>6
    <3>7. up' => TellsRight(x)'
      BY <1>0, <2>2, <2>10, <3>6 DEF TellsRight, InMethod
    <3> QED BY <1>0, <2>2, <2>3, <2>10, <3>7, ServedByOne DEF InMethod
  <2>11. CASE x = Daemon
    <3>1. ASSUME up, NEW p \in Port PROVE Suits(p, Current, v(p))
      BY <1>0, <2>1, <2>4, <2>6, <2>9, <2>11, <3>1 DEF TellsRight
    <3>2. \A p : v(p)' = v(p)
      BY <2>1
    <3> HIDE DEF v
    <3>3. ASSUME up', NEW p \in Port
          PROVE  (\E w : Told(out[x], served, p, w) /\ Suits(p, Current, w))'
      <4>1. Suits(p, Current, v(p))'
        BY <2>1, <2>4, <3>1, <3>2, <3>3 DEF Suits, Loyal
      <4> QED BY <2>5, <3>2, <4>1
    <3>4. up' => TellsRight(x)'
      BY <1>0, <2>2, <2>11, <3>3 DEF TellsRight
    <3> QED BY <2>2, <2>3, <2>11, <3>4, ServedByOne DEF InMethod
  <2> QED BY <1>0, <2>10, <2>11
<1> QED BY <1>1, <1>2, <1>3, <1>4, <1>5 DEF MethodStep

LEMMA ServedBegin ==
  ASSUME Serial, TypeOK, NEW c \in Cli, NEW command, NEW kind, NEW t, NEW o,
         NEW p \in {"request", "open", "spawn", "init"},
         Begin(c, command, kind, t, o, p),
         up' /\ p \in {"request", "open"} /\ kind # "load" =>
           \A q \in Port : \E v : Told(o, served', q, v) /\ SuitsSoon(q, t, v),
         up' /\ p = "init" =>
           \A q \in Port : \E v : Told(o, served', q, v) /\ Suits(q, Current, v),
         up' /\ p = "spawn" => \A q \in Port : Suits(q, Current, served'[q])
  PROVE  ServedInv'
<1>0. c \in Proc /\ c # Daemon /\ Daemon \in Proc /\ \A k \in Cli : k \in Proc /\ k # Daemon
  BY CliAssumption DEF Proc
<1>1. /\ Quiescent /\ pc' = [pc EXCEPT ![c] = p] /\ conf' = conf
      /\ constructed' = constructed /\ users' = [users EXCEPT ![c] = t]
      /\ out' = [out EXCEPT ![c] = o] /\ job' = [job EXCEPT ![c] = kind]
  BY DEF Begin, daemonVars
<1>2. /\ pc'[c] = p /\ users'[c] = t /\ out'[c] = o /\ job'[c] = kind
      /\ users'[Daemon] = users[Daemon]
      /\ \A y \in Proc \ {c} : pc'[y] = pc[y]
  BY <1>0, <1>1 DEF TypeOK
<1>3. \A y \in Proc \ {c} : ~Works(y)'
  BY <1>1, <1>2 DEF Works, Quiescent, Proc
<1>4. Current' = Current /\ \A q, u : WillNotice(q, u) => pc'[Daemon] = pc[Daemon]
  BY <1>0, <1>1, <1>2 DEF Current
<1>5. ASSUME up', p \in {"request", "open"}, kind # "load", NEW q \in Port
      PROVE  (\E v : Told(out[c], served, q, v) /\ SuitsSoon(q, users[c], v))'
  <2>1. PICK v : Told(o, served', q, v) /\ SuitsSoon(q, t, v)
    BY <1>5
  <2>2. pc'[Daemon] = pc[Daemon]
    BY <1>0, <1>2
  <2>3. SuitsSoon(q, users[c], v)'
    BY <1>1, <1>2, <2>1, <2>2 DEF SuitsSoon, Suits, Loyal, WillNotice
  <2> QED BY <1>2, <2>1, <2>3
<1>6. ASSUME up', p = "init", NEW q \in Port
      PROVE  (\E v : Told(out[c], served, q, v) /\ Suits(q, Current, v))'
  <2>1. PICK v : Told(o, served', q, v) /\ Suits(q, Current, v)
    BY <1>6
  <2>2. Suits(q, Current, v)'
    BY <1>4, <2>1 DEF Suits, Loyal
  <2> QED BY <1>2, <2>1, <2>2
<1>7. ASSUME up', p = "spawn", NEW q \in Port PROVE Suits(q, Current, served[q])'
  BY <1>4, <1>7 DEF Suits, Loyal
<1>8. up' => TellsRight(c)'
  BY <1>0, <1>2, <1>5, <1>6, <1>7 DEF TellsRight, InMethod
<1> QED BY <1>0, <1>2, <1>3, <1>8, ServedByOne

(***************************************************************************)
(* add tells ssserver about the user, whether it is new or not.            *)
(***************************************************************************)
LEMMA ServedAddPort ==
  ASSUME Serial, TypeOK, ServedInv, NEW c \in Cli, AddPort(c)
  PROVE  ServedInv'
<1>1. PICK p \in Port, w \in Password, k \in Caps :
        LET known == p \in Managed(Current)
            u == [pw |-> w, cap |-> k,
                  usage |-> IF known THEN Current[p].usage ELSE 0]
            o == (IF known THEN {RemoveRequest(0, p)} ELSE {})
                   \cup {AddRequest(1, p, w)}
        IN  Begin(c, "add", "edit", [Current EXCEPT ![p] = u], o, "request")
  BY DEF AddPort
<1> DEFINE known == p \in Managed(Current)
           u == [pw |-> w, cap |-> k,
                 usage |-> IF known THEN Current[p].usage ELSE 0]
           t == [Current EXCEPT ![p] = u]
           a == AddRequest(1, p, w)
           d == RemoveRequest(0, p)
           o == (IF known THEN {d} ELSE {}) \cup {a}
<1>2. Begin(c, "add", "edit", t, o, "request")
  BY <1>1
<1>3. up' = up /\ served' = served /\ Quiescent
  BY <1>2 DEF AddPort, serverVars, Begin
<1>4. Current \in [Port -> User \cup {NoUser}]
  BY CurrentType DEF Table
<1>5. u \in User /\ u.pw = w /\ w # NotServed
  BY <1>4, InputAssumption, NotServedAssumption DEF Managed, User
<1> HIDE DEF u
<1>6. t[p] = u /\ \A q \in Port \ {p} : t[q] = Current[q]
  BY <1>4
<1> HIDE DEF t
<1>7. /\ a.kind = "add" /\ a.port = p /\ a.pw = w /\ a.ord = 1
      /\ d.kind = "remove" /\ d.port = p /\ d.ord = 0
  BY DEF AddRequest, RemoveRequest
<1> HIDE DEF a, d
<1>8. /\ Asks(o, "add", p) = {a}
      /\ Asks(o, "remove", p) = IF known THEN {d} ELSE {}
  BY <1>7 DEF Asks
<1>9. \A r \in o : r.port = p
  BY <1>7
<1> HIDE DEF o
<1>10. ASSUME up, NEW q \in Port
       PROVE  \E v : Told(o, served, q, v) /\ SuitsSoon(q, t, v)
  <2>1. Suits(q, Current, served[q])
    BY <1>3, <1>10, ServedAtRest
  <2>2. CASE q = p
    <3>1. ~known => served[p] = NotServed
      BY <2>1, <2>2 DEF Suits, Loyal, Managed
    <3>2. Told(o, served, p, w)
      BY <1>7, <1>8, <3>1 DEF Told
    <3>3. Suits(p, t, w)
      BY <1>5, <1>6, NoUserAssumption DEF Suits, Loyal
    <3> QED BY <2>2, <3>2, <3>3 DEF SuitsSoon
  <2>3. CASE q # p
    <3>1. Told(o, served, q, served[q])
      BY <1>9, <2>3, ToldElsewhere
    <3>2. Suits(q, t, served[q])
      BY <1>6, <2>1, <2>3 DEF Suits, Loyal
    <3> QED BY <3>1, <3>2 DEF SuitsSoon
  <2> QED BY <2>2, <2>3
<1> QED BY <1>2, <1>3, <1>10, ServedBegin

(***************************************************************************)
(* remove tells ssserver; limit does not, and leaves it to the daemon.     *)
(***************************************************************************)
LEMMA ServedRemovePort ==
  ASSUME Serial, TypeOK, ServedInv, NEW c \in Cli, RemovePort(c)
  PROVE  ServedInv'
<1>1. PICK p \in Managed(Current) :
        Begin(c, "remove", "edit", [Current EXCEPT ![p] = NoUser],
              {RemoveRequest(0, p)}, "request")
  BY DEF RemovePort
<1> DEFINE t == [Current EXCEPT ![p] = NoUser]
           d == RemoveRequest(0, p)
           o == {d}
<1>2. up' = up /\ served' = served /\ Quiescent
  BY <1>1 DEF RemovePort, serverVars, Begin
<1>3. Current \in [Port -> User \cup {NoUser}] /\ p \in Port
  BY CurrentType DEF Table, Managed
<1>4. t[p] = NoUser /\ \A q \in Port \ {p} : t[q] = Current[q]
  BY <1>3
<1>5. d.kind = "remove" /\ d.port = p
  BY DEF RemoveRequest
<1> HIDE DEF t, d
<1>6. /\ Asks(o, "add", p) = {} /\ Asks(o, "remove", p) = {d}
      /\ \A r \in o : r.port = p
  BY <1>5 DEF Asks
<1> HIDE DEF o
<1>7. ASSUME up, NEW q \in Port
      PROVE  \E v : Told(o, served, q, v) /\ SuitsSoon(q, t, v)
  <2>1. Suits(q, Current, served[q])
    BY <1>2, <1>7, ServedAtRest
  <2>2. CASE q = p
    <3>1. Told(o, served, p, NotServed)
      BY <1>6 DEF Told
    <3>2. Suits(p, t, NotServed)
      BY <1>4 DEF Suits, Loyal
    <3> QED BY <2>2, <3>1, <3>2 DEF SuitsSoon
  <2>3. CASE q # p
    <3>1. Told(o, served, q, served[q])
      BY <1>6, <2>3, ToldElsewhere
    <3>2. Suits(q, t, served[q])
      BY <1>4, <2>1, <2>3 DEF Suits, Loyal
    <3> QED BY <3>1, <3>2 DEF SuitsSoon
  <2> QED BY <2>2, <2>3
<1>8. Begin(c, "remove", "edit", t, o, "request")
  BY <1>1 DEF t, d, o
<1> QED BY <1>2, <1>7, <1>8, ServedBegin

LEMMA ServedUpdateDatacap ==
  ASSUME Serial, TypeOK, Attended, ServedInv, NEW c \in Cli, UpdateDatacap(c)
  PROVE  ServedInv'
<1>1. PICK p \in Managed(Current), k \in Caps :
        Begin(c, "limit", "edit", [Current EXCEPT ![p].cap = k], {}, "open")
  BY DEF UpdateDatacap
<1> DEFINE t == [Current EXCEPT ![p].cap = k]
           u == [Current[p] EXCEPT !.cap = k]
<1>2. up' = up /\ served' = served /\ Quiescent
  BY <1>1 DEF UpdateDatacap, serverVars, Begin
<1>3. Current \in [Port -> User \cup {NoUser}] /\ p \in Port /\ Current[p] \in User
  BY CurrentType DEF Table, Managed
<1>4. /\ u \in User /\ u.pw = Current[p].pw /\ u.usage = Current[p].usage /\ u.cap = k
      /\ Current[p] # NoUser /\ u # NoUser
  BY <1>3, InputAssumption, NoUserAssumption DEF User
<1>5. t[p] = u /\ \A q \in Port \ {p} : t[q] = Current[q]
  BY <1>3
<1> HIDE DEF t, u
<1>6. ASSUME up PROVE pc[Daemon] = "receive" /\ constructed /\ users[Daemon] = Current
  <2>1. \A x \in Cli : ~Attends(x)
    BY <1>2 DEF Quiescent, Attends
  <2> QED BY <1>2, <1>6, <2>1 DEF Quiescent, Attended
<1>7. ASSUME up, NEW q \in Port
      PROVE  \E v : Told({}, served, q, v) /\ SuitsSoon(q, t, v)
  <2>1. Suits(q, Current, served[q])
    BY <1>2, <1>7, ServedAtRest
  <2>2. Told({}, served, q, served[q])
    BY ToldNothing
  <2>3. CASE q = p
    <3>1. Loyal(p, t, served[p])
      BY <1>4, <1>5, <2>1, <2>3 DEF Suits, Loyal
    <3>2. CASE k = Current[p].cap
      BY <1>4, <1>5, <2>1, <2>2, <2>3, <3>2 DEF SuitsSoon, Suits, Loyal, IsOverDatacap
    <3>3. CASE k # Current[p].cap
      BY <1>4, <1>5, <1>6, <1>7, <2>2, <2>3, <3>1, <3>3 DEF SuitsSoon, WillNotice
    <3> QED BY <3>2, <3>3
  <2>4. CASE q # p
    BY <1>5, <2>1, <2>2, <2>4 DEF SuitsSoon, Suits, Loyal
  <2> QED BY <2>3, <2>4
<1>8. Begin(c, "limit", "edit", t, {}, "open")
  BY <1>1 DEF t
<1> QED BY <1>2, <1>7, <1>8, ServedBegin

LEMMA ServedCommand ==
  ASSUME Serial, {"reset", "reset_all"} \cap Commands = {}, TypeOK, Attended, ServedInv,
         NEW c \in Cli, Command(c)
  PROVE  ServedInv'
<1>1. CASE AddPort(c) \/ RemovePort(c) \/ UpdateDatacap(c)
  BY <1>1, ServedAddPort, ServedRemovePort, ServedUpdateDatacap
<1>2. CASE ResetUsage(c) \/ ResetAllUsage(c)
  BY <1>2 DEF ResetUsage, ResetAllUsage, Begin
<1>3. CASE ImportFrom(c)
  <2>1. PICK f \in Inputs :
          Begin(c, "load", "load", LoadTable(f, Current), ReloadRequests(f, Current), "request")
    BY <1>3 DEF ImportFrom
  <2> QED BY <2>1, ServedBegin
<1>4. CASE StartServer(c)
  <2>1. /\ Begin(c, "start", "start", Current, InitRequests(Current), "init")
        /\ \E w \in Password : served' = [FreshServer EXCEPT ![Placeholder] = w]
    BY <1>4 DEF StartServer
  <2>2. \A q \in Port : served'[q] = NotServed
    BY <2>1, PlaceholderAssumption DEF FreshServer, ServerPort
  <2>3. \A q \in Port : \E v : /\ Told(InitRequests(Current), served', q, v)
                               /\ Suits(q, Current, v)
    BY <2>2, CurrentType, ToldInit
  <2> QED BY <2>1, <2>3, ServedBegin
<1>5. CASE StartFoundServer(c)
  <2>1. /\ Begin(c, "start", "start", Current, {}, "spawn") /\ up' = up /\ served' = served
        /\ Quiescent
    BY <1>5 DEF StartFoundServer, serverVars, Begin
  <2>2. up => \A q \in Port : Suits(q, Current, served[q])
    BY <2>1, ServedAtRest
  <2> QED BY <2>1, <2>2, ServedBegin
<1>6. CASE StopDaemon(c)
  <2>1. /\ Quiescent /\ pc' = [pc EXCEPT ![c] = "stopping", ![Daemon] = "dead"]
    BY <1>6 DEF StopDaemon
  <2>2. /\ pc'[c] = "stopping" /\ pc'[Daemon] = "dead"
        /\ \A k \in Cli \ {c} : pc'[k] = pc[k]
    BY <2>1, ProcessPlaces
  <2>3. \A y \in Proc : pc'[y] \in {"idle", "dead", "stopping"}
    BY <2>1, <2>2 DEF Quiescent, Proc
  <2>4. \A y \in Proc : TellsRight(y)'
    BY <2>3, TellsNothing DEF InMethod
  <2>5. ~Resting'
    BY <2>2 DEF Resting
  <2> QED BY <2>4, <2>5 DEF ServedInv
<1> QED BY <1>1, <1>2, <1>3, <1>4, <1>5, <1>6 DEF Command

(***************************************************************************)
(* Nobody is inside of a method after the step.                            *)
(***************************************************************************)
LEMMA ServedAtEase ==
  ASSUME \A c \in Cli : pc'[c] = "idle",
         pc'[Daemon] \notin InMethod \cup {"init", "spawn"},
         up' => \A p \in Port : SuitsSoon(p, Current, served[p])'
  PROVE  ServedInv'
<1>1. \A x \in Proc : pc'[x] \notin InMethod \cup {"init", "spawn"}
  BY DEF Proc, InMethod
<1>2. \A x \in Proc : TellsRight(x)'
  BY <1>1, TellsNothing
<1> QED BY <1>2 DEF ServedInv

\* What was served suits the file as well as before.
LEMMA StillSuits ==
  ASSUME conf' = conf, served' = served, NEW p, Suits(p, Current, served[p])
  PROVE  Suits(p, Current, served[p])' /\ SuitsSoon(p, Current, served[p])'
BY DEF Suits, Loyal, SuitsSoon, Current

(***************************************************************************)
(* A command that has sent everything leaves ssserver with what the file   *)
(* says, or lets the daemon see that a cap has changed.                    *)
(***************************************************************************)
LEMMA CommandSuits ==
  ASSUME ListedInv, ServedInv, up, NEW c \in Cli, out[c] = {} \/ pc[c] = "spawn",
         NEW p \in Port
  PROVE  /\ pc[c] = "refresh" /\ job[c] = "edit" => SuitsSoon(p, Current, served[p])
         /\ pc[c] \in {"init", "spawn"} => Suits(p, Current, served[p])
<1>0. c \in Proc /\ c # Daemon
  BY CliAssumption DEF Proc
<1>1. TellsRight(c)
  BY <1>0 DEF ServedInv
<1>2. ASSUME pc[c] = "refresh", job[c] = "edit" PROVE SuitsSoon(p, Current, served[p])
  <2>1. users[c] = Current
    BY <1>0, <1>2 DEF ListedInv, ServesListed
  <2>2. PICK v : Told(out[c], served, p, v) /\ SuitsSoon(p, users[c], v)
    BY <1>1, <1>2 DEF TellsRight, InMethod
  <2> QED BY <1>2, <2>1, <2>2, AllSent
<1>3. ASSUME pc[c] = "init" PROVE Suits(p, Current, served[p])
  <2>1. PICK v : Told(out[c], served, p, v) /\ Suits(p, Current, v)
    BY <1>1, <1>3 DEF TellsRight
  <2> QED BY <1>3, <2>1, AllSent
<1>4. ASSUME pc[c] = "spawn" PROVE Suits(p, Current, served[p])
  BY <1>1, <1>4 DEF TellsRight
<1> QED BY <1>2, <1>3, <1>4

LEMMA ServedCliStep ==
  ASSUME TypeOK, FileInv, FileInv', CutOffInv, ListedInv, Attended, ServedInv,
         NEW c \in Cli, CliStep(c)
  PROVE  ServedInv'
<1>0. c \in Proc /\ c # Daemon /\ Daemon \in Proc /\ \A k \in Cli : k \in Proc /\ k # Daemon
  BY CliAssumption DEF Proc
<1>1. CASE MethodStep(c)
  BY <1>0, <1>1, ServedMethod
<1>2. CASE ~MethodStep(c)
  <2>1. /\ \A y \in Proc : pc[y] # "write"
        /\ \A k \in Cli : pc[k] \notin {"request", "open"}
        /\ conf' = conf /\ Current' = Current
    BY <1>2, CommandPlaces DEF Current
  <2>2. /\ pc[c] \in {"refresh", "init", "spawn", "stopping"}
        /\ \A k \in Cli \ {c} : pc[k] = "idle"
        /\ pc[Daemon] \in {"dead", "receive"}
        /\ pc[Daemon] = "receive" => constructed
    <3>1. pc[c] \in {"refresh", "init", "spawn", "stopping"}
      BY <1>2 DEF CliStep, InitAfterImport, SpawnDaemon, StopServer, SignalDaemon,
                  ExitQuietly, Finished
    <3> QED BY <3>1, OneCommand
  <2>3. CASE InitAfterImport(c)
    <3>1. /\ UNCHANGED <<users, served, up, constructed>>
          /\ pc[c] = "refresh" /\ pc' = [pc EXCEPT ![c] = "init"]
          /\ out' = [out EXCEPT ![c] = IF up THEN InitRequests(users[c]) ELSE {}]
      BY <2>3 DEF InitAfterImport, daemonVars, serverVars
    <3>2. /\ users[c] = Current /\ pc'[c] = "init"
          /\ up => out'[c] = InitRequests(Current)
          /\ \A y \in Proc \ {c} : pc'[y] = pc[y]
      BY <1>0, <3>1 DEF ListedInv, ServesListed, TypeOK
    <3>3. \A p \in Port : served[p] = NotServed \/ Current[p] # NoUser
      <4>1. \A y \in Proc : ~Editing(y)
        BY <2>1 DEF Editing
      <4>2. OnlyListed /\ Book = Current
        BY <2>1, <4>1, BookOfFile DEF ListedInv
      <4> QED BY <4>2 DEF OnlyListed, Managed
    <3>4. ASSUME up', NEW p \in Port
          PROVE  (\E v : Told(out[c], served, p, v) /\ Suits(p, Current, v))'
      <4>1. PICK v : Told(InitRequests(Current), served, p, v) /\ Suits(p, Current, v)
        BY <3>3, CurrentType, ToldInit
      <4>2. Suits(p, Current, v)'
        BY <2>1, <4>1 DEF Suits, Loyal
      <4> QED BY <3>1, <3>2, <3>4, <4>1, <4>2
    <3>5. up' => TellsRight(c)'
      BY <1>0, <3>2, <3>4 DEF TellsRight, InMethod
    <3>6. \A y \in Proc \ {c} : ~Works(y)'
      BY <1>0, <3>1, <3>2, MethodAlone DEF FileInv
    <3> QED BY <1>0, <3>2, <3>5, <3>6, ServedByOne
  <2>4. CASE SpawnDaemon(c)
    <3>1. /\ UNCHANGED <<served, up>>
          /\ pc[c] = "spawn" \/ (pc[c] = "init" /\ out[c] = {})
          /\ pc' = [pc EXCEPT ![c] = "idle",
                        ![Daemon] = IF pc[Daemon] = "dead" /\ up THEN "boot" ELSE pc[Daemon]]
      BY <1>0, <2>4 DEF SpawnDaemon, TypeOK, serverVars
    <3>2. /\ \A k \in Cli : pc'[k] = "idle"
          /\ pc'[Daemon] \in {"dead", "boot", "receive"}
      BY <2>2, <3>1, ProcessPlaces
    <3>3. up' => \A p \in Port : SuitsSoon(p, Current, served[p])'
      BY <2>1, <3>1, CommandSuits, StillSuits
    <3> QED BY <3>2, <3>3, ServedAtEase DEF InMethod
  <2>5. CASE StopServer(c)
    BY <2>5 DEF StopServer, ServerGone, ServedInv
  <2>6. CASE SignalDaemon(c)
    <3>1. /\ UNCHANGED <<served, up>> /\ Finished(c) /\ job[c] # "quiet"
          /\ \E d : /\ pc' = [pc EXCEPT ![c] = "idle", ![Daemon] = d]
                    /\ d = pc[Daemon] \/ (pc[Daemon] = "receive" /\ d = "load")
          /\ users' = [users EXCEPT ![c] = EmptyTable] /\ constructed' = constructed
      <4>1. pc' = [pc EXCEPT ![c] = "idle"] =>
              pc' = [pc EXCEPT ![c] = "idle", ![Daemon] = pc[Daemon]]
        BY <1>0 DEF TypeOK
      <4> QED BY <2>2, <2>6, <4>1 DEF SignalDaemon, daemonVars, serverVars, Forget
    <3>2. PICK d : /\ pc' = [pc EXCEPT ![c] = "idle", ![Daemon] = d]
                   /\ d = pc[Daemon] \/ (pc[Daemon] = "receive" /\ d = "load")
      BY <3>1
    <3>3. /\ pc'[Daemon] = d /\ \A k \in Cli : pc'[k] = "idle"
          /\ users'[Daemon] = users[Daemon]
      BY <1>0, <2>2, <3>1, <3>2, ProcessPlaces DEF TypeOK
    <3>4. \A p, t : WillNotice(p, t) => WillNotice(p, t)'
      BY <2>2, <3>1, <3>2, <3>3 DEF WillNotice
    <3>5. ASSUME up', NEW p \in Port PROVE SuitsSoon(p, Current, served[p])'
      <4>1. SuitsSoon(p, Current, served[p])
        BY <3>1, <3>5, CommandSuits DEF Finished, SuitsSoon
      <4> QED BY <2>1, <3>1, <3>4, <4>1 DEF SuitsSoon, Suits, Loyal, WillNotice
    <3> QED BY <2>2, <3>2, <3>3, <3>5, ServedAtEase DEF InMethod
  <2>7. ~ExitQuietly(c)
    BY DEF ExitQuietly, Finished, Attended, Does, InMethod
  <2> QED BY <1>2, <2>3, <2>4, <2>5, <2>6, <2>7 DEF CliStep
<1> QED BY <1>1, <1>2

(***************************************************************************)
(* The daemon's loop: after each part of it ssserver serves whom the file  *)
(* lists below the cap, or the next load will see to it.                   *)
(***************************************************************************)
LEMMA ServedDaemonStep ==
  ASSUME Serial, TypeOK, FileInv, FileInv', CutOffInv, Attended, ServedInv, DaemonStep
  PROVE  ServedInv'
<1>0. Daemon \in Proc /\ \A k \in Cli : k \in Proc /\ k # Daemon
  BY CliAssumption DEF Proc
<1>1. CASE MethodStep(Daemon)
  BY <1>0, <1>1, ServedMethod
<1>2. CASE ~MethodStep(Daemon)
  <2>1. /\ \A k \in Cli : pc[k] = "idle" /\ pc'[k] = "idle"
        /\ conf' = conf /\ Current' = Current
    BY <1>2, DaemonPlaces DEF Current
  <2>2. up' = up /\ served' = served
    <3>1. CASE DaemonBoot \/ DaemonArm \/ Receive \/ Construct \/ Load
      BY <3>1 DEF DaemonBoot, DaemonArm, Receive, Construct, Load, serverVars
    <3>2. CASE HandleStat \/ HandleTimeout \/ HandleOther \/ PingIfAsked \/ ClearFlag
      BY <3>2 DEF HandleStat, HandleTimeout, HandleOther, PingIfAsked, ClearFlag, Ping,
                  serverVars
    <3> QED BY <1>2, <3>1, <3>2 DEF DaemonStep
  <2>3. ASSUME up, pc[Daemon] \notin InMethod, NEW p \in Port
        PROVE  SuitsSoon(p, Current, served[p])
    BY <2>1, <2>3 DEF ServedInv, Resting
  <2>4. ASSUME up, NEW p \in Port,
               pc[Daemon] \in {"boot", "arm", "construct", "flag", "clear"}
                 \/ (pc[Daemon] \in {"request", "refresh"} /\ out[Daemon] = {})
        PROVE  Suits(p, Current, served[p])
    <3>1. CASE pc[Daemon] \in {"boot", "arm", "construct", "flag", "clear"}
      BY <2>3, <2>4, <3>1 DEF SuitsSoon, WillNotice, InMethod
    <3>2. CASE pc[Daemon] \in {"request", "refresh"} /\ out[Daemon] = {}
      <4>1. PICK v : Told(out[Daemon], served, p, v) /\ Suits(p, Current, v)
        BY <1>0, <2>4, <3>2 DEF ServedInv, TellsRight
      <4> QED BY <3>2, <4>1, AllSent
    <3> QED BY <2>4, <3>1, <3>2
  <2>5. \A d : pc' = [pc EXCEPT ![Daemon] = d] => pc'[Daemon] = d
    BY <1>0 DEF TypeOK
  <2>6. CASE DaemonBoot \/ DaemonArm \/ Construct \/ HandleTimeout \/ HandleOther
               \/ PingIfAsked \/ ClearFlag
    <3>1. pc'[Daemon] \in {"dead", "arm", "receive", "load", "flag", "clear"}
      BY <2>5, <2>6 DEF DaemonBoot, DaemonArm, Construct, HandleTimeout, HandleOther,
                        PingIfAsked, ClearFlag, DaemonExits
    <3>2. pc[Daemon] \in {"boot", "arm", "construct", "flag", "clear"}
            \/ (pc[Daemon] \in {"request", "refresh"} /\ out[Daemon] = {})
      BY <2>6 DEF DaemonBoot, DaemonArm, Construct, HandleTimeout, HandleOther,
                  PingIfAsked, ClearFlag, Loaded, AtFlag
    <3>3. up' => \A p \in Port : SuitsSoon(p, Current, served[p])'
      BY <2>1, <2>2, <2>4, <3>2, StillSuits
    <3> QED BY <2>1, <3>1, <3>3, ServedAtEase DEF InMethod
  <2>7. CASE Receive
    <3>1. /\ pc[Daemon] = "receive" /\ users' = users /\ constructed' = constructed
          /\ pc'[Daemon] = IF constructed THEN "load" ELSE "construct"
      BY <2>5, <2>7 DEF Receive
    <3>2. \A p, t : WillNotice(p, t) => WillNotice(p, t)'
      BY <3>1 DEF WillNotice
    <3>3. ASSUME up', NEW p \in Port PROVE SuitsSoon(p, Current, served[p])'
      <4>1. SuitsSoon(p, Current, served[p])
        BY <2>2, <2>3, <3>1, <3>3 DEF InMethod
      <4> QED BY <2>1, <2>2, <3>1, <3>2, <4>1 DEF SuitsSoon, Suits, Loyal, WillNotice
    <3> QED BY <2>1, <3>1, <3>3, ServedAtEase DEF InMethod
  <2>8. \A y \in Proc \ {Daemon} : ~Works(y)'
    BY <2>1 DEF Proc, Works
  <2>9. CASE Load
    <3>1. /\ pc[Daemon] = "load" /\ pc'[Daemon] = "request"
          /\ out'[Daemon] = ReloadRequests(conf, users[Daemon])
      BY <1>0, <2>5, <2>9 DEF Load, TypeOK
    <3>2. ASSUME up', NEW p \in Port
          PROVE  (\E v : Told(out[Daemon], served, p, v) /\ Suits(p, Current, v))'
      <4>1. SuitsSoon(p, Current, served[p])
        BY <2>2, <2>3, <3>1, <3>2 DEF InMethod
      <4>2. PICK v : /\ Told(ReloadRequests(conf, users[Daemon]), served, p, v)
                     /\ Suits(p, Current, v)
        BY <3>1, <4>1, ToldReload DEF CutOffInv
      <4>3. Suits(p, Current, v)'
        BY <2>1, <4>2 DEF Suits, Loyal
      <4> QED BY <2>2, <3>1, <4>2, <4>3
    <3>3. up' => TellsRight(Daemon)'
      BY <1>0, <3>1, <3>2, CliAssumption DEF TellsRight, InMethod
    <3> QED BY <1>0, <2>8, <3>1, <3>3, ServedByOne DEF InMethod
  <2>10. CASE HandleStat
    <3>1. /\ pc[Daemon] = "request" /\ out[Daemon] = {} /\ pc'[Daemon] = "open"
          /\ users'[Daemon] = AddData(users[Daemon], msg.delta) /\ msg.kind = "stat"
      BY <1>0, <2>5, <2>10 DEF HandleStat, Loaded, TypeOK
    <3>2. users[Daemon] = Current
      BY <1>0, <3>1 DEF FileInv, InStep
    <3>3. ASSUME up', NEW p \in Port PROVE Suits(p, users[Daemon], served[p])'
      <4>1. Suits(p, users[Daemon], served[p])
        BY <2>2, <2>4, <3>1, <3>2, <3>3
      <4>2. CASE users[Daemon][p] = NoUser
        BY <2>2, <3>1, <4>1, <4>2 DEF AddData, Suits, Loyal
      <4>3. CASE users[Daemon][p] # NoUser
        <5> DEFINE u == users[Daemon][p]
                   n == users'[Daemon][p]
        <5>1. u \in User /\ msg.delta[p] \in Nat
          BY <1>0, <3>1, <4>3 DEF TypeOK, Table, Message
        <5>2. n = [u EXCEPT !.usage = @ + msg.delta[p]]
          BY <3>1, <4>3 DEF AddData
        <5>3. /\ n \in User /\ n.pw = u.pw /\ n.cap = u.cap
              /\ n.usage = u.usage + msg.delta[p]
              /\ u.cap \in Nat /\ u.usage \in Nat
          BY <5>1, <5>2 DEF User
        <5>4. n # NoUser
          BY <5>3, NoUserAssumption
        <5> HIDE DEF n
        <5>5. IsOverDatacap(u) => IsOverDatacap(n)
          BY <4>3, <5>1, <5>3, <5>4 DEF IsOverDatacap
        <5> QED BY <2>2, <4>1, <4>3, <5>3, <5>4, <5>5 DEF Suits, Loyal, n
      <4> QED BY <4>2, <4>3
    <3>4. up' => TellsRight(Daemon)'
      BY <1>0, <3>1, <3>3, CliAssumption DEF TellsRight, InMethod
    <3> QED BY <1>0, <2>8, <3>1, <3>4, ServedByOne DEF InMethod
  <2> QED BY <1>2, <2>6, <2>7, <2>9, <2>10 DEF DaemonStep
<1> QED BY <1>1, <1>2

-----------------------------------------------------------------------------
ServedHolds == ListedHolds /\ CutOffInv /\ Attended /\ ServedInv

LEMMA ServedInit == ASSUME Init PROVE ServedHolds
<1>1. Daemon \in Proc /\ \A c \in Cli : c \in Proc /\ c # Daemon
  BY CliAssumption DEF Proc
<1>2. /\ \A c \in Cli : pc[c] = "idle"
      /\ pc[Daemon] = (IF up THEN "receive" ELSE "dead")
      /\ link = (IF up THEN "live" ELSE "none")
  BY <1>1 DEF Init
<1>3. \A x \in Proc : pc[x] \notin InMethod \cup {"init", "spawn"}
  BY <1>2 DEF Proc, InMethod
<1>4. \A x \in Proc : TellsRight(x)
  BY <1>3 DEF TellsRight, InMethod
<1>5. \A p \in Port : served[p] = NotServed
  BY DEF Init, FreshServer, ServerPort
<1>6. \A p \in Port : Current[p] = NoUser
  BY DEF Init, EmptyFile, Current, LoadTable, IsLastLine
<1>7. ServedInv
  BY <1>4, <1>5, <1>6 DEF ServedInv, SuitsSoon, Suits, Loyal
<1>8. Attended
  BY <1>2, <1>3 DEF Attended, Does, InMethod
<1> QED BY <1>7, <1>8, ListedInit, CutInit DEF ServedHolds

LEMMA ServedNext ==
  ASSUME Serial, Mortal = {}, FilesListAll, {"reset", "reset_all"} \cap Commands = {},
         ServedHolds, [Next]_vars
  PROVE  ServedHolds'
<1>0. /\ ListedHolds /\ TypeOK /\ WritesItsUsers /\ FileInv /\ ListedInv /\ CutOffInv
      /\ Attended /\ ServedInv
  BY DEF ServedHolds, ListedHolds, Holds
<1>1. ListedHolds' /\ FileInv'
  BY <1>0, ListedNext DEF ListedHolds, Holds
<1>2. CutOffInv' /\ Attended'
  BY <1>0, CutNext, AttendedNext
<1>3. ASSUME ServerStep \/ UNCHANGED vars PROVE ServedInv'
  <2>1. UNCHANGED <<conf, pc, users, out, job, served, constructed, up>>
    BY <1>3 DEF ServerStep, SendStat, ServerCrash, Traffic, vars, cliVars, daemonVars,
                serverVars
  <2>2. /\ Current' = Current
        /\ \A p, t, v : SuitsSoon(p, t, v)' <=> SuitsSoon(p, t, v)
    BY <2>1 DEF Current, SuitsSoon, Suits, Loyal, WillNotice
  <2>3. ASSUME NEW x \in Proc, TellsRight(x) PROVE TellsRight(x)'
    <3>1. \A p, v : Told(out[x], served, p, v)' <=> Told(out[x], served, p, v)
      BY <2>1 DEF Told
    <3>2. \A p, v : SuitsSoon(p, users[x], v)' <=> SuitsSoon(p, users[x], v)
      BY <2>1 DEF SuitsSoon, Suits, Loyal, WillNotice
    <3>3. \A p, v : /\ Suits(p, users[x], v)' <=> Suits(p, users[x], v)
                   /\ Suits(p, Current, v)' <=> Suits(p, Current, v)
      BY <2>1, <2>2 DEF Suits, Loyal
    <3>4. ASSUME NEW p, \E v : Told(out[x], served, p, v) /\ SuitsSoon(p, users[x], v)
          PROVE  (\E v : Told(out[x], served, p, v) /\ SuitsSoon(p, users[x], v))'
      <4>1. PICK v : Told(out[x], served, p, v) /\ SuitsSoon(p, users[x], v)
        BY <3>4
      <4> QED BY <3>1, <3>2, <4>1
    <3>5. ASSUME NEW p, \E v : Told(out[x], served, p, v) /\ Suits(p, Current, v)
          PROVE  (\E v : Told(out[x], served, p, v) /\ Suits(p, Current, v))'
      <4>1. PICK v : Told(out[x], served, p, v) /\ Suits(p, Current, v)
        BY <3>5
      <4> QED BY <3>1, <3>3, <4>1
    <3>6. \A p : /\ Suits(p, users[x], served[p])' <=> Suits(p, users[x], served[p])
                /\ Suits(p, Current, served[p])' <=> Suits(p, Current, served[p])
      BY <2>1, <2>2 DEF Suits, Loyal
    <3> QED BY <2>1, <2>3, <3>4, <3>5, <3>6 DEF TellsRight
  <2> QED BY <1>0, <2>1, <2>2, <2>3 DEF ServedInv, Resting
<1>4. ASSUME NEW c \in Cli, Command(c) \/ CliStep(c) PROVE ServedInv'
  BY <1>0, <1>1, <1>4, ServedCommand, ServedCliStep
<1>5. ASSUME DaemonStep PROVE ServedInv'
  BY <1>0, <1>1, <1>5, ServedDaemonStep
<1>6. ~DaemonKilled
  BY DEF DaemonKilled
<1>7. ServedInv'
  BY <1>3, <1>4, <1>5, <1>6 DEF Next
<1> QED BY <1>1, <1>2, <1>7 DEF ServedHolds

(***************************************************************************)
(* At rest, with ssserver and the daemon running, a user below the cap is  *)
(* served with the configured password, also one who was cut off and whose *)
(* cap was raised: the daemon has the old cap in memory and adds the user  *)
(* when it next loads the file (load_conf operation.cpp:138, add_port :288,*)
(* init_ss :159).  For any ports, caps and passwords, one operation after  *)
(* the other, if no process dies, every file that is loaded lists every    *)
(* port, and nobody gives reset or reset_all: those two set the usage back *)
(* and add nobody, so a user who was cut off stays so.                     *)
(***************************************************************************)
THEOREM ServesBelowTheCap ==
  ASSUME Serial, Mortal = {}, FilesListAll, {"reset", "reset_all"} \cap Commands = {}
  PROVE  Spec => []ServedAsConfigured
<1>1. Init => ServedHolds
  BY ServedInit
<1>2. ServedHolds /\ [Next]_vars => ServedHolds'
  BY ServedNext
<1>3. ServedHolds => ServedAsConfigured
  <2> SUFFICES ASSUME ServedInv, Quiescent, up, NEW p \in Managed(Current)
               PROVE  IsOverDatacap(Current[p]) \/ served[p] = Current[p].pw
    BY DEF ServedHolds, ServedAsConfigured
  <2>1. p \in Port /\ Current[p] # NoUser
    BY DEF Managed
  <2>2. Suits(p, Current, served[p])
    BY <2>1, ServedAtRest
  <2> QED BY <2>1, <2>2 DEF Suits, Loyal
<1> QED BY <1>1, <1>2, <1>3, PTL DEF Spec
=============================================================================
